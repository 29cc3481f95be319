---------------------------- MODULE CollaboProofs ----------------------------
(* Theorems about Collabo for any connections, any members, and either     *)
(* behaviour of terminate.                                                 *)
EXTENDS Collabo, TLAPS

-----------------------------------------------------------------------------
(* The operators of Collabo.                                               *)

Tables == [Mcodes -> Roles \cup {NoRole}]
Clients == [Ws -> Records]
Views == [Ws -> SUBSET Mcodes]

(* What a record of clientList holds, joined or new.                       *)
LEMMA RecordFacts ==
  \A r \in Records :
    /\ r.authority \in BOOLEAN /\ r.chief \in BOOLEAN
    /\ r \in MemberRecords <=> r.mcode \in Mcodes
    /\ r \in MemberRecords <=> r.role # NoRole
    /\ r.authority \/ r.chief => r \in MemberRecords
<1> TAKE r \in Records
<1>1. NoRole \notin Roles
  BY DEF Roles, NoRole, ChiefRole, AuthRole, PlainRole
<1>2. CASE r \in MemberRecords
  BY <1>1, <1>2 DEF MemberRecords
<1>3. CASE r = NewClient /\ r \notin MemberRecords
  <2>1. /\ r.mcode = NoMcode /\ r.role = NoRole
        /\ r.authority = FALSE /\ r.chief = FALSE
    BY <1>3 DEF NewClient
  <2> QED
    BY <1>3, <2>1, SessionAssumption
<1> QED
  BY <1>2, <1>3 DEF Records

(* An UPDATE of a role changes that row only, and only if it exists.       *)
LEMMA SetRoleType ==
  ASSUME NEW table \in Tables, NEW m, NEW r \in Roles
  PROVE  /\ SetRole(table, m, r) \in Tables
         /\ \A n \in Mcodes :
              SetRole(table, m, r)[n] =
                IF n = m /\ table[m] # NoRole THEN r ELSE table[n]
BY DEF SetRole, Tables

(* changeAuth writes role 1 for an authority and role 2 for none.          *)
LEMMA ToggledRoleType ==
  ASSUME NEW auth \in BOOLEAN
  PROVE  /\ ToggledRole(auth) \in Roles
         /\ ToggledRole(auth) \notin {ChiefRole, NoRole}
         /\ auth => ToggledRole(auth) = AuthRole
<1>1. CASE auth
  BY <1>1 DEF ToggledRole, Roles, NoRole, ChiefRole, AuthRole
<1>2. CASE ~auth
  BY <1>2 DEF ToggledRole, Roles, NoRole, ChiefRole, PlainRole
<1> QED
  BY <1>1, <1>2

(* isSuited makes a record whose flags follow the role in the table.       *)
LEMMA MemberType ==
  ASSUME db \in Tables, NEW m \in Mcodes, db[m] # NoRole
  PROVE  /\ Member(m) \in MemberRecords
         /\ Member(m).mcode = m /\ Member(m).role = db[m]
         /\ Member(m).authority <=> db[m] \in {ChiefRole, AuthRole}
         /\ Member(m).chief <=> db[m] = ChiefRole
<1>1. db[m] \in Roles
  BY DEF Tables
<1>2. (db[m] \in {ChiefRole, AuthRole}) \in BOOLEAN /\ (db[m] = ChiefRole) \in BOOLEAN
  OBVIOUS
<1>3. Member(m) \in MemberRecords
  BY <1>1, <1>2 DEF Member, MemberRecords
<1>4. Member(m).mcode = m /\ Member(m).role = db[m]
  BY DEF Member
<1>5. Member(m).authority = (db[m] \in {ChiefRole, AuthRole})
  BY DEF Member
<1>6. Member(m).chief = (db[m] = ChiefRole)
  BY DEF Member
<1> QED
  BY <1>3, <1>4, <1>5, <1>6

(* A hand-over changes the flags of source and destination only.           *)
LEMMA HandOverType ==
  ASSUME client \in Clients, NEW w \in Ws, NEW d \in Ws,
         client[w] \in MemberRecords, client[d] \in MemberRecords
  PROVE  /\ HandOver(w, d) \in Clients
         /\ \A x \in Ws :
              /\ HandOver(w, d)[x].mcode = client[x].mcode
              /\ HandOver(w, d)[x].role = client[x].role
              /\ HandOver(w, d)[x].authority <=> (x = d \/ client[x].authority)
              /\ HandOver(w, d)[x].chief <=> (x = d \/ (x # w /\ client[x].chief))
              /\ x \notin {w, d} => HandOver(w, d)[x] = client[x]
BY DEF HandOver, Clients, Records, MemberRecords

(* AUTHORITY changes the authority of one record only.                     *)
LEMMA ToggleType ==
  ASSUME client \in Clients, NEW d \in Ws, NEW new, client[d] \in MemberRecords,
         new = [client EXCEPT ![d].authority = ~client[d].authority]
  PROVE  /\ new \in Clients
         /\ \A x \in Ws : /\ new[x].mcode = client[x].mcode
                          /\ new[x].role = client[x].role
                          /\ new[x].chief = client[x].chief
         /\ new[d].authority = ~client[d].authority
         /\ \A x \in Ws : x # d => new[x] = client[x]
BY DEF Clients, Records, MemberRecords

(* The end of the process leaves a typed, empty session.                   *)
LEMMA DieType == Die => /\ hub' \in {"run", "hung", "dead"}
                        /\ conn' = {} /\ closing' = {} /\ clientList' = {}
                        /\ client' \in Clients /\ \A w \in Ws : client'[w] = NewClient
                        /\ mode' \in {0, 1} /\ encoding' \in BOOLEAN /\ compressing' \in BOOLEAN
                        /\ told' \in Views
BY DEF Die, Clients, Views, Records

-----------------------------------------------------------------------------
(* Types.                                                                  *)

(* A fresh process is of the right types.                                  *)
LEMMA InitType == Init => TypeOK
BY DEF Init, TypeOK, Records

(* No handler breaks the types.                                            *)
LEMMA StepType == TypeOK /\ [Next]_vars => TypeOK'
<1> SUFFICES ASSUME TypeOK, [Next]_vars PROVE TypeOK'
  OBVIOUS
<1> USE DEF TypeOK, Tables, Clients, Views, streamVars
<1>a. NewClient \in Records /\ MemberRecords \subseteq Records
  BY DEF Records
<1>0. ASSUME Die, db' \in Tables, lost' \in BOOLEAN PROVE TypeOK'
  BY <1>0, DieType
<1>1. ASSUME NEW w \in Ws, OnOpen(w) PROVE TypeOK'
  BY <1>1 DEF OnOpen, StartStreaming
<1>2. ASSUME NEW w \in Ws, OnClose(w) PROVE TypeOK'
  <2>1. CASE Die
    BY <1>0, <1>2, <2>1 DEF OnClose
  <2>2. CASE ~Die
    <3>1. /\ w \in clientList /\ clientList' = clientList \ {w}
          /\ conn' = conn \ {w} /\ closing' = closing \ {w}
          /\ client' = [client EXCEPT ![w] = NewClient] /\ told' = [told EXCEPT ![w] = {}]
          /\ StopStreaming \/ UNCHANGED streamVars
          /\ UNCHANGED <<hub, db, lost>>
      BY <1>2, <2>2 DEF OnClose
    <3>2. client' \in Clients /\ \A x \in Ws \ clientList' : client'[x] = NewClient
      BY <3>1, <1>a
    <3>3. mode' \in {0, 1} /\ encoding' \in BOOLEAN /\ compressing' \in BOOLEAN
      BY <3>1 DEF StopStreaming
    <3>4. told' \in Views
      BY <3>1
    <3> QED
      BY <3>1, <3>2, <3>3, <3>4
  <2> QED
    BY <2>1, <2>2
<1>3. ASSUME NEW w \in Ws, StrayMessage(w) PROVE TypeOK'
  BY <1>0, <1>3 DEF StrayMessage
<1>4. ASSUME NEW w \in Ws, NEW m \in Mcodes, Authority(w, m) PROVE TypeOK'
  <2>2. ASSUME NEW d \in Find(m),
               client' = [client EXCEPT ![d].authority = ~client[d].authority],
               db' = SetRole(db, m, ToggledRole(~client[d].authority)) \/ db' = db,
               lost' \in BOOLEAN, d \in clientList,
               UNCHANGED <<hub, conn, closing, clientList, streamVars, told>>
        PROVE  TypeOK'
    <3>0. client[d] \in MemberRecords
      BY <2>2, RecordFacts DEF Find
    <3>1. client' \in Clients /\ \A x \in Ws \ clientList : client'[x] = client[x]
      BY <2>2, <3>0, ToggleType
    <3>2. ToggledRole(~client[d].authority) \in Roles
      BY <3>0, ToggledRoleType, RecordFacts DEF Records
    <3>3. db' \in Tables
      BY <2>2, <3>2, SetRoleType
    <3> QED
      BY <2>2, <3>1, <3>3
  <2> QED
    BY <1>0, <1>4, <2>2 DEF Authority, Find
<1>5. ASSUME NEW w \in Ws, NEW m \in Mcodes, Chief(w, m) PROVE TypeOK'
  <2>1. /\ SetRole(db, client[w].mcode, AuthRole) \in Tables
        /\ ChiefRows(client[w].mcode, m) \in Tables
    BY SetRoleType DEF ChiefRows, Roles
  <2>2. db' \in Tables /\ lost' \in BOOLEAN
    BY <1>5, <2>1 DEF Chief, ChangeChief
  <2>3. CASE Die
    BY <1>0, <2>2, <2>3
  <2>4. ASSUME NEW d \in Find(m), client' = HandOver(w, d),
               told' = ChiefProcess(client[w].mcode, m),
               UNCHANGED <<hub, conn, closing, clientList, streamVars>>
        PROVE  TypeOK'
    <3>1. d \in clientList /\ w \in clientList /\ d \in Ws
      BY <1>5, <2>4 DEF Find, Chief, Receives
    <3>a. client[w] \in MemberRecords /\ client[d] \in MemberRecords
      BY <1>5, <2>4, <3>1, RecordFacts DEF Chief, Find
    <3>2. client' \in Clients /\ \A x \in Ws \ clientList : client'[x] = client[x]
      BY <2>4, <3>1, <3>a, HandOverType
    <3>3. told' \in Views
      BY <2>4 DEF ChiefProcess
    <3> QED
      BY <2>2, <2>4, <3>1, <3>2, <3>3
  <2> QED
    BY <1>5, <2>3, <2>4 DEF Chief
<1>6. ASSUME NEW w \in Ws, NEW m \in Mcodes, NEW list \in SUBSET Ws, client' \in Clients
      PROVE  Told(w, m, list) \in Views
  <2>1. \A y \in Settled(list) : client'[y].mcode \in Mcodes
    BY <1>6, RecordFacts DEF Settled
  <2>2. \A x \in Ws : Announced(x, m) \in SUBSET Mcodes
    BY DEF Announced
  <2> QED
    BY <2>1, <2>2 DEF Told
<1>7. ASSUME NEW w \in Ws, NEW m \in Mcodes, Setting(w, m) PROVE TypeOK'
  <2>1. Member(m) \in Records
    BY <1>7, <1>a, MemberType DEF Setting, Join, JoinTaken
  <2>2. ASSUME Join(w, m) PROVE TypeOK'
    <3>1. client' \in Clients /\ \A x \in Ws \ clientList : client'[x] = client[x]
      BY <2>1, <2>2 DEF Join, Receives
    <3> QED
      BY <1>6, <2>2, <3>1 DEF Join
  <2>3. ASSUME JoinTaken(w, m), hub' = "hung" PROVE TypeOK'
    BY <2>3 DEF JoinTaken, Terminate, Receives
  <2>4. ASSUME JoinTaken(w, m), hub' # "hung" PROVE TypeOK'
    <3>1. PICK x \in Find(m) :
            /\ Terminate(x)
            /\ clientList' = IF x = w THEN clientList ELSE clientList \ {w}
            /\ client' = [client EXCEPT ![w] = IF x = w THEN Member(m) ELSE NewClient]
            /\ told' = Told(w, m, clientList')
      BY <2>4 DEF JoinTaken
    <3>2. x \in clientList /\ w \in clientList
      BY <2>4 DEF Find, JoinTaken, Receives
    <3>3. client' \in Clients /\ \A y \in Ws \ clientList' : client'[y] = NewClient
      <4>1. client' \in Clients
        BY <1>a, <2>1, <3>1
      <4>2. /\ clientList \subseteq Ws /\ client \in Clients
            /\ \A y \in Ws \ clientList : client[y] = NewClient
        OBVIOUS
      <4> QED
        BY <3>1, <3>2, <4>1, <4>2
    <3>4. clientList' \in SUBSET Ws
      BY <3>1
    <3>5. told' \in Views
      BY <1>6, <3>1, <3>3, <3>4
    <3>6. /\ hub' \in {"run", "hung", "dead"} /\ closing' \subseteq conn
          /\ UNCHANGED <<conn, mode, encoding, compressing, db, lost>>
      <4>1. UNCHANGED <<conn, db, lost, streamVars>> /\ closing \subseteq conn
            /\ clientList \subseteq conn /\ hub \in {"run", "hung", "dead"}
        BY <2>4 DEF JoinTaken
      <4> QED
        BY ONLY <3>1, <3>2, <4>1 DEF Terminate, streamVars
    <3>7. clientList' \subseteq clientList
      BY ONLY <3>1
    <3> QED
      BY ONLY <3>3, <3>5, <3>6, <3>7, TypeOK DEF TypeOK, Clients, Views
  <2> QED
    BY <1>7, <2>2, <2>3, <2>4, SessionAssumption DEF Setting
<1>8. ASSUME NEW w \in Ws, Reject(w) PROVE TypeOK'
  BY <1>8 DEF Reject, Terminate, Receives
<1>9. ASSUME NEW w \in Ws, NEW v \in {0, 1}, Mode(w, v) PROVE TypeOK'
  BY <1>9 DEF Mode, ChangeMode
<1>10. CASE Crash
  BY <1>0, <1>10 DEF Crash
<1>11. CASE Restart
  BY <1>11 DEF Restart
<1>12. CASE UNCHANGED vars
  BY <1>12 DEF vars
<1> QED
  BY <1>1, <1>2, <1>3, <1>4, <1>5, <1>6, <1>7, <1>8, <1>9, <1>10, <1>11, <1>12
  DEF Next, Setting

(* Types, and: only open connections are in the list, and a connection     *)
(* that is not has no record left behind.                                  *)
THEOREM TypeCorrect == Spec => []TypeOK
BY InitType, StepType, PTL DEF Spec

-----------------------------------------------------------------------------
(* The stream.                                                             *)

(* No handler lets the stream and clientList drift apart.                  *)
LEMMA StepStream ==
  TypeOK /\ StreamFollowsClients /\ [Next]_vars => StreamFollowsClients'
<1> SUFFICES ASSUME TypeOK, StreamFollowsClients, [Next]_vars
             PROVE  StreamFollowsClients'
  OBVIOUS
<1> USE DEF TypeOK, StreamFollowsClients, streamVars, Receives
<1>1. ASSUME NEW w \in Ws, OnOpen(w) PROVE StreamFollowsClients'
  BY <1>1 DEF OnOpen, StartStreaming
<1>2. ASSUME Die PROVE StreamFollowsClients'
  BY <1>2 DEF Die
<1>3. ASSUME NEW w \in Ws, OnClose(w) PROVE StreamFollowsClients'
  BY <1>2, <1>3 DEF OnClose, StopStreaming
<1>4. ASSUME NEW w \in Ws, NEW v \in {0, 1}, Mode(w, v) PROVE StreamFollowsClients'
  BY <1>4 DEF Mode, ChangeMode
<1>5. ASSUME NEW w \in Ws, NEW m \in Mcodes, Authority(w, m) \/ Chief(w, m)
      PROVE  StreamFollowsClients'
  BY <1>2, <1>5 DEF Authority, Chief
<1>6. ASSUME NEW w \in Ws, NEW m \in Mcodes, Setting(w, m) PROVE StreamFollowsClients'
  <2>1. CASE clientList' = clientList
    BY <1>6, <2>1 DEF Setting, Join, JoinTaken
  <2>2. CASE clientList' # clientList
    <3>1. PICK x \in Find(m) : x # w /\ clientList' = clientList \ {w}
      BY <1>6, <2>2 DEF Setting, Join, JoinTaken
    <3>2. clientList # {} /\ clientList' # {}
      BY <3>1 DEF Find
    <3> QED
      BY <1>6, <3>2 DEF Setting, Join, JoinTaken
  <2> QED
    BY <2>1, <2>2
<1>7. ASSUME NEW w \in Ws, Reject(w) PROVE StreamFollowsClients'
  BY <1>7 DEF Reject
<1>8. CASE Restart
  BY <1>8 DEF Restart
<1>9. CASE UNCHANGED vars
  BY <1>9 DEF vars
<1> QED
  BY <1>1, <1>2, <1>3, <1>4, <1>5, <1>6, <1>7, <1>8, <1>9 DEF Next, StrayMessage, Crash

(* The stream runs exactly while someone is in the list, and the           *)
(* compressor exactly while it runs in image mode.                         *)
THEOREM StreamCorrect == Spec => []StreamFollowsClients
<1>1. Init => StreamFollowsClients
  BY DEF Init, StreamFollowsClients
<1> QED
  BY <1>1, StepStream, TypeCorrect, PTL DEF Spec

-----------------------------------------------------------------------------
(* The roles.                                                              *)

UniqueIndex == \A w, x \in clientList : client[w].mcode = client[x].mcode => w = x

MembersHaveRows ==
  \A w \in clientList : client[w].mcode \in Mcodes => db[client[w].mcode] # NoRole

(* Why there is one chief: the chief in the list is the chief of the table *)
(* or, when it took its own authority, the table has none; so nobody can   *)
(* join as a second one.                                                   *)
ChiefBacked ==
  \A w \in clientList :
    client[w].chief => db[client[w].mcode] = ChiefRole \/ ~SomeChiefRow

RoleInv ==
  /\ TypeOK
  /\ UniqueIndex
  /\ MembersHaveRows
  /\ AtMostOneChief
  /\ ~lost => ChiefBacked
  /\ AuthorityBacked

(* The end of the process keeps the table, so the roles stay consistent.   *)
LEMMA DieKeepsRoles ==
  ASSUME RoleInv, Die, TypeOK', UNCHANGED <<db, lost>> PROVE RoleInv'
BY DieType DEF RoleInv, UniqueIndex, MembersHaveRows, AtMostOneChief, ChiefBacked,
               AuthorityBacked, OneChiefRow, SomeChiefRow

(* A new Client has no role, no authority and an unused mcode.             *)
LEMMA OpenKeepsRoles ==
  ASSUME RoleInv, TypeOK', NEW w \in Ws, OnOpen(w) PROVE RoleInv'
<1>1. /\ client[w].mcode = NoMcode /\ client[w].chief = FALSE
      /\ client[w].authority = FALSE
  BY DEF OnOpen, RoleInv, TypeOK, NewClient
<1>2. /\ clientList' = clientList \/ (clientList' = clientList \cup {w} /\ Find(NoMcode) = {})
      /\ client' = client /\ db' = db /\ lost' = lost
  BY DEF OnOpen
<1> QED
  BY <1>1, <1>2, SessionAssumption
  DEF RoleInv, UniqueIndex, MembersHaveRows, AtMostOneChief, ChiefBacked, AuthorityBacked,
      OneChiefRow, SomeChiefRow, Find

(* A departure takes a record away and changes no role.                    *)
LEMMA CloseKeepsRoles ==
  ASSUME RoleInv, TypeOK', NEW w \in Ws, OnClose(w) PROVE RoleInv'
<1>1. CASE Die
  BY <1>1, DieKeepsRoles DEF OnClose
<1>2. CASE ~Die
  BY <1>2 DEF RoleInv, TypeOK, UniqueIndex, MembersHaveRows, AtMostOneChief, ChiefBacked,
       AuthorityBacked, OneChiefRow, SomeChiefRow, OnClose
<1> QED
  BY <1>1, <1>2

(* AUTHORITY keeps one chief, and table and list agree unless it is lost.  *)
LEMMA AuthorityKeepsRoles ==
  ASSUME RoleInv, TypeOK', NEW w \in Ws, NEW m \in Mcodes, Authority(w, m)
  PROVE  RoleInv'
<1>1. CASE Die /\ UNCHANGED <<db, lost>>
  BY <1>1, DieKeepsRoles
<1>2. ASSUME NEW d \in Find(m),
             client' = [client EXCEPT ![d].authority = ~client[d].authority],
             \/ db' = SetRole(db, m, ToggledRole(~client[d].authority)) /\ lost' = lost
             \/ db' = db /\ lost' = TRUE,
             UNCHANGED <<hub, conn, closing, clientList, streamVars, told>>
      PROVE  RoleInv'
  <2>1. d \in clientList /\ d \in Ws /\ client[d].mcode = m /\ clientList \subseteq Ws
    BY <1>2 DEF Find, RoleInv, TypeOK
  <2>2. client[d] \in MemberRecords /\ client[d].authority \in BOOLEAN
    BY <2>1, RecordFacts DEF RoleInv, TypeOK
  <2>3. /\ \A x \in Ws : client'[x].mcode = client[x].mcode /\ client'[x].chief = client[x].chief
        /\ client'[d].authority = ~client[d].authority
        /\ \A x \in Ws : x # d => client'[x] = client[x]
    BY <1>2, <2>1, <2>2, ToggleType DEF RoleInv, TypeOK, Clients
  <2>4. CASE db' = db /\ lost' = TRUE
    BY <1>2, <2>1, <2>3, <2>4 DEF RoleInv, UniqueIndex, MembersHaveRows, AtMostOneChief,
       AuthorityBacked
  <2>5. CASE db' = SetRole(db, m, ToggledRole(~client[d].authority)) /\ lost' = lost
    <3> DEFINE r == ToggledRole(~client[d].authority)
    <3>1. /\ r \in Roles /\ r \notin {ChiefRole, NoRole}
          /\ client'[d].authority => r = AuthRole
      BY <2>2, <2>3, ToggledRoleType
    <3>2. \A n \in Mcodes : db'[n] = IF n = m /\ db[n] # NoRole THEN r ELSE db[n]
      BY <2>5, <3>1, SetRoleType DEF RoleInv, TypeOK, Tables
    <3> HIDE DEF r
    <3>3. db[m] # NoRole /\ db'[m] = r
      BY <2>1, <3>2 DEF RoleInv, MembersHaveRows
    <3>4. UniqueIndex' /\ MembersHaveRows'
      BY <1>2, <2>1, <2>3, <3>1, <3>2 DEF RoleInv, UniqueIndex, MembersHaveRows
    <3>5. ASSUME ~lost PROVE OneChiefRow' /\ ChiefBacked'
      <4>1. OneChiefRow /\ ChiefBacked
        BY <3>5 DEF RoleInv, AtMostOneChief
      <4>2. OneChiefRow'
        BY <4>1, <3>1, <3>2 DEF OneChiefRow
      <4>3. ASSUME NEW x \in clientList, client[x].chief, SomeChiefRow'
            PROVE  db'[client[x].mcode] = ChiefRole
        <5>1. client[x].mcode \in Mcodes
          BY <2>1, <4>3, RecordFacts DEF RoleInv, TypeOK
        <5>2. PICK n \in Mcodes : db'[n] = ChiefRole
          BY <4>3 DEF SomeChiefRow
        <5>3. n # m /\ db[n] = ChiefRole
          BY <3>1, <3>2, <3>3, <5>2
        <5>4. db[client[x].mcode] = ChiefRole
          BY <4>1, <4>3, <5>3 DEF ChiefBacked, SomeChiefRow
        <5>5. client[x].mcode = n
          BY <4>1, <5>1, <5>3, <5>4 DEF OneChiefRow
        <5> QED
          BY <5>2, <5>5
      <4> QED
        BY <1>2, <2>1, <2>3, <4>2, <4>3 DEF ChiefBacked
    <3>6. AtMostOneChief'
      BY <1>2, <2>1, <2>3, <2>5, <3>5 DEF RoleInv, AtMostOneChief
    <3>7. AuthorityBacked'
      <4> SUFFICES ASSUME ~lost, NEW x \in clientList, client'[x].authority
                   PROVE  db'[client'[x].mcode] \in {ChiefRole, AuthRole}
        BY <1>2, <2>5 DEF AuthorityBacked
      <4>1. CASE x = d
        BY <2>1, <2>3, <3>1, <3>3, <4>1
      <4>2. CASE x # d
        <5>1. client'[x] = client[x] /\ client[x].mcode \in Mcodes /\ client[x].mcode # m
          BY <2>1, <2>3, <4>2, RecordFacts DEF RoleInv, TypeOK, UniqueIndex
        <5> QED
          BY <3>2, <5>1 DEF RoleInv, AuthorityBacked
      <4> QED
        BY <4>1, <4>2
    <3> QED
      BY <2>5, <3>4, <3>5, <3>6, <3>7 DEF RoleInv
  <2> QED
    BY <1>2, <2>4, <2>5
<1> QED
  BY <1>1, <1>2 DEF Authority

(* CHIEF keeps one chief, and table and list agree unless it is lost.      *)
LEMMA ChiefKeepsRoles ==
  ASSUME RoleInv, TypeOK', NEW w \in Ws, NEW m \in Mcodes, Chief(w, m)
  PROVE  RoleInv'
<1> DEFINE src == client[w].mcode
<1>1. /\ w \in clientList /\ client[w].chief /\ clientList \subseteq Ws
      /\ client[w] \in MemberRecords /\ src \in Mcodes /\ db[src] # NoRole
  BY RecordFacts DEF Chief, Receives, RoleInv, TypeOK, MembersHaveRows
<1>2. db \in Tables /\ AuthRole \in Roles /\ ChiefRole \in Roles
        /\ AuthRole # ChiefRole /\ AuthRole # NoRole /\ ChiefRole # NoRole
  BY DEF RoleInv, TypeOK, Tables, Roles, AuthRole, ChiefRole, NoRole
<1> HIDE DEF src
<1>3. \A n \in Mcodes :
        SetRole(db, src, AuthRole)[n] = IF n = src THEN AuthRole ELSE db[n]
  BY <1>1, <1>2, SetRoleType
<1>4. \A n \in Mcodes :
        ChiefRows(src, m)[n] = IF n = m /\ db[m] # NoRole THEN ChiefRole
                               ELSE IF n = src THEN AuthRole ELSE db[n]
  <2>1. SetRole(db, src, AuthRole) \in Tables
    BY <1>2, SetRoleType
  <2>2. \A n \in Mcodes :
          ChiefRows(src, m)[n] =
            IF n = m /\ SetRole(db, src, AuthRole)[n] # NoRole THEN ChiefRole
            ELSE SetRole(db, src, AuthRole)[n]
    BY <1>2, <2>1, SetRoleType DEF ChiefRows
  <2> QED
    BY <1>1, <1>2, <1>3, <2>2
(* The chief's own row is the only one that can hold the chief's role.     *)
<1>5. ASSUME ~lost, NEW n \in Mcodes, db[n] = ChiefRole PROVE n = src
  BY <1>1, <1>5 DEF RoleInv, AtMostOneChief, ChiefBacked, OneChiefRow, SomeChiefRow, src
<1>6. ASSUME db' = ChiefRows(src, m), ~lost PROVE OneChiefRow'
  BY <1>2, <1>4, <1>5, <1>6 DEF OneChiefRow
<1>7. ASSUME Die, lost' = TRUE \/ UNCHANGED <<db, lost>> \/ (db' = ChiefRows(src, m) /\ lost' = lost)
      PROVE  RoleInv'
  <2>1. clientList' = {}
    BY <1>7, DieType
  <2> QED
    BY <1>6, <1>7, <2>1 DEF RoleInv, UniqueIndex, MembersHaveRows, AtMostOneChief, ChiefBacked,
       AuthorityBacked, OneChiefRow
<1>8. ASSUME NEW d \in Find(m), client' = HandOver(w, d), ChangeChief(src, m),
             UNCHANGED <<hub, conn, closing, clientList, streamVars>>
      PROVE  RoleInv'
  <2>1. d \in clientList /\ d \in Ws /\ client[d].mcode = m
          /\ client[d] \in MemberRecords /\ db[m] # NoRole
    BY <1>1, <1>8, RecordFacts DEF Find, RoleInv, TypeOK, MembersHaveRows
  <2>2. \A x \in clientList :
          /\ client'[x].mcode = client[x].mcode
          /\ client'[x].authority <=> (x = d \/ client[x].authority)
          /\ client'[x].chief <=> (x = d \/ (x # w /\ client[x].chief))
    BY <1>1, <1>8, <2>1, HandOverType DEF RoleInv, TypeOK, Clients
  <2>3. \A n \in Mcodes : db[n] # NoRole => db'[n] # NoRole
    BY <1>2, <1>3, <1>4, <1>8 DEF ChangeChief
  <2>4. UniqueIndex' /\ MembersHaveRows'
    BY <1>8, <2>2, <2>3 DEF RoleInv, UniqueIndex, MembersHaveRows
  <2>5. CASE lost'
    BY <2>4, <2>5 DEF RoleInv, AtMostOneChief, AuthorityBacked
  <2>6. CASE ~lost'
    <3>1. db' = ChiefRows(src, m) /\ ~lost
      BY <1>8, <2>6, <1>1 DEF ChangeChief
    <3>2. \A x \in clientList : client'[x].chief => x = d
      BY <1>1, <2>2, <3>1 DEF RoleInv, AtMostOneChief
    <3>3. AtMostOneChief'
      BY <1>6, <1>8, <3>1, <3>2 DEF AtMostOneChief
    <3>4. db'[m] = ChiefRole
      BY <1>4, <2>1, <3>1
    <3>5. ChiefBacked'
      BY <1>8, <2>1, <2>2, <3>2, <3>4 DEF ChiefBacked
    <3>6. ASSUME NEW x \in clientList, client'[x].authority
          PROVE  db'[client'[x].mcode] \in {ChiefRole, AuthRole}
      <4>1. client'[x].mcode = client[x].mcode
        BY <2>2
      <4>2. CASE x = d
        BY <2>1, <3>4, <4>1, <4>2
      <4>3. CASE x # d
        <5>1. client[x].authority /\ client[x].mcode \in Mcodes
                /\ db[client[x].mcode] \in {ChiefRole, AuthRole}
          BY <1>1, <2>2, <3>1, <3>6, <4>3, RecordFacts DEF RoleInv, TypeOK, AuthorityBacked
        <5> QED
          BY <1>4, <3>1, <4>1, <5>1
      <4> QED
        BY <4>2, <4>3
    <3>7. AuthorityBacked'
      BY <1>8, <3>6 DEF AuthorityBacked
    <3> QED
      BY <2>4, <3>3, <3>5, <3>7 DEF RoleInv
  <2> QED
    BY <2>5, <2>6
<1> QED
  BY <1>7, <1>8 DEF Chief, ChangeChief, src

(* A member that joins takes the role the table gives it.                  *)
LEMMA SettingKeepsRoles ==
  ASSUME RoleInv, TypeOK', NEW w \in Ws, NEW m \in Mcodes, Setting(w, m)
  PROVE  RoleInv'
<1>1. /\ w \in clientList /\ clientList \subseteq Ws /\ db[m] # NoRole
      /\ db' = db /\ lost' = lost /\ db \in Tables
  BY DEF Setting, Join, JoinTaken, Receives, RoleInv, TypeOK, Tables
<1>2. \/ clientList' = clientList /\ client' = client
      \/ /\ clientList' = clientList
         /\ client' = [client EXCEPT ![w] = Member(m)]
         /\ \A x \in clientList : client[x].mcode = m => x = w
      \/ clientList' = clientList \ {w} /\ client' = [client EXCEPT ![w] = NewClient]
  <2>1. CASE Join(w, m)
    BY <2>1 DEF Join, Find
  <2>2. CASE JoinTaken(w, m)
    BY <2>2, <1>1 DEF JoinTaken, Find, RoleInv, UniqueIndex
  <2> QED
    BY <2>1, <2>2 DEF Setting
<1>3. CASE clientList' = clientList /\ client' = client
  BY <1>1, <1>3 DEF RoleInv, UniqueIndex, MembersHaveRows, AtMostOneChief, ChiefBacked,
     AuthorityBacked, OneChiefRow, SomeChiefRow
<1>4. CASE /\ clientList' = clientList
           /\ client' = [client EXCEPT ![w] = Member(m)]
           /\ \A x \in clientList : client[x].mcode = m => x = w
  <2>1. /\ client'[w] = Member(m)
        /\ \A x \in clientList : x # w => client'[x] = client[x] /\ client[x].mcode # m
    BY <1>1, <1>4 DEF RoleInv, TypeOK
  <2>2. UniqueIndex' /\ MembersHaveRows' /\ AuthorityBacked'
    BY <1>1, <1>4, <2>1, MemberType DEF RoleInv, UniqueIndex, MembersHaveRows, AuthorityBacked
  <2>3. ASSUME ~lost, NEW x \in clientList, x # w, client[x].chief PROVE db[m] # ChiefRole
    <3>1. client[x].mcode \in Mcodes /\ client[x].mcode # m
      BY <1>1, <2>1, <2>3, RecordFacts DEF RoleInv, TypeOK
    <3> QED
      BY <2>3, <3>1 DEF RoleInv, AtMostOneChief, ChiefBacked, OneChiefRow, SomeChiefRow
  <2>4. AtMostOneChief'
    BY <1>1, <1>4, <2>1, <2>3, MemberType DEF RoleInv, AtMostOneChief, OneChiefRow
  <2>5. ASSUME ~lost PROVE ChiefBacked'
    BY <1>1, <1>4, <2>1, <2>5, MemberType DEF RoleInv, ChiefBacked, SomeChiefRow
  <2> QED
    BY <1>1, <2>2, <2>4, <2>5 DEF RoleInv
<1>5. CASE clientList' = clientList \ {w} /\ client' = [client EXCEPT ![w] = NewClient]
  <2>1. \A x \in clientList' : x \in clientList /\ client'[x] = client[x]
    BY <1>1, <1>5 DEF RoleInv, TypeOK
  <2> QED
    BY <1>1, <2>1 DEF RoleInv, UniqueIndex, MembersHaveRows, AtMostOneChief, ChiefBacked,
       AuthorityBacked, OneChiefRow, SomeChiefRow
<1> QED
  BY <1>2, <1>3, <1>4, <1>5

(* The invariant of the roles is inductive.                                *)
LEMMA StepRoles == RoleInv /\ [Next]_vars => RoleInv'
<1> SUFFICES ASSUME RoleInv, [Next]_vars PROVE RoleInv'
  OBVIOUS
<1>0. TypeOK'
  BY StepType DEF RoleInv
<1>1. ASSUME NEW w \in Ws, StrayMessage(w) PROVE RoleInv'
  BY <1>0, <1>1, DieKeepsRoles DEF StrayMessage
<1>2. CASE Crash
  BY <1>0, <1>2, DieKeepsRoles DEF Crash
<1>3. ASSUME UNCHANGED <<clientList, client, db, lost>> PROVE RoleInv'
  BY <1>0, <1>3 DEF RoleInv, UniqueIndex, MembersHaveRows, AtMostOneChief, ChiefBacked,
     AuthorityBacked, OneChiefRow, SomeChiefRow
<1>4. ASSUME NEW w \in Ws, NEW v \in {0, 1}, Reject(w) \/ Mode(w, v) PROVE RoleInv'
  BY <1>3, <1>4 DEF Reject, Mode
<1>5. CASE Restart \/ UNCHANGED vars
  BY <1>3, <1>5 DEF Restart, vars
<1> QED
  BY <1>0, <1>1, <1>2, <1>4, <1>5, OpenKeepsRoles, CloseKeepsRoles, AuthorityKeepsRoles,
     ChiefKeepsRoles, SettingKeepsRoles DEF Next

(* In every reachable state mcodes are unique in clientList, every member  *)
(* has a row, and, until an UPDATE is lost, list and table agree on roles. *)
THEOREM RolesInvariant == Spec => []RoleInv
<1>1. Init => RoleInv
  BY InitType DEF Init, RoleInv, UniqueIndex, MembersHaveRows, AtMostOneChief, ChiefBacked,
     AuthorityBacked
<1> QED
  BY <1>1, StepRoles, PTL DEF Spec

(* As long as no UPDATE is lost there is one chief at most, in the list    *)
(* and in the table.                                                       *)
THEOREM OneChief == Spec => []AtMostOneChief
<1>1. RoleInv => AtMostOneChief
  BY DEF RoleInv
<1> QED
  BY <1>1, RolesInvariant, PTL

(* As long as no UPDATE is lost the table backs every authority.           *)
THEOREM AuthorityCorrect == Spec => []AuthorityBacked
<1>1. RoleInv => AuthorityBacked
  BY DEF RoleInv
<1> QED
  BY <1>1, RolesInvariant, PTL

-----------------------------------------------------------------------------
(* What the clients believe.                                               *)

(* Who is in the list under which mcode, and as chief.                     *)
SameRecord(w) ==
  /\ client'[w].mcode = client[w].mcode /\ client'[w].chief = client[w].chief
  /\ client'[w].role = client[w].role

(* A handler that sends nothing leaves everybody rightly informed, if the  *)
(* members after it are members before it with the same record.            *)
LEMMA SilenceKeepsAnnounced ==
  ASSUME ChiefAnnounced,
         \A w \in clientList' \ closing' :
           client'[w].role # NoRole =>
             w \in clientList \ closing /\ SameRecord(w) /\ told'[w] = told[w]
  PROVE  ChiefAnnounced'
BY DEF ChiefAnnounced, SameRecord

(* CHIEFPROCESS takes the old chief from everybody's view and adds the new *)
(* one; if both are the same client, nothing changes.                      *)
LEMMA ChiefKeepsAnnounced ==
  ASSUME RoleInv, ChiefAnnounced, NEW w \in Ws, NEW m \in Mcodes, Chief(w, m)
  PROVE  ChiefAnnounced'
<1>1. CASE Die
  BY <1>1, DieType DEF ChiefAnnounced
<1>2. ASSUME NEW d \in Find(m), client' = HandOver(w, d),
             told' = ChiefProcess(client[w].mcode, m),
             UNCHANGED <<hub, conn, closing, clientList, streamVars>>
      PROVE  ChiefAnnounced'
  <2>1. /\ w \in clientList /\ d \in clientList /\ clientList \subseteq Ws /\ d \in Ws
        /\ client[w].chief /\ client[d].mcode = m
        /\ client[w] \in MemberRecords /\ client[d] \in MemberRecords
    BY <1>2, RecordFacts DEF Find, Chief, Receives, RoleInv, TypeOK
  <2>2. \A x \in Ws : /\ client'[x].mcode = client[x].mcode
                      /\ client'[x].role = client[x].role
                      /\ client'[x].chief <=> (x = d \/ (x # w /\ client[x].chief))
    BY <1>2, <2>1, HandOverType DEF RoleInv, TypeOK, Clients
  <2>3. \A x \in clientList : told'[x] = (told[x] \ {client[w].mcode}) \cup {m}
    BY <1>2, <2>1 DEF ChiefProcess
  <2> SUFFICES ASSUME NEW x \in clientList \ closing, NEW y \in clientList \ closing,
                      client[x].role # NoRole, client[y].role # NoRole
               PROVE  client[y].mcode \in told'[x] <=> client'[y].chief
    BY <1>2, <2>1, <2>2 DEF ChiefAnnounced
  <2>4. client[y].mcode \in told[x] <=> client[y].chief
    BY DEF ChiefAnnounced
  <2>5. /\ client[y].mcode = m <=> y = d
        /\ client[y].mcode = client[w].mcode <=> y = w
    BY <2>1 DEF RoleInv, UniqueIndex
  <2> QED
    BY <2>1, <2>2, <2>3, <2>4, <2>5
<1> QED
  BY <1>1, <1>2 DEF Chief

(* ACCESSMEMBERPROCESS corrects everybody's view of the one who joins, and *)
(* CONNECTEDMEMBERINFOPROCESS the view of the one who joins of all others. *)
LEMMA JoinKeepsAnnounced ==
  ASSUME RoleInv, RoleInv', ChiefAnnounced, NEW w \in Ws, NEW m \in Mcodes, Join(w, m)
  PROVE  ChiefAnnounced'
<1>1. /\ w \in clientList /\ clientList \subseteq conn /\ conn \subseteq Ws
      /\ clientList' = clientList /\ closing' = closing /\ conn' = conn
      /\ db[m] # NoRole /\ \A x \in clientList : client[x].mcode # m
      /\ told' = Told(w, m, clientList)
  BY DEF Join, Receives, RoleInv, TypeOK, Find
<1>2. /\ client'[w] = Member(m) /\ client'[w].mcode = m /\ client'[w].chief = Member(m).chief
      /\ \A x \in clientList : x # w => client'[x] = client[x]
  BY <1>1, MemberType DEF Join, RoleInv, TypeOK, Tables
<1> SUFFICES ASSUME NEW x \in clientList \ closing, NEW y \in clientList \ closing,
                    client'[x].role # NoRole, client'[y].role # NoRole
             PROVE  client'[y].mcode \in told'[x] <=> client'[y].chief
  BY <1>1 DEF ChiefAnnounced
<1>3. \A z \in clientList : client'[z].mcode = client'[y].mcode => z = y
  BY <1>1 DEF RoleInv, UniqueIndex
<1>4. CASE x # w
  <2>1. told'[x] = Announced(x, m)
    BY <1>1, <1>4 DEF Told
  <2>2. CASE y = w
    BY <1>2, <2>1, <2>2 DEF Announced
  <2>3. CASE y # w
    <3>1. client'[y] = client[y] /\ client'[x] = client[x] /\ client[y].mcode # m
      BY <1>1, <1>2, <1>4, <2>3
    <3>2. client[y].mcode \in told[x] <=> client[y].chief
      BY <3>1 DEF ChiefAnnounced
    <3> QED
      BY <2>1, <3>1, <3>2 DEF Announced
  <2> QED
    BY <2>2, <2>3
<1>5. CASE x = w
  <2>1. told'[w] = (Announced(w, m) \ {client'[z].mcode : z \in Settled(clientList)})
            \cup {client'[z].mcode : z \in {u \in Settled(clientList) : client'[u].chief}}
    BY <1>1 DEF Told
  <2>2. y \in Settled(clientList) /\ Settled(clientList) \subseteq clientList
    BY DEF Settled
  <2> QED
    BY <1>3, <1>5, <2>1, <2>2
<1> QED
  BY <1>4, <1>5

(* A second client with the same mcode loses its record and the first is   *)
(* closing; a client that repeats its SETTING is closing itself.           *)
LEMMA JoinTakenKeepsAnnounced ==
  ASSUME RoleInv, ChiefAnnounced, NEW w \in Ws, NEW m \in Mcodes, JoinTaken(w, m)
  PROVE  ChiefAnnounced'
<1>1. PICK x \in Find(m) :
        /\ Terminate(x)
        /\ IF hub' = "hung" THEN UNCHANGED <<clientList, client, told>>
           ELSE /\ clientList' = IF x = w THEN clientList ELSE clientList \ {w}
                /\ client' = [client EXCEPT ![w] = IF x = w THEN Member(m) ELSE NewClient]
                /\ told' = Told(w, m, clientList')
  BY DEF JoinTaken
<1>2. CASE hub' = "hung"
  <2>1. closing' = closing
    BY <1>1, <1>2 DEF Terminate, JoinTaken, Receives
  <2> QED
    BY <1>1, <1>2, <2>1, SilenceKeepsAnnounced DEF SameRecord
<1>3. CASE hub' # "hung"
  <2>1. /\ x \in clientList /\ w \in clientList /\ client[x].mcode = m
        /\ clientList \subseteq conn /\ conn \subseteq Ws /\ conn' = conn
        /\ closing' = closing \cup {x}
    BY <1>1, <1>3 DEF Find, JoinTaken, Receives, RoleInv, TypeOK, Terminate
  <2>2. clientList' \ closing' \subseteq (clientList \ closing) \ {w, x}
    BY ONLY <1>1, <1>3, <2>1
  <2>3. \A y \in (clientList \ closing) \ {w, x} :
          client'[y] = client[y] /\ client[y].mcode # m /\ told'[y] = Announced(y, m)
    <3>1. client \in Clients /\ UniqueIndex
      BY DEF RoleInv, TypeOK, Clients
    <3>2. \A y \in clientList \ {w, x} : client'[y] = client[y]
      <4>1. client' = [client EXCEPT ![w] = IF x = w THEN Member(m) ELSE NewClient]
        BY ONLY <1>1, <1>3
      <4> QED
        BY ONLY <2>1, <3>1, <4>1 DEF Clients
    <3>3. \A y \in clientList \ {x} : client[y].mcode # m
      BY ONLY <2>1, <3>1 DEF UniqueIndex
    <3>4. \A y \in clientList \ {w} : told'[y] = Announced(y, m)
      <4>1. told' = Told(w, m, clientList')
        BY ONLY <1>1, <1>3
      <4> QED
        BY ONLY <2>1, <4>1 DEF Told
    <3> QED
      BY ONLY <3>2, <3>3, <3>4
  <2>4. ASSUME NEW y \in clientList' \ closing', NEW z \in clientList' \ closing',
               client'[y].role # NoRole, client'[z].role # NoRole
        PROVE  client'[z].mcode \in told'[y] <=> client'[z].chief
    <3>1. /\ y \in clientList \ closing /\ client[y].role # NoRole
          /\ z \in clientList \ closing /\ client[z].role # NoRole
          /\ told'[y] = Announced(y, m) /\ client'[z] = client[z] /\ client[z].mcode # m
      BY ONLY <2>2, <2>3, <2>4
    <3>2. client[z].mcode \in told[y] <=> client[z].chief
      BY ONLY <3>1, ChiefAnnounced DEF ChiefAnnounced
    <3> QED
      BY ONLY <3>1, <3>2 DEF Announced
  <2> QED
    BY ONLY <2>4 DEF ChiefAnnounced
<1> QED
  BY <1>2, <1>3

(* After every handler the members agree on who is chief.                  *)
LEMMA StepAnnounced ==
  RoleInv /\ RoleInv' /\ ChiefAnnounced /\ [Next]_vars => ChiefAnnounced'
<1> SUFFICES ASSUME RoleInv, RoleInv', ChiefAnnounced, [Next]_vars PROVE ChiefAnnounced'
  OBVIOUS
<1> USE DEF RoleInv, TypeOK
<1>0. ASSUME Die PROVE ChiefAnnounced'
  BY <1>0, DieType DEF ChiefAnnounced
<1>1. ASSUME NEW w \in Ws, OnOpen(w) PROVE ChiefAnnounced'
  <2>1. client[w].role = NoRole /\ clientList' \subseteq clientList \cup {w}
        /\ UNCHANGED <<closing, client, told>>
    BY <1>1 DEF OnOpen, NewClient
  <2> QED
    BY <2>1, SilenceKeepsAnnounced DEF SameRecord
<1>2. ASSUME NEW w \in Ws, OnClose(w) PROVE ChiefAnnounced'
  <2>1. CASE ~Die
    <3>1. \A x \in clientList' \ closing' :
            x \in clientList \ closing /\ client'[x] = client[x] /\ told'[x] = told[x]
      BY <1>2, <2>1 DEF OnClose
    <3> QED
      BY <3>1, SilenceKeepsAnnounced DEF SameRecord
  <2> QED
    BY <1>0, <2>1
<1>3. ASSUME NEW w \in Ws, NEW m \in Mcodes, Authority(w, m) PROVE ChiefAnnounced'
  <2>1. ASSUME NEW d \in Find(m),
               client' = [client EXCEPT ![d].authority = ~client[d].authority],
               UNCHANGED <<hub, conn, closing, clientList, streamVars, told>>
        PROVE  ChiefAnnounced'
    <3>1. d \in Ws /\ client[d] \in MemberRecords
      BY <2>1, RecordFacts DEF Find
    <3>2. \A x \in Ws : SameRecord(x)
      BY <2>1, <3>1, ToggleType DEF Clients, SameRecord
    <3> QED
      BY <2>1, <3>2, SilenceKeepsAnnounced
  <2> QED
    BY <1>0, <1>3, <2>1 DEF Authority
<1>4. ASSUME NEW w \in Ws, Reject(w) PROVE ChiefAnnounced'
  BY <1>4, SilenceKeepsAnnounced DEF Reject, Terminate, SameRecord
<1>5. ASSUME UNCHANGED <<closing, clientList, client, told>> PROVE ChiefAnnounced'
  BY <1>5, SilenceKeepsAnnounced DEF SameRecord
<1>6. ASSUME NEW w \in Ws, NEW v \in {0, 1}, Mode(w, v) PROVE ChiefAnnounced'
  BY <1>5, <1>6 DEF Mode
<1>7. CASE Restart \/ UNCHANGED vars
  BY <1>5, <1>7 DEF Restart, vars
<1> QED
  BY <1>0, <1>1, <1>2, <1>3, <1>4, <1>6, <1>7, ChiefKeepsAnnounced, JoinKeepsAnnounced,
     JoinTakenKeepsAnnounced DEF Next, Setting, StrayMessage, Crash

(* Every member knows of every other whether it is chief, whatever         *)
(* hand-overs, joins and departures have happened.                         *)
THEOREM AnnouncedCorrect == Spec => []ChiefAnnounced
<1>1. Init => ChiefAnnounced
  BY DEF Init, ChiefAnnounced
<1>2. RoleInv /\ ChiefAnnounced /\ [Next]_vars => ChiefAnnounced'
  BY StepRoles, StepAnnounced
<1> QED
  BY <1>1, <1>2, RolesInvariant, PTL DEF Spec

-----------------------------------------------------------------------------
(* The table's chief.                                                      *)

(* While the table has a chief, a chief in the list has the authority; so  *)
(* AUTHORITY can only take it from it, and that is what changes its row.   *)
ChiefMayUse ==
  ~lost /\ SomeChiefRow => \A w \in clientList : client[w].chief => client[w].authority

(* A handler that changes neither the table nor a record that stays.       *)
LEMMA SilenceKeepsMayUse ==
  ASSUME ChiefMayUse, db' = db, lost' = lost,
         \A w \in clientList' : client'[w].chief => w \in clientList /\ client'[w] = client[w]
  PROVE  ChiefMayUse'
BY DEF ChiefMayUse, SomeChiefRow

(* The chief whose row AUTHORITY changes is the one in the table, if there *)
(* is one: no other record can name the row.                               *)
LEMMA RowOfChief ==
  ASSUME RoleInv, ~lost, NEW w \in clientList, client[w].chief,
         NEW n \in Mcodes, db[n] = ChiefRole
  PROVE  client[w].mcode = n
<1>1. client[w].mcode \in Mcodes
  BY RecordFacts DEF RoleInv, TypeOK
<1>2. db[client[w].mcode] = ChiefRole
  BY DEF RoleInv, ChiefBacked, SomeChiefRow
<1> QED
  BY <1>1, <1>2 DEF RoleInv, AtMostOneChief, OneChiefRow

(* AUTHORITY keeps the table's chief unless the chief turns on itself.     *)
LEMMA AuthorityRow ==
  ASSUME RoleInv, ChiefMayUse, NEW w \in Ws, NEW m \in Mcodes, Authority(w, m)
  PROVE  /\ ChiefMayUse'
         /\ SomeChiefRow /\ ~SomeChiefRow' => lost' \/ SelfToggle
<1>1. CASE Die /\ UNCHANGED <<db, lost>>
  BY <1>1, DieType DEF ChiefMayUse, SomeChiefRow
<1>2. ASSUME NEW d \in Find(m),
             client' = [client EXCEPT ![d].authority = ~client[d].authority],
             \/ db' = SetRole(db, m, ToggledRole(~client[d].authority)) /\ lost' = lost
             \/ db' = db /\ lost' = TRUE,
             UNCHANGED <<hub, conn, closing, clientList, streamVars, told>>
      PROVE  /\ ChiefMayUse'
             /\ SomeChiefRow /\ ~SomeChiefRow' => lost' \/ SelfToggle
  <2>1. d \in clientList /\ d \in Ws /\ client[d].mcode = m /\ clientList \subseteq Ws
    BY <1>2 DEF Find, RoleInv, TypeOK
  <2>2. client[d] \in MemberRecords /\ client[d].authority \in BOOLEAN
    BY <2>1, RecordFacts DEF RoleInv, TypeOK
  <2>3. /\ \A x \in Ws : client'[x].mcode = client[x].mcode /\ client'[x].chief = client[x].chief
        /\ client'[d].authority = ~client[d].authority
        /\ \A x \in Ws : x # d => client'[x] = client[x]
    BY <1>2, <2>1, <2>2, ToggleType DEF RoleInv, TypeOK, Clients
  <2> SUFFICES ASSUME ~lost'
               PROVE  /\ ChiefMayUse'
                      /\ SomeChiefRow /\ ~SomeChiefRow' => SelfToggle
    BY DEF ChiefMayUse
  <2>4. ~lost /\ db' = SetRole(db, m, ToggledRole(~client[d].authority))
    BY <1>2
  <2> DEFINE r == ToggledRole(~client[d].authority)
  <2>r. r \in Roles /\ r \notin {ChiefRole, NoRole}
    BY <2>2, ToggledRoleType
  <2>t. \A n \in Mcodes : db'[n] = IF n = m /\ db[n] # NoRole THEN r ELSE db[n]
    BY <2>4, <2>r, SetRoleType DEF RoleInv, TypeOK, Tables
  <2> HIDE DEF r
  <2>5. \A n \in Mcodes : n # m => db'[n] = db[n]
    BY <2>t
  <2>6. db'[m] # ChiefRole
    BY <2>1, <2>r, <2>t DEF RoleInv, MembersHaveRows
  <2>7. ASSUME SomeChiefRow', NEW x \in clientList, client'[x].chief
        PROVE  client'[x].authority
    <3>1. PICK n \in Mcodes : db'[n] = ChiefRole
      BY <2>7 DEF SomeChiefRow
    <3>2. n # m /\ db[n] = ChiefRole /\ client[x].chief
      BY <2>1, <2>3, <2>5, <2>6, <2>7, <3>1
    <3>3. client[x].mcode = n
      BY <2>4, <2>7, <3>2, RowOfChief
    <3>4. x # d /\ client'[x] = client[x]
      BY <2>1, <2>3, <3>2, <3>3
    <3> QED
      BY <2>4, <3>2, <3>4 DEF ChiefMayUse, SomeChiefRow
  <2>8. ASSUME SomeChiefRow, ~SomeChiefRow' PROVE SelfToggle
    <3>1. PICK n \in Mcodes : db[n] = ChiefRole
      BY <2>8 DEF SomeChiefRow
    <3>2. n = m
      BY <2>5, <2>8, <3>1 DEF SomeChiefRow
    <3>3. w \in clientList /\ client[w].chief
      BY DEF Authority, Receives
    <3>4. client[w].mcode = m
      BY <2>4, <3>1, <3>2, <3>3, RowOfChief
    <3>5. w = d
      BY <2>1, <3>3, <3>4 DEF RoleInv, UniqueIndex
    <3>6. client[d].authority
      BY <2>4, <2>8, <3>3, <3>5 DEF ChiefMayUse
    <3> QED
      BY <1>2, <2>1, <2>3, <3>3, <3>5, <3>6 DEF SelfToggle
  <2> QED
    BY <1>2, <2>7, <2>8 DEF ChiefMayUse
<1> QED
  BY <1>1, <1>2 DEF Authority

(* CHIEF gives the table's role to a participant, if both UPDATEs work.    *)
LEMMA ChiefRow ==
  ASSUME RoleInv, ChiefMayUse, NEW w \in Ws, NEW m \in Mcodes, Chief(w, m)
  PROVE  /\ ChiefMayUse'
         /\ SomeChiefRow /\ ~SomeChiefRow' => lost' \/ ChiefToStranger
<1> DEFINE src == client[w].mcode
<1>1. /\ w \in clientList /\ client[w].chief /\ clientList \subseteq Ws
      /\ client[w] \in MemberRecords /\ db \in Tables
  BY RecordFacts DEF Chief, Receives, RoleInv, TypeOK, Tables
<1>2. db' = db \/ lost' \/ (db' = ChiefRows(src, m) /\ lost' = lost)
  BY DEF Chief, ChangeChief
<1>3. ASSUME db' = ChiefRows(src, m), db[m] # NoRole PROVE db'[m] = ChiefRole
  <2>1. /\ AuthRole \in Roles /\ ChiefRole \in Roles /\ AuthRole # NoRole
    BY DEF Roles, AuthRole, ChiefRole, NoRole
  <2>2. SetRole(db, src, AuthRole) \in Tables /\ SetRole(db, src, AuthRole)[m] # NoRole
    BY <1>1, <1>3, <2>1, SetRoleType
  <2> QED
    BY <1>3, <2>1, <2>2, SetRoleType DEF ChiefRows
<1>4. SomeChiefRow /\ ~SomeChiefRow' => lost' \/ ChiefToStranger
  BY <1>2, <1>3 DEF SomeChiefRow, ChiefToStranger
<1>5. ChiefMayUse'
  <2>1. CASE Die
    BY <2>1, DieType DEF ChiefMayUse
  <2>2. ASSUME NEW d \in Find(m), client' = HandOver(w, d), ~lost', clientList' = clientList,
               ChangeChief(src, m)
        PROVE  ChiefMayUse'
    <3>1. d \in clientList /\ d \in Ws /\ client[d] \in MemberRecords
      BY <1>1, <2>2, RecordFacts DEF Find, RoleInv, TypeOK
    <3>2. \A x \in clientList :
            /\ client'[x].authority <=> (x = d \/ client[x].authority)
            /\ client'[x].chief <=> (x = d \/ (x # w /\ client[x].chief))
      BY <1>1, <2>2, <3>1, HandOverType DEF RoleInv, TypeOK, Clients
    <3>3. \A x \in clientList : client'[x].chief => x = d
      BY <1>1, <2>2, <3>2 DEF RoleInv, AtMostOneChief, ChangeChief
    <3> QED
      BY <2>2, <3>2, <3>3 DEF ChiefMayUse
  <2> QED
    BY <2>1, <2>2 DEF Chief, ChiefMayUse
<1> QED
  BY <1>4, <1>5

(* Whoever joins as chief joins with the authority.                        *)
LEMMA SettingKeepsMayUse ==
  ASSUME RoleInv, ChiefMayUse, NEW w \in Ws, NEW m \in Mcodes, Setting(w, m)
  PROVE  ChiefMayUse'
<1>1. /\ w \in clientList /\ clientList \subseteq Ws /\ db[m] # NoRole
      /\ db' = db /\ lost' = lost /\ db \in Tables
  BY DEF Setting, Join, JoinTaken, Receives, RoleInv, TypeOK, Tables
<1>2. /\ clientList' \subseteq clientList
      /\ \/ client' = client
         \/ client' = [client EXCEPT ![w] = Member(m)]
         \/ client' = [client EXCEPT ![w] = NewClient]
  BY DEF Setting, Join, JoinTaken
<1>3. Member(m).chief => Member(m).authority
  BY <1>1, MemberType
<1>4. NewClient.chief = FALSE
  BY DEF NewClient
<1>5. \A x \in clientList : x # w => client'[x] = client[x]
  BY <1>1, <1>2 DEF RoleInv, TypeOK
<1>6. client'[w] \in {client[w], Member(m), NewClient}
  BY <1>1, <1>2 DEF RoleInv, TypeOK
<1> QED
  BY <1>1, <1>2, <1>3, <1>4, <1>5, <1>6 DEF ChiefMayUse, SomeChiefRow

(* What each step does to the table's chief.                               *)
LEMMA StepRow ==
  ASSUME RoleInv, ChiefMayUse, [Next]_vars
  PROVE  /\ ChiefMayUse'
         /\ SomeChiefRow /\ ~SomeChiefRow' => lost' \/ SelfToggle \/ ChiefToStranger
<1> DEFINE Goal == /\ ChiefMayUse'
                   /\ SomeChiefRow /\ ~SomeChiefRow' => lost' \/ SelfToggle \/ ChiefToStranger
<1> USE DEF RoleInv, TypeOK
<1>0. ASSUME UNCHANGED <<db, lost>>,
             \A w \in clientList' : client'[w].chief => w \in clientList /\ client'[w] = client[w]
      PROVE  Goal
  BY <1>0, SilenceKeepsMayUse DEF SomeChiefRow
<1>1. ASSUME NEW w \in Ws, OnOpen(w) PROVE Goal
  <2>1. client[w].chief = FALSE /\ clientList' \subseteq clientList \cup {w} /\ client' = client
    BY <1>1 DEF OnOpen, NewClient
  <2> QED
    BY <1>0, <1>1, <2>1 DEF OnOpen
<1>2. ASSUME Die, UNCHANGED <<db, lost>> PROVE Goal
  BY <1>0, <1>2, DieType
<1>3. ASSUME NEW w \in Ws, OnClose(w) PROVE Goal
  <2>1. CASE ~Die
    <3>1. \A x \in clientList' : x \in clientList /\ client'[x] = client[x]
      BY <1>3, <2>1 DEF OnClose
    <3> QED
      BY <1>0, <1>3, <3>1 DEF OnClose
  <2> QED
    BY <1>2, <1>3, <2>1 DEF OnClose
<1>4. ASSUME UNCHANGED <<db, lost, clientList, client>> PROVE Goal
  BY <1>0, <1>4
<1>5. ASSUME NEW w \in Ws, NEW v \in {0, 1}, Reject(w) \/ Mode(w, v) PROVE Goal
  BY <1>4, <1>5 DEF Reject, Mode
<1>7. CASE Restart \/ UNCHANGED vars
  BY <1>4, <1>7 DEF Restart, vars
<1>6. ASSUME NEW w \in Ws, NEW m \in Mcodes, Setting(w, m) PROVE Goal
  <2>1. db' = db
    BY <1>6 DEF Setting, Join, JoinTaken
  <2> QED
    BY <1>6, <2>1, SettingKeepsMayUse DEF SomeChiefRow
<1> QED
  BY <1>1, <1>2, <1>3, <1>4, <1>5, <1>6, <1>7, AuthorityRow, ChiefRow
  DEF Next, StrayMessage, Crash

(* The table stops having a chief only in the three ways named.            *)
THEOREM ChiefRowCorrect == Spec => ChiefRowStays
<1>1. Init => ChiefMayUse
  BY DEF Init, ChiefMayUse
<1>2. RoleInv /\ ChiefMayUse /\ [Next]_vars => ChiefMayUse'
  BY StepRow
<1>3. RoleInv /\ ChiefMayUse /\ [Next]_vars
        => [SomeChiefRow /\ ~SomeChiefRow' => lost' \/ SelfToggle \/ ChiefToStranger]_vars
  BY StepRow
<1> QED
  BY <1>1, <1>2, <1>3, RolesInvariant, PTL DEF Spec, ChiefRowStays
=============================================================================
