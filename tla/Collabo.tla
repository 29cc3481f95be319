------------------------------- MODULE Collabo -------------------------------
(***************************************************************************)
(* The session of Collabo.cpp: who is connected, which member of the       *)
(* meeting each connection stands for, who holds the authority to use the  *)
(* mouse and the keyboard, and who is chief.  The same roles are kept in   *)
(* the participant table of the database (MySQLConnector.cpp), which       *)
(* outlives the process.                                                   *)
(*                                                                         *)
(* The handlers onOpen, onMsg and onClose are called by the one thread     *)
(* that runs the hub, each to its end: a handler is one action.  The       *)
(* members of one meeting are modelled (one mscode).                       *)
(*                                                                         *)
(* Two things come from the uWebSockets library, whose code is not part of *)
(* the repository: a connection is announced and taken back by onOpen and  *)
(* onClose, and terminate ends one.  terminate may call the disconnection  *)
(* handler before it returns ("nested"), or leave that to a later turn of  *)
(* the hub ("deferred"); Terminations says what to expect.  In the nested  *)
(* case onClose asks for sharedMtx exclusively while onMsg, below it on    *)
(* the same stack, holds it shared, and the hub thread never runs again.   *)
(***************************************************************************)
EXTENDS Integers

CONSTANTS
  Ws,              (* the connections                                      *)
  Mcodes,          (* the member codes the clients send                    *)
  NoMcode,         (* the empty string, the mcode of a new Client          *)
  Terminations     (* when may terminate call onClose?                     *)

ASSUME SessionAssumption ==
  /\ NoMcode \notin Mcodes
  /\ Terminations \subseteq {"nested", "deferred"}

(***************************************************************************)
(* hub          "run"; "hung" in the self-deadlock described above; "dead" *)
(*              when the process ended, or did something undefined after   *)
(*              which its memory is worth nothing                          *)
(* conn         the open connections                                       *)
(* closing      those of them whose onClose is deferred                    *)
(* clientList   the connections that have a record in clientList           *)
(* client       the records                                                *)
(* mode         0 is video, 1 is image                                     *)
(* encoding, compressing   has the encoder, the JPEG compressor, been told *)
(*              to run (startStreaming, stopStreaming)                     *)
(* db           the role of each mcode in the participant table, NoRole    *)
(*              for a member that is not a participant of the meeting      *)
(* told         history: the mcodes each connection was told are chief     *)
(* lost         history: has an UPDATE of the table got lost               *)
(***************************************************************************)
VARIABLES hub, conn, closing, clientList, client, mode, encoding, compressing,
          db, told, lost

streamVars == <<mode, encoding, compressing>>
vars == <<hub, conn, closing, clientList, client, mode, encoding, compressing,
          db, told, lost>>

NoRole == -1
ChiefRole == 0
AuthRole == 1
PlainRole == 2
Roles == {ChiefRole, AuthRole, PlainRole}

(* A record is that of a new Client until SETTING made it a member's.      *)
NewClient == [mcode |-> NoMcode, authority |-> FALSE, chief |-> FALSE, role |-> NoRole]
MemberRecords == [mcode : Mcodes, authority : BOOLEAN, chief : BOOLEAN, role : Roles]
Records == MemberRecords \cup {NewClient}

OneChiefRow == \A m, n \in Mcodes : db[m] = ChiefRole /\ db[n] = ChiefRole => m = n

Init ==
  /\ hub = "run"
  /\ conn = {} /\ closing = {} /\ clientList = {}
  /\ client = [w \in Ws |-> NewClient]
  /\ mode = 1 /\ encoding = FALSE /\ compressing = FALSE
  /\ db \in [Mcodes -> Roles \cup {NoRole}]
  /\ OneChiefRow
  /\ told = [w \in Ws |-> {}]
  /\ lost = FALSE

(* The records with a given mcode; the ordered_unique index admits one.    *)
Find(m) == {w \in clientList : client[w].mcode = m}

(* The process ends: its memory is gone, the table stays.                  *)
Die ==
  /\ hub' = "dead"
  /\ conn' = {} /\ closing' = {} /\ clientList' = {}
  /\ client' = [w \in Ws |-> NewClient]
  /\ mode' = 1 /\ encoding' = FALSE /\ compressing' = FALSE
  /\ told' = [w \in Ws |-> {}]

-----------------------------------------------------------------------------
(* START_STREAMING, STOP_STREAMING and both of them around a change of     *)
(* mode.  stopStreaming stops the compressor only if the mode, as it is at *)
(* that moment, is image; startStreaming starts it likewise.               *)

StartStreaming ==
  /\ encoding' = TRUE
  /\ compressing' = (compressing \/ mode = 1)
  /\ UNCHANGED mode

StopStreaming ==
  /\ encoding' = FALSE
  /\ compressing' = (compressing /\ mode # 1)
  /\ UNCHANGED mode

ChangeModeFirst(v) ==
  /\ mode' = v
  /\ encoding' = TRUE
  /\ compressing' = ((compressing /\ v # 1) \/ v = 1)

ChangeMode(v) ==
  /\ mode' = v
  /\ encoding' = TRUE
  /\ compressing' = ((compressing /\ mode # 1) \/ v = 1)

-----------------------------------------------------------------------------
(* onOpen.  Every new Client has the mcode "", which is unique in the      *)
(* list: while one client has not sent SETTING, the next one that connects *)
(* gets no record.                                                         *)
OnOpen(w) ==
  /\ hub = "run"
  /\ w \notin conn
  /\ conn' = conn \cup {w}
  /\ clientList' = IF Find(NoMcode) = {} THEN clientList \cup {w} ELSE clientList
  /\ IF \E x \in Ws : clientList' = {x} THEN StartStreaming ELSE UNCHANGED streamVars
  /\ UNCHANGED <<hub, closing, client, db, told, lost>>

OnCloseKeepsRecord(w) ==
  /\ hub = "run"
  /\ w \in conn
  /\ conn' = conn \ {w}
  /\ closing' = closing \ {w}
  /\ UNCHANGED <<hub, clientList, client, told, streamVars, db, lost>>

(* onClose.  Erasing the record of a connection that has none erases       *)
(* end(), which is undefined.                                              *)
OnClose(w) ==
  /\ hub = "run"
  /\ w \in conn
  /\ \/ /\ w \in clientList
        /\ conn' = conn \ {w}
        /\ closing' = closing \ {w}
        /\ clientList' = clientList \ {w}
        /\ client' = [client EXCEPT ![w] = NewClient]
        /\ told' = [told EXCEPT ![w] = {}]
        /\ IF clientList' = {} THEN StopStreaming ELSE UNCHANGED streamVars
        /\ UNCHANGED hub
     \/ /\ w \notin clientList
        /\ Die
  /\ UNCHANGED <<db, lost>>

(* onMsg on a connection without a record copies *end(), which is          *)
(* undefined; when the copy is harmless, all but SETTING are ignored.      *)
StrayMessage(w) ==
  /\ hub = "run"
  /\ w \in conn \ (clientList \cup closing)
  /\ Die
  /\ UNCHANGED <<db, lost>>

Receives(w) == hub = "run" /\ w \in clientList \ closing

-----------------------------------------------------------------------------
(* AUTHORITY: the chief turns the authority of the member dst on or off.   *)
(* changeAuth (MySQLConnector) swallows an SQLException.                   *)

ToggledRoleSwapped(auth) == IF auth THEN PlainRole ELSE AuthRole
ToggledRole(auth) == IF auth THEN AuthRole ELSE PlainRole

SetRole(table, m, r) == [table EXCEPT ![m] = IF @ = NoRole THEN NoRole ELSE r]

Authority(w, dst) ==
  /\ Receives(w)
  /\ client[w].chief
  /\ \/ /\ Find(dst) = {}
        /\ Die
        /\ UNCHANGED <<db, lost>>
     \/ \E d \in Find(dst) :
          /\ client' = [client EXCEPT ![d].authority = ~client[d].authority]
          /\ \/ db' = SetRole(db, dst, ToggledRole(~client[d].authority))
                /\ lost' = lost
             \/ db' = db /\ lost' = TRUE
          /\ UNCHANGED <<hub, conn, closing, clientList, streamVars, told>>

(* CHIEF: the chief hands the role over to dst, in clientList first and    *)
(* then, by two UPDATEs, in the table.                                     *)

ChiefRowsDstFirst(src, dst) == SetRole(SetRole(db, dst, ChiefRole), src, AuthRole)
ChiefRows(src, dst) == SetRole(SetRole(db, src, AuthRole), dst, ChiefRole)

HandOverKeepsSource(w, d) ==
  [client EXCEPT ![d].chief = TRUE, ![d].authority = TRUE]
HandOver(w, d) ==
  [client EXCEPT ![w].chief = FALSE, ![d].chief = TRUE, ![d].authority = TRUE]

(* The table after changeChief: both UPDATEs, or the first one only, or    *)
(* none when an SQLException ends it.                                      *)
ChangeChief(src, dst) ==
  \/ db' = ChiefRows(src, dst) /\ lost' = lost
  \/ db' = SetRole(db, src, AuthRole) /\ lost' = TRUE
  \/ db' = db /\ lost' = TRUE

ChiefProcessDstOnly(src, dst) ==
  [x \in Ws |-> IF x \in clientList THEN told[x] \cup {dst} ELSE told[x]]
ChiefProcess(src, dst) ==
  [x \in Ws |-> IF x \in clientList THEN (told[x] \ {src}) \cup {dst} ELSE told[x]]

Chief(w, dst) ==
  /\ Receives(w)
  /\ client[w].chief
  /\ \/ \E d \in Find(dst) :
          /\ client' = HandOver(w, d)
          /\ ChangeChief(client[w].mcode, dst)
          /\ told' = ChiefProcess(client[w].mcode, dst)
          /\ UNCHANGED <<hub, conn, closing, clientList, streamVars>>
     \/ /\ Find(dst) = {}   (* modifies end(): undefined *)
        /\ Die
        /\ ChangeChief(client[w].mcode, dst) \/ UNCHANGED <<db, lost>>
     \/ /\ Find(dst) # {}   (* killed between the two UPDATEs *)
        /\ Die
        /\ db' = SetRole(db, client[w].mcode, AuthRole) /\ lost' = TRUE

-----------------------------------------------------------------------------
(* SETTING.  isSuited reads the role; a client that is not suited, or for  *)
(* which the query fails, is terminated.                                   *)

Member(m) == [mcode |-> m, authority |-> db[m] \in {ChiefRole, AuthRole},
              chief |-> db[m] = ChiefRole, role |-> db[m]]

(* What everybody knows after w joined as m: ACCESSMEMBERPROCESS goes to   *)
(* all connections, then CONNECTEDMEMBERINFOPROCESS lists to w the members *)
(* in clientList.                                                          *)
Announced(x, m) == IF Member(m).chief THEN told[x] \cup {m} ELSE told[x] \ {m}
Settled(list) == {x \in list : client'[x].role # NoRole}
Told(w, m, list) ==
  [x \in Ws |->
     IF x \notin conn THEN {}
     ELSE IF x # w THEN Announced(x, m)
     ELSE (Announced(w, m) \ {client'[y].mcode : y \in Settled(list)})
            \cup {client'[y].mcode : y \in {z \in Settled(list) : client'[z].chief}}]

Terminate(x) ==
  \/ "nested" \in Terminations /\ hub' = "hung" /\ UNCHANGED closing
  \/ "deferred" \in Terminations /\ closing' = closing \cup {x} /\ UNCHANGED hub

Reject(w) ==
  /\ Receives(w)
  /\ Terminate(w)
  /\ UNCHANGED <<conn, clientList, client, streamVars, db, told, lost>>

Join(w, m) ==
  /\ Receives(w)
  /\ db[m] # NoRole
  /\ Find(m) = {}
  /\ client' = [client EXCEPT ![w] = Member(m)]
  /\ told' = Told(w, m, clientList)
  /\ UNCHANGED <<hub, conn, closing, clientList, streamVars, db, lost>>

(* The mcode is taken, by w itself or by another connection.  In the       *)
(* latter case modify finds the unique index violated and erases w.        *)
JoinTaken(w, m) ==
  /\ Receives(w)
  /\ db[m] # NoRole
  /\ \E x \in Find(m) :
       /\ Terminate(x)
       /\ IF hub' = "hung" THEN UNCHANGED <<clientList, client, told>>
          ELSE /\ clientList' = IF x = w THEN clientList ELSE clientList \ {w}
               /\ client' = [client EXCEPT ![w] = IF x = w THEN Member(m) ELSE NewClient]
               /\ told' = Told(w, m, clientList')
  /\ UNCHANGED <<conn, streamVars, db, lost>>

Setting(w, m) == Join(w, m) \/ JoinTaken(w, m)

(* MODE: the chief switches between video and image.                       *)
Mode(w, v) ==
  /\ Receives(w)
  /\ client[w].role # NoRole /\ client[w].chief
  /\ v # mode
  /\ ChangeMode(v)
  /\ UNCHANGED <<hub, conn, closing, clientList, client, db, told, lost>>

-----------------------------------------------------------------------------
(* Ctrl-C, or an SQLException of driver->connect, which nothing catches.   *)
Crash ==
  /\ hub # "dead"
  /\ Die
  /\ UNCHANGED <<db, lost>>

Restart ==
  /\ hub = "dead"
  /\ hub' = "run"
  /\ UNCHANGED <<conn, closing, clientList, client, streamVars, db, told, lost>>

Next ==
  \/ \E w \in Ws :
       \/ OnOpen(w)
       \/ OnClose(w)
       \/ StrayMessage(w)
       \/ \E m \in Mcodes : Authority(w, m) \/ Chief(w, m) \/ Setting(w, m)
       \/ Reject(w)
       \/ \E v \in {0, 1} : Mode(w, v)
  \/ Crash
  \/ Restart

Spec == Init /\ [][Next]_vars

-----------------------------------------------------------------------------
(* Properties *)

TypeOK ==
  /\ hub \in {"run", "hung", "dead"}
  /\ conn \subseteq Ws
  /\ closing \subseteq conn
  /\ clientList \subseteq conn
  /\ client \in [Ws -> Records]
  /\ \A w \in Ws \ clientList : client[w] = NewClient
  /\ mode \in {0, 1}
  /\ encoding \in BOOLEAN
  /\ compressing \in BOOLEAN
  /\ db \in [Mcodes -> Roles \cup {NoRole}]
  /\ told \in [Ws -> SUBSET Mcodes]
  /\ lost \in BOOLEAN

(* Unless an UPDATE got lost, there is at most one chief, in clientList    *)
(* and in the table, through hand-overs, rejoins and restarts.             *)
AtMostOneChief ==
  ~lost => /\ OneChiefRow
           /\ \A w, x \in clientList : client[w].chief /\ client[x].chief => w = x

(* Unless an UPDATE got lost, a member that may use the mouse and the      *)
(* keyboard may still do so after it rejoins: the table backs the          *)
(* authority that clientList grants.                                       *)
AuthorityBacked ==
  ~lost => \A w \in clientList :
             client[w].authority => db[client[w].mcode] \in {ChiefRole, AuthRole}

(* The stream runs exactly while someone is in clientList, and the JPEG    *)
(* compressor exactly while it runs in image mode, although a start may be *)
(* repeated and the mode changes between a stop and a start.               *)
StreamFollowsClients ==
  /\ encoding <=> clientList # {}
  /\ compressing <=> (clientList # {} /\ mode = 1)

(* Every member has been told of every other whether it is chief.  Nobody  *)
(* is ever told of a departure.                                            *)
ChiefAnnounced ==
  \A w, x \in clientList \ closing :
    client[w].role # NoRole /\ client[x].role # NoRole
      => (client[x].mcode \in told[w] <=> client[x].chief)

(* The table stops having a chief only when a chief takes the authority    *)
(* from itself (changeAuth writes 2 over its 0), when it hands its role to *)
(* somebody who is no participant, which no client in the list can be, or  *)
(* when an UPDATE is lost (MySQLConnector.cpp:213, 241).                   *)
SomeChiefRow == \E m \in Mcodes : db[m] = ChiefRole
SelfToggle ==
  \E w \in clientList \cap clientList' :
    client[w].chief /\ client[w].authority /\ ~client'[w].authority
ChiefToStranger == \E w \in Ws, m \in Mcodes : db[m] = NoRole /\ Chief(w, m)
ChiefRowStays ==
  [][SomeChiefRow /\ ~SomeChiefRow' => lost' \/ SelfToggle \/ ChiefToStranger]_vars

(* Collabo.cpp:400 says "if same mcode exists, turn off the other client." *)
(* So a suited SETTING for an mcode another client has should leave the    *)
(* sender in the list under that mcode, on a hub that still runs.          *)
TurnsOffOther ==
  [][\A w \in Ws, m \in Mcodes :
       JoinTaken(w, m) /\ w \notin Find(m)
         => hub' = "run" /\ w \in clientList' /\ client'[w].mcode = m]_vars
=============================================================================
