------------------------- MODULE AgentManagerProofs -------------------------
(* Theorems about AgentManager for any number of descriptors and any words *)
(* an agent may say.                                                       *)
EXTENDS AgentManager, TLAPS

(* What has been received is what the agent said, not what an earlier      *)
(* connection left on the stack.                                           *)
CheckedBytes ==
  pc \in {"recv", "check"} => \A i \in 1 .. Now.recved : recvCheck[i] = Now.word[i]

(* What the thread has established when it gets somewhere.                 *)
Established ==
  /\ sock # None => Now.link # "free" /\ Now.told = 0
  /\ pc = "connect" => Now = [Closed EXCEPT !.link = "new"]
  /\ pc = "recv" => Now.recved < 4 /\ Now.sent = 0
  /\ pc = "check" => Now.recved = 4 /\ Now.sent = 0
  /\ pc \in {"send", "tell"} => Now.word = Right /\ Now.recved = 4
  /\ pc = "send" => Now.sent < 4
  /\ pc = "tell" => Now.sent = 4

Idle == \A s \in Sockets : conn[s].link = "free" => conn[s] = Closed

IInv ==
  /\ TypeOK
  /\ CheckedBytes
  /\ Established
  /\ Idle
  /\ OnlyAgentsAreTold
  /\ OnlyHandshakesKeepSockets

Links == {"free", "new", "up", "closed", "reset", "dead"}
Records == [link : Links, word : Words \cup {Right}, arrived : 0 .. 4, recved : 0 .. 4,
            sent : 0 .. 4, told : 0 .. 4]

(* A descriptor that is not open is a legal record.                        *)
LEMMA ClosedIsRecord == Closed \in Records
BY DEF Closed, Records, Links, Right

(* run leaves every descriptor free.                                       *)
LEMMA InitInv == Init => IInv
<1> SUFFICES ASSUME Init PROVE IInv
  OBVIOUS
<1>1. /\ stopped = FALSE /\ sock = None /\ pc = "start"
      /\ recvCheck = [i \in 1 .. 4 |-> FALSE]
      /\ conn = [s \in Sockets |-> Closed]
  BY DEF Init
<1>2. TypeOK
  BY <1>1, ClosedIsRecord DEF TypeOK, Records, Links
<1>3. \A s \in Sockets : conn[s] = Closed /\ conn[s].told = 0 /\ conn[s].link = "free"
  BY <1>1 DEF Closed
<1> QED
  BY <1>1, <1>2, <1>3
  DEF IInv, CheckedBytes, Established, Idle, OnlyAgentsAreTold, OnlyHandshakesKeepSockets

(* No step of the thread breaks the invariant.                             *)
LEMMA ThreadKeepsInv ==
  ASSUME IInv, ThreadStep
  PROVE  IInv'
<1> USE AgentAssumption, ClosedIsRecord
    DEF IInv, TypeOK, Records, Links, CheckedBytes, Established, Idle, OnlyAgentsAreTold,
        OnlyHandshakesKeepSockets, Now, Goto, locals
<1>1. CASE Begin
  BY <1>1 DEF Begin
<1>2. CASE TestStopped
  BY <1>2 DEF TestStopped
<1>3. CASE OpenSocket
  BY <1>3 DEF OpenSocket, Closed
<1>4. CASE ConnectFails
  BY <1>4 DEF ConnectFails, GiveUp, Closed
<1>5. CASE Connect
  BY <1>5 DEF Connect, Closed
<1>6. CASE Receive
  <2>1. PICK n \in Now.recved + 1 .. Now.arrived :
          /\ conn' = [conn EXCEPT ![sock].recved = n]
          /\ recvCheck' = [i \in 1 .. 4 |->
               IF i \in Now.recved + 1 .. n THEN Now.word[i] ELSE recvCheck[i]]
          /\ pc' = IF n = 4 THEN "check" ELSE "recv"
    BY <1>6 DEF Receive
  <2>2. /\ pc = "recv" /\ Now.link \in {"up", "closed"} /\ UNCHANGED <<stopped, sock>>
        /\ sock \in Sockets /\ n \in 1 .. 4 /\ Now.sent = 0 /\ Now.told = 0
        /\ Now.recved \in 0 .. 3 /\ Now \in Records
    BY <1>6, <2>1 DEF Receive
  <2>3. /\ conn' \in [Sockets -> Records]
        /\ \A s \in Sockets \ {sock} : conn'[s] = conn[s]
        /\ conn'[sock] = [Now EXCEPT !.recved = n]
    BY <2>1, <2>2
  <2>4. recvCheck' \in [1 .. 4 -> BOOLEAN]
    <3>1. Now.word \in [1 .. 4 -> BOOLEAN]
      BY <2>2 DEF Right
    <3> QED
      BY <2>1, <3>1
  <2>5. \A i \in 1 .. n : recvCheck'[i] = Now.word[i]
    <3>1. \A i \in 1 .. Now.recved : recvCheck[i] = Now.word[i]
      BY <2>2
    <3>2. \A i \in 1 .. n : i \in 1 .. 4 /\ (i \in 1 .. Now.recved \/ i \in Now.recved + 1 .. n)
      BY ONLY <2>2
    <3>3. \A i \in 1 .. n :
            recvCheck'[i] = IF i \in Now.recved + 1 .. n THEN Now.word[i] ELSE recvCheck[i]
      BY ONLY <2>1, <3>2
    <3> QED
      BY ONLY <3>1, <3>2, <3>3
  <2>6. TypeOK'
    BY <2>1, <2>2, <2>3, <2>4
  <2>7. CheckedBytes'
    BY <2>2, <2>3, <2>5
  <2>8. Established'
    BY <2>1, <2>2, <2>3
  <2>9. Idle' /\ OnlyAgentsAreTold' /\ OnlyHandshakesKeepSockets'
    BY <2>2, <2>3
  <2> QED
    BY ONLY <2>6, <2>7, <2>8, <2>9 DEF IInv
<1>7. CASE ReceiveFails
  BY <1>7 DEF ReceiveFails, Closed
<1>8. CASE ReceiveEnd
  BY <1>8 DEF ReceiveEnd, GiveUp, Closed
<1>9. CASE Check
  <2>1. CASE recvCheck = Right
    <3>1. /\ Now.word \in [1 .. 4 -> BOOLEAN] /\ Right \in [1 .. 4 -> BOOLEAN]
          /\ \A i \in 1 .. 4 : Right[i] = Now.word[i]
      BY <1>9, <2>1 DEF Check, Right
    <3>2. Now.word = Right
      BY ONLY <3>1
    <3> QED
      BY <1>9, <2>1, <3>2 DEF Check
  <2>2. CASE recvCheck # Right
    BY <1>9, <2>2 DEF Check, GiveUp, Closed
  <2> QED
    BY <2>1, <2>2
<1>10. CASE Send
  BY <1>10 DEF Send, Closed
<1>11. CASE SendFails
  BY <1>11 DEF SendFails, Closed
<1>12. CASE Tell
  BY <1>12 DEF Tell, Closed
<1> QED
  BY <1>1, <1>2, <1>3, <1>4, <1>5, <1>6, <1>7, <1>8, <1>9, <1>10, <1>11, <1>12
  DEF ThreadStep

(* Neither does a step of the agent or of the destructor.                  *)
LEMMA OthersKeepInv ==
  ASSUME IInv, AgentStep \/ Stop
  PROVE  IInv'
<1> USE AgentAssumption, ClosedIsRecord
    DEF IInv, TypeOK, Records, Links, CheckedBytes, Established, Idle, OnlyAgentsAreTold,
        OnlyHandshakesKeepSockets, Now, Goto, locals, Closed
<1>1. ASSUME NEW s \in Sockets, AgentSends(s) PROVE IInv'
  BY <1>1 DEF AgentSends
<1>2. ASSUME NEW s \in Sockets, AgentCloses(s) PROVE IInv'
  BY <1>2 DEF AgentCloses
<1>3. ASSUME NEW s \in Sockets, AgentResets(s) PROVE IInv'
  BY <1>3 DEF AgentResets
<1>4. CASE Stop
  BY <1>4 DEF Stop
<1> QED
  BY <1>1, <1>2, <1>3, <1>4 DEF AgentStep

(* The invariant holds in every reachable state.                           *)
THEOREM AgentInvariant == Spec => []IInv
<1>1. IInv /\ UNCHANGED vars => IInv'
  BY DEF IInv, vars, TypeOK, CheckedBytes, Established, Idle, OnlyAgentsAreTold,
         OnlyHandshakesKeepSockets, Now
<1>2. IInv /\ [Next]_vars => IInv'
  BY <1>1, ThreadKeepsInv, OthersKeepInv DEF Next
<1> QED
  BY InitInv, <1>2, PTL DEF Spec

(* Types; the thread holds a descriptor exactly while it is connecting or  *)
(* connected.                                                              *)
THEOREM TypeCorrect == Spec => []TypeOK
<1>1. IInv => TypeOK
  BY DEF IInv
<1> QED
  BY <1>1, AgentInvariant, PTL

(* Number and password only go to an agent that said the whole right word. *)
THEOREM OnlyAgentsCorrect == Spec => []OnlyAgentsAreTold
<1>1. IInv => OnlyAgentsAreTold
  BY DEF IInv
<1> QED
  BY <1>1, AgentInvariant, PTL

(* A failed attempt leaks no descriptor.                                   *)
THEOREM SocketsCorrect == Spec => []OnlyHandshakesKeepSockets
<1>1. IInv => OnlyHandshakesKeepSockets
  BY DEF IInv
<1> QED
  BY <1>1, AgentInvariant, PTL
=============================================================================
