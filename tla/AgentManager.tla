---------------------------- MODULE AgentManager ----------------------------
(***************************************************************************)
(* The thread of AgentManager::run: it connects to the agent of the        *)
(* meeting, waits for the agent's word of four bytes, answers with four    *)
(* bytes, and sends the number and the password of the meeting.            *)
(*                                                                         *)
(* clbStart calls run once and nobody calls stop but the destructor of the *)
(* static manager, that is exit(), while the detached thread still runs.   *)
(* The kernel's side of a connection and the agent are modelled from how   *)
(* the code uses them: a recv may give fewer bytes than asked for, time    *)
(* out after SO_RCVTIMEO (-1), or report the end of the connection (0); a  *)
(* send may take fewer bytes, or fail.  (QEMU ignores SIGPIPE.)            *)
(***************************************************************************)
EXTENDS Integers, FiniteSets

CONSTANTS
  Sockets,  (* the descriptors the process has left                        *)
  None,     (* no descriptor                                               *)
  Words     (* what an agent may say: four bytes each, TRUE if as expected *)

Right == [i \in 1 .. 4 |-> TRUE]

ASSUME AgentAssumption ==
  /\ None \notin Sockets
  /\ Words \subseteq [1 .. 4 -> BOOLEAN]

(***************************************************************************)
(* stopped, sock, recvCheck   the variables of the code; recvCheck[i] says *)
(*            whether byte i is the expected one, and lives on the stack   *)
(*            from one turn of the loop to the next                        *)
(* pc         the next step of the thread                                  *)
(* conn       of each descriptor: the state of its link ("free" for one    *)
(*            that is not open, "reset" until the error has been reported, *)
(*            "dead" afterwards), what the agent says on it, how many      *)
(*            bytes of that have arrived and been received, how many of    *)
(*            the answer and how many parts of the details were sent       *)
(***************************************************************************)
VARIABLES stopped, sock, recvCheck, pc, conn

locals == <<stopped, sock, recvCheck>>
vars == <<stopped, sock, recvCheck, pc, conn>>

Closed == [link |-> "free", word |-> Right, arrived |-> 0, recved |-> 0,
           sent |-> 0, told |-> 0]

Init ==
  /\ stopped = FALSE
  /\ sock = None
  /\ recvCheck = [i \in 1 .. 4 |-> FALSE]
  /\ pc = "start"
  /\ conn = [s \in Sockets |-> Closed]

Goto(from, to) == pc = from /\ pc' = to
Now == conn[sock]

(* close(sock) and the next turn of the loop, after sleep(1) or at once.   *)
GiveUp ==
  /\ pc' = "test"
  /\ conn' = [conn EXCEPT ![sock] = Closed]
  /\ sock' = None

-----------------------------------------------------------------------------
(* The thread *)

(* Its first line undoes a stop that came before it.                       *)
Begin ==
  /\ Goto("start", "test")
  /\ stopped' = FALSE
  /\ UNCHANGED <<sock, recvCheck, conn>>

TestNothing ==
  /\ Goto("test", "socket")
  /\ UNCHANGED <<locals, conn>>

TestStopped ==
  /\ Goto("test", IF stopped THEN "ended" ELSE "socket")
  /\ UNCHANGED <<locals, conn>>

(* Without a descriptor the thread returns. *)
OpenSocket ==
  LET free == {s \in Sockets : conn[s].link = "free"} IN
  /\ pc = "socket"
  /\ IF free = {} THEN pc' = "ended" /\ UNCHANGED <<sock, conn>>
     ELSE \E s \in free :
            /\ pc' = "connect"
            /\ sock' = s
            /\ conn' = [conn EXCEPT ![s].link = "new"]
  /\ UNCHANGED <<stopped, recvCheck>>

ConnectFails ==
  /\ pc = "connect"
  /\ GiveUp
  /\ UNCHANGED <<stopped, recvCheck>>

Connect ==
  /\ Goto("connect", "recv")
  /\ \E w \in Words : conn' = [conn EXCEPT ![sock].link = "up", ![sock].word = w]
  /\ UNCHANGED locals

(* recv > 0: what was received joins the bytes before it. *)
Receive ==
  /\ pc = "recv" /\ Now.link \in {"up", "closed"}
  /\ \E n \in Now.recved + 1 .. Now.arrived :
       /\ conn' = [conn EXCEPT ![sock].recved = n]
       /\ recvCheck' = [i \in 1 .. 4 |->
            IF i \in Now.recved + 1 .. n THEN Now.word[i] ELSE recvCheck[i]]
       /\ pc' = IF n = 4 THEN "check" ELSE "recv"
  /\ UNCHANGED <<stopped, sock>>

(* recv < 0: nothing came for three seconds, or an error.  The loop goes   *)
(* on in both cases.                                                       *)
ReceiveFails ==
  /\ pc = "recv"
  /\ Now.link = "reset" \/ (Now.link = "up" /\ Now.recved = Now.arrived)
  /\ conn' = [conn EXCEPT ![sock].link = IF @ = "reset" THEN "dead" ELSE @]
  /\ UNCHANGED <<locals, pc>>

AtEnd ==
  \/ Now.link = "dead"
  \/ Now.link = "closed" /\ Now.recved = Now.arrived

ReceiveEndIgnored ==
  /\ pc = "recv" /\ AtEnd
  /\ UNCHANGED vars

ReceiveEndFallsThrough ==
  /\ Goto("recv", "check")
  /\ AtEnd
  /\ UNCHANGED <<locals, conn>>

ReceiveEndWithoutContinue ==
  /\ Goto("recv", "check")
  /\ AtEnd
  /\ conn' = [conn EXCEPT ![sock] = Closed]
  /\ sock' = None
  /\ UNCHANGED <<stopped, recvCheck>>

(* recv = 0, called a timeout: the end of the connection. *)
ReceiveEnd ==
  /\ pc = "recv" /\ AtEnd
  /\ GiveUp
  /\ UNCHANGED <<stopped, recvCheck>>

CheckWithoutClose ==
  /\ pc = "check"
  /\ pc' = IF recvCheck = Right THEN "send" ELSE "test"
  /\ sock' = IF recvCheck = Right THEN sock ELSE None
  /\ UNCHANGED <<stopped, recvCheck, conn>>

Check ==
  /\ pc = "check"
  /\ IF recvCheck = Right THEN pc' = "send" /\ UNCHANGED <<sock, conn>> ELSE GiveUp
  /\ UNCHANGED <<stopped, recvCheck>>

(* The answer, in as many sends as it takes.  send never gives 0 here.     *)
Send ==
  /\ pc = "send" /\ Now.link \in {"up", "closed"}
  /\ \E n \in Now.sent + 1 .. 4 :
       /\ conn' = [conn EXCEPT ![sock].sent = n]
       /\ pc' = IF n = 4 THEN "tell" ELSE "send"
  /\ UNCHANGED locals

(* send < 0: the loop goes on for ever, for the link does not come back.   *)
SendFails ==
  /\ pc = "send" /\ Now.link \in {"reset", "dead"}
  /\ conn' = [conn EXCEPT ![sock].link = "dead"]
  /\ UNCHANGED <<locals, pc>>

(* Length and text of number and password, in four sends whose results are *)
(* not looked at; then the next turn, and sock is forgotten, not closed.   *)
Tell ==
  /\ pc = "tell"
  /\ \E n \in {k \in 0 .. 4 : Now.link \in {"up", "closed"} => k = 4} :
       conn' = [conn EXCEPT ![sock].told = n,
                  ![sock].link = IF @ = "reset" THEN "dead" ELSE @]
  /\ pc' = "test"
  /\ sock' = None
  /\ UNCHANGED <<stopped, recvCheck>>

(* The destructor, at exit(); the thread may still run for a while.        *)
Stop ==
  /\ ~stopped
  /\ stopped' = TRUE
  /\ UNCHANGED <<sock, recvCheck, pc, conn>>

-----------------------------------------------------------------------------
(* The agent *)

AgentSends(s) ==
  /\ conn[s].link = "up" /\ conn[s].arrived < 4
  /\ conn' = [conn EXCEPT ![s].arrived = @ + 1]
  /\ UNCHANGED <<locals, pc>>

AgentCloses(s) ==
  /\ conn[s].link = "up"
  /\ conn' = [conn EXCEPT ![s].link = "closed"]
  /\ UNCHANGED <<locals, pc>>

(* The agent, or its machine, is gone: what it sent is lost with it.       *)
AgentResets(s) ==
  /\ conn[s].link \in {"up", "closed"}
  /\ conn' = [conn EXCEPT ![s].link = "reset"]
  /\ UNCHANGED <<locals, pc>>

-----------------------------------------------------------------------------
ThreadStep ==
  \/ Begin
  \/ TestStopped
  \/ OpenSocket
  \/ ConnectFails
  \/ Connect
  \/ Receive
  \/ ReceiveFails
  \/ ReceiveEnd
  \/ Check
  \/ Send
  \/ SendFails
  \/ Tell

AgentStep == \E s \in Sockets : AgentSends(s) \/ AgentCloses(s) \/ AgentResets(s)

Next == ThreadStep \/ AgentStep \/ Stop

Spec == Init /\ [][Next]_vars

(***************************************************************************)
(* The thread runs on.  A recv answers with what has arrived, or with the  *)
(* end of the connection, rather than with a timeout for ever.             *)
(***************************************************************************)
Fairness == WF_vars(ThreadStep) /\ WF_vars(Receive \/ ReceiveEnd)
FairSpec == Spec /\ Fairness

-----------------------------------------------------------------------------
(* Properties *)

TypeOK ==
  /\ stopped \in BOOLEAN
  /\ sock \in Sockets \cup {None}
  /\ recvCheck \in [1 .. 4 -> BOOLEAN]
  /\ pc \in {"start", "test", "socket", "connect", "recv", "check", "send", "tell", "ended"}
  /\ (sock = None) <=> (pc \in {"start", "test", "socket", "ended"})
  /\ conn \in [Sockets ->
       [link : {"free", "new", "up", "closed", "reset", "dead"},
        word : Words \cup {Right}, arrived : 0 .. 4, recved : 0 .. 4,
        sent : 0 .. 4, told : 0 .. 4]]

(* The number and the password of the meeting go out only on a connection  *)
(* whose agent said all four bytes right, and after the whole answer;      *)
(* bytes of an earlier connection, left in recvCheck on the stack, never   *)
(* stand in for bytes that did not arrive (AgentManager.cpp:52-105).       *)
OnlyAgentsAreTold ==
  \A s \in Sockets :
    conn[s].told > 0 =>
      conn[s].word = Right /\ conn[s].recved = 4 /\ conn[s].sent = 4

(* A failed attempt leaks no descriptor: those open besides sock are the   *)
(* connections of completed handshakes, which the code leaves open and     *)
(* forgets (AgentManager.cpp:47, 71, 94, 107).                             *)
OnlyHandshakesKeepSockets ==
  \A s \in Sockets : conn[s].link # "free" => s = sock \/ conn[s].sent = 4

(* The agent, once connected, says its word or goes; and the connection    *)
(* does not break while the code answers.                                  *)
AgentAnswers ==
  []<>(sock = None \/ pc = "connect" \/ Now.link # "up" \/ Now.arrived = 4)
AnswersArrive == <>[](pc = "send" => Now.link \in {"up", "closed"})

(* stop ends the thread, whatever it was doing, if it comes after the      *)
(* thread's first line and the agent is not silent (AgentManager.cpp:19).  *)
StopEndsThread ==
  AgentAnswers /\ AnswersArrive => (stopped /\ pc # "start" ~> pc = "ended")

(* Without a stop every attempt ends and is followed by another, whether   *)
(* the agent went, said something else or was told, as long as there are   *)
(* descriptors (AgentManager.cpp:27, 68-72, 106-109).                      *)
KeepsServing ==
  AgentAnswers /\ AnswersArrive =>
    (pc = "recv" ~> \/ pc = "connect" \/ stopped
                    \/ \A s \in Sockets : conn[s].sent = 4)
=============================================================================
