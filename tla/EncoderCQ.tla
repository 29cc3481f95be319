------------------------------ MODULE EncoderCQ ------------------------------
(***************************************************************************)
(* The circular queue of EncoderCQ.hpp / EncoderCQ.cpp.  Encoder owns two: *)
(* audioCQ (filled by encodeAudio and the silent-mode video callbacks) and *)
(* videoCQ (filled by the audio loop).  Producers call enqueue, consumers  *)
(* call dequeue and, when their loop ends, clear; controllers call start   *)
(* and stop.                                                               *)
(*                                                                         *)
(* enqueue runs under enqueueMtx and dequeue under dequeueMtx, so the two  *)
(* race on front, rear and the slots, and start and stop take no lock at   *)
(* all.  Every access to a shared field is therefore a step of its own.    *)
(* A step merges a lock acquisition with the first access after it, and a  *)
(* release with the last access before it.  The build (toLibrary.sh) does  *)
(* not optimise, so the accesses of one thread happen in program order.    *)
(*                                                                         *)
(* An element stands for its number in the order in which enqueue accepted *)
(* it (advanced rear); Garbage is the content of a cell nobody wrote.      *)
(***************************************************************************)
EXTENDS Integers

CONSTANTS
  Producers,    (* threads that call enqueue                               *)
  Consumers,    (* threads that call dequeue and clear                     *)
  Controllers,  (* threads that call start and stop                        *)
  NoThread,     (* owner of a free mutex                                   *)
  maxsize,      (* number of slots allocated by the constructor            *)
  MaxAccepted   (* bound on the elements accepted in a behaviour           *)

Threads == Producers \cup Consumers \cup Controllers

ASSUME QueueAssumption ==
  /\ maxsize \in Nat \ {0}
  /\ MaxAccepted \in Nat
  /\ Producers \cap Consumers = {}
  /\ Producers \cap Controllers = {}
  /\ Consumers \cap Controllers = {}
  /\ NoThread \notin Threads

(***************************************************************************)
(* front, rear   positions 0 .. maxsize: one more than there are slots     *)
(* queue         the slots 0 .. maxsize-1 and, at -1, the memory in front  *)
(*               of the array, which position 0 designates                 *)
(* isStop        set by stop, cleared by start                             *)
(* isWait        fixed by the constructor: does dequeue wait when empty    *)
(* enqueueMtx, dequeueMtx   the owner of each mutex                        *)
(* pc            the next step of each thread                              *)
(*                                                                         *)
(* The rest is history, read by no guard of the code:                      *)
(* accepted      elements accepted so far                                  *)
(* taken         how many of those were dequeued or cleared                *)
(* foundEmpty    consumers whose latest dequeue found the ring empty       *)
(* events        the irregular things that have happened so far            *)
(***************************************************************************)
VARIABLES front, rear, queue, isStop, isWait, enqueueMtx, dequeueMtx, pc,
          accepted, taken, foundEmpty, events

ringVars == <<front, rear, queue>>
lockVars == <<enqueueMtx, dequeueMtx>>
histVars == <<accepted, taken, foundEmpty, events>>
vars == <<front, rear, queue, isStop, isWait, enqueueMtx, dequeueMtx, pc,
          accepted, taken, foundEmpty, events>>

Garbage == 0
Slots == -1 .. (maxsize - 1)

(***************************************************************************)
(* "early": an element was read while enqueue was still storing it;        *)
(* "empty": dequeue moved front on an empty ring;                          *)
(* "overrun": enqueue moved rear onto front, in the one full ring that the *)
(*   test front == rear+1 does not recognise (front = 0, rear = maxsize);  *)
(* "clobbered": the memory in front of the array was reused;               *)
(* "wrong": dequeue returned something other than the oldest element.      *)
(***************************************************************************)
Hazards == {"early", "empty", "overrun", "clobbered"}
Clean == events \cap Hazards = {}

Init ==
  /\ front = 0 /\ rear = 0
  /\ queue = [s \in Slots |-> Garbage]
  /\ isStop = FALSE
  /\ isWait \in BOOLEAN
  /\ enqueueMtx = NoThread /\ dequeueMtx = NoThread
  /\ pc = [t \in Threads |-> "idle"]
  /\ accepted = 0 /\ taken = 0
  /\ foundEmpty = {} /\ events = {}

Goto(t, from, to) == pc[t] = from /\ pc' = [pc EXCEPT ![t] = to]

-----------------------------------------------------------------------------
(* enqueue *)

NextPosUnwrapped(pos) == pos + 1
NextPos(pos) == IF pos = maxsize THEN 0 ELSE pos + 1

SlotOfShifted(pos) == pos % maxsize
SlotOf(pos) == pos - 1

StorePending(s) == \E p \in Producers : pc[p] = "enq_store" /\ SlotOf(rear) = s

NeverFull == FALSE
IsFull == front = rear + 1

(* A stopped queue answers QUEUE_STOP and changes nothing. *)
Enqueue(p) ==
  /\ accepted < MaxAccepted
  /\ enqueueMtx = NoThread /\ ~isStop
  /\ Goto(p, "idle", "enq_full")
  /\ enqueueMtx' = p
  /\ UNCHANGED <<ringVars, isStop, isWait, dequeueMtx, histVars>>

TestFull(p) ==
  /\ Goto(p, "enq_full", IF IsFull THEN "idle" ELSE "enq_advance")
  /\ enqueueMtx' = IF IsFull THEN NoThread ELSE p
  /\ UNCHANGED <<ringVars, isStop, isWait, dequeueMtx, histVars>>

AdvanceRear(p) ==
  /\ Goto(p, "enq_advance", "enq_store")
  /\ rear' = NextPos(rear)
  /\ accepted' = accepted + 1
  /\ events' = events \cup
       (IF front = 0 /\ rear = maxsize THEN {"overrun"} ELSE {})
  /\ UNCHANGED <<front, queue, isStop, isWait, lockVars, taken, foundEmpty>>

StoreElement(p) ==
  /\ Goto(p, "enq_store", "enq_notify")
  /\ queue' = [queue EXCEPT ![SlotOf(rear)] = accepted]
  /\ UNCHANGED <<front, rear, isStop, isWait, lockVars, histVars>>

(* notify_one: wakes one waiting thread if there is one. *)
Waiting == {c \in Consumers : pc[c] = "waiting"}

NotifyOne(t, to) ==
  \/ Waiting = {} /\ pc' = [pc EXCEPT ![t] = to]
  \/ \E c \in Waiting : pc' = [pc EXCEPT ![t] = to, ![c] = "woken"]

NotifyAndReturn(p) ==
  /\ pc[p] = "enq_notify"
  /\ NotifyOne(p, "idle")
  /\ enqueueMtx' = NoThread
  /\ UNCHANGED <<ringVars, isStop, isWait, dequeueMtx, histVars>>

-----------------------------------------------------------------------------
(* dequeue *)

(* On an empty ring a queue that does not wait answers QUEUE_NOELEMENT. *)
Dequeue(c) ==
  /\ dequeueMtx = NoThread
  /\ front # rear \/ isWait
  /\ Goto(c, "idle", IF front = rear THEN "deq_before" ELSE "deq_stop")
  /\ dequeueMtx' = c
  /\ foundEmpty' = IF front = rear THEN foundEmpty \cup {c} ELSE foundEmpty \ {c}
  /\ UNCHANGED <<ringVars, isStop, isWait, enqueueMtx, accepted, taken, events>>

TestStopBeforeWait(c) ==
  /\ Goto(c, "deq_before", IF isStop THEN "deq_stop" ELSE "deq_wait")
  /\ UNCHANGED <<ringVars, isStop, isWait, lockVars, histVars>>

WaitHoldingLock(c) ==
  /\ Goto(c, "deq_wait", "waiting")
  /\ UNCHANGED <<ringVars, isStop, isWait, lockVars, histVars>>

Wait(c) ==
  /\ Goto(c, "deq_wait", "waiting")
  /\ dequeueMtx' = NoThread
  /\ UNCHANGED <<ringVars, isStop, isWait, enqueueMtx, histVars>>

(* boost::condition_variable may wake a thread that nobody notified. *)
SpuriousWake(c) ==
  /\ Goto(c, "waiting", "woken")
  /\ UNCHANGED <<ringVars, isStop, isWait, lockVars, histVars>>

(* The code does not look at front and rear again after the wait. *)
Reacquire(c) ==
  /\ dequeueMtx = NoThread
  /\ Goto(c, "woken", "deq_stop")
  /\ dequeueMtx' = c
  /\ UNCHANGED <<ringVars, isStop, isWait, enqueueMtx, histVars>>

TestStop(c) ==
  /\ Goto(c, "deq_stop", IF isStop THEN "idle" ELSE "deq_advance")
  /\ dequeueMtx' = IF isStop THEN NoThread ELSE c
  /\ UNCHANGED <<ringVars, isStop, isWait, enqueueMtx, histVars>>

AdvanceFront(c) ==
  /\ Goto(c, "deq_advance", "deq_read")
  /\ front' = NextPos(front)
  /\ taken' = IF taken < accepted THEN taken + 1 ELSE taken
  /\ events' = events \cup (IF front = rear THEN {"empty"} ELSE {})
  /\ UNCHANGED <<rear, queue, isStop, isWait, lockVars, accepted, foundEmpty>>

(* A slot that is being stored to may read as old, new or torn. *)
Readable(s) ==
  {queue[s]} \cup (IF StorePending(s) THEN {accepted, Garbage} ELSE {})

ReadElement(c) ==
  /\ Goto(c, "deq_read", "idle")
  /\ dequeueMtx' = NoThread
  /\ \E v \in Readable(SlotOf(front)) :
       events' = events
         \cup (IF StorePending(SlotOf(front)) THEN {"early"} ELSE {})
         \cup (IF v # taken THEN {"wrong"} ELSE {})
  /\ UNCHANGED <<ringVars, isStop, isWait, enqueueMtx, accepted, taken, foundEmpty>>

-----------------------------------------------------------------------------
(* clear, start, stop *)

ClearedSlotsInclusive ==
  IF rear >= front THEN front .. rear
  ELSE (0 .. (rear - 1)) \cup (front .. (maxsize - 1))

(* The slots whose data clear deletes. *)
ClearedSlots ==
  IF rear >= front THEN front .. (rear - 1)
  ELSE (0 .. (rear - 1)) \cup (front .. (maxsize - 1))

Clear(c) ==
  /\ enqueueMtx = NoThread
  /\ Goto(c, "idle", "clr_second")
  /\ enqueueMtx' = c
  /\ UNCHANGED <<ringVars, isStop, isWait, dequeueMtx, histVars>>

ClearWithoutDequeueLock(c) ==
  /\ Goto(c, "clr_second", "clr_free")
  /\ UNCHANGED <<ringVars, isStop, isWait, lockVars, histVars>>

ClearLockSecond(c) ==
  /\ dequeueMtx = NoThread
  /\ Goto(c, "clr_second", "clr_free")
  /\ dequeueMtx' = c
  /\ UNCHANGED <<ringVars, isStop, isWait, enqueueMtx, histVars>>

ClearFree(c) ==
  /\ Goto(c, "clr_free", "idle")
  /\ front' = 0 /\ rear' = 0
  /\ taken' = accepted
  /\ enqueueMtx' = NoThread /\ dequeueMtx' = NoThread
  /\ UNCHANGED <<queue, isStop, isWait, accepted, foundEmpty, events>>

Start(k) ==
  /\ pc[k] = "idle"
  /\ isStop' = FALSE
  /\ UNCHANGED <<ringVars, isWait, lockVars, pc, histVars>>

(* stop notifies first and raises isStop second. *)
StopNotify(k) ==
  /\ pc[k] = "idle"
  /\ NotifyOne(k, "stop_set")
  /\ UNCHANGED <<ringVars, isStop, isWait, lockVars, histVars>>

StopSet(k) ==
  /\ Goto(k, "stop_set", "idle")
  /\ isStop' = TRUE
  /\ UNCHANGED <<ringVars, isWait, lockVars, histVars>>

(* Environment: the memory in front of the array belongs to somebody else, *)
(* who may write it at any time.                                           *)
Clobber ==
  /\ queue[-1] # Garbage
  /\ queue' = [queue EXCEPT ![-1] = Garbage]
  /\ events' = events \cup {"clobbered"}
  /\ UNCHANGED <<front, rear, isStop, isWait, lockVars, pc, accepted, taken, foundEmpty>>

-----------------------------------------------------------------------------
ProducerStep(p) ==
  \/ Enqueue(p)
  \/ TestFull(p)
  \/ AdvanceRear(p)
  \/ StoreElement(p)
  \/ NotifyAndReturn(p)

ConsumerStep(c) ==
  \/ Dequeue(c)
  \/ TestStopBeforeWait(c)
  \/ Wait(c)
  \/ SpuriousWake(c)
  \/ Reacquire(c)
  \/ TestStop(c)
  \/ AdvanceFront(c)
  \/ ReadElement(c)
  \/ Clear(c)
  \/ ClearLockSecond(c)
  \/ ClearFree(c)

ControllerStep(k) ==
  \/ Start(k)
  \/ StopNotify(k)
  \/ StopSet(k)

Next ==
  \/ \E p \in Producers : ProducerStep(p)
  \/ \E c \in Consumers : ConsumerStep(c)
  \/ \E k \in Controllers : ControllerStep(k)
  \/ Clobber

Spec == Init /\ [][Next]_vars

(***************************************************************************)
(* Fairness.  A thread that holds a mutex runs on (WF of the steps inside  *)
(* the critical sections).  A thread blocked on a mutex that keeps being   *)
(* released gets it in the end (SF of the acquisitions).  Nothing obliges  *)
(* anyone to begin a call, and nothing wakes a waiting thread.             *)
(***************************************************************************)
Fairness ==
  /\ \A p \in Producers :
       WF_vars(TestFull(p) \/ AdvanceRear(p) \/ StoreElement(p) \/ NotifyAndReturn(p))
  /\ \A c \in Consumers :
       /\ WF_vars(TestStopBeforeWait(c) \/ Wait(c) \/ TestStop(c)
                    \/ AdvanceFront(c) \/ ReadElement(c) \/ ClearFree(c))
       /\ SF_vars(Reacquire(c))
       /\ SF_vars(ClearLockSecond(c))

FairSpec == Spec /\ Fairness

-----------------------------------------------------------------------------
(* Properties *)

ProducerPCs == {"idle", "enq_full", "enq_advance", "enq_store", "enq_notify"}
ConsumerPCs == {"idle", "deq_before", "deq_wait", "waiting", "woken", "deq_stop",
                "deq_advance", "deq_read", "clr_second", "clr_free"}
ControllerPCs == {"idle", "stop_set"}

(* Types; in particular front and rear stay within the maxsize + 1         *)
(* positions the wrap-around of enqueue and dequeue knows.                 *)
TypeOK ==
  /\ front \in 0 .. maxsize
  /\ rear \in 0 .. maxsize
  /\ queue \in [Slots -> 0 .. MaxAccepted]
  /\ isStop \in BOOLEAN
  /\ isWait \in BOOLEAN
  /\ enqueueMtx \in Threads \cup {NoThread}
  /\ dequeueMtx \in Threads \cup {NoThread}
  /\ pc \in [Threads -> ProducerPCs \cup ConsumerPCs \cup ControllerPCs]
  /\ \A p \in Producers : pc[p] \in ProducerPCs
  /\ \A c \in Consumers : pc[c] \in ConsumerPCs
  /\ \A k \in Controllers : pc[k] \in ControllerPCs
  /\ accepted \in 0 .. MaxAccepted
  /\ taken \in 0 .. accepted
  /\ foundEmpty \subseteq Consumers
  /\ events \subseteq Hazards \cup {"wrong"}

EnqueuePCs == {"enq_full", "enq_advance", "enq_store", "enq_notify",
               "clr_second", "clr_free"}
DequeuePCs == {"deq_before", "deq_wait", "deq_stop", "deq_advance", "deq_read",
               "clr_free"}

(* A thread owns enqueueMtx (dequeueMtx) exactly while it is in the part   *)
(* of enqueue, dequeue or clear that the lock object covers; in particular *)
(* cond.wait gives dequeueMtx up and clear holds both when it resets.      *)
LocksFollowCode ==
  \A t \in Threads :
    /\ pc[t] \in EnqueuePCs <=> enqueueMtx = t
    /\ pc[t] \in DequeuePCs <=> dequeueMtx = t

(* The position j steps behind front, going round the maxsize + 1          *)
(* positions, and the number of elements the queue should hold.            *)
Pos(j) == IF front + j <= maxsize THEN front + j ELSE front + j - (maxsize + 1)
Backlog == accepted - taken

(* Until one of the hazards happens, the ring is the FIFO it is meant to   *)
(* be, wrap-around through the cell at -1 included: rear is Backlog        *)
(* positions behind front, never more than maxsize, and the cells between  *)
(* hold the accepted elements in order, except the last while enqueue is   *)
(* still storing it.                                                       *)
RingHoldsBacklog ==
  Clean =>
    /\ Backlog <= maxsize
    /\ rear = Pos(Backlog)
    /\ \A j \in 1 .. Backlog :
         \/ queue[Pos(j) - 1] = taken + j
         \/ j = Backlog /\ \E p \in Producers : pc[p] = "enq_store"

(* dequeue hands out an element that is not the oldest one only after an   *)
(* early read, an empty take, an overrun or a clobbered cell: there is no  *)
(* fifth way in which the two-mutex scheme loses the order.                *)
WrongOnlyAfterHazard == "wrong" \in events => ~Clean

(* A dequeue that found an element on entry still has one to take when it  *)
(* moves front, whatever the other threads did in between; only a dequeue  *)
(* that found the ring empty, and does not look again after its wait or    *)
(* after a stop, can take from an empty ring.  (Once one of those did, or  *)
(* an overrun made a full ring look empty, the positions say nothing.)     *)
FoundElementStays ==
  \A c \in Consumers :
    pc[c] = "deq_advance" /\ c \notin foundEmpty /\ events \cap {"empty", "overrun"} = {}
      => front # rear

(* clear deletes the data of each queued element once and of nothing else; *)
(* the one it misses, after a wrap-around, is the element at -1.           *)
ClearFreesBacklog ==
  (Clean /\ \E c \in Consumers : pc[c] = "clr_free")
    => ClearedSlots = {Pos(j) - 1 : j \in 1 .. Backlog} \ {-1}

(* What the ring holds as a sequence: the cells from front to rear, the    *)
(* one that enqueue is about to store counted as stored.                   *)
Distance == IF rear >= front THEN rear - front ELSE rear + maxsize + 1 - front
Contents ==
  [j \in 1 .. Distance |->
     IF StorePending(Pos(j) - 1) THEN accepted ELSE queue[Pos(j) - 1]]

(* The two-mutex ring is the bounded FIFO that the encoder takes it for    *)
(* (EncoderCQ.cpp:55-90), every step of it, until a hazard has happened.   *)
Fifo == INSTANCE BoundedFifo WITH
  Capacity <- maxsize, items <- Contents, put <- accepted,
  misread <- "wrong" \in events, broken <- ~Clean
ImplementsFifo == Fifo!Spec

(* clear always gets through: its lock order cannot deadlock, and neither  *)
(* producers nor a consumer waiting on the condition keep it out.          *)
ClearCompletes ==
  \A c \in Consumers : pc[c] = "clr_second" ~> pc[c] = "idle"

(* A consumer that was woken leaves dequeue.                               *)
WokenReturns ==
  \A c \in Consumers : pc[c] = "woken" ~> pc[c] = "idle"

(* Collabo.cpp:528 says that initialize, stop, encodeVideo and encodeAudio *)
(* are thread-safe: encodeAudio's enqueue against the audio loop's dequeue *)
(* should never let an element out before it is stored.                    *)
NoEarlyRead == "early" \notin events
=============================================================================
