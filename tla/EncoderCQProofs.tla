--------------------------- MODULE EncoderCQProofs ---------------------------
(* Theorems about EncoderCQ for every number of threads and every size.    *)
EXTENDS EncoderCQ, Sequences, TLAPS

(* A producer past the test of its budget still has it: accepted moves     *)
(* only under enqueueMtx.                                                  *)
BudgetKept ==
  \A p \in Producers : pc[p] \in {"enq_full", "enq_advance"} => accepted < MaxAccepted

LockInv == TypeOK /\ LocksFollowCode /\ BudgetKept

(* The constructor leaves both mutexes free and every index at 0.          *)
LEMMA InitLockInv == Init => LockInv
<1> SUFFICES ASSUME Init PROVE LockInv
  OBVIOUS
<1> USE QueueAssumption DEF Init
<1>1. TypeOK
  <2>1. queue \in [Slots -> 0 .. MaxAccepted]
    BY DEF Garbage
  <2>2. pc \in [Threads -> ProducerPCs \cup ConsumerPCs \cup ControllerPCs]
    BY DEF ProducerPCs
  <2>3. \A t \in Threads : pc[t] = "idle"
    OBVIOUS
  <2>4. /\ \A p \in Producers : pc[p] \in ProducerPCs
        /\ \A c \in Consumers : pc[c] \in ConsumerPCs
        /\ \A k \in Controllers : pc[k] \in ControllerPCs
    BY <2>3 DEF Threads, ProducerPCs, ConsumerPCs, ControllerPCs
  <2>5. /\ front \in 0 .. maxsize /\ rear \in 0 .. maxsize
        /\ accepted \in 0 .. MaxAccepted /\ taken \in 0 .. accepted
    OBVIOUS
  <2> QED
    BY <2>1, <2>2, <2>4, <2>5 DEF TypeOK
<1>2. LocksFollowCode
  BY DEF LocksFollowCode, EnqueuePCs, DequeuePCs
<1>3. BudgetKept
  BY DEF BudgetKept, Threads
<1> QED
  BY <1>1, <1>2, <1>3 DEF LockInv

(* No step of enqueue breaks the types or the lock discipline.             *)
LEMMA ProducerKeepsLockInv ==
  ASSUME LockInv, NEW p \in Producers, ProducerStep(p)
  PROVE  LockInv'
<1> USE QueueAssumption
    DEF LockInv, TypeOK, LocksFollowCode, BudgetKept, Goto, ringVars, lockVars, histVars,
        Threads, EnqueuePCs, DequeuePCs, ProducerPCs, ConsumerPCs, ControllerPCs, Hazards
<1>1. CASE Enqueue(p)
  BY <1>1 DEF Enqueue
<1>2. CASE TestFull(p)
  BY <1>2 DEF TestFull
<1>3. CASE AdvanceRear(p)
  BY <1>3 DEF AdvanceRear, NextPos
<1>4. CASE StoreElement(p)
  BY <1>4 DEF StoreElement, SlotOf, Slots
<1>5. CASE NotifyAndReturn(p)
  BY <1>5 DEF NotifyAndReturn, NotifyOne, Waiting
<1> QED
  BY <1>1, <1>2, <1>3, <1>4, <1>5 DEF ProducerStep

(* No step of dequeue or clear breaks the types or the lock discipline.    *)
LEMMA ConsumerKeepsLockInv ==
  ASSUME LockInv, NEW c \in Consumers, ConsumerStep(c)
  PROVE  LockInv'
<1> USE QueueAssumption
    DEF LockInv, TypeOK, LocksFollowCode, BudgetKept, Goto, ringVars, lockVars, histVars,
        Threads, EnqueuePCs, DequeuePCs, ProducerPCs, ConsumerPCs, ControllerPCs, Hazards
<1>1. CASE Dequeue(c)
  BY <1>1 DEF Dequeue
<1>2. CASE TestStopBeforeWait(c)
  BY <1>2 DEF TestStopBeforeWait
<1>3. CASE Wait(c)
  BY <1>3 DEF Wait
<1>4. CASE SpuriousWake(c)
  BY <1>4 DEF SpuriousWake
<1>5. CASE Reacquire(c)
  BY <1>5 DEF Reacquire
<1>6. CASE TestStop(c)
  BY <1>6 DEF TestStop
<1>7. CASE AdvanceFront(c)
  BY <1>7 DEF AdvanceFront, NextPos
<1>8. CASE ReadElement(c)
  BY <1>8 DEF ReadElement
<1>9. CASE Clear(c)
  BY <1>9 DEF Clear
<1>10. CASE ClearLockSecond(c)
  BY <1>10 DEF ClearLockSecond
<1>11. CASE ClearFree(c)
  BY <1>11 DEF ClearFree
<1> QED
  BY <1>1, <1>2, <1>3, <1>4, <1>5, <1>6, <1>7, <1>8, <1>9, <1>10, <1>11
  DEF ConsumerStep

(* start, stop and foreign writes to the memory at -1 touch no lock.       *)
LEMMA OthersKeepLockInv ==
  ASSUME LockInv, (\E k \in Controllers : ControllerStep(k)) \/ Clobber
  PROVE  LockInv'
<1> USE QueueAssumption
    DEF LockInv, TypeOK, LocksFollowCode, BudgetKept, Goto, ringVars, lockVars, histVars,
        Threads, EnqueuePCs, DequeuePCs, ProducerPCs, ConsumerPCs, ControllerPCs, Hazards
<1>1. ASSUME NEW k \in Controllers, Start(k) PROVE LockInv'
  BY <1>1 DEF Start
<1>2. ASSUME NEW k \in Controllers, StopNotify(k) PROVE LockInv'
  BY <1>2 DEF StopNotify, NotifyOne, Waiting
<1>3. ASSUME NEW k \in Controllers, StopSet(k) PROVE LockInv'
  BY <1>3 DEF StopSet
<1>4. CASE Clobber
  BY <1>4 DEF Clobber, Slots, Garbage
<1> QED
  BY <1>1, <1>2, <1>3, <1>4 DEF ControllerStep

(* The types and the lock discipline are inductive.                        *)
LEMMA StepKeepsLockInv == LockInv /\ [Next]_vars => LockInv'
<1> SUFFICES ASSUME LockInv, [Next]_vars PROVE LockInv'
  OBVIOUS
<1>1. CASE Next
  BY <1>1, ProducerKeepsLockInv, ConsumerKeepsLockInv, OthersKeepLockInv DEF Next
<1>2. CASE UNCHANGED vars
  BY <1>2 DEF vars, LockInv, TypeOK, LocksFollowCode, BudgetKept
<1> QED
  BY <1>1, <1>2

(* Every reachable state has the right types, each mutex is owned by the   *)
(* thread inside the code it covers, and enqueue keeps to the bound.       *)
THEOREM LockInvariant == Spec => []LockInv
BY InitLockInv, StepKeepsLockInv, PTL DEF Spec

(* Types: front and rear stay within the maxsize + 1 positions, whatever   *)
(* races enqueue and dequeue run into.                                     *)
THEOREM TypeCorrect == Spec => []TypeOK
<1>1. LockInv => TypeOK
  BY DEF LockInv
<1> QED
  BY <1>1, LockInvariant, PTL

(* Each mutex is owned exactly in the code its lock object covers.         *)
THEOREM LocksCorrect == Spec => []LocksFollowCode
<1>1. LockInv => LocksFollowCode
  BY DEF LockInv
<1> QED
  BY <1>1, LockInvariant, PTL

-----------------------------------------------------------------------------
(* The positions.  Nothing but an empty take or an overrun disturbs them.  *)

InShape == events \cap {"empty", "overrun"} = {}

(* The room found by TestFull and the element found by dequeue are still   *)
(* there when the thread acts on them, and every other dequeue found the   *)
(* ring empty on entry.                                                    *)
RoomStays == \A p \in Producers : pc[p] = "enq_advance" => front # rear + 1
ElementStays ==
  \A c \in Consumers :
    pc[c] \in {"deq_stop", "deq_advance"} /\ c \notin foundEmpty => front # rear
WaiterFoundEmpty ==
  \A c \in Consumers :
    pc[c] \in {"deq_before", "deq_wait", "waiting", "woken"} => c \in foundEmpty

ShapeInv ==
  /\ WaiterFoundEmpty
  /\ InShape => /\ Backlog \in 0 .. maxsize
                /\ rear = Pos(Backlog)
                /\ RoomStays
                /\ ElementStays

(* enqueue keeps front, rear and the backlog in step, until an overrun.    *)
LEMMA ProducerKeepsShape ==
  ASSUME LockInv, ShapeInv, NEW p \in Producers, ProducerStep(p)
  PROVE  ShapeInv'
<1> USE QueueAssumption
    DEF LockInv, TypeOK, LocksFollowCode, ShapeInv, InShape, RoomStays, ElementStays,
        WaiterFoundEmpty, Backlog, Pos,
        Goto, ringVars, lockVars, histVars, Threads, EnqueuePCs, DequeuePCs
<1>1. CASE Enqueue(p)
  BY <1>1 DEF Enqueue
<1>2. CASE TestFull(p)
  BY <1>2 DEF TestFull, IsFull
<1>3. CASE AdvanceRear(p)
  BY <1>3 DEF AdvanceRear, NextPos
<1>4. CASE StoreElement(p)
  BY <1>4 DEF StoreElement
<1>5. CASE NotifyAndReturn(p)
  BY <1>5 DEF NotifyAndReturn, NotifyOne, Waiting
<1> QED
  BY <1>1, <1>2, <1>3, <1>4, <1>5 DEF ProducerStep

(* dequeue and clear do too, until a take from an empty ring.              *)
LEMMA ConsumerKeepsShape ==
  ASSUME LockInv, ShapeInv, NEW c \in Consumers, ConsumerStep(c)
  PROVE  ShapeInv'
<1> USE QueueAssumption
    DEF LockInv, TypeOK, LocksFollowCode, ShapeInv, InShape, RoomStays, ElementStays,
        WaiterFoundEmpty, Backlog, Pos,
        Goto, ringVars, lockVars, histVars, Threads, EnqueuePCs, DequeuePCs
<1>1. CASE Dequeue(c)
  BY <1>1 DEF Dequeue
<1>2. CASE TestStopBeforeWait(c)
  BY <1>2 DEF TestStopBeforeWait
<1>3. CASE Wait(c)
  BY <1>3 DEF Wait
<1>4. CASE SpuriousWake(c)
  BY <1>4 DEF SpuriousWake
<1>5. CASE Reacquire(c)
  BY <1>5 DEF Reacquire
<1>6. CASE TestStop(c)
  BY <1>6 DEF TestStop
<1>7. CASE AdvanceFront(c)
  BY <1>7 DEF AdvanceFront, NextPos
<1>8. CASE ReadElement(c)
  BY <1>8 DEF ReadElement
<1>9. CASE Clear(c)
  BY <1>9 DEF Clear
<1>10. CASE ClearLockSecond(c)
  BY <1>10 DEF ClearLockSecond
<1>11. CASE ClearFree(c)
  BY <1>11 DEF ClearFree
<1> QED
  BY <1>1, <1>2, <1>3, <1>4, <1>5, <1>6, <1>7, <1>8, <1>9, <1>10, <1>11
  DEF ConsumerStep

(* start, stop and foreign writes to the memory at -1 move no index.       *)
LEMMA OthersKeepShape ==
  ASSUME LockInv, ShapeInv, (\E k \in Controllers : ControllerStep(k)) \/ Clobber
  PROVE  ShapeInv'
<1> USE QueueAssumption
    DEF LockInv, TypeOK, LocksFollowCode, ShapeInv, InShape, RoomStays, ElementStays,
        WaiterFoundEmpty, Backlog, Pos,
        Goto, ringVars, lockVars, histVars, Threads, EnqueuePCs, DequeuePCs
<1>1. ASSUME NEW k \in Controllers, Start(k) PROVE ShapeInv'
  BY <1>1 DEF Start
<1>2. ASSUME NEW k \in Controllers, StopNotify(k) PROVE ShapeInv'
  BY <1>2 DEF StopNotify, NotifyOne, Waiting
<1>3. ASSUME NEW k \in Controllers, StopSet(k) PROVE ShapeInv'
  BY <1>3 DEF StopSet
<1>4. CASE Clobber
  BY <1>4 DEF Clobber
<1> QED
  BY <1>1, <1>2, <1>3, <1>4 DEF ControllerStep

-----------------------------------------------------------------------------
(* The contents of the cells.                                              *)

Storing == \E p \in Producers : pc[p] = "enq_store"

(* The cell a consumer is about to read holds the element it took, unless  *)
(* that element is still being stored.                                     *)
CellReady ==
  \A c \in Consumers :
    pc[c] = "deq_read" => queue[front - 1] = taken \/ (Storing /\ front = rear)

CellsInOrder ==
  \A j \in 1 .. Backlog :
    queue[Pos(j) - 1] = taken + j \/ (j = Backlog /\ Storing)

ContentInv ==
  /\ Clean => CellsInOrder /\ CellReady
  /\ WrongOnlyAfterHazard

(* enqueue disturbs no cell that holds a queued element.                   *)
LEMMA ProducerKeepsContent ==
  ASSUME LockInv, ShapeInv, ContentInv, NEW p \in Producers, ProducerStep(p)
  PROVE  ContentInv'
<1> USE QueueAssumption
    DEF LockInv, TypeOK, LocksFollowCode, ShapeInv, InShape, Clean, Hazards,
        ContentInv, CellsInOrder, CellReady, Storing, WrongOnlyAfterHazard,
        Backlog, Pos, Slots, Goto, ringVars, lockVars, histVars, Threads,
        EnqueuePCs, DequeuePCs
<1>1. CASE Enqueue(p)
  BY <1>1 DEF Enqueue
<1>2. CASE TestFull(p)
  BY <1>2 DEF TestFull
<1>3. CASE AdvanceRear(p)
  <2> USE <1>3 DEF AdvanceRear, NextPos
  <2>1. ~Storing /\ Storing'
    OBVIOUS
  <2>2. ASSUME Clean' PROVE Clean /\ Backlog' = Backlog + 1
    BY <2>2
  <2>3. ASSUME Clean' PROVE CellsInOrder'
    <3>1. CellsInOrder
      BY <2>2, <2>3
    <3>2. ASSUME NEW j \in 1 .. Backlog PROVE queue'[Pos(j)' - 1] = taken' + j
      BY <2>1, <3>1, <3>2
    <3>3. \A j \in 1 .. Backlog' : j \in 1 .. Backlog \/ j = Backlog'
      BY <2>2, <2>3
    <3> QED
      BY ONLY <2>1, <3>2, <3>3 DEF CellsInOrder
  <2>4. ASSUME Clean' PROVE CellReady'
    BY <2>1, <2>2, <2>4
  <2>5. WrongOnlyAfterHazard'
    BY <2>2
  <2> QED
    BY ONLY <2>3, <2>4, <2>5 DEF ContentInv
<1>4. CASE StoreElement(p)
  <2> USE <1>4 DEF StoreElement, SlotOf
  <2>1. ~Storing'
    OBVIOUS
  <2>2. queue'[rear - 1] = accepted
    OBVIOUS
  <2>3. ASSUME Clean' PROVE CellsInOrder'
    <3>1. CellsInOrder /\ Backlog \in 0 .. maxsize /\ rear = Pos(Backlog)
      BY <2>3
    <3>2. Pos(Backlog)' = rear /\ Backlog' = Backlog /\ taken' = taken
            /\ accepted = taken + Backlog /\ Backlog \in Int
      BY <3>1
    <3>3. ASSUME NEW j \in 1 .. Backlog, j # Backlog
          PROVE  queue'[Pos(j) - 1] = taken + j /\ Pos(j)' = Pos(j)
      <4>1. queue[Pos(j) - 1] = taken + j
        BY ONLY <3>1, <3>3 DEF CellsInOrder
      <4>2. Pos(j) - 1 \in Slots \ {rear - 1}
        BY ONLY <3>1, <3>3, LockInv, QueueAssumption DEF Pos, Slots, LockInv, TypeOK
      <4> QED
        BY <4>1, <4>2
    <3> QED
      BY ONLY <2>2, <3>2, <3>3 DEF CellsInOrder
  <2>4. ASSUME Clean' PROVE CellReady'
    <3>1. Clean /\ (front = rear => taken = accepted)
      BY <2>4
    <3> QED
      BY <2>1, <2>2, <3>1
  <2>5. WrongOnlyAfterHazard'
    OBVIOUS
  <2> QED
    BY ONLY <2>3, <2>4, <2>5 DEF ContentInv
<1>5. CASE NotifyAndReturn(p)
  BY <1>5 DEF NotifyAndReturn, NotifyOne, Waiting
<1> QED
  BY <1>1, <1>2, <1>3, <1>4, <1>5 DEF ProducerStep

(* dequeue and clear leave the cells of the remaining elements in order,   *)
(* and dequeue returns the oldest unless it reads while enqueue stores.    *)
LEMMA ConsumerKeepsContent ==
  ASSUME LockInv, ShapeInv, ContentInv, NEW c \in Consumers, ConsumerStep(c)
  PROVE  ContentInv'
<1> USE QueueAssumption
    DEF LockInv, TypeOK, LocksFollowCode, ShapeInv, InShape, Clean, Hazards,
        ContentInv, CellsInOrder, CellReady, Storing, WrongOnlyAfterHazard,
        Backlog, Pos, Slots, Goto, ringVars, lockVars, histVars, Threads,
        EnqueuePCs, DequeuePCs
<1>1. CASE Dequeue(c)
  BY <1>1 DEF Dequeue
<1>2. CASE TestStopBeforeWait(c)
  BY <1>2 DEF TestStopBeforeWait
<1>3. CASE Wait(c)
  BY <1>3 DEF Wait
<1>4. CASE SpuriousWake(c)
  BY <1>4 DEF SpuriousWake
<1>5. CASE Reacquire(c)
  BY <1>5 DEF Reacquire
<1>6. CASE TestStop(c)
  BY <1>6 DEF TestStop
<1>7. CASE AdvanceFront(c)
  <2> USE <1>7 DEF AdvanceFront, NextPos
  <2>1. ASSUME Clean'
        PROVE  Clean /\ Backlog \in 1 .. maxsize /\ Backlog' = Backlog - 1 /\ front' = Pos(1)
    BY <2>1
  <2>2. Storing' <=> Storing
    OBVIOUS
  <2>3. ASSUME Clean' PROVE CellsInOrder'
    <3>1. CellsInOrder /\ Backlog \in 1 .. maxsize /\ Backlog' = Backlog - 1 /\ queue' = queue
      BY <2>1, <2>3
    <3>2. ASSUME NEW j \in 1 .. Backlog'
          PROVE Pos(j)' = Pos(j + 1) /\ taken' + j = taken + (j + 1) /\ j + 1 \in 1 .. Backlog
      BY <2>1, <2>3, <3>2
    <3> QED
      BY ONLY <2>2, <3>1, <3>2 DEF CellsInOrder
  <2>4. ASSUME Clean' PROVE CellReady'
    <3>1. CellsInOrder /\ 1 \in 1 .. Backlog
      BY ONLY <2>1, <2>4, ContentInv, QueueAssumption DEF ContentInv
    <3>2. queue[Pos(1) - 1] = taken + 1 \/ (1 = Backlog /\ Storing)
      BY ONLY <3>1 DEF CellsInOrder
    <3> QED
      BY <2>1, <2>2, <2>4, <3>2
  <2>5. WrongOnlyAfterHazard'
    BY <2>1
  <2> QED
    BY ONLY <2>3, <2>4, <2>5 DEF ContentInv
<1>8. CASE ReadElement(c)
  <2> USE <1>8 DEF ReadElement
  <2>1. PICK v \in Readable(SlotOf(front)) :
          events' = events \cup (IF StorePending(SlotOf(front)) THEN {"early"} ELSE {})
                           \cup (IF v # taken THEN {"wrong"} ELSE {})
    OBVIOUS
  <2>2. ASSUME Clean' PROVE Clean /\ ~StorePending(SlotOf(front))
    BY <2>1, <2>2
  <2>3. ASSUME Clean' PROVE "wrong" \notin events'
    <3>1. queue[front - 1] = taken
      BY <2>2, <2>3 DEF StorePending, SlotOf
    <3>2. v = taken
      BY <2>2, <2>3, <3>1 DEF Readable, SlotOf
    <3> QED
      BY <2>1, <2>2, <2>3, <3>2
  <2>4. ASSUME Clean' PROVE CellsInOrder' /\ CellReady'
    BY <2>2, <2>4
  <2>5. WrongOnlyAfterHazard'
    BY ONLY <2>3 DEF WrongOnlyAfterHazard
  <2> QED
    BY ONLY <2>4, <2>5 DEF ContentInv
<1>9. CASE Clear(c)
  BY <1>9 DEF Clear
<1>10. CASE ClearLockSecond(c)
  BY <1>10 DEF ClearLockSecond
<1>11. CASE ClearFree(c)
  BY <1>11 DEF ClearFree
<1> QED
  BY <1>1, <1>2, <1>3, <1>4, <1>5, <1>6, <1>7, <1>8, <1>9, <1>10, <1>11
  DEF ConsumerStep

(* start and stop touch no cell; a foreign write is itself a hazard.       *)
LEMMA OthersKeepContent ==
  ASSUME LockInv, ShapeInv, ContentInv,
         (\E k \in Controllers : ControllerStep(k)) \/ Clobber
  PROVE  ContentInv'
<1> USE QueueAssumption
    DEF LockInv, TypeOK, LocksFollowCode, ShapeInv, InShape, Clean, Hazards,
        ContentInv, CellsInOrder, CellReady, Storing, WrongOnlyAfterHazard,
        Backlog, Pos, Slots, Goto, ringVars, lockVars, histVars, Threads,
        EnqueuePCs, DequeuePCs
<1>1. ASSUME NEW k \in Controllers, Start(k) PROVE ContentInv'
  BY <1>1 DEF Start
<1>2. ASSUME NEW k \in Controllers, StopNotify(k) PROVE ContentInv'
  <2>1. /\ UNCHANGED <<front, rear, queue, taken, accepted, foundEmpty, events>>
        /\ ContentInv /\ pc \in [Threads -> ProducerPCs \cup ConsumerPCs \cup ControllerPCs]
    BY <1>2 DEF StopNotify
  <2>2. \A t \in Threads :
          \/ pc'[t] = pc[t]
          \/ pc'[t] \in {"stop_set", "woken"} /\ pc[t] \in {"idle", "waiting"}
    <3>1. k \in Threads /\ Consumers \subseteq Threads
      OBVIOUS
    <3>2. pc[k] = "idle" /\ (\/ pc' = [pc EXCEPT ![k] = "stop_set"]
                             \/ \E c \in Consumers :
                                  /\ pc[c] = "waiting"
                                  /\ pc' = [pc EXCEPT ![k] = "stop_set", ![c] = "woken"])
      BY ONLY <1>2 DEF StopNotify, NotifyOne, Waiting
    <3> QED
      BY ONLY <2>1, <3>1, <3>2
  <2>3. Storing' = Storing
    BY <2>2
  <2> QED
    BY <2>1, <2>2, <2>3
<1>3. ASSUME NEW k \in Controllers, StopSet(k) PROVE ContentInv'
  BY <1>3 DEF StopSet
<1>4. CASE Clobber
  BY <1>4 DEF Clobber
<1> QED
  BY <1>1, <1>2, <1>3, <1>4 DEF ControllerStep

-----------------------------------------------------------------------------
RingInv == LockInv /\ ShapeInv /\ ContentInv

(* The constructor's empty ring satisfies the invariant.                   *)
LEMMA InitRingInv == Init => RingInv
<1> SUFFICES ASSUME Init PROVE RingInv
  OBVIOUS
<1>1. LockInv
  BY InitLockInv
<1>2. \A t \in Threads : pc[t] = "idle"
  BY DEF Init
<1>3. Backlog = 0 /\ rear = Pos(Backlog)
  BY QueueAssumption DEF Init, Backlog, Pos
<1>4. ShapeInv
  BY <1>2, <1>3, QueueAssumption
  DEF ShapeInv, WaiterFoundEmpty, RoomStays, ElementStays, Threads
<1>5. ContentInv
  BY <1>2, <1>3 DEF Init, ContentInv, CellsInOrder, CellReady, WrongOnlyAfterHazard, Threads
<1> QED
  BY <1>1, <1>4, <1>5 DEF RingInv

(* The invariant of the ring is inductive.                                 *)
LEMMA StepKeepsRingInv == RingInv /\ [Next]_vars => RingInv'
<1> SUFFICES ASSUME LockInv, ShapeInv, ContentInv, [Next]_vars PROVE RingInv'
  BY DEF RingInv
<1>1. LockInv'
  BY StepKeepsLockInv
<1>2. CASE Next
  <2>1. ShapeInv'
    BY <1>2, ProducerKeepsShape, ConsumerKeepsShape, OthersKeepShape DEF Next
  <2>2. ContentInv'
    BY <1>2, ProducerKeepsContent, ConsumerKeepsContent, OthersKeepContent DEF Next
  <2> QED
    BY <1>1, <2>1, <2>2 DEF RingInv
<1>3. CASE UNCHANGED vars
  <2>1. ShapeInv'
    BY <1>3 DEF vars, ShapeInv, InShape, RoomStays, ElementStays, WaiterFoundEmpty,
                Backlog, Pos
  <2>2. ContentInv'
    BY <1>3 DEF vars, ContentInv, Clean, CellsInOrder, CellReady, Storing,
                WrongOnlyAfterHazard, Backlog, Pos
  <2> QED
    BY <1>1, <2>1, <2>2 DEF RingInv
<1> QED
  BY <1>2, <1>3

(* Every reachable state satisfies the lock, shape and content parts of    *)
(* the ring invariant, from which the theorems below follow.               *)
THEOREM RingInvariant == Spec => []RingInv
BY InitRingInv, StepKeepsRingInv, PTL DEF Spec

(* Where no hazard has happened the indices are still meaningful.          *)
LEMMA CleanInShape == LockInv /\ Clean => InShape
BY DEF Clean, InShape, Hazards

(* Without a hazard the ring is a FIFO: rear is Backlog positions behind   *)
(* front and the cells between them hold the accepted elements in order.   *)
THEOREM RingCorrect == Spec => []RingHoldsBacklog
<1>1. RingInv => RingHoldsBacklog
  BY CleanInShape
  DEF RingInv, ShapeInv, ContentInv, CellsInOrder, Storing, RingHoldsBacklog
<1> QED
  BY <1>1, RingInvariant, PTL

(* No element leaves out of order unless one of the four hazards happened. *)
THEOREM OrderCorrect == Spec => []WrongOnlyAfterHazard
<1>1. RingInv => WrongOnlyAfterHazard
  BY DEF RingInv, ContentInv
<1> QED
  BY <1>1, RingInvariant, PTL

(* A dequeue that found an element does not take from an empty ring.       *)
THEOREM FoundElementCorrect == Spec => []FoundElementStays
<1>1. RingInv => FoundElementStays
  BY DEF RingInv, ShapeInv, ElementStays, InShape, FoundElementStays
<1> QED
  BY <1>1, RingInvariant, PTL

(* clear deletes exactly the queued elements, but for the one at -1.       *)
THEOREM ClearCorrect == Spec => []ClearFreesBacklog
<1>1. ASSUME RingInv, Clean PROVE ClearedSlots = {Pos(j) - 1 : j \in 1 .. Backlog} \ {-1}
  <2>1. /\ front \in 0 .. maxsize /\ rear = Pos(Backlog)
        /\ Backlog \in 0 .. maxsize /\ rear \in 0 .. maxsize
    BY <1>1, CleanInShape DEF RingInv, LockInv, TypeOK, ShapeInv
  <2>2. ASSUME NEW s \in ClearedSlots PROVE s \in {Pos(j) - 1 : j \in 1 .. Backlog} \ {-1}
    <3>1. CASE s >= front
      <4>1. s + 1 - front \in 1 .. Backlog /\ Pos(s + 1 - front) - 1 = s
        BY ONLY <2>1, <2>2, <3>1, QueueAssumption DEF ClearedSlots, Pos
      <4> QED
        BY ONLY <2>1, <4>1, <3>1
    <3>2. CASE s < front
      <4>1. s + 2 + maxsize - front \in 1 .. Backlog /\ Pos(s + 2 + maxsize - front) - 1 = s
              /\ s # -1
        BY ONLY <2>1, <2>2, <3>2, QueueAssumption DEF ClearedSlots, Pos
      <4> QED
        BY ONLY <4>1
    <3> QED
      BY <2>1, <2>2, <3>1, <3>2, QueueAssumption DEF ClearedSlots
  <2>3. ASSUME NEW j \in 1 .. Backlog, Pos(j) # 0 PROVE Pos(j) - 1 \in ClearedSlots
    BY ONLY <2>1, <2>3, QueueAssumption DEF ClearedSlots, Pos
  <2>4. ASSUME NEW j \in 1 .. Backlog PROVE Pos(j) \in Int
    BY ONLY <2>1, <2>4, QueueAssumption DEF Pos
  <2> QED
    BY ONLY <2>2, <2>3, <2>4
<1>2. RingInv => ClearFreesBacklog
  BY <1>1 DEF ClearFreesBacklog
<1> QED
  BY <1>2, RingInvariant, PTL

-----------------------------------------------------------------------------
(* The refinement of BoundedFifo.                                          *)

InOrder == [j \in 1 .. Backlog |-> taken + j]

(* Without a hazard the cells spell out the accepted elements in order.    *)
LEMMA ContentsInOrder ==
  RingInv /\ Clean => Contents = InOrder /\ Backlog \in 0 .. maxsize
<1> SUFFICES ASSUME RingInv, Clean
    PROVE Contents = InOrder /\ Backlog \in 0 .. maxsize
  OBVIOUS
<1>1. /\ front \in 0 .. maxsize /\ rear = Pos(Backlog)
      /\ Backlog \in 0 .. maxsize /\ accepted = taken + Backlog
      /\ \A j \in 1 .. Backlog : queue[Pos(j) - 1] = taken + j \/ (j = Backlog /\ Storing)
  BY CleanInShape DEF RingInv, LockInv, TypeOK, ShapeInv, ContentInv, CellsInOrder, Backlog
<1>2. Distance = Backlog
  BY ONLY <1>1, QueueAssumption DEF Distance, Pos
<1>3. ASSUME NEW j \in 1 .. Backlog
      PROVE  (IF StorePending(Pos(j) - 1) THEN accepted ELSE queue[Pos(j) - 1]) = taken + j
  <2>1. Pos(j) = rear <=> j = Backlog
    BY ONLY <1>1, <1>3, QueueAssumption DEF Pos
  <2>2. Pos(j) \in Int /\ rear \in Int
    BY ONLY <1>1, <1>3, QueueAssumption DEF Pos
  <2>3. StorePending(Pos(j) - 1) <=> j = Backlog /\ Storing
    BY ONLY <2>1, <2>2 DEF StorePending, SlotOf, Storing
  <2> QED
    BY ONLY <1>1, <1>3, <2>3
<1> QED
  BY ONLY <1>1, <1>2, <1>3 DEF Contents, InOrder

(* The same of the next state.                                             *)
LEMMA ContentsInOrderNext ==
  (RingInv /\ Clean => Contents = InOrder /\ Backlog \in 0 .. maxsize)'
BY ContentsInOrder, PTL

(* One element more is an Append.                                          *)
LEMMA OneMore ==
  ASSUME accepted \in Nat, taken \in 0 .. accepted, maxsize \in Nat,
         Backlog' \in 0 .. maxsize, accepted' = accepted + 1, taken' = taken
  PROVE  Len(InOrder) < maxsize /\ InOrder' = Append(InOrder, accepted + 1)
<1>1. Backlog \in Nat /\ Backlog' = Backlog + 1 /\ taken + Backlog + 1 = accepted + 1
  BY DEF Backlog
<1>2. InOrder \in Seq(Nat) /\ Len(InOrder) = Backlog
  BY <1>1 DEF InOrder
<1>3. InOrder' \in Seq(Nat) /\ Len(InOrder') = Backlog + 1
  BY <1>1 DEF InOrder
<1>4. \A j \in 1 .. Backlog + 1 : InOrder'[j] = Append(InOrder, accepted + 1)[j]
  BY <1>1, <1>2 DEF InOrder
<1> QED
  BY <1>1, <1>2, <1>3, <1>4

(* One element taken is a Tail.                                            *)
LEMMA OneLess ==
  ASSUME accepted \in Nat, taken \in 0 .. accepted, taken < accepted,
         accepted' = accepted, taken' = taken + 1
  PROVE  InOrder # <<>> /\ InOrder' = Tail(InOrder)
<1>1. Backlog \in Nat \ {0} /\ Backlog' = Backlog - 1
  BY DEF Backlog
<1>2. InOrder \in Seq(Nat) /\ Len(InOrder) = Backlog
  BY <1>1 DEF InOrder
<1>3. InOrder' \in Seq(Nat) /\ Len(InOrder') = Backlog - 1
  BY <1>1 DEF InOrder
<1>4. \A j \in 1 .. Backlog - 1 : InOrder'[j] = Tail(InOrder)[j]
  BY <1>1, <1>2 DEF InOrder
<1> QED
  BY <1>1, <1>2, <1>3, <1>4

(* What a step does to the numbers of accepted and taken elements.         *)
LEMMA StepCounts ==
  ASSUME RingInv, [Next]_vars, Clean'
  PROVE  /\ Clean
         /\ \/ accepted' = accepted + 1 /\ taken' = taken
            \/ accepted' = accepted /\ taken' = taken + 1 /\ taken < accepted
            \/ accepted' = accepted /\ taken' = accepted
            \/ accepted' = accepted /\ taken' = taken
<1> USE DEF Clean, Hazards, vars, ringVars, lockVars, histVars
<1>0. accepted \in Nat /\ taken \in 0 .. accepted
  BY DEF RingInv, LockInv, TypeOK
<1>1. ASSUME NEW p \in Producers, ProducerStep(p) PROVE accepted' = accepted + 1 \/ accepted' = accepted
  BY <1>1 DEF ProducerStep, Enqueue, TestFull, AdvanceRear, StoreElement, NotifyAndReturn
<1>2. ASSUME NEW p \in Producers, ProducerStep(p) PROVE Clean /\ taken' = taken
  BY <1>2 DEF ProducerStep, Enqueue, TestFull, AdvanceRear, StoreElement, NotifyAndReturn
<1>3. ASSUME NEW c \in Consumers, ConsumerStep(c)
      PROVE  /\ Clean /\ accepted' = accepted
             /\ \/ taken' = taken + 1 /\ taken < accepted
                \/ taken' = accepted
                \/ taken' = taken
  <2>1. CASE AdvanceFront(c)
    BY <1>0, <2>1 DEF AdvanceFront
  <2>2. CASE ReadElement(c)
    BY <2>2 DEF ReadElement
  <2>3. CASE ~AdvanceFront(c) /\ ~ReadElement(c)
    BY <1>3, <2>3 DEF ConsumerStep, Dequeue, TestStopBeforeWait, Wait, SpuriousWake,
                      Reacquire, TestStop, Clear, ClearLockSecond, ClearFree
  <2> QED
    BY <2>1, <2>2, <2>3
<1>4. ASSUME (\E k \in Controllers : ControllerStep(k)) \/ Clobber \/ UNCHANGED vars
      PROVE  Clean /\ accepted' = accepted /\ taken' = taken
  BY <1>4 DEF ControllerStep, Start, StopNotify, StopSet, Clobber
<1> QED
  BY <1>1, <1>2, <1>3, <1>4 DEF Next

(* The empty ring is the empty FIFO.                                       *)
LEMMA InitImplements == Init => Fifo!Init
<1> SUFFICES ASSUME Init PROVE Fifo!Init
  OBVIOUS
<1>1. front = 0 /\ rear = 0 /\ accepted = 0 /\ events = {}
  BY DEF Init
<1>2. Distance = 0
  BY ONLY <1>1 DEF Distance
<1>3. Contents = <<>>
  BY ONLY <1>2 DEF Contents
<1> QED
  BY ONLY <1>1, <1>3 DEF Fifo!Init, Clean

(* Every step puts, takes or clears, or changes nothing the FIFO shows.    *)
LEMMA StepImplements ==
  ASSUME RingInv, RingInv', [Next]_vars
  PROVE  [Fifo!Next]_Fifo!vars
<1>1. CASE ~Clean'
  BY <1>1 DEF Fifo!Next
<1>2. CASE Clean'
  <2>1. /\ Clean
        /\ \/ accepted' = accepted + 1 /\ taken' = taken
           \/ accepted' = accepted /\ taken' = taken + 1 /\ taken < accepted
           \/ accepted' = accepted /\ taken' = accepted
           \/ accepted' = accepted /\ taken' = taken
    BY ONLY <1>2, RingInv, [Next]_vars, StepCounts
  <2>2. Contents = InOrder /\ Backlog \in 0 .. maxsize
    BY ONLY <2>1, RingInv, ContentsInOrder
  <2>3. Contents' = InOrder' /\ Backlog' \in 0 .. maxsize
    BY ONLY <1>2, RingInv', ContentsInOrderNext
  <2>4. accepted \in Nat /\ taken \in 0 .. accepted /\ maxsize \in Nat
    BY QueueAssumption DEF RingInv, LockInv, TypeOK
  <2>5. "wrong" \notin events /\ "wrong" \notin events'
    BY ONLY <1>2, <2>1, RingInv, RingInv' DEF RingInv, ContentInv, WrongOnlyAfterHazard
  <2>6. CASE accepted' = accepted + 1 /\ taken' = taken
    <3>1. Len(InOrder) < maxsize /\ InOrder' = Append(InOrder, accepted + 1)
      BY ONLY <2>2, <2>3, <2>4, <2>6, OneMore
    <3> QED
      BY ONLY <1>2, <2>1, <2>2, <2>3, <2>5, <2>6, <3>1 DEF Fifo!Next, Fifo!Put
  <2>7. CASE accepted' = accepted /\ taken' = taken + 1 /\ taken < accepted
    <3>1. InOrder # <<>> /\ InOrder' = Tail(InOrder)
      BY ONLY <2>4, <2>7, OneLess
    <3> QED
      BY ONLY <1>2, <2>1, <2>2, <2>3, <2>5, <2>7, <3>1 DEF Fifo!Next, Fifo!Take
  <2>8. CASE accepted' = accepted /\ taken' = accepted
    <3>1. Backlog' = 0
      BY ONLY <2>4, <2>8 DEF Backlog
    <3>2. InOrder' = <<>>
      BY ONLY <3>1 DEF InOrder
    <3> QED
      BY ONLY <1>2, <2>1, <2>3, <2>5, <2>8, <3>2 DEF Fifo!Next, Fifo!Clear
  <2>9. CASE accepted' = accepted /\ taken' = taken
    <3>1. InOrder' = InOrder
      BY ONLY <2>9 DEF InOrder, Backlog
    <3> QED
      BY ONLY <1>2, <2>1, <2>2, <2>3, <2>5, <2>9, <3>1 DEF Fifo!vars
  <2> QED
    BY ONLY <2>1, <2>6, <2>7, <2>8, <2>9
<1> QED
  BY <1>1, <1>2

(* The two-mutex ring of EncoderCQ.cpp implements the bounded FIFO, step   *)
(* for step, for every number of threads and every size, until a hazard.   *)
THEOREM FifoCorrect == Spec => ImplementsFifo
<1>1. RingInv /\ RingInv' /\ [Next]_vars => [Fifo!Next]_Fifo!vars
  BY StepImplements
<1> QED
  BY <1>1, InitImplements, RingInvariant, PTL DEF Spec, ImplementsFifo, Fifo!Spec
=============================================================================
