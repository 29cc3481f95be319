---------------------------- MODULE EncoderProofs ----------------------------
(* Theorems about Encoder for any number of loops and lambdas, any size of *)
(* the queues and any number of sessions.                                  *)
EXTENDS Encoder, TLAPS

-----------------------------------------------------------------------------
(* The inductive invariant.                                                *)

Threads == Workers \cup {Hub}
HolderPCs == (StopPCs \ {"stop"}) \cup {"fill", "build"}
PCs == CallerPCs \cup DequeuePCs \cup
         {"idle", "ended", "none", "start", "test", "encode", "clear"} \cup
         {"request", "fake"}

PcType == pc \in [Threads -> PCs]

(* TypeOK in three parts: the data, the places of the threads, the lock.   *)
DataType ==
  /\ stopped \in BOOLEAN /\ eCtx \in Contexts
  /\ encoderMtx \in Callers \cup {NoThread}
  /\ ctx \in {"none", "broken", "video", "image"}
  /\ qlen \in [Queues -> 0 .. QueueSize] /\ qstop \in [Queues -> BOOLEAN]
  /\ onlyAudio \in [Workers -> BOOLEAN] /\ arg \in [Callers -> Contexts]
  /\ qemu \in {"idle", "sound", "sound_set", "silent", "silent_set", "ended"}
  /\ silent \in BOOLEAN /\ glueStopped \in BOOLEAN
  /\ screen \in 0 .. MaxResizes
  /\ starts \in 0 .. MaxStarts /\ toggles \in 0 .. MaxToggles
  /\ left \subseteq Loops /\ events \subseteq {"stale", "survival", "crossing"}

PcKinds ==
  /\ PcType
  /\ pc[Hub] \in CallerPCs \cup {"idle", "ended"}
  /\ \A v \in VideoLoops : pc[v] \in DequeuePCs \cup {"none", "test", "encode"}
  /\ \A a \in AudioLoops :
       pc[a] \in DequeuePCs \cup {"none", "start", "test", "encode", "clear"}
  /\ \A l \in Lambdas :
       pc[l] \in CallerPCs \cup {"none", "request", "fake", "encode"}

LockHeld == \A t \in Callers : encoderMtx = t <=> pc[t] \in HolderPCs

Types == DataType /\ PcKinds /\ LockHeld

(* What the owner of encoderMtx knows of stopped.                          *)
StoppedInv ==
  /\ \A t \in Callers : pc[t] \in {"fill", "build"} => ~stopped
  /\ \A t \in Callers : pc[t] \in StopPCs \ {"stop"} => stopped
  /\ pc[Hub] \in StopPCs => glueStopped

(* When the process has ended, all its threads have; before, those that a  *)
(* stop left behind are still there.                                       *)
AliveInv ==
  /\ pc[Hub] = "ended" => \A t \in Workers : pc[t] = "none"
  /\ pc[Hub] # "ended" => \A t \in left : pc[t] # "none"

HeldInv == StoppedInv /\ AliveInv

(* LoopsServe, and why the audio loop stays: its queue is not stopped, or  *)
(* it has still to start it.                                               *)
Serves(a) ==
  /\ pc[a] \notin {"none", "clear"} /\ onlyAudio[a] = (ctx = "image")
  /\ pc[a] # "start" => ~qstop["audio"]

ServeInv ==
  Running =>
    /\ \E a \in AudioLoops \ left : Serves(a)
    /\ ctx = "video" => \E v \in VideoLoops \ left : pc[v] # "none"


(* What the 100 ms are for.  Down: since stop slept no new loops have been *)
(* started.                                                                *)
Down ==
  \/ stopped /\ encoderMtx = NoThread
  \/ \E t \in Callers : pc[t] \in HolderPCs \ {"grace"}

(* Nothing of the old session is left to be started: its loops have only   *)
(* to end, and its lambdas are about to stop or restart the encoder.       *)
Fading == {"none", "waiting", "woken", "test", "clear"}

LeftFade == \A t \in left : pc[t] \in Fading
DownFades ==
  Down =>
    /\ \A t \in Loops : pc[t] \in Fading
    /\ \A l \in Lambdas : pc[l] \in CallerPCs \cup {"none"}

(* No loop is alive that the latest stop has not left behind. *)
Between ==
  (stopped /\ encoderMtx = NoThread) \/ \E t \in Callers : pc[t] \in {"fill", "build"}
NobodyNew == Between => \A t \in Loops : pc[t] # "none" => t \in left

(* The other loops and the lambdas belong to the contexts. *)
ContextMatches ==
  /\ ~Down => ctx # "none"
  /\ ctx \in {"video", "image"} => ctx = eCtx.mode
  /\ \A v \in VideoLoops \ left : pc[v] # "none" => ctx = "video"
  /\ \A a \in AudioLoops \ left :
       pc[a] # "none" => ctx \in {"video", "image"} /\ onlyAudio[a] = (ctx = "image")

LambdasMatch ==
  \A l \in Lambdas :
    /\ pc[l] # "none" /\ ~onlyAudio[l] => eCtx.mode = "video"
    /\ pc[l] \in CallerPCs \cup {"request", "fake"} => ~onlyAudio[l]
    /\ pc[l] \in {"init", "fill"} => arg[l].mode = "video"
    /\ pc[Hub] = "fill" => pc[l] = "none"

CalmInv == LeftFade /\ DownFades /\ NobodyNew /\ ContextMatches /\ LambdasMatch

ContextInv == Calm => CalmInv

IInv == Types /\ HeldInv /\ StreamsWhenTold /\ ServeInv /\ ContextInv

-----------------------------------------------------------------------------
(* Waking.                                                                 *)

(* pc' is p, but that a waiting loop may be woken. *)
Wakes(p) ==
  /\ pc' \in [Threads -> PCs]
  /\ \A t \in Threads :
       pc'[t] = p[t] \/ (t \in Loops /\ pc[t] = "waiting" /\ pc'[t] = "woken")

(* notify_one wakes nobody but a loop that waits. *)
LEMMA NotifyWakes ==
  ASSUME NEW q \in Queues, NEW p \in [Threads -> PCs], Notify(q, p)
  PROVE  Wakes(p)
BY DEF Notify, Waiting, Wakes, Threads, Workers, PCs, DequeuePCs

(* enqueue keeps the length within its bounds. *)
LEMMA EnqueueWakes ==
  ASSUME DataType, NEW q \in Queues, NEW p \in [Threads -> PCs], Enqueue(q, p)
  PROVE  Wakes(p) /\ qlen' \in [Queues -> 0 .. QueueSize]
<1>1. Wakes(p)
  BY NotifyWakes DEF Enqueue, Wakes
<1>2. qlen' \in [Queues -> 0 .. QueueSize]
  BY EncoderAssumption DEF Enqueue, DataType
<1> QED
  BY <1>1, <1>2

(* Contexts stay contexts when a part changes. *)
LEMMA ContextParts ==
  /\ NoContext \in Contexts
  /\ \A c \in Contexts, b \in BOOLEAN : [c EXCEPT !.silent = b] \in Contexts
  /\ \A m \in Modes, b \in BOOLEAN, n \in 0 .. MaxResizes :
       [silent |-> b, mode |-> m, size |-> n] \in Contexts
  /\ \A c \in Contexts, n \in 0 .. MaxResizes : [c EXCEPT !.size = n] \in Contexts
BY EncoderAssumption DEF NoContext, Contexts

(* Where the threads are after a step that may wake a loop.                *)
WakingFacts ==
  /\ \A t \in Callers : Grace(t) =>
       pc[t] = "grace" /\ Wakes([pc EXCEPT ![t] = "video_set"])
  /\ \A t \in Callers : AudioNotify(t) =>
       pc[t] = "audio_notify" /\ Wakes([pc EXCEPT ![t] = "audio_set"])
  /\ \A l \in Lambdas : FakeAudio(l) =>
       pc[l] = "fake" /\ Wakes([pc EXCEPT ![l] = "encode"])
  /\ \A t \in Workers : Encode(t) =>
       /\ pc[t] = "encode"
       /\ Wakes([pc EXCEPT ![t] = IF t \in Loops THEN "test" ELSE "none"])
  /\ EncodeAudio \/ SetSilent => Wakes(pc)

LEMMA WakingSteps ==
  ASSUME DataType, PcType
  PROVE  WakingFacts
<1> USE DEF PcType
<1>1. \A t \in Threads, p \in PCs : [pc EXCEPT ![t] = p] \in [Threads -> PCs]
  OBVIOUS
<1>2. {"video_set", "audio_set", "encode", "test", "none"} \subseteq PCs
  BY DEF PCs, CallerPCs, StopPCs
<1>3. Callers \cup Workers \cup Lambdas \subseteq Threads
  BY DEF Callers, Threads, Workers
<1>4. ASSUME NEW t \in Callers, Grace(t)
      PROVE  pc[t] = "grace" /\ Wakes([pc EXCEPT ![t] = "video_set"])
  BY <1>1, <1>2, <1>3, <1>4, NotifyWakes DEF Grace, Queues
<1>5. ASSUME NEW t \in Callers, AudioNotify(t)
      PROVE  pc[t] = "audio_notify" /\ Wakes([pc EXCEPT ![t] = "audio_set"])
  BY <1>1, <1>2, <1>3, <1>5, NotifyWakes DEF AudioNotify, Queues
<1>6. ASSUME NEW l \in Lambdas, FakeAudio(l)
      PROVE  pc[l] = "fake" /\ Wakes([pc EXCEPT ![l] = "encode"])
  BY <1>1, <1>2, <1>3, <1>6, EnqueueWakes DEF FakeAudio, Queues
<1>7. ASSUME NEW t \in Workers, Encode(t)
      PROVE  /\ pc[t] = "encode"
             /\ Wakes([pc EXCEPT ![t] = IF t \in Loops THEN "test" ELSE "none"])
  <2> DEFINE done == [pc EXCEPT ![t] = IF t \in Loops THEN "test" ELSE "none"]
  <2>1. done \in [Threads -> PCs]
    BY <1>1, <1>2, <1>3
  <2>2. pc' = done \/ Enqueue("video", done)
    BY <1>7 DEF Encode
  <2>3. Wakes(done)
    <3> HIDE DEF done
    <3>1. CASE pc' = done
      BY <2>1, <3>1 DEF Wakes
    <3>2. CASE Enqueue("video", done)
      BY <2>1, <3>2, EnqueueWakes DEF Queues
    <3> QED
      BY <2>2, <3>1, <3>2
  <2> QED
    BY <1>7, <2>3 DEF Encode
<1>8. ASSUME EncodeAudio PROVE Wakes(pc)
  BY <1>8, EnqueueWakes DEF EncodeAudio, Queues
<1>9. ASSUME SetSilent PROVE Wakes(pc)
  <2>1. pc' = pc \/ Notify("video", pc)
    BY <1>9 DEF SetSilent
  <2> QED
    BY <2>1, NotifyWakes DEF Queues, Wakes
<1> QED
  BY <1>4, <1>5, <1>6, <1>7, <1>8, <1>9 DEF WakingFacts

-----------------------------------------------------------------------------
(* The steps.                                                              *)

(* At first nothing runs. *)
LEMMA InitInv == Init => IInv
<1> SUFFICES ASSUME Init PROVE IInv
  OBVIOUS
<1> USE EncoderAssumption DEF Init, Threads, Workers, Loops, Callers
<1>1. DataType
  <2>1. eCtx \in Contexts /\ arg \in [Callers -> Contexts]
    BY ContextParts
  <2>2. qlen \in [Queues -> 0 .. QueueSize] /\ qstop \in [Queues -> BOOLEAN]
    OBVIOUS
  <2>3. onlyAudio \in [Workers -> BOOLEAN] /\ encoderMtx \in Callers \cup {NoThread}
    OBVIOUS
  <2>4. /\ screen \in 0 .. MaxResizes
        /\ starts \in 0 .. MaxStarts /\ toggles \in 0 .. MaxToggles
    OBVIOUS
  <2>5. left \subseteq Loops /\ events = {}
    OBVIOUS
  <2>6. /\ stopped = TRUE /\ ctx = "none"
        /\ qemu = "idle" /\ silent = TRUE /\ glueStopped = FALSE
    OBVIOUS
  <2> QED
    BY ONLY <2>1, <2>2, <2>3, <2>4, <2>5, <2>6 DEF DataType
<1>2. PcKinds
  BY DEF PcKinds, PcType, PCs, CallerPCs, StopPCs, DequeuePCs
<1>3. LockHeld
  BY DEF LockHeld, HolderPCs, StopPCs
<1>4. HeldInv /\ StreamsWhenTold /\ ServeInv
  <2>1. StoppedInv /\ AliveInv
    BY DEF StoppedInv, AliveInv, StopPCs
  <2>2. StreamsWhenTold /\ ServeInv
    BY DEF StreamsWhenTold, ServeInv, Running
  <2> QED
    BY <2>1, <2>2 DEF HeldInv
<1>5. Down /\ CalmInv
  BY DEF CalmInv, LeftFade, DownFades, NobodyNew, ContextMatches, LambdasMatch, Down,
         Fading, CallerPCs, StopPCs
<1> QED
  BY <1>1, <1>2, <1>3, <1>4, <1>5 DEF IInv, Types, ContextInv

(* The data keep their types.                                              *)
LEMMA StepData ==
  ASSUME DataType, PcKinds, [Next]_vars
  PROVE  DataType'
<1> USE EncoderAssumption DEF DataType, fieldVars, queueVars, localVars,
        historyVars, glueVars, Queues
<1>1. ASSUME NEW t \in Callers, Initialize(t) PROVE DataType'
  <2>1. arg' \in {arg, [arg EXCEPT ![t] = NoContext]}
    BY <1>1 DEF Initialize
  <2>2. arg' \in [Callers -> Contexts]
    BY <2>1, ContextParts
  <2> QED
    BY <1>1, <2>2 DEF Initialize, Callers
<1>2. ASSUME NEW t \in Callers, BuildSucceeds(t) PROVE DataType'
  BY <1>2 DEF BuildSucceeds, Finish
<1>3. ASSUME NEW t \in Callers, BuildFails(t) PROVE DataType'
  BY <1>3 DEF BuildFails, Finish
<1>4. ASSUME NEW t \in Callers, Stop(t) PROVE DataType'
  BY <1>4 DEF Stop, NextArg, Callers
<1>5. ASSUME NEW t \in Callers, Grace(t) PROVE DataType'
  BY <1>5 DEF Grace
<1>6. ASSUME NEW t \in Callers, VideoSet(t) PROVE DataType'
  BY <1>6 DEF VideoSet
<1>7. ASSUME NEW t \in Callers, AudioNotify(t) PROVE DataType'
  BY <1>7 DEF AudioNotify
<1>8. ASSUME NEW t \in Callers, AudioSet(t) PROVE DataType'
  BY <1>8 DEF AudioSet
<1>9. ASSUME NEW t \in Callers, Free(t) PROVE DataType'
  BY <1>9 DEF Free, NextArg, Callers
<1>10. ASSUME NEW t \in Loops, Dequeue(t) PROVE DataType'
  BY <1>10 DEF Dequeue, QueueOf
<1>11. ASSUME NEW t \in Loops, Wait(t) PROVE DataType'
  BY <1>11 DEF Wait
<1>12. ASSUME NEW t \in Loops, Take(t) PROVE DataType'
  <2>1. \A n \in 0 .. QueueSize :
          (IF n = 0 THEN QueueSize ELSE n - 1) \in 0 .. QueueSize
    OBVIOUS
  <2>2. qlen' \in [Queues -> 0 .. QueueSize]
    BY <1>12, <2>1 DEF Take, QueueOf
  <2>3. events' \subseteq {"stale", "survival", "crossing"}
    BY <1>12 DEF Take, Survival
  <2> QED
    BY <1>12, <2>2, <2>3 DEF Take
<1>13. ASSUME NEW t \in Loops, SpuriousWake(t) PROVE DataType'
  BY <1>13 DEF SpuriousWake
<1>14. ASSUME NEW t \in Loops, Detach(t) PROVE DataType'
  BY <1>14 DEF Detach, Survival, Workers
<1>15. ASSUME NEW v \in VideoLoops, VideoTest(v) PROVE DataType'
  BY <1>15 DEF VideoTest, Survival
<1>16. ASSUME NEW a \in AudioLoops, AudioStart(a) PROVE DataType'
  BY <1>16 DEF AudioStart
<1>17. ASSUME NEW a \in AudioLoops, AudioTest(a) PROVE DataType'
  BY <1>17 DEF AudioTest, Survival
<1>18. ASSUME NEW a \in AudioLoops, AudioClear(a) PROVE DataType'
  BY <1>18 DEF AudioClear, Workers, Loops
<1>19. ASSUME NEW l \in Lambdas, RequestVideo(l) PROVE DataType'
  BY <1>19, ContextParts DEF RequestVideo
<1>20. ASSUME NEW l \in Lambdas, FakeAudio(l) PROVE DataType'
  <2>1. [pc EXCEPT ![l] = "encode"] \in [Threads -> PCs]
    BY DEF PcKinds, PcType, PCs, Threads
  <2> QED
    BY <1>20, <2>1, EnqueueWakes DEF FakeAudio
<1>21. ASSUME NEW t \in Workers, Encode(t) PROVE DataType'
  <2>1. [pc EXCEPT ![t] = IF t \in Loops THEN "test" ELSE "none"] \in [Threads -> PCs]
    BY DEF PcKinds, PcType, PCs, Threads
  <2>2. qlen' \in [Queues -> 0 .. QueueSize]
    BY <1>21, <2>1, EnqueueWakes DEF Encode
  <2> QED
    BY <1>21, <2>2 DEF Encode
<1>22. CASE Crash
  BY <1>22 DEF Crash
<1>23. ASSUME NEW m \in Modes, StartStreaming(m) PROVE DataType'
  <2>1. arg' \in [Callers -> Contexts]
    BY <1>23, ContextParts DEF StartStreaming
  <2> QED
    BY <1>23, <2>1 DEF StartStreaming
<1>24. CASE StopStreaming
  BY <1>24 DEF StopStreaming
<1>25. CASE SetSound
  <2>1. eCtx' \in Contexts
    BY <1>25, ContextParts DEF SetSound
  <2>2. qstop' \in [Queues -> BOOLEAN]
    BY <1>25 DEF SetSound
  <2>4. toggles' \in 0 .. MaxToggles
    <3>1. toggles' = toggles \/ (toggles < MaxToggles /\ toggles' = toggles + 1)
      BY <1>25 DEF SetSound
    <3> QED
      BY <3>1
  <2>3. /\ qemu' \in {"idle", "sound", "sound_set", "silent", "silent_set"}
        /\ silent' \in BOOLEAN
    BY <1>25 DEF SetSound
  <2> QED
    BY <1>25, <2>1, <2>2, <2>3, <2>4 DEF SetSound
<1>26. CASE SetSilent
  <2>1. eCtx' \in Contexts
    BY <1>26, ContextParts DEF SetSilent
  <2>2. qstop' \in [Queues -> BOOLEAN]
    BY <1>26 DEF SetSilent
  <2>4. toggles' \in 0 .. MaxToggles
    <3>1. toggles' = toggles \/ (toggles < MaxToggles /\ toggles' = toggles + 1)
      BY <1>26 DEF SetSilent
    <3> QED
      BY <3>1
  <2>3. /\ qemu' \in {"idle", "sound", "sound_set", "silent", "silent_set"}
        /\ silent' \in BOOLEAN
    BY <1>26 DEF SetSilent
  <2> QED
    BY <1>26, <2>1, <2>2, <2>3, <2>4 DEF SetSilent
<1>27. CASE EncodeAudio
  <2>1. pc \in [Threads -> PCs]
    BY DEF PcKinds, PcType
  <2> QED
    BY <1>27, <2>1, EnqueueWakes DEF EncodeAudio
<1>28. CASE Resize
  BY <1>28 DEF Resize
<1>29. CASE UNCHANGED vars
  BY <1>29 DEF vars
<1>30. ASSUME NEW t \in Callers, Fill(t) PROVE DataType'
  <2>1. eCtx' = arg[t] /\ arg' = [arg EXCEPT ![t] = NoContext]
    BY <1>30 DEF Fill
  <2>2. eCtx' \in Contexts /\ arg' \in [Callers -> Contexts]
    BY <2>1, ContextParts
  <2> QED
    BY <1>30, <2>2 DEF Fill
<1> QED
  BY <1>1, <1>2, <1>3, <1>4, <1>5, <1>6, <1>7, <1>8, <1>9, <1>10, <1>11, <1>12,
     <1>13, <1>14, <1>15, <1>16, <1>17, <1>18, <1>19, <1>20, <1>21, <1>22,
     <1>23, <1>24, <1>25, <1>26, <1>27, <1>28, <1>29, <1>30
  DEF Next, CallerStep, VideoLoopStep, AudioLoopStep, LambdaStep, DequeueStep,
      EncodeStep, EnvironmentStep, UseFreed, Fault, Loops, Workers

(* Every thread is where its kind can be.                                  *)
LEMMA StepPc ==
  ASSUME DataType, PcKinds, [Next]_vars
  PROVE  PcKinds'
<1>0. WakingFacts
  BY WakingSteps DEF PcKinds
<1> USE EncoderAssumption DEF PcKinds, PcType, Goto, Threads, Workers, Loops,
        Callers, PCs, CallerPCs, StopPCs, DequeuePCs, HolderPCs
<1>1. ASSUME NEW t \in Callers, Initialize(t) PROVE PcKinds'
  BY <1>1 DEF Initialize, Return
<1>2. ASSUME NEW t \in Callers, BuildSucceeds(t) PROVE PcKinds'
  BY <1>2 DEF BuildSucceeds, Finish, Return
<1>3. ASSUME NEW t \in Callers, BuildFails(t) PROVE PcKinds'
  BY <1>3 DEF BuildFails, Finish, Return
<1>4. ASSUME NEW t \in Callers, Stop(t) PROVE PcKinds'
  BY <1>4 DEF Stop, Stopped
<1>5. ASSUME NEW t \in Callers, Grace(t) PROVE PcKinds'
  <2>1. pc[t] = "grace" /\ Wakes([pc EXCEPT ![t] = "video_set"])
    BY <1>5, <1>0 DEF WakingFacts
  <2> QED
    BY <2>1 DEF Wakes
<1>6. ASSUME NEW t \in Callers, VideoSet(t) PROVE PcKinds'
  BY <1>6 DEF VideoSet
<1>7. ASSUME NEW t \in Callers, AudioNotify(t) PROVE PcKinds'
  <2>1. pc[t] = "audio_notify" /\ Wakes([pc EXCEPT ![t] = "audio_set"])
    BY <1>7, <1>0 DEF WakingFacts
  <2> QED
    BY <2>1 DEF Wakes
<1>8. ASSUME NEW t \in Callers, AudioSet(t) PROVE PcKinds'
  BY <1>8 DEF AudioSet
<1>9. ASSUME NEW t \in Callers, Free(t) PROVE PcKinds'
  BY <1>9 DEF Free, Stopped
<1>10. ASSUME NEW t \in Loops, Dequeue(t) PROVE PcKinds'
  BY <1>10 DEF Dequeue, OnQueueStop, QueueOf
<1>11. ASSUME NEW t \in Loops, Wait(t) PROVE PcKinds'
  BY <1>11 DEF Wait
<1>12. ASSUME NEW t \in Loops, Take(t) PROVE PcKinds'
  BY <1>12 DEF Take, OnQueueStop
<1>13. ASSUME NEW t \in Loops, SpuriousWake(t) PROVE PcKinds'
  BY <1>13 DEF SpuriousWake
<1>14. ASSUME NEW t \in Loops, Detach(t) PROVE PcKinds'
  BY <1>14 DEF Detach
<1>15. ASSUME NEW v \in VideoLoops, VideoTest(v) PROVE PcKinds'
  BY <1>15 DEF VideoTest
<1>16. ASSUME NEW a \in AudioLoops, AudioStart(a) PROVE PcKinds'
  BY <1>16 DEF AudioStart
<1>17. ASSUME NEW a \in AudioLoops, AudioTest(a) PROVE PcKinds'
  BY <1>17 DEF AudioTest
<1>18. ASSUME NEW a \in AudioLoops, AudioClear(a) PROVE PcKinds'
  BY <1>18 DEF AudioClear
<1>19. ASSUME NEW l \in Lambdas, RequestVideo(l) PROVE PcKinds'
  BY <1>19 DEF RequestVideo
<1>20. ASSUME NEW l \in Lambdas, FakeAudio(l) PROVE PcKinds'
  <2>1. pc[l] = "fake" /\ Wakes([pc EXCEPT ![l] = "encode"])
    BY <1>20, <1>0 DEF WakingFacts
  <2> QED
    BY <2>1 DEF Wakes
<1>21. ASSUME NEW t \in Workers, Encode(t) PROVE PcKinds'
  <2>1. pc[t] = "encode"
        /\ Wakes([pc EXCEPT ![t] = IF t \in Loops THEN "test" ELSE "none"])
    BY <1>21, <1>0 DEF WakingFacts
  <2> QED
    BY <2>1 DEF Wakes
<1>22. CASE Crash
  BY <1>22 DEF Crash
<1>23. ASSUME NEW m \in Modes, StartStreaming(m) PROVE PcKinds'
  BY <1>23 DEF StartStreaming
<1>24. CASE StopStreaming
  BY <1>24 DEF StopStreaming
<1>25. CASE SetSound
  BY <1>25 DEF SetSound
<1>26. CASE SetSilent
  BY <1>26, <1>0 DEF WakingFacts, Wakes, SetSilent
<1>27. CASE EncodeAudio
  BY <1>27, <1>0 DEF WakingFacts, Wakes, EncodeAudio
<1>28. CASE Resize
  BY <1>28 DEF Resize
<1>29. CASE UNCHANGED vars
  BY <1>29 DEF vars
<1>30. ASSUME NEW t \in Callers, Fill(t) PROVE PcKinds'
  BY <1>30 DEF Fill
<1> QED
  BY <1>1, <1>2, <1>3, <1>4, <1>5, <1>6, <1>7, <1>8, <1>9, <1>10, <1>11, <1>12,
     <1>13, <1>14, <1>15, <1>16, <1>17, <1>18, <1>19, <1>20, <1>21, <1>22,
     <1>23, <1>24, <1>25, <1>26, <1>27, <1>28, <1>29, <1>30
  DEF Next, CallerStep, VideoLoopStep, AudioLoopStep, LambdaStep, DequeueStep,
      EncodeStep, EnvironmentStep, UseFreed, Fault, Loops, Workers

(* Who is beyond the first line of initialize or stop owns the lock.       *)
LEMMA StepLock ==
  ASSUME DataType, PcKinds, LockHeld, [Next]_vars
  PROVE  LockHeld'
<1>0. WakingFacts
  BY WakingSteps DEF PcKinds
<1> USE EncoderAssumption DEF PcKinds, PcType, Goto, Threads, Workers, Loops,
        Callers, PCs, CallerPCs, StopPCs, DequeuePCs, HolderPCs, LockHeld,
        DataType, fieldVars, queueVars, localVars, historyVars, glueVars
<1>1. ASSUME NEW t \in Callers, Initialize(t) PROVE LockHeld'
  <2>1. CASE stopped
    BY <1>1, <2>1 DEF Initialize
  <2>2. CASE ~stopped
    BY <1>1, <2>2 DEF Initialize, Return
  <2> QED
    BY <2>1, <2>2
<1>2. ASSUME NEW t \in Callers, BuildSucceeds(t) PROVE LockHeld'
  BY <1>2 DEF BuildSucceeds, Finish, Return
<1>3. ASSUME NEW t \in Callers, BuildFails(t) PROVE LockHeld'
  BY <1>3 DEF BuildFails, Finish, Return
<1>4. ASSUME NEW t \in Callers, Stop(t) PROVE LockHeld'
  BY <1>4 DEF Stop, Stopped
<1>5. ASSUME NEW t \in Callers, Grace(t) PROVE LockHeld'
  <2>1. pc[t] = "grace" /\ Wakes([pc EXCEPT ![t] = "video_set"])
    BY <1>5, <1>0 DEF WakingFacts
  <2>2. UNCHANGED encoderMtx
    BY <1>5 DEF Grace
  <2> QED
    BY <2>1, <2>2 DEF Wakes
<1>6. ASSUME NEW t \in Callers, VideoSet(t) PROVE LockHeld'
  BY <1>6 DEF VideoSet
<1>7. ASSUME NEW t \in Callers, AudioNotify(t) PROVE LockHeld'
  <2>1. pc[t] = "audio_notify" /\ Wakes([pc EXCEPT ![t] = "audio_set"])
    BY <1>7, <1>0 DEF WakingFacts
  <2>2. UNCHANGED encoderMtx
    BY <1>7 DEF AudioNotify
  <2> QED
    BY <2>1, <2>2 DEF Wakes
<1>8. ASSUME NEW t \in Callers, AudioSet(t) PROVE LockHeld'
  BY <1>8 DEF AudioSet
<1>9. ASSUME NEW t \in Callers, Free(t) PROVE LockHeld'
  BY <1>9 DEF Free, Stopped
<1>10. ASSUME NEW t \in Loops, Dequeue(t) PROVE LockHeld'
  BY <1>10 DEF Dequeue, OnQueueStop, QueueOf
<1>11. ASSUME NEW t \in Loops, Wait(t) PROVE LockHeld'
  BY <1>11 DEF Wait
<1>12. ASSUME NEW t \in Loops, Take(t) PROVE LockHeld'
  BY <1>12 DEF Take, OnQueueStop
<1>13. ASSUME NEW t \in Loops, SpuriousWake(t) PROVE LockHeld'
  BY <1>13 DEF SpuriousWake
<1>14. ASSUME NEW t \in Loops, Detach(t) PROVE LockHeld'
  BY <1>14 DEF Detach
<1>15. ASSUME NEW v \in VideoLoops, VideoTest(v) PROVE LockHeld'
  BY <1>15 DEF VideoTest
<1>16. ASSUME NEW a \in AudioLoops, AudioStart(a) PROVE LockHeld'
  BY <1>16 DEF AudioStart
<1>17. ASSUME NEW a \in AudioLoops, AudioTest(a) PROVE LockHeld'
  BY <1>17 DEF AudioTest
<1>18. ASSUME NEW a \in AudioLoops, AudioClear(a) PROVE LockHeld'
  BY <1>18 DEF AudioClear
<1>19. ASSUME NEW l \in Lambdas, RequestVideo(l) PROVE LockHeld'
  BY <1>19 DEF RequestVideo
<1>20. ASSUME NEW l \in Lambdas, FakeAudio(l) PROVE LockHeld'
  <2>1. pc[l] = "fake" /\ Wakes([pc EXCEPT ![l] = "encode"])
    BY <1>20, <1>0 DEF WakingFacts
  <2>2. UNCHANGED encoderMtx
    BY <1>20 DEF FakeAudio
  <2> QED
    BY <2>1, <2>2 DEF Wakes
<1>21. ASSUME NEW t \in Workers, Encode(t) PROVE LockHeld'
  <2>1. /\ pc[t] = "encode"
        /\ Wakes([pc EXCEPT ![t] = IF t \in Loops THEN "test" ELSE "none"])
    BY <1>21, <1>0 DEF WakingFacts
  <2>2. UNCHANGED encoderMtx
    BY <1>21 DEF Encode
  <2> QED
    BY <2>1, <2>2 DEF Wakes
<1>22. CASE Crash
  BY <1>22 DEF Crash
<1>23. ASSUME NEW m \in Modes, StartStreaming(m) PROVE LockHeld'
  BY <1>23 DEF StartStreaming
<1>24. CASE StopStreaming
  BY <1>24 DEF StopStreaming
<1>25. CASE SetSound
  BY <1>25 DEF SetSound
<1>26. CASE SetSilent
  <2>1. Wakes(pc)
    BY <1>26, <1>0 DEF WakingFacts
  <2>2. UNCHANGED encoderMtx
    BY <1>26 DEF SetSilent
  <2> QED
    BY <2>1, <2>2 DEF Wakes
<1>27. CASE EncodeAudio
  <2>1. Wakes(pc)
    BY <1>27, <1>0 DEF WakingFacts
  <2>2. UNCHANGED encoderMtx
    BY <1>27 DEF EncodeAudio
  <2> QED
    BY <2>1, <2>2 DEF Wakes
<1>28. CASE Resize
  BY <1>28 DEF Resize
<1>29. CASE UNCHANGED vars
  BY <1>29 DEF vars
<1>30. ASSUME NEW t \in Callers, Fill(t) PROVE LockHeld'
  BY <1>30 DEF Fill
<1> QED
  BY <1>1, <1>2, <1>3, <1>4, <1>5, <1>6, <1>7, <1>8, <1>9, <1>10, <1>11, <1>12,
     <1>13, <1>14, <1>15, <1>16, <1>17, <1>18, <1>19, <1>20, <1>21, <1>22,
     <1>23, <1>24, <1>25, <1>26, <1>27, <1>28, <1>29, <1>30
  DEF Next, CallerStep, VideoLoopStep, AudioLoopStep, LambdaStep, DequeueStep,
      EncodeStep, EnvironmentStep, UseFreed, Fault, Loops, Workers

(* Who owns the lock knows whether the encoder is stopped.                 *)
LEMMA StepStopped ==
  ASSUME Types, StoppedInv, [Next]_vars
  PROVE  StoppedInv'
<1>0. WakingFacts
  BY WakingSteps DEF Types, PcKinds
<1> USE EncoderAssumption DEF Types, StoppedInv, PcKinds, PcType, LockHeld,
        Goto, Threads, Workers, Loops, Callers, PCs, CallerPCs, StopPCs,
        DequeuePCs, HolderPCs, fieldVars, queueVars, localVars, historyVars,
        glueVars
<1>1. ASSUME NEW t \in Callers, Initialize(t) PROVE StoppedInv'
  <2>1. CASE stopped
    BY <1>1, <2>1 DEF Initialize
  <2>2. CASE ~stopped
    BY <1>1, <2>2 DEF Initialize, Return
  <2> QED
    BY <2>1, <2>2
<1>2. ASSUME NEW t \in Callers, BuildSucceeds(t) PROVE StoppedInv'
  BY <1>2 DEF BuildSucceeds, Finish, Return
<1>3. ASSUME NEW t \in Callers, BuildFails(t) PROVE StoppedInv'
  BY <1>3 DEF BuildFails, Finish, Return
<1>4. ASSUME NEW t \in Callers, Stop(t) PROVE StoppedInv'
  BY <1>4 DEF Stop, Stopped
<1>5. ASSUME NEW t \in Callers, Grace(t) PROVE StoppedInv'
  <2>1. pc[t] = "grace" /\ Wakes([pc EXCEPT ![t] = "video_set"])
    BY <1>5, <1>0 DEF WakingFacts
  <2>2. UNCHANGED <<stopped, glueStopped>>
    BY <1>5 DEF Grace
  <2> QED
    BY <2>1, <2>2 DEF Wakes
<1>6. ASSUME NEW t \in Callers, VideoSet(t) PROVE StoppedInv'
  BY <1>6 DEF VideoSet
<1>7. ASSUME NEW t \in Callers, AudioNotify(t) PROVE StoppedInv'
  <2>1. pc[t] = "audio_notify" /\ Wakes([pc EXCEPT ![t] = "audio_set"])
    BY <1>7, <1>0 DEF WakingFacts
  <2>2. UNCHANGED <<stopped, glueStopped>>
    BY <1>7 DEF AudioNotify
  <2> QED
    BY <2>1, <2>2 DEF Wakes
<1>8. ASSUME NEW t \in Callers, AudioSet(t) PROVE StoppedInv'
  BY <1>8 DEF AudioSet
<1>9. ASSUME NEW t \in Callers, Free(t) PROVE StoppedInv'
  BY <1>9 DEF Free, Stopped
<1>10. ASSUME NEW t \in Loops, Dequeue(t) PROVE StoppedInv'
  BY <1>10 DEF Dequeue, OnQueueStop, QueueOf
<1>11. ASSUME NEW t \in Loops, Wait(t) PROVE StoppedInv'
  BY <1>11 DEF Wait
<1>12. ASSUME NEW t \in Loops, Take(t) PROVE StoppedInv'
  BY <1>12 DEF Take, Survival, OnQueueStop
<1>13. ASSUME NEW t \in Loops, SpuriousWake(t) PROVE StoppedInv'
  BY <1>13 DEF SpuriousWake
<1>14. ASSUME NEW t \in Loops, Detach(t) PROVE StoppedInv'
  BY <1>14 DEF Detach, Survival
<1>15. ASSUME NEW v \in VideoLoops, VideoTest(v) PROVE StoppedInv'
  BY <1>15 DEF VideoTest, Survival
<1>16. ASSUME NEW a \in AudioLoops, AudioStart(a) PROVE StoppedInv'
  BY <1>16 DEF AudioStart
<1>17. ASSUME NEW a \in AudioLoops, AudioTest(a) PROVE StoppedInv'
  BY <1>17 DEF AudioTest, Survival
<1>18. ASSUME NEW a \in AudioLoops, AudioClear(a) PROVE StoppedInv'
  BY <1>18 DEF AudioClear
<1>19. ASSUME NEW l \in Lambdas, RequestVideo(l) PROVE StoppedInv'
  BY <1>19 DEF RequestVideo
<1>20. ASSUME NEW l \in Lambdas, FakeAudio(l) PROVE StoppedInv'
  <2>1. pc[l] = "fake" /\ Wakes([pc EXCEPT ![l] = "encode"])
    BY <1>20, <1>0 DEF WakingFacts
  <2>2. UNCHANGED <<stopped, glueStopped>>
    BY <1>20 DEF FakeAudio
  <2> QED
    BY <2>1, <2>2 DEF Wakes
<1>21. ASSUME NEW t \in Workers, Encode(t) PROVE StoppedInv'
  <2>1. /\ pc[t] = "encode"
        /\ Wakes([pc EXCEPT ![t] = IF t \in Loops THEN "test" ELSE "none"])
    BY <1>21, <1>0 DEF WakingFacts
  <2>2. UNCHANGED <<stopped, glueStopped>>
    BY <1>21 DEF Encode
  <2> QED
    BY <2>1, <2>2 DEF Wakes
<1>22. CASE Crash
  BY <1>22 DEF Crash
<1>23. ASSUME NEW m \in Modes, StartStreaming(m) PROVE StoppedInv'
  BY <1>23 DEF StartStreaming
<1>24. CASE StopStreaming
  BY <1>24 DEF StopStreaming
<1>25. CASE SetSound
  BY <1>25 DEF SetSound
<1>26. CASE SetSilent
  <2>1. Wakes(pc)
    BY <1>26, <1>0 DEF WakingFacts
  <2>2. UNCHANGED <<stopped, glueStopped>>
    BY <1>26 DEF SetSilent
  <2> QED
    BY <2>1, <2>2 DEF Wakes
<1>27. CASE EncodeAudio
  <2>1. Wakes(pc)
    BY <1>27, <1>0 DEF WakingFacts
  <2>2. UNCHANGED <<stopped, glueStopped>>
    BY <1>27 DEF EncodeAudio
  <2> QED
    BY <2>1, <2>2 DEF Wakes
<1>28. CASE Resize
  BY <1>28 DEF Resize
<1>29. CASE UNCHANGED vars
  BY <1>29 DEF vars
<1>30. ASSUME NEW t \in Callers, Fill(t) PROVE StoppedInv'
  BY <1>30 DEF Fill
<1> QED
  BY <1>1, <1>2, <1>3, <1>4, <1>5, <1>6, <1>7, <1>8, <1>9, <1>10, <1>11, <1>12,
     <1>13, <1>14, <1>15, <1>16, <1>17, <1>18, <1>19, <1>20, <1>21, <1>22,
     <1>23, <1>24, <1>25, <1>26, <1>27, <1>28, <1>29, <1>30
  DEF Next, CallerStep, VideoLoopStep, AudioLoopStep, LambdaStep, DequeueStep,
      EncodeStep, EnvironmentStep, UseFreed, Fault, Loops, Workers

(* Only the end of the process ends a thread that a stop left behind.      *)
LEMMA StepAlive ==
  ASSUME Types, AliveInv, [Next]_vars
  PROVE  AliveInv'
<1>0. WakingFacts
  BY WakingSteps DEF Types, PcKinds
<1>types. PcType /\ PcKinds /\ left \subseteq Loops
  BY DEF Types, DataType, PcKinds
<1> USE EncoderAssumption DEF AliveInv, PcType, Goto, Threads, Workers, Callers,
        fieldVars, queueVars, localVars, historyVars, glueVars
<1>1. ASSUME NEW t \in Callers, Initialize(t) PROVE AliveInv'
  BY <1>1, <1>types DEF Initialize, Return
<1>2. ASSUME NEW t \in Callers, BuildSucceeds(t) PROVE AliveInv'
  <2>1. pc[t] = "build" /\ left' = left
    BY <1>2 DEF BuildSucceeds, Finish
  <2>2. PICK v \in VideoLoops, a \in AudioLoops :
          /\ pc[a] = "none"
          /\ \/ pc' = [pc EXCEPT ![t] = Return(t), ![a] = "start"]
             \/ pc' = [pc EXCEPT ![t] = Return(t), ![a] = "start", ![v] = "test"]
    BY <1>2 DEF BuildSucceeds
  <2>3. \A u \in Loops : pc[u] # "none" => pc'[u] # "none"
    BY <2>1, <2>2, <1>types, EncoderAssumption DEF Loops, Return
  <2>4. pc'[Hub] = "ended" => pc[Hub] = "ended"
    BY <2>1, <2>2, <1>types, EncoderAssumption DEF Return, Loops
  <2>5. pc[Hub] # "ended"
    BY <2>1
  <2> QED
    BY <2>1, <2>3, <2>4, <2>5, <1>types
<1>3. ASSUME NEW t \in Callers, BuildFails(t) PROVE AliveInv'
  BY <1>3, <1>types DEF BuildFails, Finish, Return
<1>4. ASSUME NEW t \in Callers, Stop(t) PROVE AliveInv'
  BY <1>4, <1>types DEF Stop, Stopped
<1>5. ASSUME NEW t \in Callers, Grace(t) PROVE AliveInv'
  <2>1. pc[t] = "grace" /\ Wakes([pc EXCEPT ![t] = "video_set"])
    BY <1>5, <1>0 DEF WakingFacts
  <2>2. UNCHANGED <<left>>
    BY <1>5 DEF Grace
  <2> QED
    BY <2>1, <2>2, <1>types DEF Wakes
<1>6. ASSUME NEW t \in Callers, VideoSet(t) PROVE AliveInv'
  BY <1>6, <1>types DEF VideoSet
<1>7. ASSUME NEW t \in Callers, AudioNotify(t) PROVE AliveInv'
  <2>1. pc[t] = "audio_notify" /\ Wakes([pc EXCEPT ![t] = "audio_set"])
    BY <1>7, <1>0 DEF WakingFacts
  <2>2. UNCHANGED <<left>>
    BY <1>7 DEF AudioNotify
  <2> QED
    BY <2>1, <2>2, <1>types DEF Wakes
<1>8. ASSUME NEW t \in Callers, AudioSet(t) PROVE AliveInv'
  BY <1>8, <1>types DEF AudioSet
<1>9. ASSUME NEW t \in Callers, Free(t) PROVE AliveInv'
  BY <1>9, <1>types DEF Free, Stopped
<1>10. ASSUME NEW t \in Loops, Dequeue(t) PROVE AliveInv'
  BY <1>10, <1>types DEF Dequeue, OnQueueStop, QueueOf
<1>11. ASSUME NEW t \in Loops, Wait(t) PROVE AliveInv'
  BY <1>11, <1>types DEF Wait
<1>12. ASSUME NEW t \in Loops, Take(t) PROVE AliveInv'
  BY <1>12, <1>types DEF Take, Survival, OnQueueStop
<1>13. ASSUME NEW t \in Loops, SpuriousWake(t) PROVE AliveInv'
  BY <1>13, <1>types DEF SpuriousWake
<1>14. ASSUME NEW t \in Loops, Detach(t) PROVE AliveInv'
  BY <1>14, <1>types DEF Detach, Survival
<1>15. ASSUME NEW v \in VideoLoops, VideoTest(v) PROVE AliveInv'
  BY <1>15, <1>types DEF VideoTest, Survival
<1>16. ASSUME NEW a \in AudioLoops, AudioStart(a) PROVE AliveInv'
  BY <1>16, <1>types DEF AudioStart
<1>17. ASSUME NEW a \in AudioLoops, AudioTest(a) PROVE AliveInv'
  BY <1>17, <1>types DEF AudioTest, Survival
<1>18. ASSUME NEW a \in AudioLoops, AudioClear(a) PROVE AliveInv'
  BY <1>18, <1>types DEF AudioClear
<1>19. ASSUME NEW l \in Lambdas, RequestVideo(l) PROVE AliveInv'
  BY <1>19, <1>types DEF RequestVideo
<1>20. ASSUME NEW l \in Lambdas, FakeAudio(l) PROVE AliveInv'
  <2>1. pc[l] = "fake" /\ Wakes([pc EXCEPT ![l] = "encode"])
    BY <1>20, <1>0 DEF WakingFacts
  <2>2. UNCHANGED <<left>>
    BY <1>20 DEF FakeAudio
  <2> QED
    BY <2>1, <2>2, <1>types DEF Wakes
<1>21. ASSUME NEW t \in Workers, Encode(t) PROVE AliveInv'
  <2>1. /\ pc[t] = "encode"
        /\ Wakes([pc EXCEPT ![t] = IF t \in Loops THEN "test" ELSE "none"])
    BY <1>21, <1>0 DEF WakingFacts
  <2>2. UNCHANGED <<left>>
    BY <1>21 DEF Encode
  <2> QED
    BY <2>1, <2>2, <1>types DEF Wakes
<1>22. CASE Crash
  BY <1>22, <1>types DEF Crash
<1>23. ASSUME NEW m \in Modes, StartStreaming(m) PROVE AliveInv'
  BY <1>23, <1>types DEF StartStreaming
<1>24. CASE StopStreaming
  BY <1>24, <1>types DEF StopStreaming
<1>25. CASE SetSound
  BY <1>25, <1>types DEF SetSound
<1>26. CASE SetSilent
  <2>1. Wakes(pc)
    BY <1>26, <1>0 DEF WakingFacts
  <2>2. UNCHANGED <<left>>
    BY <1>26 DEF SetSilent
  <2> QED
    BY <2>1, <2>2, <1>types DEF Wakes
<1>27. CASE EncodeAudio
  <2>1. Wakes(pc)
    BY <1>27, <1>0 DEF WakingFacts
  <2>2. UNCHANGED <<left>>
    BY <1>27 DEF EncodeAudio
  <2> QED
    BY <2>1, <2>2, <1>types DEF Wakes
<1>28. CASE Resize
  BY <1>28, <1>types DEF Resize
<1>29. CASE UNCHANGED vars
  BY <1>29, <1>types DEF vars
<1>30. ASSUME NEW t \in Callers, Fill(t) PROVE AliveInv'
  BY <1>30, <1>types DEF Fill
<1> QED
  BY <1>1, <1>2, <1>3, <1>4, <1>5, <1>6, <1>7, <1>8, <1>9, <1>10, <1>11, <1>12,
     <1>13, <1>14, <1>15, <1>16, <1>17, <1>18, <1>19, <1>20, <1>21, <1>22,
     <1>23, <1>24, <1>25, <1>26, <1>27, <1>28, <1>29, <1>30
  DEF Next, CallerStep, VideoLoopStep, AudioLoopStep, LambdaStep, DequeueStep,
      EncodeStep, EnvironmentStep, UseFreed, Fault, Loops, Workers

(* A stream that was told to run is not stopped.                           *)
LEMMA StepStreams ==
  ASSUME Types, HeldInv, StreamsWhenTold, [Next]_vars
  PROVE  StreamsWhenTold'
<1>0. WakingFacts
  BY WakingSteps DEF Types, PcKinds
<1> USE EncoderAssumption DEF Types, HeldInv, StoppedInv, StreamsWhenTold,
        PcKinds, PcType, LockHeld, Goto, Threads, Workers, Loops, Callers, PCs,
        CallerPCs, StopPCs, DequeuePCs, HolderPCs, fieldVars, queueVars,
        localVars, historyVars, glueVars
<1>1. ASSUME NEW t \in Callers, Initialize(t) PROVE StreamsWhenTold'
  BY <1>1 DEF Initialize, Return
<1>2. ASSUME NEW t \in Callers, BuildSucceeds(t) PROVE StreamsWhenTold'
  BY <1>2 DEF BuildSucceeds, Finish, Return
<1>3. ASSUME NEW t \in Callers, BuildFails(t) PROVE StreamsWhenTold'
  BY <1>3 DEF BuildFails, Finish, Return
<1>4. ASSUME NEW t \in Callers, Stop(t) PROVE StreamsWhenTold'
  BY <1>4 DEF Stop, Stopped
<1>5. ASSUME NEW t \in Callers, Grace(t) PROVE StreamsWhenTold'
  <2>1. pc[t] = "grace" /\ Wakes([pc EXCEPT ![t] = "video_set"])
    BY <1>5, <1>0 DEF WakingFacts
  <2>2. UNCHANGED <<starts, glueStopped, stopped>>
    BY <1>5 DEF Grace
  <2> QED
    BY <2>1, <2>2 DEF Wakes
<1>6. ASSUME NEW t \in Callers, VideoSet(t) PROVE StreamsWhenTold'
  BY <1>6 DEF VideoSet
<1>7. ASSUME NEW t \in Callers, AudioNotify(t) PROVE StreamsWhenTold'
  <2>1. pc[t] = "audio_notify" /\ Wakes([pc EXCEPT ![t] = "audio_set"])
    BY <1>7, <1>0 DEF WakingFacts
  <2>2. UNCHANGED <<starts, glueStopped, stopped>>
    BY <1>7 DEF AudioNotify
  <2> QED
    BY <2>1, <2>2 DEF Wakes
<1>8. ASSUME NEW t \in Callers, AudioSet(t) PROVE StreamsWhenTold'
  BY <1>8 DEF AudioSet
<1>9. ASSUME NEW t \in Callers, Free(t) PROVE StreamsWhenTold'
  BY <1>9 DEF Free, Stopped
<1>10. ASSUME NEW t \in Loops, Dequeue(t) PROVE StreamsWhenTold'
  BY <1>10 DEF Dequeue, OnQueueStop, QueueOf
<1>11. ASSUME NEW t \in Loops, Wait(t) PROVE StreamsWhenTold'
  BY <1>11 DEF Wait
<1>12. ASSUME NEW t \in Loops, Take(t) PROVE StreamsWhenTold'
  BY <1>12 DEF Take, Survival, OnQueueStop
<1>13. ASSUME NEW t \in Loops, SpuriousWake(t) PROVE StreamsWhenTold'
  BY <1>13 DEF SpuriousWake
<1>14. ASSUME NEW t \in Loops, Detach(t) PROVE StreamsWhenTold'
  BY <1>14 DEF Detach, Survival
<1>15. ASSUME NEW v \in VideoLoops, VideoTest(v) PROVE StreamsWhenTold'
  BY <1>15 DEF VideoTest, Survival
<1>16. ASSUME NEW a \in AudioLoops, AudioStart(a) PROVE StreamsWhenTold'
  BY <1>16 DEF AudioStart
<1>17. ASSUME NEW a \in AudioLoops, AudioTest(a) PROVE StreamsWhenTold'
  BY <1>17 DEF AudioTest, Survival
<1>18. ASSUME NEW a \in AudioLoops, AudioClear(a) PROVE StreamsWhenTold'
  BY <1>18 DEF AudioClear
<1>19. ASSUME NEW l \in Lambdas, RequestVideo(l) PROVE StreamsWhenTold'
  BY <1>19 DEF RequestVideo
<1>20. ASSUME NEW l \in Lambdas, FakeAudio(l) PROVE StreamsWhenTold'
  <2>1. pc[l] = "fake" /\ Wakes([pc EXCEPT ![l] = "encode"])
    BY <1>20, <1>0 DEF WakingFacts
  <2>2. UNCHANGED <<starts, glueStopped, stopped>>
    BY <1>20 DEF FakeAudio
  <2> QED
    BY <2>1, <2>2 DEF Wakes
<1>21. ASSUME NEW t \in Workers, Encode(t) PROVE StreamsWhenTold'
  <2>1. pc[t] = "encode"
        /\ Wakes([pc EXCEPT ![t] = IF t \in Loops THEN "test" ELSE "none"])
    BY <1>21, <1>0 DEF WakingFacts
  <2>2. UNCHANGED <<starts, glueStopped, stopped>>
    BY <1>21 DEF Encode
  <2> QED
    BY <2>1, <2>2 DEF Wakes
<1>22. CASE Crash
  BY <1>22 DEF Crash
<1>23. ASSUME NEW m \in Modes, StartStreaming(m) PROVE StreamsWhenTold'
  BY <1>23 DEF StartStreaming
<1>24. CASE StopStreaming
  BY <1>24 DEF StopStreaming
<1>25. CASE SetSound
  BY <1>25 DEF SetSound
<1>26. CASE SetSilent
  BY <1>26, <1>0 DEF WakingFacts, Wakes, SetSilent
<1>27. CASE EncodeAudio
  BY <1>27, <1>0 DEF WakingFacts, Wakes, EncodeAudio
<1>28. CASE Resize
  BY <1>28 DEF Resize
<1>29. CASE UNCHANGED vars
  BY <1>29 DEF vars
<1>30. ASSUME NEW t \in Callers, Fill(t) PROVE StreamsWhenTold'
  BY <1>30 DEF Fill
<1> QED
  BY <1>1, <1>2, <1>3, <1>4, <1>5, <1>6, <1>7, <1>8, <1>9, <1>10, <1>11, <1>12,
     <1>13, <1>14, <1>15, <1>16, <1>17, <1>18, <1>19, <1>20, <1>21, <1>22,
     <1>23, <1>24, <1>25, <1>26, <1>27, <1>28, <1>29, <1>30
  DEF Next, CallerStep, VideoLoopStep, AudioLoopStep, LambdaStep, DequeueStep,
      EncodeStep, EnvironmentStep, UseFreed, Fault, Loops, Workers

(* A step after which the encoder runs as before leaves it its loops.      *)
KeepsLoops ==
  Running' =>
    /\ Running /\ ctx' = ctx
    /\ \A a \in AudioLoops \ left : Serves(a) => a \notin left' /\ Serves(a)'
    /\ \A v \in VideoLoops \ left : pc[v] # "none" => v \notin left' /\ pc'[v] # "none"

(* Only a start gives the encoder loops, and only a stop takes them.       *)
LEMMA StepKeeps ==
  ASSUME Types, HeldInv, \A t \in Callers : ~BuildSucceeds(t), [Next]_vars
  PROVE  KeepsLoops
<1>0. WakingFacts
  BY WakingSteps DEF Types, PcKinds
<1>built. \A t \in Callers : ~BuildSucceeds(t)
  OBVIOUS
<1> USE EncoderAssumption DEF Types, HeldInv, StoppedInv, KeepsLoops, Running,
        Serves, DataType, PcKinds, PcType, LockHeld, Goto, Threads, Workers,
        Loops, Callers, PCs, CallerPCs, StopPCs, DequeuePCs, HolderPCs, Queues,
        fieldVars, queueVars, localVars, historyVars, glueVars
<1>1. ASSUME NEW t \in Callers, Initialize(t) PROVE KeepsLoops
  BY <1>1 DEF Initialize, Return
<1>2. ASSUME NEW t \in Callers, BuildSucceeds(t) PROVE KeepsLoops
  BY <1>2, <1>built
<1>3. ASSUME NEW t \in Callers, BuildFails(t) PROVE KeepsLoops
  BY <1>3 DEF BuildFails, Finish, Return
<1>4. ASSUME NEW t \in Callers, Stop(t) PROVE KeepsLoops
  BY <1>4 DEF Stop, Stopped
<1>5. ASSUME NEW t \in Callers, Grace(t) PROVE KeepsLoops
  <2>1. pc[t] = "grace" /\ Wakes([pc EXCEPT ![t] = "video_set"])
    BY <1>5, <1>0 DEF WakingFacts
  <2>2. UNCHANGED <<qstop, onlyAudio, ctx, stopped, encoderMtx, left>>
    BY <1>5 DEF Grace
  <2> QED
    BY <2>1, <2>2 DEF Wakes
<1>6. ASSUME NEW t \in Callers, VideoSet(t) PROVE KeepsLoops
  BY <1>6 DEF VideoSet
<1>7. ASSUME NEW t \in Callers, AudioNotify(t) PROVE KeepsLoops
  <2>1. pc[t] = "audio_notify" /\ Wakes([pc EXCEPT ![t] = "audio_set"])
    BY <1>7, <1>0 DEF WakingFacts
  <2>2. UNCHANGED <<qstop, onlyAudio, ctx, stopped, encoderMtx, left>>
    BY <1>7 DEF AudioNotify
  <2> QED
    BY <2>1, <2>2 DEF Wakes
<1>8. ASSUME NEW t \in Callers, AudioSet(t) PROVE KeepsLoops
  BY <1>8 DEF AudioSet
<1>9. ASSUME NEW t \in Callers, Free(t) PROVE KeepsLoops
  BY <1>9 DEF Free, Stopped
<1>10. ASSUME NEW t \in Loops, Dequeue(t) PROVE KeepsLoops
  BY <1>10 DEF Dequeue, OnQueueStop, QueueOf
<1>11. ASSUME NEW t \in Loops, Wait(t) PROVE KeepsLoops
  BY <1>11 DEF Wait
<1>12. ASSUME NEW t \in Loops, Take(t) PROVE KeepsLoops
  BY <1>12 DEF Take, Survival, OnQueueStop, QueueOf
<1>13. ASSUME NEW t \in Loops, SpuriousWake(t) PROVE KeepsLoops
  BY <1>13 DEF SpuriousWake
<1>14. ASSUME NEW t \in Loops, Detach(t) PROVE KeepsLoops
  BY <1>14 DEF Detach, Survival
<1>15. ASSUME NEW v \in VideoLoops, VideoTest(v) PROVE KeepsLoops
  BY <1>15 DEF VideoTest, Survival
<1>16. ASSUME NEW a \in AudioLoops, AudioStart(a) PROVE KeepsLoops
  BY <1>16 DEF AudioStart
<1>17. ASSUME NEW a \in AudioLoops, AudioTest(a) PROVE KeepsLoops
  BY <1>17 DEF AudioTest, Survival
<1>18. ASSUME NEW a \in AudioLoops, AudioClear(a) PROVE KeepsLoops
  BY <1>18 DEF AudioClear
<1>19. ASSUME NEW l \in Lambdas, RequestVideo(l) PROVE KeepsLoops
  BY <1>19 DEF RequestVideo
<1>20. ASSUME NEW l \in Lambdas, FakeAudio(l) PROVE KeepsLoops
  <2>1. pc[l] = "fake" /\ Wakes([pc EXCEPT ![l] = "encode"])
    BY <1>20, <1>0 DEF WakingFacts
  <2>2. UNCHANGED <<qstop, onlyAudio, ctx, stopped, encoderMtx, left>>
    BY <1>20 DEF FakeAudio
  <2> QED
    BY <2>1, <2>2 DEF Wakes
<1>21. ASSUME NEW t \in Workers, Encode(t) PROVE KeepsLoops
  <2>1. /\ pc[t] = "encode"
        /\ Wakes([pc EXCEPT ![t] = IF t \in Loops THEN "test" ELSE "none"])
    BY <1>21, <1>0 DEF WakingFacts
  <2>2. UNCHANGED <<qstop, ctx, stopped, encoderMtx, left>>
    BY <1>21 DEF Encode
  <2>3. onlyAudio' =
          IF t \in Lambdas THEN [onlyAudio EXCEPT ![t] = FALSE] ELSE onlyAudio
    BY <1>21 DEF Encode
  <2>4. onlyAudio \in [Workers -> BOOLEAN]
    BY DEF Types
  <2>5. \A a \in AudioLoops : onlyAudio'[a] = onlyAudio[a]
    BY ONLY <2>3, <2>4, EncoderAssumption DEF Loops, Workers
  <2> QED
    BY <2>1, <2>2, <2>5 DEF Wakes
<1>22. CASE Crash
  BY <1>22 DEF Crash
<1>23. ASSUME NEW m \in Modes, StartStreaming(m) PROVE KeepsLoops
  BY <1>23 DEF StartStreaming
<1>24. CASE StopStreaming
  BY <1>24 DEF StopStreaming
<1>25. CASE SetSound
  BY <1>25 DEF SetSound
<1>26. CASE SetSilent
  <2>1. Wakes(pc)
    BY <1>26, <1>0 DEF WakingFacts
  <2>2. /\ qstop'["audio"] = qstop["audio"]
      /\ UNCHANGED <<onlyAudio, ctx, stopped, encoderMtx, left>>
    BY <1>26 DEF SetSilent
  <2> QED
    BY <2>1, <2>2 DEF Wakes
<1>27. CASE EncodeAudio
  <2>1. Wakes(pc)
    BY <1>27, <1>0 DEF WakingFacts
  <2>2. UNCHANGED <<qstop, onlyAudio, ctx, stopped, encoderMtx, left>>
    BY <1>27 DEF EncodeAudio
  <2> QED
    BY <2>1, <2>2 DEF Wakes
<1>28. CASE Resize
  BY <1>28 DEF Resize
<1>29. CASE UNCHANGED vars
  BY <1>29 DEF vars
<1>30. ASSUME NEW t \in Callers, Fill(t) PROVE KeepsLoops
  BY <1>30 DEF Fill
<1> QED
  BY <1>1, <1>2, <1>3, <1>4, <1>5, <1>6, <1>7, <1>8, <1>9, <1>10, <1>11, <1>12,
     <1>13, <1>14, <1>15, <1>16, <1>17, <1>18, <1>19, <1>20, <1>21, <1>22,
     <1>23, <1>24, <1>25, <1>26, <1>27, <1>28, <1>29, <1>30
  DEF Next, CallerStep, VideoLoopStep, AudioLoopStep, LambdaStep, DequeueStep,
      EncodeStep, EnvironmentStep, UseFreed, Fault, Loops, Workers

(* A session begins with loops of its own, which no stop has left behind.  *)
LEMMA BuildServes ==
  ASSUME Types, AliveInv, NEW t \in Callers, BuildSucceeds(t)
  PROVE  ServeInv'
<1>1. /\ pc[t] = "build" /\ ctx' = eCtx.mode /\ UNCHANGED <<left, eCtx>>
  BY DEF BuildSucceeds, Finish, historyVars
<1>2. PICK v \in VideoLoops, a \in AudioLoops :
        /\ pc[a] = "none"
        /\ onlyAudio' = [onlyAudio EXCEPT ![a] = eCtx.mode = "image"]
        /\ \/ /\ eCtx.mode = "image"
              /\ pc' = [pc EXCEPT ![t] = Return(t), ![a] = "start"]
           \/ /\ eCtx.mode = "video" /\ pc[v] = "none"
              /\ pc' = [pc EXCEPT ![t] = Return(t), ![a] = "start", ![v] = "test"]
  BY DEF BuildSucceeds
<1>3. /\ t \notin Loops /\ pc[Hub] # "ended" /\ a # v
      /\ pc \in [Threads -> PCs] /\ onlyAudio \in [Workers -> BOOLEAN]
      /\ a \in Threads /\ v \in Threads /\ a \in Workers
  <2>1. PcType /\ DataType /\ PcKinds
    BY DEF Types, PcKinds
  <2>2. /\ t \notin Loops /\ a # v
        /\ {a, v} \subseteq Workers /\ {a, v, t} \subseteq Threads
    BY EncoderAssumption DEF Loops, Workers, Threads, Callers
  <2>3. pc[Hub] # "ended"
    BY <1>1, <2>1, <2>2, EncoderAssumption DEF AliveInv, Callers, Workers
  <2> QED
    BY <2>1, <2>2, <2>3 DEF PcType, DataType
<1>4. \A u \in left : pc[u] # "none"
  BY <1>3 DEF AliveInv
<1>5. a \notin left' /\ pc'[a] = "start" /\ onlyAudio'[a] = (ctx' = "image")
  BY <1>1, <1>2, <1>3, <1>4
<1>6. ctx' = "video" => v \notin left' /\ pc'[v] # "none"
  BY <1>1, <1>2, <1>3, <1>4
<1> QED
  BY <1>5, <1>6 DEF ServeInv, Serves

(* A running encoder has loops of its own.                                 *)
LEMMA StepServe ==
  ASSUME Types, HeldInv, ServeInv, [Next]_vars
  PROVE  ServeInv'
<1>1. CASE \E t \in Callers : BuildSucceeds(t)
  BY <1>1, BuildServes DEF HeldInv
<1>2. CASE \A t \in Callers : ~BuildSucceeds(t)
  BY <1>2, StepKeeps DEF KeepsLoops, ServeInv
<1> QED
  BY <1>1, <1>2

(* What is calm was calm before.                                           *)
LEMMA CalmBefore ==
  ASSUME Types, Calm', [Next]_vars
  PROVE  Calm
<1>0. WakingFacts
  BY WakingSteps DEF Types, PcKinds
<1> USE EncoderAssumption DEF Types, Calm, PcKinds, PcType, Goto, Threads,
        Workers, Loops, Callers, fieldVars, queueVars, localVars, historyVars,
        glueVars
<1>1. ASSUME NEW t \in Callers, Initialize(t) PROVE Calm
  BY <1>1 DEF Initialize, Return
<1>2. ASSUME NEW t \in Callers, BuildSucceeds(t) PROVE Calm
  BY <1>2 DEF BuildSucceeds, Finish, Return
<1>3. ASSUME NEW t \in Callers, BuildFails(t) PROVE Calm
  BY <1>3 DEF BuildFails, Finish, Return
<1>4. ASSUME NEW t \in Callers, Stop(t) PROVE Calm
  BY <1>4 DEF Stop, Stopped
<1>5. ASSUME NEW t \in Callers, Grace(t) PROVE Calm
  <2>1. pc[t] = "grace" /\ Wakes([pc EXCEPT ![t] = "video_set"])
    BY <1>5, <1>0 DEF WakingFacts
  <2>2. UNCHANGED <<events>>
    BY <1>5 DEF Grace
  <2> QED
    BY <2>1, <2>2 DEF Wakes
<1>6. ASSUME NEW t \in Callers, VideoSet(t) PROVE Calm
  BY <1>6 DEF VideoSet
<1>7. ASSUME NEW t \in Callers, AudioNotify(t) PROVE Calm
  <2>1. pc[t] = "audio_notify" /\ Wakes([pc EXCEPT ![t] = "audio_set"])
    BY <1>7, <1>0 DEF WakingFacts
  <2>2. UNCHANGED <<events>>
    BY <1>7 DEF AudioNotify
  <2> QED
    BY <2>1, <2>2 DEF Wakes
<1>8. ASSUME NEW t \in Callers, AudioSet(t) PROVE Calm
  BY <1>8 DEF AudioSet
<1>9. ASSUME NEW t \in Callers, Free(t) PROVE Calm
  BY <1>9 DEF Free, Stopped
<1>10. ASSUME NEW t \in Loops, Dequeue(t) PROVE Calm
  BY <1>10 DEF Dequeue, OnQueueStop, QueueOf
<1>11. ASSUME NEW t \in Loops, Wait(t) PROVE Calm
  BY <1>11 DEF Wait
<1>12. ASSUME NEW t \in Loops, Take(t) PROVE Calm
  BY <1>12 DEF Take, Survival, OnQueueStop
<1>13. ASSUME NEW t \in Loops, SpuriousWake(t) PROVE Calm
  BY <1>13 DEF SpuriousWake
<1>14. ASSUME NEW t \in Loops, Detach(t) PROVE Calm
  BY <1>14 DEF Detach, Survival
<1>15. ASSUME NEW v \in VideoLoops, VideoTest(v) PROVE Calm
  BY <1>15 DEF VideoTest, Survival
<1>16. ASSUME NEW a \in AudioLoops, AudioStart(a) PROVE Calm
  BY <1>16 DEF AudioStart
<1>17. ASSUME NEW a \in AudioLoops, AudioTest(a) PROVE Calm
  BY <1>17 DEF AudioTest, Survival
<1>18. ASSUME NEW a \in AudioLoops, AudioClear(a) PROVE Calm
  BY <1>18 DEF AudioClear
<1>19. ASSUME NEW l \in Lambdas, RequestVideo(l) PROVE Calm
  BY <1>19 DEF RequestVideo
<1>20. ASSUME NEW l \in Lambdas, FakeAudio(l) PROVE Calm
  <2>1. pc[l] = "fake" /\ Wakes([pc EXCEPT ![l] = "encode"])
    BY <1>20, <1>0 DEF WakingFacts
  <2>2. UNCHANGED <<events>>
    BY <1>20 DEF FakeAudio
  <2> QED
    BY <2>1, <2>2 DEF Wakes
<1>21. ASSUME NEW t \in Workers, Encode(t) PROVE Calm
  <2>1. /\ pc[t] = "encode"
        /\ Wakes([pc EXCEPT ![t] = IF t \in Loops THEN "test" ELSE "none"])
    BY <1>21, <1>0 DEF WakingFacts
  <2>2. UNCHANGED <<events>>
    BY <1>21 DEF Encode
  <2> QED
    BY <2>1, <2>2 DEF Wakes
<1>22. CASE Crash
  BY <1>22 DEF Crash
<1>23. ASSUME NEW m \in Modes, StartStreaming(m) PROVE Calm
  BY <1>23 DEF StartStreaming
<1>24. CASE StopStreaming
  BY <1>24 DEF StopStreaming
<1>25. CASE SetSound
  BY <1>25 DEF SetSound
<1>26. CASE SetSilent
  <2>1. Wakes(pc)
    BY <1>26, <1>0 DEF WakingFacts
  <2>2. UNCHANGED <<events>>
    BY <1>26 DEF SetSilent
  <2> QED
    BY <2>1, <2>2 DEF Wakes
<1>27. CASE EncodeAudio
  <2>1. Wakes(pc)
    BY <1>27, <1>0 DEF WakingFacts
  <2>2. UNCHANGED <<events>>
    BY <1>27 DEF EncodeAudio
  <2> QED
    BY <2>1, <2>2 DEF Wakes
<1>28. CASE Resize
  BY <1>28 DEF Resize
<1>29. CASE UNCHANGED vars
  BY <1>29 DEF vars
<1>30. ASSUME NEW t \in Callers, Fill(t) PROVE Calm
  BY <1>30 DEF Fill
<1> QED
  BY <1>1, <1>2, <1>3, <1>4, <1>5, <1>6, <1>7, <1>8, <1>9, <1>10, <1>11, <1>12,
     <1>13, <1>14, <1>15, <1>16, <1>17, <1>18, <1>19, <1>20, <1>21, <1>22,
     <1>23, <1>24, <1>25, <1>26, <1>27, <1>28, <1>29, <1>30
  DEF Next, CallerStep, VideoLoopStep, AudioLoopStep, LambdaStep, DequeueStep,
      EncodeStep, EnvironmentStep, UseFreed, Fault, Loops, Workers

(* What a stop has left behind only ends.                                  *)
LEMMA StepLeftFade ==
  ASSUME Types, HeldInv, CalmInv, Calm, Calm', [Next]_vars
  PROVE  LeftFade'
<1>0. WakingFacts
  BY WakingSteps DEF Types, PcKinds
<1> USE EncoderAssumption DEF Types, Calm, PcKinds, PcType, LockHeld, Goto,
        Fading, Threads, Workers, Loops, Callers, PCs, CallerPCs, StopPCs,
        DequeuePCs, HolderPCs, fieldVars, queueVars, localVars, historyVars,
        glueVars, CalmInv, LeftFade, DownFades, Down, DataType
<1>1. ASSUME NEW t \in Callers, Initialize(t) PROVE LeftFade'
  BY <1>1 DEF Initialize, Return
<1>2. ASSUME NEW t \in Callers, BuildSucceeds(t) PROVE LeftFade'
  <2>1. \A u \in left : pc[u] # "none"
    BY DEF HeldInv, AliveInv
  <2>2. left' = left
    BY <1>2 DEF BuildSucceeds, Finish
  <2>3. PICK v \in VideoLoops, a \in AudioLoops :
          /\ pc[a] = "none"
          /\ \/ pc' = [pc EXCEPT ![t] = Return(t), ![a] = "start"]
             \/ /\ pc[v] = "none"
                /\ pc' = [pc EXCEPT ![t] = Return(t), ![a] = "start", ![v] = "test"]
    BY <1>2 DEF BuildSucceeds
  <2>4. t \notin Loops
    OBVIOUS
  <2>5. \A u \in left : pc'[u] = pc[u]
    BY <2>1, <2>3, <2>4
  <2> QED
    BY <2>2, <2>5
<1>3. ASSUME NEW t \in Callers, BuildFails(t) PROVE LeftFade'
  BY <1>3 DEF BuildFails, Finish, Return
<1>4. ASSUME NEW t \in Callers, Stop(t) PROVE LeftFade'
  BY <1>4 DEF Stop, Stopped
<1>5. ASSUME NEW t \in Callers, Grace(t) PROVE LeftFade'
  <2>1. pc[t] = "grace" /\ Wakes([pc EXCEPT ![t] = "video_set"])
    BY <1>5, <1>0 DEF WakingFacts
  <2>2. UNCHANGED <<left>>
    BY <1>5 DEF Grace
  <2> QED
    BY <2>1, <2>2 DEF Wakes
<1>6. ASSUME NEW t \in Callers, VideoSet(t) PROVE LeftFade'
  BY <1>6 DEF VideoSet
<1>7. ASSUME NEW t \in Callers, AudioNotify(t) PROVE LeftFade'
  <2>1. pc[t] = "audio_notify" /\ Wakes([pc EXCEPT ![t] = "audio_set"])
    BY <1>7, <1>0 DEF WakingFacts
  <2>2. UNCHANGED <<left>>
    BY <1>7 DEF AudioNotify
  <2> QED
    BY <2>1, <2>2 DEF Wakes
<1>8. ASSUME NEW t \in Callers, AudioSet(t) PROVE LeftFade'
  BY <1>8 DEF AudioSet
<1>9. ASSUME NEW t \in Callers, Free(t) PROVE LeftFade'
  BY <1>9 DEF Free, Stopped
<1>10. ASSUME NEW t \in Loops, Dequeue(t) PROVE LeftFade'
  BY <1>10 DEF Dequeue, OnQueueStop, QueueOf
<1>11. ASSUME NEW t \in Loops, Wait(t) PROVE LeftFade'
  BY <1>11 DEF Wait
<1>12. ASSUME NEW t \in Loops, Take(t) PROVE LeftFade'
  BY <1>12 DEF Take, Survival, OnQueueStop
<1>13. ASSUME NEW t \in Loops, SpuriousWake(t) PROVE LeftFade'
  BY <1>13 DEF SpuriousWake
<1>14. ASSUME NEW t \in Loops, Detach(t) PROVE LeftFade'
  BY <1>14 DEF Detach, Survival
<1>15. ASSUME NEW v \in VideoLoops, VideoTest(v) PROVE LeftFade'
  BY <1>15 DEF VideoTest, Survival
<1>16. ASSUME NEW a \in AudioLoops, AudioStart(a) PROVE LeftFade'
  BY <1>16 DEF AudioStart
<1>17. ASSUME NEW a \in AudioLoops, AudioTest(a) PROVE LeftFade'
  BY <1>17 DEF AudioTest, Survival
<1>18. ASSUME NEW a \in AudioLoops, AudioClear(a) PROVE LeftFade'
  BY <1>18 DEF AudioClear
<1>19. ASSUME NEW l \in Lambdas, RequestVideo(l) PROVE LeftFade'
  BY <1>19 DEF RequestVideo
<1>20. ASSUME NEW l \in Lambdas, FakeAudio(l) PROVE LeftFade'
  <2>1. pc[l] = "fake" /\ Wakes([pc EXCEPT ![l] = "encode"])
    BY <1>20, <1>0 DEF WakingFacts
  <2>2. UNCHANGED <<left>>
    BY <1>20 DEF FakeAudio
  <2> QED
    BY <2>1, <2>2 DEF Wakes
<1>21. ASSUME NEW t \in Workers, Encode(t) PROVE LeftFade'
  <2>1. /\ pc[t] = "encode"
        /\ Wakes([pc EXCEPT ![t] = IF t \in Loops THEN "test" ELSE "none"])
    BY <1>21, <1>0 DEF WakingFacts
  <2>2. UNCHANGED <<left>>
    BY <1>21 DEF Encode
  <2> QED
    BY <2>1, <2>2 DEF Wakes
<1>22. CASE Crash
  BY <1>22 DEF Crash
<1>23. ASSUME NEW m \in Modes, StartStreaming(m) PROVE LeftFade'
  BY <1>23 DEF StartStreaming
<1>24. CASE StopStreaming
  BY <1>24 DEF StopStreaming
<1>25. CASE SetSound
  BY <1>25 DEF SetSound
<1>26. CASE SetSilent
  <2>1. Wakes(pc)
    BY <1>26, <1>0 DEF WakingFacts
  <2>2. UNCHANGED <<left>>
    BY <1>26 DEF SetSilent
  <2> QED
    BY <2>1, <2>2 DEF Wakes
<1>27. CASE EncodeAudio
  <2>1. Wakes(pc)
    BY <1>27, <1>0 DEF WakingFacts
  <2>2. UNCHANGED <<left>>
    BY <1>27 DEF EncodeAudio
  <2> QED
    BY <2>1, <2>2 DEF Wakes
<1>28. CASE Resize
  BY <1>28 DEF Resize
<1>29. CASE UNCHANGED vars
  BY <1>29 DEF vars
<1>30. ASSUME NEW t \in Callers, Fill(t) PROVE LeftFade'
  BY <1>30 DEF Fill
<1> QED
  BY <1>1, <1>2, <1>3, <1>4, <1>5, <1>6, <1>7, <1>8, <1>9, <1>10, <1>11, <1>12,
     <1>13, <1>14, <1>15, <1>16, <1>17, <1>18, <1>19, <1>20, <1>21, <1>22,
     <1>23, <1>24, <1>25, <1>26, <1>27, <1>28, <1>29, <1>30
  DEF Next, CallerStep, VideoLoopStep, AudioLoopStep, LambdaStep, DequeueStep,
      EncodeStep, EnvironmentStep, UseFreed, Fault, Loops, Workers

(* While the encoder is down only its end is under way.                    *)
LEMMA StepDown ==
  ASSUME Types, HeldInv, CalmInv, Calm, Calm', [Next]_vars
  PROVE  DownFades'
<1>0. WakingFacts
  BY WakingSteps DEF Types, PcKinds
<1> USE EncoderAssumption DEF Types, Calm, PcKinds, PcType, LockHeld, Goto,
        Fading, Threads, Workers, Loops, Callers, PCs, CallerPCs, StopPCs,
        DequeuePCs, HolderPCs, fieldVars, queueVars, localVars, historyVars,
        glueVars, CalmInv, DownFades, NobodyNew, Between, Down, HeldInv,
        StoppedInv, DataType
<1>1. ASSUME NEW t \in Callers, Initialize(t) PROVE DownFades'
  <2>1. CASE stopped
    BY <1>1, <2>1 DEF Initialize
  <2>2. CASE ~stopped
    BY <1>1, <2>2 DEF Initialize, Return
  <2> QED
    BY <2>1, <2>2
<1>2. ASSUME NEW t \in Callers, BuildSucceeds(t) PROVE DownFades'
  BY <1>2 DEF BuildSucceeds, Finish, Return
<1>3. ASSUME NEW t \in Callers, BuildFails(t) PROVE DownFades'
  BY <1>3 DEF BuildFails, Finish, Return
<1>4. ASSUME NEW t \in Callers, Stop(t) PROVE DownFades'
  BY <1>4 DEF Stop, Stopped
<1>5. ASSUME NEW t \in Callers, Grace(t) PROVE DownFades'
  <2>1. pc[t] = "grace" /\ Wakes([pc EXCEPT ![t] = "video_set"])
    BY <1>5, <1>0 DEF WakingFacts
  <2>2. Quiescent
    BY <1>5 DEF Grace
  <2>3. \A u \in Loops : pc[u] \in {"none", "waiting"} /\ u # t
    BY <2>1, <2>2 DEF Quiescent
  <2>4. \A u \in Loops : pc'[u] \in Fading
    BY <2>1, <2>3 DEF Wakes
  <2>5. \A l \in Lambdas : pc'[l] \in CallerPCs \cup {"none"}
    BY <2>1, <2>2 DEF Wakes, Quiescent
  <2> QED
    BY <2>4, <2>5
<1>6. ASSUME NEW t \in Callers, VideoSet(t) PROVE DownFades'
  BY <1>6 DEF VideoSet
<1>7. ASSUME NEW t \in Callers, AudioNotify(t) PROVE DownFades'
  <2>1. pc[t] = "audio_notify" /\ Wakes([pc EXCEPT ![t] = "audio_set"])
    BY <1>7, <1>0 DEF WakingFacts
  <2>2. UNCHANGED <<stopped, encoderMtx>>
    BY <1>7 DEF AudioNotify
  <2> QED
    BY <2>1, <2>2 DEF Wakes
<1>8. ASSUME NEW t \in Callers, AudioSet(t) PROVE DownFades'
  BY <1>8 DEF AudioSet
<1>9. ASSUME NEW t \in Callers, Free(t) PROVE DownFades'
  BY <1>9 DEF Free, Stopped
<1>10. ASSUME NEW t \in Loops, Dequeue(t) PROVE DownFades'
  BY <1>10 DEF Dequeue, OnQueueStop, QueueOf
<1>11. ASSUME NEW t \in Loops, Wait(t) PROVE DownFades'
  BY <1>11 DEF Wait
<1>12. ASSUME NEW t \in Loops, Take(t) PROVE DownFades'
  BY <1>12 DEF Take, Survival, OnQueueStop
<1>13. ASSUME NEW t \in Loops, SpuriousWake(t) PROVE DownFades'
  BY <1>13 DEF SpuriousWake
<1>14. ASSUME NEW t \in Loops, Detach(t) PROVE DownFades'
  BY <1>14 DEF Detach, Survival
<1>15. ASSUME NEW v \in VideoLoops, VideoTest(v) PROVE DownFades'
  BY <1>15 DEF VideoTest, Survival
<1>16. ASSUME NEW a \in AudioLoops, AudioStart(a) PROVE DownFades'
  BY <1>16 DEF AudioStart
<1>17. ASSUME NEW a \in AudioLoops, AudioTest(a) PROVE DownFades'
  BY <1>17 DEF AudioTest, Survival
<1>18. ASSUME NEW a \in AudioLoops, AudioClear(a) PROVE DownFades'
  BY <1>18 DEF AudioClear
<1>19. ASSUME NEW l \in Lambdas, RequestVideo(l) PROVE DownFades'
  BY <1>19 DEF RequestVideo
<1>20. ASSUME NEW l \in Lambdas, FakeAudio(l) PROVE DownFades'
  <2>1. pc[l] = "fake" /\ Wakes([pc EXCEPT ![l] = "encode"])
    BY <1>20, <1>0 DEF WakingFacts
  <2>2. UNCHANGED <<stopped, encoderMtx>>
    BY <1>20 DEF FakeAudio
  <2> QED
    BY <2>1, <2>2 DEF Wakes
<1>21. ASSUME NEW t \in Workers, Encode(t) PROVE DownFades'
  <2>1. /\ pc[t] = "encode"
        /\ Wakes([pc EXCEPT ![t] = IF t \in Loops THEN "test" ELSE "none"])
    BY <1>21, <1>0 DEF WakingFacts
  <2>2. UNCHANGED <<stopped, encoderMtx>>
    BY <1>21 DEF Encode
  <2> QED
    BY <2>1, <2>2 DEF Wakes
<1>22. CASE Crash
  BY <1>22 DEF Crash
<1>23. ASSUME NEW m \in Modes, StartStreaming(m) PROVE DownFades'
  BY <1>23 DEF StartStreaming
<1>24. CASE StopStreaming
  BY <1>24 DEF StopStreaming
<1>25. CASE SetSound
  BY <1>25 DEF SetSound
<1>26. CASE SetSilent
  <2>1. Wakes(pc)
    BY <1>26, <1>0 DEF WakingFacts
  <2>2. UNCHANGED <<stopped, encoderMtx>>
    BY <1>26 DEF SetSilent
  <2> QED
    BY <2>1, <2>2 DEF Wakes
<1>27. CASE EncodeAudio
  <2>1. Wakes(pc)
    BY <1>27, <1>0 DEF WakingFacts
  <2>2. UNCHANGED <<stopped, encoderMtx>>
    BY <1>27 DEF EncodeAudio
  <2> QED
    BY <2>1, <2>2 DEF Wakes
<1>28. CASE Resize
  BY <1>28 DEF Resize
<1>29. CASE UNCHANGED vars
  BY <1>29 DEF vars
<1>30. ASSUME NEW t \in Callers, Fill(t) PROVE DownFades'
  BY <1>30 DEF Fill
<1> QED
  BY <1>1, <1>2, <1>3, <1>4, <1>5, <1>6, <1>7, <1>8, <1>9, <1>10, <1>11, <1>12,
     <1>13, <1>14, <1>15, <1>16, <1>17, <1>18, <1>19, <1>20, <1>21, <1>22,
     <1>23, <1>24, <1>25, <1>26, <1>27, <1>28, <1>29, <1>30
  DEF Next, CallerStep, VideoLoopStep, AudioLoopStep, LambdaStep, DequeueStep,
      EncodeStep, EnvironmentStep, UseFreed, Fault, Loops, Workers

(* Only BuildSucceeds starts loops.                                        *)
LEMMA StepNobodyNew ==
  ASSUME Types, HeldInv, CalmInv, Calm, Calm', [Next]_vars
  PROVE  NobodyNew'
<1>0. WakingFacts
  BY WakingSteps DEF Types, PcKinds
<1> USE EncoderAssumption DEF Types, Calm, PcKinds, PcType, LockHeld, Goto,
        Fading, Threads, Workers, Loops, Callers, PCs, CallerPCs, StopPCs,
        DequeuePCs, HolderPCs, fieldVars, queueVars, localVars, historyVars,
        glueVars, CalmInv, NobodyNew, Between, Down, HeldInv, StoppedInv,
        AliveInv, DataType
<1>1. ASSUME NEW t \in Callers, Initialize(t) PROVE NobodyNew'
  BY <1>1 DEF Initialize, Return
<1>2. ASSUME NEW t \in Callers, BuildSucceeds(t) PROVE NobodyNew'
  BY <1>2 DEF BuildSucceeds, Finish, Return
<1>3. ASSUME NEW t \in Callers, BuildFails(t) PROVE NobodyNew'
  BY <1>3 DEF BuildFails, Finish, Return
<1>4. ASSUME NEW t \in Callers, Stop(t) PROVE NobodyNew'
  BY <1>4 DEF Stop, Stopped
<1>5. ASSUME NEW t \in Callers, Grace(t) PROVE NobodyNew'
  <2>1. pc[t] = "grace" /\ Wakes([pc EXCEPT ![t] = "video_set"])
    BY <1>5, <1>0 DEF WakingFacts
  <2>2. UNCHANGED <<stopped, encoderMtx, left>>
    BY <1>5 DEF Grace
  <2> QED
    BY <2>1, <2>2 DEF Wakes
<1>6. ASSUME NEW t \in Callers, VideoSet(t) PROVE NobodyNew'
  BY <1>6 DEF VideoSet
<1>7. ASSUME NEW t \in Callers, AudioNotify(t) PROVE NobodyNew'
  <2>1. pc[t] = "audio_notify" /\ Wakes([pc EXCEPT ![t] = "audio_set"])
    BY <1>7, <1>0 DEF WakingFacts
  <2>2. UNCHANGED <<stopped, encoderMtx, left>>
    BY <1>7 DEF AudioNotify
  <2> QED
    BY <2>1, <2>2 DEF Wakes
<1>8. ASSUME NEW t \in Callers, AudioSet(t) PROVE NobodyNew'
  BY <1>8 DEF AudioSet
<1>9. ASSUME NEW t \in Callers, Free(t) PROVE NobodyNew'
  BY <1>9 DEF Free, Stopped
<1>10. ASSUME NEW t \in Loops, Dequeue(t) PROVE NobodyNew'
  BY <1>10 DEF Dequeue, OnQueueStop, QueueOf
<1>11. ASSUME NEW t \in Loops, Wait(t) PROVE NobodyNew'
  BY <1>11 DEF Wait
<1>12. ASSUME NEW t \in Loops, Take(t) PROVE NobodyNew'
  BY <1>12 DEF Take, Survival, OnQueueStop
<1>13. ASSUME NEW t \in Loops, SpuriousWake(t) PROVE NobodyNew'
  BY <1>13 DEF SpuriousWake
<1>14. ASSUME NEW t \in Loops, Detach(t) PROVE NobodyNew'
  BY <1>14 DEF Detach, Survival
<1>15. ASSUME NEW v \in VideoLoops, VideoTest(v) PROVE NobodyNew'
  BY <1>15 DEF VideoTest, Survival
<1>16. ASSUME NEW a \in AudioLoops, AudioStart(a) PROVE NobodyNew'
  BY <1>16 DEF AudioStart
<1>17. ASSUME NEW a \in AudioLoops, AudioTest(a) PROVE NobodyNew'
  BY <1>17 DEF AudioTest, Survival
<1>18. ASSUME NEW a \in AudioLoops, AudioClear(a) PROVE NobodyNew'
  BY <1>18 DEF AudioClear
<1>19. ASSUME NEW l \in Lambdas, RequestVideo(l) PROVE NobodyNew'
  BY <1>19 DEF RequestVideo
<1>20. ASSUME NEW l \in Lambdas, FakeAudio(l) PROVE NobodyNew'
  <2>1. pc[l] = "fake" /\ Wakes([pc EXCEPT ![l] = "encode"])
    BY <1>20, <1>0 DEF WakingFacts
  <2>2. UNCHANGED <<stopped, encoderMtx, left>>
    BY <1>20 DEF FakeAudio
  <2> QED
    BY <2>1, <2>2 DEF Wakes
<1>21. ASSUME NEW t \in Workers, Encode(t) PROVE NobodyNew'
  <2>1. /\ pc[t] = "encode"
        /\ Wakes([pc EXCEPT ![t] = IF t \in Loops THEN "test" ELSE "none"])
    BY <1>21, <1>0 DEF WakingFacts
  <2>2. UNCHANGED <<stopped, encoderMtx, left>>
    BY <1>21 DEF Encode
  <2> QED
    BY <2>1, <2>2 DEF Wakes
<1>22. CASE Crash
  BY <1>22 DEF Crash
<1>23. ASSUME NEW m \in Modes, StartStreaming(m) PROVE NobodyNew'
  BY <1>23 DEF StartStreaming
<1>24. CASE StopStreaming
  BY <1>24 DEF StopStreaming
<1>25. CASE SetSound
  BY <1>25 DEF SetSound
<1>26. CASE SetSilent
  <2>1. Wakes(pc)
    BY <1>26, <1>0 DEF WakingFacts
  <2>2. UNCHANGED <<stopped, encoderMtx, left>>
    BY <1>26 DEF SetSilent
  <2> QED
    BY <2>1, <2>2 DEF Wakes
<1>27. CASE EncodeAudio
  <2>1. Wakes(pc)
    BY <1>27, <1>0 DEF WakingFacts
  <2>2. UNCHANGED <<stopped, encoderMtx, left>>
    BY <1>27 DEF EncodeAudio
  <2> QED
    BY <2>1, <2>2 DEF Wakes
<1>28. CASE Resize
  BY <1>28 DEF Resize
<1>29. CASE UNCHANGED vars
  BY <1>29 DEF vars
<1>30. ASSUME NEW t \in Callers, Fill(t) PROVE NobodyNew'
  BY <1>30 DEF Fill
<1> QED
  BY <1>1, <1>2, <1>3, <1>4, <1>5, <1>6, <1>7, <1>8, <1>9, <1>10, <1>11, <1>12,
     <1>13, <1>14, <1>15, <1>16, <1>17, <1>18, <1>19, <1>20, <1>21, <1>22,
     <1>23, <1>24, <1>25, <1>26, <1>27, <1>28, <1>29, <1>30
  DEF Next, CallerStep, VideoLoopStep, AudioLoopStep, LambdaStep, DequeueStep,
      EncodeStep, EnvironmentStep, UseFreed, Fault, Loops, Workers

(* The contexts and the loops of a session match.                          *)
LEMMA StepMatches ==
  ASSUME Types, HeldInv, CalmInv, Calm, Calm', [Next]_vars
  PROVE  ContextMatches'
<1>0. WakingFacts
  BY WakingSteps DEF Types, PcKinds
<1> USE EncoderAssumption DEF Types, Calm, PcKinds, PcType, LockHeld, Goto,
        Fading, Threads, Workers, Loops, Callers, PCs, CallerPCs, StopPCs,
        DequeuePCs, HolderPCs, fieldVars, queueVars, localVars, historyVars,
        glueVars, CalmInv, LeftFade, DownFades, NobodyNew, ContextMatches,
        Between, Down, HeldInv, StoppedInv, AliveInv, DataType, Contexts
<1>1. ASSUME NEW t \in Callers, Initialize(t) PROVE ContextMatches'
  <2>1. CASE stopped
    BY <1>1, <2>1 DEF Initialize
  <2>2. CASE ~stopped
    BY <1>1, <2>2 DEF Initialize, Return
  <2> QED
    BY <2>1, <2>2
<1>2. ASSUME NEW t \in Callers, BuildSucceeds(t) PROVE ContextMatches'
  BY <1>2 DEF BuildSucceeds, Finish, Return
<1>3. ASSUME NEW t \in Callers, BuildFails(t) PROVE ContextMatches'
  BY <1>3 DEF BuildFails, Finish, Return
<1>4. ASSUME NEW t \in Callers, Stop(t) PROVE ContextMatches'
  BY <1>4 DEF Stop, Stopped
<1>5. ASSUME NEW t \in Callers, Grace(t) PROVE ContextMatches'
  <2>1. pc[t] = "grace" /\ Wakes([pc EXCEPT ![t] = "video_set"])
    BY <1>5, <1>0 DEF WakingFacts
  <2>2. UNCHANGED <<ctx, eCtx, stopped, encoderMtx, left, onlyAudio>>
    BY <1>5 DEF Grace
  <2> QED
    BY <2>1, <2>2 DEF Wakes
<1>6. ASSUME NEW t \in Callers, VideoSet(t) PROVE ContextMatches'
  BY <1>6 DEF VideoSet
<1>7. ASSUME NEW t \in Callers, AudioNotify(t) PROVE ContextMatches'
  <2>1. pc[t] = "audio_notify" /\ Wakes([pc EXCEPT ![t] = "audio_set"])
    BY <1>7, <1>0 DEF WakingFacts
  <2>2. UNCHANGED <<ctx, eCtx, stopped, encoderMtx, left, onlyAudio>>
    BY <1>7 DEF AudioNotify
  <2> QED
    BY <2>1, <2>2 DEF Wakes
<1>8. ASSUME NEW t \in Callers, AudioSet(t) PROVE ContextMatches'
  BY <1>8 DEF AudioSet
<1>9. ASSUME NEW t \in Callers, Free(t) PROVE ContextMatches'
  BY <1>9 DEF Free, Stopped
<1>10. ASSUME NEW t \in Loops, Dequeue(t) PROVE ContextMatches'
  BY <1>10 DEF Dequeue, OnQueueStop, QueueOf
<1>11. ASSUME NEW t \in Loops, Wait(t) PROVE ContextMatches'
  BY <1>11 DEF Wait
<1>12. ASSUME NEW t \in Loops, Take(t) PROVE ContextMatches'
  BY <1>12 DEF Take, Survival, OnQueueStop
<1>13. ASSUME NEW t \in Loops, SpuriousWake(t) PROVE ContextMatches'
  BY <1>13 DEF SpuriousWake
<1>14. ASSUME NEW t \in Loops, Detach(t) PROVE ContextMatches'
  BY <1>14 DEF Detach, Survival
<1>15. ASSUME NEW v \in VideoLoops, VideoTest(v) PROVE ContextMatches'
  BY <1>15 DEF VideoTest, Survival
<1>16. ASSUME NEW a \in AudioLoops, AudioStart(a) PROVE ContextMatches'
  BY <1>16 DEF AudioStart
<1>17. ASSUME NEW a \in AudioLoops, AudioTest(a) PROVE ContextMatches'
  BY <1>17 DEF AudioTest, Survival
<1>18. ASSUME NEW a \in AudioLoops, AudioClear(a) PROVE ContextMatches'
  BY <1>18 DEF AudioClear
<1>19. ASSUME NEW l \in Lambdas, RequestVideo(l) PROVE ContextMatches'
  BY <1>19 DEF RequestVideo
<1>20. ASSUME NEW l \in Lambdas, FakeAudio(l) PROVE ContextMatches'
  <2>1. pc[l] = "fake" /\ Wakes([pc EXCEPT ![l] = "encode"])
    BY <1>20, <1>0 DEF WakingFacts
  <2>2. UNCHANGED <<ctx, eCtx, stopped, encoderMtx, left, onlyAudio>>
    BY <1>20 DEF FakeAudio
  <2> QED
    BY <2>1, <2>2 DEF Wakes
<1>21. ASSUME NEW t \in Workers, Encode(t) PROVE ContextMatches'
  <2>1. /\ pc[t] = "encode"
        /\ Wakes([pc EXCEPT ![t] = IF t \in Loops THEN "test" ELSE "none"])
    BY <1>21, <1>0 DEF WakingFacts
  <2>2. UNCHANGED <<ctx, eCtx, arg, stopped, encoderMtx, left>>
    BY <1>21 DEF Encode
  <2>3. onlyAudio' =
          IF t \in Lambdas THEN [onlyAudio EXCEPT ![t] = FALSE] ELSE onlyAudio
    BY <1>21 DEF Encode
  <2>4. onlyAudio \in [Workers -> BOOLEAN]
    BY DEF Types
  <2>5. \A u \in Workers : u # t \/ u \in Loops => onlyAudio'[u] = onlyAudio[u]
    BY ONLY <2>3, <2>4, EncoderAssumption DEF Loops, Workers
  <2> QED
    BY <2>1, <2>2, <2>5 DEF Wakes
<1>22. CASE Crash
  BY <1>22 DEF Crash
<1>23. ASSUME NEW m \in Modes, StartStreaming(m) PROVE ContextMatches'
  BY <1>23 DEF StartStreaming
<1>24. CASE StopStreaming
  BY <1>24 DEF StopStreaming
<1>25. CASE SetSound
  BY <1>25 DEF SetSound
<1>26. CASE SetSilent
  <2>1. Wakes(pc)
    BY <1>26, <1>0 DEF WakingFacts
  <2>2. UNCHANGED <<ctx, arg, stopped, encoderMtx, left, onlyAudio>>
    BY <1>26 DEF SetSilent
  <2>3. eCtx'.mode = eCtx.mode
    BY <1>26 DEF SetSilent
  <2> QED
    BY <2>1, <2>2, <2>3 DEF Wakes
<1>27. CASE EncodeAudio
  <2>1. Wakes(pc)
    BY <1>27, <1>0 DEF WakingFacts
  <2>2. UNCHANGED <<ctx, eCtx, stopped, encoderMtx, left, onlyAudio>>
    BY <1>27 DEF EncodeAudio
  <2> QED
    BY <2>1, <2>2 DEF Wakes
<1>28. CASE Resize
  BY <1>28 DEF Resize
<1>29. CASE UNCHANGED vars
  BY <1>29 DEF vars
<1>30. ASSUME NEW t \in Callers, Fill(t) PROVE ContextMatches'
  BY <1>30 DEF Fill
<1> QED
  BY <1>1, <1>2, <1>3, <1>4, <1>5, <1>6, <1>7, <1>8, <1>9, <1>10, <1>11, <1>12,
     <1>13, <1>14, <1>15, <1>16, <1>17, <1>18, <1>19, <1>20, <1>21, <1>22,
     <1>23, <1>24, <1>25, <1>26, <1>27, <1>28, <1>29, <1>30
  DEF Next, CallerStep, VideoLoopStep, AudioLoopStep, LambdaStep, DequeueStep,
      EncodeStep, EnvironmentStep, UseFreed, Fault, Loops, Workers

(* A lambda matches the session it comes from.                             *)
LEMMA StepLambdas ==
  ASSUME Types, HeldInv, CalmInv, Calm, Calm', [Next]_vars
  PROVE  LambdasMatch'
<1>0. WakingFacts
  BY WakingSteps DEF Types, PcKinds
<1> USE EncoderAssumption DEF Types, Calm, PcKinds, PcType, LockHeld, Goto,
        Fading, Threads, Workers, Loops, Callers, PCs, CallerPCs, StopPCs,
        DequeuePCs, HolderPCs, fieldVars, queueVars, localVars, historyVars,
        glueVars, CalmInv, LeftFade, DownFades, ContextMatches, LambdasMatch,
        Down, HeldInv, StoppedInv, DataType, Contexts
<1>1. ASSUME NEW t \in Callers, Initialize(t) PROVE LambdasMatch'
  <2>1. CASE ~stopped
    BY <1>1, <2>1 DEF Initialize, Return
  <2>2. CASE stopped
    <3>1. /\ pc' = [pc EXCEPT ![t] = "fill"] /\ pc[t] = "init"
          /\ UNCHANGED <<eCtx, arg, onlyAudio>>
      BY <1>1, <2>2 DEF Initialize
    <3>2. CASE t = Hub
      <4>1. \A l \in Lambdas : pc[l] = "none"
        BY <1>1, <2>2, <3>2 DEF Initialize
      <4> QED
        BY <3>1, <3>2, <4>1
    <3>3. CASE t \in Lambdas
      BY <3>1, <3>3
    <3> QED
      BY <3>2, <3>3
  <2> QED
    BY <2>1, <2>2
<1>2. ASSUME NEW t \in Callers, BuildSucceeds(t) PROVE LambdasMatch'
  BY <1>2 DEF BuildSucceeds, Finish, Return
<1>3. ASSUME NEW t \in Callers, BuildFails(t) PROVE LambdasMatch'
  BY <1>3 DEF BuildFails, Finish, Return
<1>4. ASSUME NEW t \in Callers, Stop(t) PROVE LambdasMatch'
  BY <1>4 DEF Stop, Stopped, NextArg
<1>5. ASSUME NEW t \in Callers, Grace(t) PROVE LambdasMatch'
  <2>1. pc[t] = "grace" /\ Wakes([pc EXCEPT ![t] = "video_set"])
    BY <1>5, <1>0 DEF WakingFacts
  <2>2. UNCHANGED <<eCtx, arg, onlyAudio>>
    BY <1>5 DEF Grace
  <2> QED
    BY <2>1, <2>2 DEF Wakes
<1>6. ASSUME NEW t \in Callers, VideoSet(t) PROVE LambdasMatch'
  BY <1>6 DEF VideoSet
<1>7. ASSUME NEW t \in Callers, AudioNotify(t) PROVE LambdasMatch'
  <2>1. pc[t] = "audio_notify" /\ Wakes([pc EXCEPT ![t] = "audio_set"])
    BY <1>7, <1>0 DEF WakingFacts
  <2>2. UNCHANGED <<eCtx, arg, onlyAudio>>
    BY <1>7 DEF AudioNotify
  <2> QED
    BY <2>1, <2>2 DEF Wakes
<1>8. ASSUME NEW t \in Callers, AudioSet(t) PROVE LambdasMatch'
  BY <1>8 DEF AudioSet
<1>9. ASSUME NEW t \in Callers, Free(t) PROVE LambdasMatch'
  BY <1>9 DEF Free, Stopped, NextArg
<1>10. ASSUME NEW t \in Loops, Dequeue(t) PROVE LambdasMatch'
  BY <1>10 DEF Dequeue, OnQueueStop, QueueOf
<1>11. ASSUME NEW t \in Loops, Wait(t) PROVE LambdasMatch'
  BY <1>11 DEF Wait
<1>12. ASSUME NEW t \in Loops, Take(t) PROVE LambdasMatch'
  BY <1>12 DEF Take, Survival, OnQueueStop
<1>13. ASSUME NEW t \in Loops, SpuriousWake(t) PROVE LambdasMatch'
  BY <1>13 DEF SpuriousWake
<1>14. ASSUME NEW t \in Loops, Detach(t) PROVE LambdasMatch'
  <2>1. pc[Hub] # "fill"
    BY <1>14 DEF Detach, Survival, NobodyNew, Between
  <2> QED
    BY <1>14, <2>1 DEF Detach, Survival
<1>15. ASSUME NEW v \in VideoLoops, VideoTest(v) PROVE LambdasMatch'
  BY <1>15 DEF VideoTest, Survival
<1>16. ASSUME NEW a \in AudioLoops, AudioStart(a) PROVE LambdasMatch'
  BY <1>16 DEF AudioStart
<1>17. ASSUME NEW a \in AudioLoops, AudioTest(a) PROVE LambdasMatch'
  BY <1>17 DEF AudioTest, Survival
<1>18. ASSUME NEW a \in AudioLoops, AudioClear(a) PROVE LambdasMatch'
  BY <1>18 DEF AudioClear
<1>19. ASSUME NEW l \in Lambdas, RequestVideo(l) PROVE LambdasMatch'
  BY <1>19 DEF RequestVideo
<1>20. ASSUME NEW l \in Lambdas, FakeAudio(l) PROVE LambdasMatch'
  <2>1. pc[l] = "fake" /\ Wakes([pc EXCEPT ![l] = "encode"])
    BY <1>20, <1>0 DEF WakingFacts
  <2>2. UNCHANGED <<eCtx, arg, onlyAudio>>
    BY <1>20 DEF FakeAudio
  <2> QED
    BY <2>1, <2>2 DEF Wakes
<1>21. ASSUME NEW t \in Workers, Encode(t) PROVE LambdasMatch'
  <2>1. /\ pc[t] = "encode"
        /\ Wakes([pc EXCEPT ![t] = IF t \in Loops THEN "test" ELSE "none"])
    BY <1>21, <1>0 DEF WakingFacts
  <2>2. UNCHANGED <<ctx, eCtx, arg, stopped, encoderMtx, left>>
    BY <1>21 DEF Encode
  <2>3. onlyAudio' =
          IF t \in Lambdas THEN [onlyAudio EXCEPT ![t] = FALSE] ELSE onlyAudio
    BY <1>21 DEF Encode
  <2>4. onlyAudio \in [Workers -> BOOLEAN]
    BY DEF Types
  <2>5. \A u \in Workers : u # t \/ u \in Loops => onlyAudio'[u] = onlyAudio[u]
    BY ONLY <2>3, <2>4, EncoderAssumption DEF Loops, Workers
  <2> QED
    BY <2>1, <2>2, <2>5 DEF Wakes
<1>22. CASE Crash
  BY <1>22 DEF Crash
<1>23. ASSUME NEW m \in Modes, StartStreaming(m) PROVE LambdasMatch'
  BY <1>23 DEF StartStreaming
<1>24. CASE StopStreaming
  BY <1>24 DEF StopStreaming
<1>25. CASE SetSound
  BY <1>25 DEF SetSound
<1>26. CASE SetSilent
  <2>1. Wakes(pc)
    BY <1>26, <1>0 DEF WakingFacts
  <2>2. UNCHANGED <<ctx, arg, stopped, encoderMtx, left, onlyAudio>>
    BY <1>26 DEF SetSilent
  <2>3. eCtx'.mode = eCtx.mode
    BY <1>26 DEF SetSilent
  <2> QED
    BY <2>1, <2>2, <2>3 DEF Wakes
<1>27. CASE EncodeAudio
  <2>1. Wakes(pc)
    BY <1>27, <1>0 DEF WakingFacts
  <2>2. UNCHANGED <<eCtx, arg, onlyAudio>>
    BY <1>27 DEF EncodeAudio
  <2> QED
    BY <2>1, <2>2 DEF Wakes
<1>28. CASE Resize
  BY <1>28 DEF Resize
<1>29. CASE UNCHANGED vars
  BY <1>29 DEF vars
<1>30. ASSUME NEW t \in Callers, Fill(t) PROVE LambdasMatch'
  BY <1>30 DEF Fill
<1> QED
  BY <1>1, <1>2, <1>3, <1>4, <1>5, <1>6, <1>7, <1>8, <1>9, <1>10, <1>11, <1>12,
     <1>13, <1>14, <1>15, <1>16, <1>17, <1>18, <1>19, <1>20, <1>21, <1>22,
     <1>23, <1>24, <1>25, <1>26, <1>27, <1>28, <1>29, <1>30
  DEF Next, CallerStep, VideoLoopStep, AudioLoopStep, LambdaStep, DequeueStep,
      EncodeStep, EnvironmentStep, UseFreed, Fault, Loops, Workers

(* What holds while it is calm. *)
LEMMA StepContext ==
  ASSUME Types, HeldInv, ContextInv, [Next]_vars
  PROVE  ContextInv'
<1> SUFFICES ASSUME Calm' PROVE CalmInv'
  BY DEF ContextInv
<1>1. Calm
  BY CalmBefore
<1>2. CalmInv
  BY <1>1 DEF ContextInv
<1>3. LeftFade'
  BY <1>1, <1>2, StepLeftFade
<1>4. DownFades'
  BY <1>1, <1>2, StepDown
<1>5. NobodyNew'
  BY <1>1, <1>2, StepNobodyNew
<1>6. ContextMatches'
  BY <1>1, <1>2, StepMatches
<1>7. LambdasMatch'
  BY <1>1, <1>2, StepLambdas
<1> QED
  BY <1>3, <1>4, <1>5, <1>6, <1>7 DEF CalmInv

(* The invariant is inductive.                                             *)
LEMMA StepInv == IInv /\ [Next]_vars => IInv'
<1> SUFFICES ASSUME IInv, [Next]_vars PROVE IInv'
  OBVIOUS
<1>1. Types /\ HeldInv /\ StreamsWhenTold /\ ServeInv /\ ContextInv
  BY DEF IInv
<1>2. Types'
  BY <1>1, StepData, StepPc, StepLock DEF Types
<1>3. HeldInv'
  BY <1>1, StepStopped, StepAlive DEF HeldInv
<1>4. StreamsWhenTold' /\ ServeInv' /\ ContextInv'
  BY <1>1, StepStreams, StepServe, StepContext
<1> QED
  BY <1>2, <1>3, <1>4 DEF IInv

-----------------------------------------------------------------------------
(* What a stop leaves behind.                                              *)

At(S) == \E u \in Callers : pc[u] \in S

(* What makes it inductive: one loop of a kind for each notification.      *)
LeftAwake == \A t \in left : pc[t] # "waiting"
OneEach ==
  /\ \A u, v \in VideoLoops \ left : pc[u] # "none" /\ pc[v] # "none" => u = v
  /\ \A u, v \in AudioLoops \ left : pc[u] # "none" /\ pc[v] # "none" => u = v
NotifiedAwake ==
  /\ At({"video_set", "audio_notify", "audio_set", "free"}) =>
       \A v \in VideoLoops : pc[v] # "waiting"
  /\ At({"audio_set", "free"}) => \A a \in AudioLoops : pc[a] # "waiting"
SleepInv == LeftAwake /\ OneEach /\ NotifiedAwake

(* What any step may do to the loops, to left and to who is in stop.       *)
Starts(t) == pc[t] = "none" /\ pc'[t] # "none"
Moves ==
  /\ \A t \in Loops : pc'[t] = "waiting" => pc[t] \in {"waiting", "before_wait"}
  /\ \A t \in Loops : Starts(t) => \E u \in Callers : pc[u] = "build"
  /\ \A u, v \in VideoLoops : Starts(u) /\ Starts(v) => u = v
  /\ \A u, v \in AudioLoops : Starts(u) /\ Starts(v) => u = v
  /\ \A t \in left' \ left : \E u \in Callers : pc[u] = "free"
  /\ \A t \in left \ left' : pc'[t] = "none"
  /\ \A u \in Callers :
       /\ pc'[u] = "video_set" => pc[u] = "video_set" \/ Grace(u)
       /\ pc'[u] = "audio_notify" => pc[u] \in {"audio_notify", "video_set"}
       /\ pc'[u] = "audio_set" => pc[u] = "audio_set" \/ AudioNotify(u)
       /\ pc'[u] = "free" => pc[u] \in {"free", "audio_set"}

(* Only BuildSucceeds starts loops, one of a kind, and only Free leaves    *)
(* loops behind.                                                           *)
LEMMA StepMoves ==
  ASSUME Types, Calm', [Next]_vars
  PROVE  Moves
<1>0. WakingFacts
  BY WakingSteps DEF Types, PcKinds
<1> USE EncoderAssumption DEF Types, Calm, PcKinds, PcType, Goto, Threads,
        Workers, Loops, Callers, PCs, CallerPCs, StopPCs, DequeuePCs,
        fieldVars, queueVars, localVars, historyVars, glueVars, DataType,
        Moves, Starts
<1>1. ASSUME NEW t \in Callers, Initialize(t) PROVE Moves
  <2>1. CASE stopped
    BY <1>1, <2>1 DEF Initialize
  <2>2. CASE ~stopped
    BY <1>1, <2>2 DEF Initialize, Return
  <2> QED
    BY <2>1, <2>2
<1>2. ASSUME NEW t \in Callers, BuildSucceeds(t) PROVE Moves
  BY <1>2 DEF BuildSucceeds, Finish, Return
<1>3. ASSUME NEW t \in Callers, BuildFails(t) PROVE Moves
  BY <1>3 DEF BuildFails, Finish, Return
<1>4. ASSUME NEW t \in Callers, Stop(t) PROVE Moves
  BY <1>4 DEF Stop, Stopped
<1>5. ASSUME NEW t \in Callers, Grace(t) PROVE Moves
  <2>1. pc[t] = "grace" /\ Wakes([pc EXCEPT ![t] = "video_set"])
    BY <1>5, <1>0 DEF WakingFacts
  <2>2. left' = left
    BY <1>5 DEF Grace
  <2> QED
    BY <1>5, <2>1, <2>2 DEF Wakes
<1>6. ASSUME NEW t \in Callers, VideoSet(t) PROVE Moves
  BY <1>6 DEF VideoSet
<1>7. ASSUME NEW t \in Callers, AudioNotify(t) PROVE Moves
  <2>1. pc[t] = "audio_notify" /\ Wakes([pc EXCEPT ![t] = "audio_set"])
    BY <1>7, <1>0 DEF WakingFacts
  <2>2. left' = left
    BY <1>7 DEF AudioNotify
  <2> QED
    BY <1>7, <2>1, <2>2 DEF Wakes
<1>8. ASSUME NEW t \in Callers, AudioSet(t) PROVE Moves
  BY <1>8 DEF AudioSet
<1>9. ASSUME NEW t \in Callers, Free(t) PROVE Moves
  BY <1>9 DEF Free, Stopped
<1>10. ASSUME NEW t \in Loops, Dequeue(t) PROVE Moves
  BY <1>10 DEF Dequeue, OnQueueStop, QueueOf
<1>11. ASSUME NEW t \in Loops, Wait(t) PROVE Moves
  BY <1>11 DEF Wait
<1>12. ASSUME NEW t \in Loops, Take(t) PROVE Moves
  BY <1>12 DEF Take, Survival, OnQueueStop
<1>13. ASSUME NEW t \in Loops, SpuriousWake(t) PROVE Moves
  BY <1>13 DEF SpuriousWake
<1>14. ASSUME NEW t \in Loops, Detach(t) PROVE Moves
  BY <1>14 DEF Detach, Survival
<1>15. ASSUME NEW v \in VideoLoops, VideoTest(v) PROVE Moves
  BY <1>15 DEF VideoTest, Survival
<1>16. ASSUME NEW a \in AudioLoops, AudioStart(a) PROVE Moves
  BY <1>16 DEF AudioStart
<1>17. ASSUME NEW a \in AudioLoops, AudioTest(a) PROVE Moves
  BY <1>17 DEF AudioTest, Survival
<1>18. ASSUME NEW a \in AudioLoops, AudioClear(a) PROVE Moves
  BY <1>18 DEF AudioClear
<1>19. ASSUME NEW l \in Lambdas, RequestVideo(l) PROVE Moves
  BY <1>19 DEF RequestVideo
<1>20. ASSUME NEW l \in Lambdas, FakeAudio(l) PROVE Moves
  <2>1. pc[l] = "fake" /\ Wakes([pc EXCEPT ![l] = "encode"])
    BY <1>20, <1>0 DEF WakingFacts
  <2>2. left' = left
    BY <1>20 DEF FakeAudio
  <2> QED
    BY <2>1, <2>2 DEF Wakes
<1>21. ASSUME NEW t \in Workers, Encode(t) PROVE Moves
  <2>1. /\ pc[t] = "encode"
        /\ Wakes([pc EXCEPT ![t] = IF t \in Loops THEN "test" ELSE "none"])
    BY <1>21, <1>0 DEF WakingFacts
  <2>2. left' = left
    BY <1>21 DEF Encode
  <2> QED
    BY <2>1, <2>2 DEF Wakes
<1>22. CASE Crash
  BY <1>22 DEF Crash
<1>23. ASSUME NEW m \in Modes, StartStreaming(m) PROVE Moves
  BY <1>23 DEF StartStreaming
<1>24. CASE StopStreaming
  BY <1>24 DEF StopStreaming
<1>25. CASE SetSound
  BY <1>25 DEF SetSound
<1>26. CASE SetSilent
  <2>1. Wakes(pc)
    BY <1>26, <1>0 DEF WakingFacts
  <2>2. left' = left
    BY <1>26 DEF SetSilent
  <2> QED
    BY <2>1, <2>2 DEF Wakes
<1>27. CASE EncodeAudio
  <2>1. Wakes(pc)
    BY <1>27, <1>0 DEF WakingFacts
  <2>2. left' = left
    BY <1>27 DEF EncodeAudio
  <2> QED
    BY <2>1, <2>2 DEF Wakes
<1>28. CASE Resize
  BY <1>28 DEF Resize
<1>29. CASE UNCHANGED vars
  BY <1>29 DEF vars
<1>30. ASSUME NEW t \in Callers, Fill(t) PROVE Moves
  BY <1>30 DEF Fill
<1> QED
  BY <1>1, <1>2, <1>3, <1>4, <1>5, <1>6, <1>7, <1>8, <1>9, <1>10, <1>11, <1>12,
     <1>13, <1>14, <1>15, <1>16, <1>17, <1>18, <1>19, <1>20, <1>21, <1>22,
     <1>23, <1>24, <1>25, <1>26, <1>27, <1>28, <1>29, <1>30
  DEF Next, CallerStep, VideoLoopStep, AudioLoopStep, LambdaStep, DequeueStep,
      EncodeStep, EnvironmentStep, UseFreed, Fault, Loops, Workers

(* At the notification of videoCQ at most one loop waits there.            *)
LEMMA GraceWakes ==
  ASSUME Types, Prompt, LeftAwake, OneEach, NEW u \in Callers, Grace(u)
  PROVE  \A v \in VideoLoops : pc'[v] # "waiting"
<1>1. pc[u] = "grace" /\ Notify("video", [pc EXCEPT ![u] = "video_set"])
  BY DEF Grace
<1>2. pc \in [Threads -> PCs] /\ u \in Threads /\ VideoLoops \subseteq Threads \cap Loops
  BY DEF Types, PcKinds, PcType, Callers, Threads, Workers, Loops
<1>3. \A v \in VideoLoops : pc[v] = "waiting" <=> v \in Waiting("video")
  BY <1>2 DEF Waiting, QueueOf
<1>4. CASE Waiting("video") = {} /\ pc' = [pc EXCEPT ![u] = "video_set"]
  BY <1>1, <1>2, <1>3, <1>4
<1>5. ASSUME NEW t \in Waiting("video"),
             pc' = [[pc EXCEPT ![u] = "video_set"] EXCEPT ![t] = "woken"]
      PROVE  \A v \in VideoLoops : pc'[v] # "waiting"
  <2>1. t \in VideoLoops /\ pc[t] = "waiting"
    BY <1>5 DEF Waiting, QueueOf, Loops
  <2>2. \A v \in VideoLoops : pc[v] = "waiting" => v = t
    BY <2>1 DEF LeftAwake, OneEach
  <2> QED
    BY <1>1, <1>2, <1>5, <2>1, <2>2
<1> QED
  BY <1>1, <1>4, <1>5 DEF Notify

(* And at that of audioCQ, where no loop joins meanwhile.                  *)
LEMMA AudioNotifyWakes ==
  ASSUME Types, LeftAwake, OneEach, NEW u \in Callers, AudioNotify(u)
  PROVE  \A a \in AudioLoops : pc'[a] # "waiting"
<1>1. pc[u] = "audio_notify" /\ Notify("audio", [pc EXCEPT ![u] = "audio_set"])
  BY DEF AudioNotify
<1>2. pc \in [Threads -> PCs] /\ u \in Threads /\ AudioLoops \subseteq Threads \cap Loops
  BY DEF Types, PcKinds, PcType, Callers, Threads, Workers, Loops
<1>3. \A a \in AudioLoops : pc[a] = "waiting" <=> a \in Waiting("audio")
  BY <1>2, EncoderAssumption DEF Waiting, QueueOf
<1>4. CASE Waiting("audio") = {} /\ pc' = [pc EXCEPT ![u] = "audio_set"]
  BY <1>1, <1>2, <1>3, <1>4
<1>5. ASSUME NEW t \in Waiting("audio"),
             pc' = [[pc EXCEPT ![u] = "audio_set"] EXCEPT ![t] = "woken"]
      PROVE  \A a \in AudioLoops : pc'[a] # "waiting"
  <2>1. t \in AudioLoops /\ pc[t] = "waiting"
    BY <1>5 DEF Waiting, QueueOf, Loops
  <2>2. \A a \in AudioLoops : pc[a] = "waiting" => a = t
    BY <2>1 DEF LeftAwake, OneEach
  <2> QED
    BY <1>1, <1>2, <1>5, <2>1, <2>2
<1> QED
  BY <1>1, <1>4, <1>5 DEF Notify

(* No loop of a past session waits, and no kind has two loops.             *)
LEMMA StepSleep ==
  ASSUME Types, HeldInv, Calm, Calm', CalmInv, SleepInv, [Next]_vars
  PROVE  SleepInv'
<1>1. Moves
  BY StepMoves
<1>2. left \subseteq Loops /\ left' \subseteq Loops
  <2>1. left \subseteq Loops
    BY DEF Types, DataType
  <2>2. DataType'
    BY StepData DEF Types
  <2> QED
    BY <2>1, <2>2 DEF DataType
<1>3. ASSUME At({"video_set", "audio_notify", "audio_set", "free"})
      PROVE  \A t \in Loops : pc[t] # "before_wait"
  <2>1. Down
    BY <1>3 DEF At, Down, HolderPCs, StopPCs
  <2> QED
    BY <2>1 DEF CalmInv, DownFades, Fading
<1>4. ASSUME At({"video_set", "audio_notify", "audio_set", "free"})
      PROVE  \A v \in VideoLoops : pc'[v] # "waiting"
  BY <1>1, <1>3, <1>4 DEF SleepInv, NotifiedAwake, Moves, Loops
<1>5. ASSUME At({"audio_set", "free"})
      PROVE  \A a \in AudioLoops : pc'[a] # "waiting"
  <2>1. At({"video_set", "audio_notify", "audio_set", "free"})
    BY <1>5 DEF At
  <2> QED
    BY <1>1, <1>3, <1>5, <2>1 DEF SleepInv, NotifiedAwake, Moves, Loops
<1>6. LeftAwake'
  <2> SUFFICES ASSUME NEW t \in left', pc'[t] = "waiting" PROVE FALSE
    BY DEF LeftAwake
  <2>1. t \in Loops /\ pc[t] \in {"waiting", "before_wait"}
    BY <1>1, <1>2 DEF Moves
  <2>2. t \notin left
    BY <2>1 DEF SleepInv, LeftAwake, CalmInv, LeftFade, Fading
  <2>3. At({"audio_set", "free"}) /\ At({"video_set", "audio_notify", "audio_set", "free"})
    BY <1>1, <2>2 DEF Moves, At
  <2> QED
    BY <1>4, <1>5, <2>1, <2>3 DEF Loops
<1>7. OneEach'
  <2>1. ASSUME NEW t \in Loops, t \notin left', pc'[t] # "none"
        PROVE  t \notin left
    BY <1>1, <2>1 DEF Moves
  <2>2. ASSUME NEW t \in Loops, Starts(t)
        PROVE  \A u \in Loops : pc[u] # "none" => u \in left
    BY <1>1, <2>2 DEF Moves, CalmInv, NobodyNew, Between
  <2>3. ASSUME NEW u \in VideoLoops \ left', NEW v \in VideoLoops \ left',
               pc'[u] # "none", pc'[v] # "none"
        PROVE  u = v
    <3>1. u \in Loops /\ v \in Loops /\ u \notin left /\ v \notin left
      BY <2>1, <2>3 DEF Loops
    <3>2. CASE pc[u] # "none" /\ pc[v] # "none"
      BY <3>1, <3>2, <2>3 DEF SleepInv, OneEach
    <3>3. CASE Starts(u) \/ Starts(v)
      <4>1. Starts(u) /\ Starts(v)
        BY <2>2, <2>3, <3>1, <3>3 DEF Starts
      <4> QED
        BY <1>1, <4>1 DEF Moves
    <3> QED
      BY <2>3, <3>2, <3>3 DEF Starts
  <2>4. ASSUME NEW u \in AudioLoops \ left', NEW v \in AudioLoops \ left',
               pc'[u] # "none", pc'[v] # "none"
        PROVE  u = v
    <3>1. u \in Loops /\ v \in Loops /\ u \notin left /\ v \notin left
      BY <2>1, <2>4 DEF Loops
    <3>2. CASE pc[u] # "none" /\ pc[v] # "none"
      BY <3>1, <3>2, <2>4 DEF SleepInv, OneEach
    <3>3. CASE Starts(u) \/ Starts(v)
      <4>1. Starts(u) /\ Starts(v)
        BY <2>2, <2>4, <3>1, <3>3 DEF Starts
      <4> QED
        BY <1>1, <4>1 DEF Moves
    <3> QED
      BY <2>4, <3>2, <3>3 DEF Starts
  <2> QED
    BY <2>3, <2>4 DEF OneEach
<1>8. NotifiedAwake'
  <2>1. ASSUME NEW u \in Callers,
               pc'[u] \in {"video_set", "audio_notify", "audio_set", "free"}
        PROVE  \A v \in VideoLoops : pc'[v] # "waiting"
    <3>1. CASE Grace(u)
      BY <3>1, GraceWakes DEF SleepInv, Calm
    <3>2. CASE ~Grace(u)
      <4>1. At({"video_set", "audio_notify", "audio_set", "free"})
        BY <1>1, <2>1, <3>2 DEF Moves, At, AudioNotify
      <4> QED
        BY <1>4, <4>1
    <3> QED
      BY <3>1, <3>2
  <2>2. ASSUME NEW u \in Callers, pc'[u] \in {"audio_set", "free"}
        PROVE  \A a \in AudioLoops : pc'[a] # "waiting"
    <3>1. CASE AudioNotify(u)
      BY <3>1, AudioNotifyWakes DEF SleepInv
    <3>2. CASE ~AudioNotify(u)
      <4>1. At({"audio_set", "free"})
        BY <1>1, <2>2, <3>2 DEF Moves, At
      <4> QED
        BY <1>5, <4>1
    <3> QED
      BY <3>1, <3>2
  <2> QED
    BY <2>1, <2>2 DEF NotifiedAwake, At
<1> QED
  BY <1>6, <1>7, <1>8 DEF SleepInv

-----------------------------------------------------------------------------
(* The theorems.                                                           *)

(* The threads, the lock, the loops and the contexts agree.                *)
THEOREM EncoderInvariant == Spec => []IInv
BY InitInv, StepInv, PTL DEF Spec

(* Types; and who is in initialize or stop beyond their first line owns    *)
(* encoderMtx, and nobody else does.                                       *)
THEOREM TypeCorrect == Spec => []TypeOK
<1>1. IInv => TypeOK
  BY DEF IInv, Types, DataType, PcKinds, LockHeld, HolderPCs, TypeOK
<1> QED
  BY <1>1, EncoderInvariant, PTL

(* A stream that was told to run is not stopped, whatever the lambdas that *)
(* stop and restart the encoder have done in the meantime.                 *)
THEOREM StreamsCorrect == Spec => []StreamsWhenTold
<1>1. IInv => StreamsWhenTold
  BY DEF IInv
<1> QED
  BY <1>1, EncoderInvariant, PTL

(* A running encoder has loops of its own, for its mode, started after the *)
(* last stop.                                                              *)
THEOREM LoopsCorrect == Spec => []LoopsServe
<1>1. IInv => LoopsServe
  BY DEF IInv, ServeInv, Serves, LoopsServe
<1> QED
  BY <1>1, EncoderInvariant, PTL

(* Where 100 ms suffice, nobody encodes with contexts that stop has freed  *)
(* or that were built for another mode.                                    *)
THEOREM ContextsCorrect == Spec => []ContextsStay
<1>1. IInv => ContextsStay
  <2> SUFFICES ASSUME IInv, Prompt, events \cap {"survival", "crossing"} = {},
                      ctx # "broken", NEW t \in Workers, Using(t)
               PROVE  Usable(t)
    BY DEF ContextsStay
  <2>1. pc[Hub] # "ended"
    BY DEF IInv, HeldInv, AliveInv, Using
  <2>2. CalmInv
    BY <2>1 DEF IInv, ContextInv, Calm
  <2>3. ctx \in {"none", "video", "image"} /\ PcKinds
    BY DEF IInv, Types, DataType
  <2>4. CASE t \in Loops
    <3>1. t \notin left
      BY <2>2, <2>4 DEF CalmInv, LeftFade, Fading, Using
    <3> QED
      BY <2>2, <2>4, <3>1 DEF CalmInv, ContextMatches, Using, Usable, Loops
  <2>5. CASE t \in Lambdas
    <3>1. ~Down
      BY <2>2, <2>5 DEF CalmInv, DownFades, Using, CallerPCs, StopPCs
    <3>2. ctx \in {"video", "image"} /\ ctx = eCtx.mode
      BY <2>2, <2>3, <3>1 DEF CalmInv, ContextMatches
    <3>3. ~onlyAudio[t] => eCtx.mode = "video"
      BY <2>2, <2>5 DEF CalmInv, LambdasMatch, Using
    <3>4. onlyAudio[t] \in BOOLEAN
      BY DEF IInv, Types, DataType
    <3> QED
      BY <3>2, <3>3, <3>4 DEF Usable
  <2> QED
    BY <2>4, <2>5 DEF Workers
<1> QED
  BY <1>1, EncoderInvariant, PTL

(* Between a stop and the next start nobody is left who waits for a        *)
(* notification, however many loops, lambdas and sessions there are, and   *)
(* whatever setSilent and encodeAudio do meanwhile: that stop ends what    *)
(* initialize has started is then a matter of the threads running on.      *)
THEOREM StopCorrect == Spec => []StopWakesAll
<1>1. Init => SleepInv
  BY EncoderAssumption
  DEF Init, SleepInv, LeftAwake, OneEach, NotifiedAwake, At, Loops, Workers, Callers
<1>2. IInv /\ (Calm => SleepInv) /\ [Next]_vars => (Calm' => SleepInv')
  BY CalmBefore, StepSleep DEF IInv, ContextInv
<1>3. IInv /\ (Calm => SleepInv) => StopWakesAll
  <2> SUFFICES ASSUME IInv, SleepInv, Calm, stopped, encoderMtx = NoThread
               PROVE  /\ \A t \in Loops : pc[t] \in {"none", "woken", "test", "clear"}
                      /\ \A l \in Lambdas : pc[l] \in {"none", "stop", "init"}
    BY DEF StopWakesAll
  <2>1. CalmInv
    BY DEF IInv, ContextInv
  <2>2. Between /\ Down
    BY DEF Between, Down
  <2>3. \A t \in Loops : pc[t] \in Fading /\ pc[t] # "waiting"
    BY <2>1, <2>2 DEF CalmInv, DownFades, NobodyNew, SleepInv, LeftAwake, Fading
  <2>4. \A l \in Lambdas : pc[l] \in CallerPCs \cup {"none"} /\ pc[l] \notin HolderPCs
    <3>1. \A l \in Lambdas : l \in Callers /\ l # NoThread
      BY EncoderAssumption DEF Callers, Workers
    <3> QED
      BY <2>1, <2>2, <3>1 DEF CalmInv, DownFades, IInv, Types, LockHeld
  <2> QED
    BY <2>3, <2>4 DEF Fading, CallerPCs, HolderPCs, StopPCs
<1> QED
  BY <1>1, <1>2, <1>3, EncoderInvariant, PTL DEF Spec
=============================================================================
