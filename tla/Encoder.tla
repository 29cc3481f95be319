------------------------------- MODULE Encoder -------------------------------
(***************************************************************************)
(* The life cycle of the encoder (Encoder.cpp) as startStreaming,          *)
(* stopStreaming, setSilent and encodeAudio of Collabo.cpp drive it.       *)
(*                                                                         *)
(* initialize builds the codec contexts and detaches loops: a video and an *)
(* audio loop for mode "video", an audio loop alone for mode "image".      *)
(* While the machine is silent a loop detaches a lambda per frame instead  *)
(* of waiting for sound.  stop raises stopped, sleeps 100 ms, stops the    *)
(* two queues and frees the contexts; it joins nobody.  A video lambda     *)
(* that sees the screen change its size calls stop and initialize itself.  *)
(*                                                                         *)
(* The threads are the hub (START and STOP), QEMU's audio thread, the      *)
(* loops and the lambdas.  A thread's accesses to shared fields are steps  *)
(* of their own; encoderMtx is held across several of them.  Of each queue *)
(* the model keeps its length and isStop; EncoderCQ.tla has the rest.      *)
(***************************************************************************)
EXTENDS Integers

CONSTANTS
  Hub,          (* the thread of startStreaming and stopStreaming          *)
  VideoLoops,   (* slots for video loops: how many may exist at a time     *)
  AudioLoops,   (* slots for audio loops                                   *)
  Lambdas,      (* slots for lambdas                                       *)
  NoThread,     (* owner of a free encoderMtx                              *)
  Modes,        (* the modes of START: subset of {"video", "image"}        *)
  QueueSize,    (* maxsize of each queue                                   *)
  Prompt,       (* do 100 ms suffice for every thread that is not blocked? *)
  MayFail,      (* can building a context or encoding a frame fail?        *)
  MaxStarts,    (* bound on the calls of startStreaming                    *)
  MaxToggles,   (* bound on the calls of setSilent                         *)
  MaxResizes    (* bound on the changes of the screen's size               *)

Loops == VideoLoops \cup AudioLoops
Workers == Loops \cup Lambdas
Callers == {Hub} \cup Lambdas     (* threads that call initialize and stop *)

ASSUME EncoderAssumption ==
  /\ VideoLoops \cap AudioLoops = {}
  /\ Lambdas \cap Loops = {}
  /\ Hub \notin Workers
  /\ NoThread \notin Workers \cup {Hub}
  /\ Modes \subseteq {"video", "image"}
  /\ QueueSize \in Nat \ {0}
  /\ Prompt \in BOOLEAN /\ MayFail \in BOOLEAN
  /\ MaxStarts \in Nat /\ MaxToggles \in Nat /\ MaxResizes \in Nat

(***************************************************************************)
(* stopped, eCtx, encoderMtx   the fields; of eCtx the silence, the mode   *)
(*               (which codecs are not "none") and the size of the screen  *)
(* ctx           the codec contexts: "none", "broken" when initialize gave *)
(*               up half-way, or the mode they were built for              *)
(* qlen, qstop   of videoCQ and audioCQ                                    *)
(* pc            the next step of the hub, the loops and the lambdas;      *)
(*               "none" for a free slot, and for the hub "ended" once the  *)
(*               process has ended                                         *)
(* onlyAudio     the parameter of that name of a running loop, and for a   *)
(*               lambda that of the loop it comes from                     *)
(* arg           the context a caller is about to hand to initialize       *)
(* qemu          the next step of QEMU's audio thread                      *)
(* silent        its clbCtx.isSilent, which startStreaming copies          *)
(* glueStopped   its flag stopped, set around STOP and START               *)
(* screen        number of changes of the screen's size so far             *)
(* starts, toggles   counters for the bounds                               *)
(* left          history: the loops that outlived a stop                   *)
(* events        history: the irregular things that have happened          *)
(***************************************************************************)
VARIABLES stopped, eCtx, encoderMtx, ctx, qlen, qstop, pc, onlyAudio, arg,
          qemu, silent, glueStopped, screen, starts, toggles, left, events

fieldVars == <<stopped, eCtx, encoderMtx, ctx>>
queueVars == <<qlen, qstop>>
localVars == <<onlyAudio, arg>>
historyVars == <<left, events>>
glueVars == <<qemu, silent, glueStopped, screen, starts, toggles>>
vars == <<stopped, eCtx, encoderMtx, ctx, qlen, qstop, pc, onlyAudio, arg,
          qemu, silent, glueStopped, screen, starts, toggles, left, events>>

Queues == {"video", "audio"}
Contexts == [silent : BOOLEAN, mode : {"video", "image"}, size : 0 .. MaxResizes]
NoContext == [silent |-> FALSE, mode |-> "image", size |-> 0]

Init ==
  /\ stopped = TRUE
  /\ eCtx = NoContext
  /\ encoderMtx = NoThread
  /\ ctx = "none"
  /\ qlen = [q \in Queues |-> 0]
  /\ qstop = [q \in Queues |-> FALSE]
  /\ pc = [t \in Workers \cup {Hub} |-> IF t = Hub THEN "idle" ELSE "none"]
  /\ onlyAudio = [t \in Workers |-> FALSE]
  /\ arg = [t \in Callers |-> NoContext]
  /\ qemu = "idle" /\ silent = TRUE
  /\ glueStopped = FALSE
  /\ screen = 0
  /\ starts = 0 /\ toggles = 0
  /\ left = {} /\ events = {}

Goto(t, from, to) == pc[t] = from /\ pc' = [pc EXCEPT ![t] = to]

-----------------------------------------------------------------------------
(* The queues *)

QueueOf(t) == IF t \in VideoLoops THEN "video" ELSE "audio"
Waiting(q) == {t \in Loops : QueueOf(t) = q /\ pc[t] = "waiting"}

(* dequeueMtx is held from the test for an empty ring to cond.wait, or, if *)
(* isStop forbids to wait, to the end of dequeue.                          *)
DequeueFree(q) ==
  \A t \in Loops : QueueOf(t) = q => pc[t] \notin {"before_wait", "take"}

(* notify_one; p is what pc becomes otherwise. *)
Notify(q, p) ==
  \/ Waiting(q) = {} /\ pc' = p
  \/ \E t \in Waiting(q) : pc' = [p EXCEPT ![t] = "woken"]

(* A stopped or a full queue refuses the element. *)
Enqueue(q, p) ==
  \/ /\ ~qstop[q] /\ qlen[q] < QueueSize
     /\ qlen' = [qlen EXCEPT ![q] = @ + 1]
     /\ Notify(q, p)
  \/ /\ qstop[q] \/ qlen[q] = QueueSize
     /\ UNCHANGED qlen
     /\ pc' = p

(* Where a loop goes when dequeue answers QUEUE_STOP. *)
OnQueueStop(t) == IF t \in VideoLoops THEN "test" ELSE "clear"

(* dequeue: an empty ring makes it wait, unless isStop is set.             *)
Dequeue(t) ==
  LET q == QueueOf(t)
      next == IF qlen[q] = 0 THEN IF qstop[q] THEN "take" ELSE "before_wait"
                             ELSE IF qstop[q] THEN OnQueueStop(t) ELSE "encode" IN
  /\ DequeueFree(q)
  /\ Goto(t, "dequeue", next)
  /\ qlen' = IF next = "encode" THEN [qlen EXCEPT ![q] = @ - 1] ELSE qlen
  /\ UNCHANGED <<fieldVars, qstop, localVars, glueVars, historyVars>>

Wait(t) ==
  /\ Goto(t, "before_wait", "waiting")
  /\ UNCHANGED <<fieldVars, queueVars, localVars, glueVars, historyVars>>

(* boost::condition_variable may wake a thread that nobody notified. *)
SpuriousWake(t) ==
  /\ Goto(t, "waiting", "woken")
  /\ UNCHANGED <<fieldVars, queueVars, localVars, glueVars, historyVars>>

(* A loop that goes on although its encoder is being, or was, stopped.     *)
Survival(t) == IF stopped \/ t \in left THEN {"survival"} ELSE {}

(* The rest of dequeue, which tests isStop again; a woken thread has first *)
(* to lock dequeueMtx.  It takes an element, or from an empty ring         *)
(* ("stale") what is left there: front then stands behind rear, and the    *)
(* ring looks full.                                                        *)
Take(t) ==
  LET q == QueueOf(t) IN
  /\ pc[t] = "take" \/ (pc[t] = "woken" /\ DequeueFree(q))
  /\ pc' = [pc EXCEPT ![t] = IF qstop[q] THEN OnQueueStop(t) ELSE "encode"]
  /\ IF qstop[q]
       THEN UNCHANGED <<qlen, events>>
       ELSE /\ qlen' = [qlen EXCEPT ![q] = IF @ = 0 THEN QueueSize ELSE @ - 1]
            /\ events' = events \cup (IF qlen[q] = 0 THEN {"stale"} ELSE {})
                                \cup Survival(t)
  /\ UNCHANGED <<fieldVars, qstop, localVars, glueVars, left>>

-----------------------------------------------------------------------------
(* initialize *)

(* Where initialize returns to. *)
Return(t) == IF t = Hub THEN "idle" ELSE "fake"

(* An encoder that is not stopped answers ALREADY_INIT_ERROR.  A lambda of *)
(* the last session may still be about to stop and restart the encoder     *)
(* when the hub starts the next one ("crossing").                          *)
Initialize(t) ==
  /\ encoderMtx = NoThread
  /\ Goto(t, "init", IF stopped THEN "fill" ELSE Return(t))
  /\ IF stopped
       THEN /\ encoderMtx' = t
            /\ stopped' = FALSE
            /\ events' = IF t = Hub /\ \E l \in Lambdas : pc[l] # "none"
                         THEN events \cup {"crossing"} ELSE events
            /\ UNCHANGED <<arg, glueStopped>>
       ELSE /\ arg' = [arg EXCEPT ![t] = NoContext]
            /\ glueStopped' = IF t = Hub THEN FALSE ELSE glueStopped
            /\ UNCHANGED <<stopped, encoderMtx, events>>
  /\ UNCHANGED <<eCtx, ctx, queueVars, onlyAudio, qemu, silent, screen, left, starts, toggles>>

(* The contexts and then eCtx, when the loops may see stopped cleared.     *)
Fill(t) ==
  /\ Goto(t, "fill", "build")
  /\ ctx' = "none"
  /\ eCtx' = arg[t]
  /\ arg' = [arg EXCEPT ![t] = NoContext]
  /\ UNCHANGED <<stopped, encoderMtx, queueVars, onlyAudio, glueVars, historyVars>>

Finish(t) ==
  /\ pc[t] = "build"
  /\ encoderMtx' = NoThread
  /\ glueStopped' = IF t = Hub THEN FALSE ELSE glueStopped
  /\ UNCHANGED <<stopped, eCtx, queueVars, arg, qemu, silent, screen, historyVars, starts, toggles>>

(* The loops start: a video loop at its test, an audio loop at start(). *)
BuildSucceeds(t) ==
  /\ Finish(t)
  /\ ctx' = eCtx.mode
  /\ \E v \in VideoLoops, a \in AudioLoops :
       /\ pc[a] = "none"
       /\ onlyAudio' = [onlyAudio EXCEPT ![a] = eCtx.mode = "image"]
       /\ \/ /\ eCtx.mode = "image"
             /\ pc' = [pc EXCEPT ![t] = Return(t), ![a] = "start"]
          \/ /\ eCtx.mode = "video" /\ pc[v] = "none"
             /\ pc' = [pc EXCEPT ![t] = Return(t), ![a] = "start", ![v] = "test"]

(* Every error return leaves stopped as it is, that is, FALSE. *)
BuildFails(t) ==
  /\ MayFail
  /\ Finish(t)
  /\ ctx' = "broken"
  /\ pc' = [pc EXCEPT ![t] = Return(t)]
  /\ UNCHANGED onlyAudio

-----------------------------------------------------------------------------
(* stop *)

(* After stop the hub is done, and a lambda copies eCtx for initialize. *)
StoppedForGood(t) == IF t = Hub THEN "idle" ELSE "fake"
Stopped(t) == IF t = Hub THEN "idle" ELSE "init"
NextArg(t) == IF t = Hub THEN arg ELSE [arg EXCEPT ![t] = eCtx]

Stop(t) ==
  /\ encoderMtx = NoThread
  /\ Goto(t, "stop", IF stopped THEN Stopped(t) ELSE "grace")
  /\ IF stopped THEN arg' = NextArg(t) /\ UNCHANGED encoderMtx
                ELSE encoderMtx' = t /\ UNCHANGED arg
  /\ stopped' = TRUE
  /\ UNCHANGED <<eCtx, ctx, queueVars, onlyAudio, glueVars, historyVars>>

(* Nobody can go on by himself: what 100 ms achieve if they suffice. *)
Quiescent ==
  \A t \in Workers :
    \/ pc[t] \in {"none", "waiting"}
    \/ t \in Lambdas /\ pc[t] \in {"stop", "init", "grace"}

(* usleep returns and videoCQ.stop() notifies; then it raises isStop. *)
GraceUnslept(t) ==
  /\ pc[t] = "grace"
  /\ Notify("video", [pc EXCEPT ![t] = "video_set"])
  /\ UNCHANGED <<fieldVars, queueVars, localVars, glueVars, historyVars>>

Grace(t) ==
  /\ pc[t] = "grace"
  /\ Prompt => Quiescent
  /\ Notify("video", [pc EXCEPT ![t] = "video_set"])
  /\ UNCHANGED <<fieldVars, queueVars, localVars, glueVars, historyVars>>

VideoSet(t) ==
  /\ Goto(t, "video_set", "audio_notify")
  /\ qstop' = [qstop EXCEPT !["video"] = TRUE]
  /\ UNCHANGED <<fieldVars, qlen, localVars, glueVars, historyVars>>

AudioUnnotified(t) ==
  /\ Goto(t, "audio_notify", "audio_set")
  /\ UNCHANGED <<fieldVars, queueVars, localVars, glueVars, historyVars>>

AudioNotify(t) ==
  /\ pc[t] = "audio_notify"
  /\ Notify("audio", [pc EXCEPT ![t] = "audio_set"])
  /\ UNCHANGED <<fieldVars, queueVars, localVars, glueVars, historyVars>>

AudioSet(t) ==
  /\ Goto(t, "audio_set", "free")
  /\ qstop' = [qstop EXCEPT !["audio"] = TRUE]
  /\ UNCHANGED <<fieldVars, qlen, localVars, glueVars, historyVars>>

FreeLocked(t) ==
  /\ Goto(t, "free", Stopped(t))
  /\ ctx' = "none"
  /\ arg' = NextArg(t)
  /\ left' = {u \in Loops : pc[u] # "none"}
  /\ UNCHANGED <<stopped, eCtx, encoderMtx, queueVars, onlyAudio, glueVars, events>>

Free(t) ==
  /\ Goto(t, "free", Stopped(t))
  /\ ctx' = "none"
  /\ encoderMtx' = NoThread
  /\ arg' = NextArg(t)
  /\ left' = {u \in Loops : pc[u] # "none"}
  /\ UNCHANGED <<stopped, eCtx, queueVars, onlyAudio, glueVars, events>>

-----------------------------------------------------------------------------
(* The loops and the lambdas *)

(* The pictures of silence: a lambda takes over, the loop sleeps. *)
Detach(t) ==
  /\ pc[t] = "test" /\ ~stopped /\ eCtx.silent
  /\ t \in VideoLoops \/ onlyAudio[t]
  /\ \E l \in Lambdas :
       /\ pc[l] = "none"
       /\ pc' = [pc EXCEPT ![l] = IF t \in VideoLoops THEN "request" ELSE "encode"]
       /\ onlyAudio' = [onlyAudio EXCEPT ![l] = t \in AudioLoops]
  /\ events' = events \cup Survival(t)
  /\ UNCHANGED <<fieldVars, queueVars, arg, glueVars, left>>

VideoTest(t) ==
  /\ stopped \/ ~eCtx.silent
  /\ Goto(t, "test", IF stopped THEN "none" ELSE "dequeue")
  /\ left' = IF stopped THEN left \ {t} ELSE left
  /\ events' = IF stopped THEN events ELSE events \cup Survival(t)
  /\ UNCHANGED <<fieldVars, queueVars, localVars, glueVars>>

AudioStartForgotten(t) ==
  /\ Goto(t, "start", "test")
  /\ UNCHANGED <<fieldVars, queueVars, localVars, glueVars, historyVars>>

AudioStart(t) ==
  /\ Goto(t, "start", "test")
  /\ qstop' = [qstop EXCEPT !["audio"] = FALSE]
  /\ UNCHANGED <<fieldVars, qlen, localVars, glueVars, historyVars>>

AudioTest(t) ==
  /\ stopped \/ ~eCtx.silent \/ ~onlyAudio[t]
  /\ Goto(t, "test", IF stopped THEN "clear" ELSE "dequeue")
  /\ events' = IF stopped THEN events ELSE events \cup Survival(t)
  /\ UNCHANGED <<fieldVars, queueVars, localVars, glueVars, left>>

AudioClear(t) ==
  /\ DequeueFree("audio")
  /\ Goto(t, "clear", "none")
  /\ qlen' = [qlen EXCEPT !["audio"] = 0]
  /\ onlyAudio' = [onlyAudio EXCEPT ![t] = FALSE]
  /\ left' = left \ {t}
  /\ UNCHANGED <<fieldVars, qstop, arg, glueVars, events>>

(* A lambda's requestVideo; it stops the encoder if the size has changed.  *)
RequestVideo(l) ==
  /\ Goto(l, "request", IF eCtx.size = screen THEN "fake" ELSE "stop")
  /\ eCtx' = [eCtx EXCEPT !.size = screen]
  /\ UNCHANGED <<stopped, encoderMtx, ctx, queueVars, localVars, glueVars, historyVars>>

(* Whether the contexts the code of thread t dereferences are there: all   *)
(* but the audio-only code divide by videoCC->time_base.                   *)
Usable(t) == ctx = "video" \/ (ctx = "image" /\ onlyAudio[t])

Crash ==
  /\ pc' = [t \in Workers \cup {Hub} |-> IF t = Hub THEN "ended" ELSE "none"]
  /\ qemu' = "ended"
  /\ encoderMtx' = NoThread
  /\ UNCHANGED <<stopped, eCtx, ctx, queueVars, localVars, silent, glueStopped, screen, starts, toggles, historyVars>>

(* A video lambda hands a picture's worth of silence to the audio loop. *)
FakeAudioForgotten(l) ==
  /\ Usable(l)
  /\ Goto(l, "fake", "encode")
  /\ UNCHANGED <<fieldVars, queueVars, localVars, glueVars, historyVars>>

FakeAudio(l) ==
  /\ pc[l] = "fake" /\ Usable(l)
  /\ Enqueue("audio", [pc EXCEPT ![l] = "encode"])
  /\ UNCHANGED <<fieldVars, qstop, localVars, glueVars, historyVars>>

(* encodeVideoImpl, and in an audio loop the frames of one element.  While *)
(* there is sound the audio loop of mode "video" also asks for a picture,  *)
(* when the time stamps say so.                                            *)
Encode(t) ==
  LET done == [pc EXCEPT ![t] = IF t \in Loops THEN "test" ELSE "none"] IN
  /\ pc[t] = "encode" /\ Usable(t)
  /\ \/ pc' = done /\ UNCHANGED qlen
     \/ /\ t \in AudioLoops /\ ~onlyAudio[t] /\ ~eCtx.silent
        /\ Enqueue("video", done)
  /\ onlyAudio' = IF t \in Lambdas THEN [onlyAudio EXCEPT ![t] = FALSE] ELSE onlyAudio
  /\ UNCHANGED <<fieldVars, qstop, arg, glueVars, historyVars>>

(* What ends the process: a NULL or freed context;                         *)
UseFreed(t) == pc[t] \in {"fake", "encode"} /\ ~Usable(t) /\ Crash

(* an error that reaches loopStop, as it destroys the joinable std::thread *)
(* it has just made; and maybe av_write_trailer for a muxer whose header   *)
(* was never written.                                                      *)
Fault(t) ==
  \/ t \in Workers /\ pc[t] = "encode" /\ MayFail /\ Crash
  \/ t \in Callers /\ pc[t] = "free" /\ ctx = "broken" /\ Crash

-----------------------------------------------------------------------------
(* The hub, QEMU's audio thread and the screen *)

(* startStreaming; the mode changes only between a STOP and a START.       *)
StartStreaming(m) ==
  /\ m = eCtx.mode \/ glueStopped
  /\ starts < MaxStarts
  /\ Goto(Hub, "idle", "init")
  /\ starts' = starts + 1
  /\ arg' = [arg EXCEPT ![Hub] = [silent |-> silent, mode |-> m, size |-> screen]]
  /\ UNCHANGED <<fieldVars, queueVars, onlyAudio, qemu, silent, glueStopped, screen, historyVars, toggles>>

StopStreaming ==
  /\ Goto(Hub, "idle", "stop")
  /\ glueStopped' = TRUE
  /\ UNCHANGED <<fieldVars, queueVars, localVars, qemu, silent, screen, historyVars, starts, toggles>>

(* setSilent(false): start the queue, then clear isSilent; then clbCtx. *)
SetSound ==
  /\ \/ /\ qemu = "idle" /\ silent /\ toggles < MaxToggles
        /\ qemu' = "sound" /\ toggles' = toggles + 1
        /\ qstop' = [qstop EXCEPT !["video"] = FALSE]
        /\ UNCHANGED <<eCtx, silent>>
     \/ /\ qemu = "sound" /\ qemu' = "sound_set"
        /\ eCtx' = [eCtx EXCEPT !.silent = FALSE]
        /\ UNCHANGED <<qstop, silent, toggles>>
     \/ /\ qemu = "sound_set" /\ qemu' = "idle"
        /\ silent' = FALSE
        /\ UNCHANGED <<qstop, eCtx, toggles>>
  /\ UNCHANGED <<pc, stopped, encoderMtx, ctx, qlen, localVars, glueStopped, screen, starts, historyVars>>

(* setSilent(true): set isSilent, then stop the queue; then clbCtx. *)
SetSilent ==
  /\ \/ /\ qemu = "idle" /\ ~silent /\ toggles < MaxToggles
        /\ qemu' = "silent" /\ toggles' = toggles + 1
        /\ eCtx' = [eCtx EXCEPT !.silent = TRUE]
        /\ UNCHANGED <<qstop, pc, silent>>
     \/ /\ qemu = "silent" /\ qemu' = "silent_set"
        /\ Notify("video", pc)
        /\ UNCHANGED <<qstop, eCtx, silent, toggles>>
     \/ /\ qemu = "silent_set" /\ qemu' = "idle"
        /\ qstop' = [qstop EXCEPT !["video"] = TRUE]
        /\ silent' = TRUE
        /\ UNCHANGED <<pc, eCtx, toggles>>
  /\ UNCHANGED <<stopped, encoderMtx, ctx, qlen, localVars, glueStopped, screen, starts, historyVars>>

(* audio_capture: QEMU has data only while there is sound. *)
EncodeAudio ==
  /\ qemu = "idle" /\ ~silent /\ ~glueStopped
  /\ encoderMtx = NoThread /\ ~stopped
  /\ Enqueue("audio", pc)
  /\ UNCHANGED <<fieldVars, qstop, localVars, glueVars, historyVars>>

Resize ==
  /\ pc[Hub] # "ended"
  /\ screen < MaxResizes
  /\ screen' = screen + 1
  /\ UNCHANGED <<fieldVars, queueVars, pc, localVars, qemu, silent, glueStopped, historyVars, starts, toggles>>

-----------------------------------------------------------------------------
CallerStep(t) ==
  \/ Initialize(t)
  \/ Fill(t)
  \/ BuildSucceeds(t)
  \/ BuildFails(t)
  \/ Stop(t)
  \/ Grace(t)
  \/ VideoSet(t)
  \/ AudioNotify(t)
  \/ AudioSet(t)
  \/ Free(t)

DequeueStep(t) ==
  \/ Dequeue(t)
  \/ Wait(t)
  \/ Take(t)

EncodeStep(t) == Encode(t) \/ UseFreed(t)

VideoLoopStep(v) == VideoTest(v) \/ Detach(v) \/ DequeueStep(v) \/ EncodeStep(v)

AudioLoopStep(a) ==
  \/ AudioStart(a)
  \/ AudioTest(a)
  \/ Detach(a)
  \/ DequeueStep(a)
  \/ EncodeStep(a)
  \/ AudioClear(a)

LambdaStep(l) == RequestVideo(l) \/ FakeAudio(l) \/ EncodeStep(l)

EnvironmentStep ==
  \/ \E m \in Modes : StartStreaming(m)
  \/ StopStreaming
  \/ SetSound
  \/ SetSilent
  \/ EncodeAudio
  \/ Resize

Next ==
  \/ \E t \in Callers : CallerStep(t)
  \/ \E v \in VideoLoops : VideoLoopStep(v)
  \/ \E a \in AudioLoops : AudioLoopStep(a)
  \/ \E l \in Lambdas : LambdaStep(l)
  \/ \E t \in Loops : SpuriousWake(t)
  \/ \E t \in Workers \cup {Hub} : Fault(t)
  \/ EnvironmentStep

Spec == Init /\ [][Next]_vars

(***************************************************************************)
(* Fairness.  Every thread that can go on does, in initialize and stop, in *)
(* the loops, in the lambdas, and in setSilent once it has begun.  Nobody  *)
(* has to call START, STOP, setSilent or encodeAudio.                      *)
(***************************************************************************)
Fairness ==
  /\ \A t \in Callers : WF_vars(CallerStep(t))
  /\ \A v \in VideoLoops : WF_vars(VideoLoopStep(v))
  /\ \A a \in AudioLoops : WF_vars(AudioLoopStep(a))
  /\ \A l \in Lambdas : WF_vars(LambdaStep(l))
  /\ WF_vars(qemu # "idle" /\ (SetSound \/ SetSilent))

FairSpec == Spec /\ Fairness

-----------------------------------------------------------------------------
(* Properties *)

StopPCs == {"stop", "grace", "video_set", "audio_notify", "audio_set", "free"}
CallerPCs == StopPCs \cup {"init", "fill", "build"}
DequeuePCs == {"dequeue", "before_wait", "waiting", "woken", "take"}

(* Types; in particular who is in initialize or stop beyond their first    *)
(* line owns encoderMtx, and nobody else does.                             *)
TypeOK ==
  /\ stopped \in BOOLEAN
  /\ eCtx \in Contexts
  /\ encoderMtx \in Callers \cup {NoThread}
  /\ ctx \in {"none", "broken", "video", "image"}
  /\ qlen \in [Queues -> 0 .. QueueSize]
  /\ qstop \in [Queues -> BOOLEAN]
  /\ pc[Hub] \in CallerPCs \cup {"idle", "ended"}
  /\ \A v \in VideoLoops : pc[v] \in DequeuePCs \cup {"none", "test", "encode"}
  /\ \A a \in AudioLoops :
       pc[a] \in DequeuePCs \cup {"none", "start", "test", "encode", "clear"}
  /\ \A l \in Lambdas :
       pc[l] \in CallerPCs \cup {"none", "request", "fake", "encode"}
  /\ onlyAudio \in [Workers -> BOOLEAN]
  /\ arg \in [Callers -> Contexts]
  /\ qemu \in {"idle", "sound", "sound_set", "silent", "silent_set", "ended"}
  /\ silent \in BOOLEAN /\ glueStopped \in BOOLEAN
  /\ screen \in 0 .. MaxResizes
  /\ starts \in 0 .. MaxStarts /\ toggles \in 0 .. MaxToggles
  /\ left \subseteq Loops /\ events \subseteq {"stale", "survival", "crossing"}
  /\ \A t \in Callers :
       encoderMtx = t <=> pc[t] \in (StopPCs \ {"stop"}) \cup {"fill", "build"}

Using(t) == pc[t] \in {"fake", "encode"}

(* Nobody encodes with contexts that stop has freed or that were built for *)
(* the other mode: stop sleeps 100 ms (Encoder.cpp:263) instead of joining *)
(* the loops and lambdas.  This holds as long as 100 ms suffice, building  *)
(* succeeds, no loop outlives a stop, and no START finds a lambda of the   *)
(* last session still alive: that lambda would restart an encoder that is  *)
(* not its own, and use the video codec of one that has none.              *)
ContextsStay ==
  Prompt /\ events \cap {"survival", "crossing"} = {} /\ ctx # "broken"
    => \A t \in Workers : Using(t) => Usable(t)

(* Between a START and the next STOP the encoder is not stopped, whatever  *)
(* the lambdas that stop and restart it for a new screen size have done in *)
(* the meantime (Encoder.cpp:403-408), except while one of them is at it.  *)
StreamsWhenTold ==
  (/\ starts > 0 /\ ~glueStopped /\ pc[Hub] = "idle"
   /\ \A l \in Lambdas : pc[l] \notin CallerPCs)
    => ~stopped

Running == pc[Hub] # "ended" /\ ~stopped /\ encoderMtx = NoThread /\ ctx \in {"video", "image"}

(* A running encoder has loops of its own, started after the last stop and *)
(* for its mode.  An audio loop ends for good when dequeue says QUEUE_STOP *)
(* (Encoder.cpp:536, 554), and the last stop has left audioCQ stopped.     *)
LoopsServe ==
  Running =>
    /\ \E a \in AudioLoops \ left :
         pc[a] \notin {"none", "clear"} /\ onlyAudio[a] = (ctx = "image")
    /\ ctx = "video" => \E v \in VideoLoops \ left : pc[v] # "none"

(* Calm: 100 ms suffice, and nothing irregular has happened.               *)
Calm == Prompt /\ events \cap {"survival", "crossing"} = {} /\ pc[Hub] # "ended"

(* Between a stop and the next start no loop waits for a notification, and *)
(* no loop or lambda does more than end, stop or restart: stop notifies    *)
(* each queue once, before it raises isStop (EncoderCQ.cpp:99), and that   *)
(* is enough where 100 ms suffice.                                         *)
StopWakesAll ==
  Calm /\ stopped /\ encoderMtx = NoThread =>
    /\ \A t \in Loops : pc[t] \in {"none", "woken", "test", "clear"}
    /\ \A l \in Lambdas : pc[l] \in {"none", "stop", "init"}

EncodesAudio ==
  \/ \E a \in AudioLoops : Encode(a)
  \/ \E l \in Lambdas : onlyAudio[l] /\ Encode(l)

(* A loop waits although nobody will notify it: its queue gets no elements *)
(* in silence, or looks full to enqueue for ever.                          *)
Stuck ==
  \E t \in Loops :
    /\ pc[t] = "waiting"
    /\ \/ eCtx.silent /\ (t \in VideoLoops \/ onlyAudio[t])
       \/ qlen[QueueOf(t)] = QueueSize

(* While the machine is silent the encoder makes up sound: "qemu gives no  *)
(* data in silence, so it has to be made" (Encoder.cpp:532).  It holds if  *)
(* no loop went to sleep on the wrong side of a setSilent (Stuck).         *)
SilenceFlows ==
  <>[](Running /\ eCtx.silent /\ ~Stuck) => []<><<EncodesAudio>>_vars

(* After the last stop every loop and lambda ends, if 100 ms suffice: stop *)
(* notifies each queue once, before it raises isStop (EncoderCQ.cpp:99).   *)
(* A loop that survives a stop shares its queue with the next session's,   *)
(* and that one notification wakes only one of them.                       *)
StopEndsLoops ==
  <>[](stopped /\ pc[Hub] # "ended" /\ "survival" \notin events)
    => <>[](\A t \in Workers : pc[t] = "none")
=============================================================================
