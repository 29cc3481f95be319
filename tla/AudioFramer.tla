----------------------------- MODULE AudioFramer -----------------------------
(***************************************************************************)
(* How the encoder cuts sound into frames (Encoder.cpp, encodeAudioLoop    *)
(* and encodeAudioImpl).  Elements of any size arrive; the codec wants     *)
(* frames of one size; what is left of an element waits in audioTmpFrame   *)
(* for the next.  With video the audio loop also keeps sound and picture   *)
(* in step: it asks for a picture per tick while there is sound, and pads  *)
(* one element with silence when sound begins or ends.  Without video      *)
(* (onlyAudio) a detached lambda per tick frames the silence itself, on    *)
(* the same fields as the loop and the other lambdas.                      *)
(*                                                                         *)
(* Times are counted in bytes of sound: audioFramePts is framed * Frame,   *)
(* videoFramePts is pictures * Tick.  Bytes are numbered as they are       *)
(* taken.  A codec that refuses a frame ends the process: see Encoder.tla. *)
(***************************************************************************)
EXTENDS Integers

CONSTANTS
  Frame,        (* audioTmpFrame->nb_samples * audioBytes                  *)
  Tick,         (* bytes of sound per picture                              *)
  Sizes,        (* sizes of the elements QEMU delivers                     *)
  Loop,         (* the audio loop                                          *)
  Lambdas,      (* the lambdas                                             *)
  MaxBytes,     (* bound on the bytes taken                                *)
  MaxPictures   (* bound on the pictures encoded                           *)

Callers == {Loop} \cup Lambdas

(* A frame of the codec is no longer than a picture lasts: 1024 samples    *)
(* against 1920 (48 kHz, 25 per second).                                   *)
ASSUME FramerAssumption ==
  /\ Frame \in Nat \ {0} /\ Tick \in Nat /\ Frame <= Tick
  /\ Sizes \subseteq Nat \ {0}
  /\ Loop \notin Lambdas
  /\ MaxBytes \in Nat /\ MaxPictures \in Nat

(***************************************************************************)
(* onlyAudio, isSilent     the parameter of the loop and eCtx.isSilent     *)
(* audioTmpFrame, remainedAudioSize   the buffer: the numbers of its       *)
(*                bytes, and how many of them belong to the next frame     *)
(* framed, pictures        frames of sound and pictures encoded            *)
(* silent, videoSyncPts    local to the loop                               *)
(* pc, first, size, encodedSize, restFrameSize   of each caller: its next  *)
(*                step, its element and the locals of the inner loop       *)
(*                                                                         *)
(* History: taken (the bytes taken), soundFrom and asked (the sound framed *)
(* when silence last ended, and the pictures asked for since), due (what   *)
(* the latest padding should have reached), events (what went wrong).      *)
(***************************************************************************)
VARIABLES onlyAudio, isSilent, audioTmpFrame, remainedAudioSize, framed, pictures,
          silent, videoSyncPts, pc, first, size, encodedSize, restFrameSize,
          taken, soundFrom, asked, due, events

buffer == <<audioTmpFrame, remainedAudioSize>>
element == <<first, size>>
syncing == <<silent, videoSyncPts, soundFrom, asked, due>>
vars == <<onlyAudio, isSilent, audioTmpFrame, remainedAudioSize, framed, pictures,
          silent, videoSyncPts, pc, first, size, encodedSize, restFrameSize,
          taken, soundFrom, asked, due, events>>

Init ==
  /\ onlyAudio \in BOOLEAN
  /\ isSilent \in BOOLEAN /\ silent = isSilent
  /\ audioTmpFrame = [i \in 0 .. Frame - 1 |-> 0]
  /\ remainedAudioSize = 0
  /\ framed = 0 /\ pictures = 0
  /\ videoSyncPts = 0
  /\ pc = [c \in Callers |-> "idle"]
  /\ first = [c \in Callers |-> 1] /\ size = [c \in Callers |-> 0]
  /\ encodedSize = [c \in Callers |-> 0] /\ restFrameSize = [c \in Callers |-> 0]
  /\ taken = 0 /\ soundFrom = 0 /\ asked = 0 /\ due = 0
  /\ events = {}

Running == {c \in Callers : pc[c] # "idle"}

-----------------------------------------------------------------------------
(* Elements *)

(* encodeAudioImpl, or the loop, starts on an element of n bytes.          *)
Begin(c, n) ==
  /\ pc[c] = "idle"
  /\ taken + n <= MaxBytes
  /\ pc' = [pc EXCEPT ![c] = IF n = 0 THEN "idle" ELSE "rest"]
  /\ first' = [first EXCEPT ![c] = taken + 1]
  /\ size' = [size EXCEPT ![c] = n]
  /\ encodedSize' = [encodedSize EXCEPT ![c] = 0]
  /\ taken' = taken + n
  /\ UNCHANGED <<onlyAudio, isSilent, buffer, framed, pictures, videoSyncPts,
                 restFrameSize, soundFrom, asked>>

Overlap == IF Running # {} THEN {"overlap"} ELSE {}

(* The loop takes sound of n bytes, or silence that the video thread put   *)
(* in the queue; no need to pad.                                           *)
Change(fake) == silent # isSilent /\ fake # isSilent

TakeElement(n, fake) ==
  /\ onlyAudio \/ ~Change(fake)
  /\ onlyAudio => ~fake
  /\ Begin(Loop, n)
  /\ events' = events \cup Overlap
  /\ UNCHANGED <<silent, due>>

PaddingReversed == framed * Frame - pictures * Tick
Padding == pictures * Tick - framed * Frame

(* The padding is computed in floating point and truncated, which may cost *)
(* a byte, but not when sound and picture are level: then it is exact.     *)
Rounding(n) == IF Padding # 0 /\ n + Padding > 0 THEN {0, 1} ELSE {0}

(* The latest element of the old kind is made longer by what sound is      *)
(* behind the picture.  When it is ahead, the old element overflows the    *)
(* new one: nobody notices, or the process ends (a negative size throws).  *)
(* At the end isSilent is read again, and may have changed since the test. *)
PadElement(n, fake) ==
  /\ ~onlyAudio /\ Change(fake)
  /\ n + Padding >= 0
  /\ \E lost \in Rounding(n) : Begin(Loop, n + Padding - lost)
  /\ silent' \in BOOLEAN
  /\ due' = pictures * Tick
  /\ events' = events \cup (IF Padding < 0 THEN {"short"} ELSE {})

PadFails(n, fake) ==
  /\ pc[Loop] = "idle"
  /\ ~onlyAudio /\ Change(fake)
  /\ Padding < 0
  /\ pc' = [c \in Callers |-> "ended"]
  /\ events' = events \cup {"short"}
  /\ UNCHANGED <<onlyAudio, isSilent, buffer, framed, pictures, syncing, element,
                 encodedSize, restFrameSize, taken>>

(* A lambda frames the silence of a tick; nothing keeps it from running    *)
(* while the one before it does, or while the loop has sound again: the    *)
(* test of isSilent is some time ago.                                      *)
TakeSilence(c) ==
  /\ onlyAudio
  /\ Begin(c, Tick)
  /\ events' = events \cup Overlap
  /\ UNCHANGED <<silent, due>>

-----------------------------------------------------------------------------
(* The inner loop *)

RestOfFrame(c) ==
  /\ pc[c] = "rest"
  /\ pc' = [pc EXCEPT ![c] = "copy"]
  /\ restFrameSize' = [restFrameSize EXCEPT ![c] = Frame - remainedAudioSize]
  /\ UNCHANGED <<onlyAudio, isSilent, buffer, framed, pictures, syncing, element,
                 encodedSize, taken, events>>

RestOfData(c) == size[c] - encodedSize[c]
FillsLate(c) == RestOfData(c) > restFrameSize[c]
Fills(c) == RestOfData(c) >= restFrameSize[c]
Copied(c) == IF Fills(c) THEN restFrameSize[c] ELSE RestOfData(c)

(* memcpy beyond the buffer, which takes an overlap; what may come of it   *)
(* is not followed.                                                        *)
CopyOverflows(c) ==
  /\ pc[c] = "copy"
  /\ Copied(c) < 0 \/ remainedAudioSize + Copied(c) > Frame
  /\ pc' = [d \in Callers |-> "ended"]
  /\ UNCHANGED <<onlyAudio, isSilent, buffer, framed, pictures, syncing, element,
                 encodedSize, restFrameSize, taken, events>>

RemainderForgotten(c) == RestOfData(c)
Remainder(c) == remainedAudioSize + RestOfData(c)

Copy(c) ==
  LET n == Copied(c) IN
  /\ pc[c] = "copy"
  /\ n >= 0 /\ remainedAudioSize + n <= Frame
  /\ audioTmpFrame' = [i \in 0 .. Frame - 1 |->
       IF i \in remainedAudioSize .. remainedAudioSize + n - 1
         THEN first[c] + encodedSize[c] + i - remainedAudioSize
         ELSE audioTmpFrame[i]]
  /\ remainedAudioSize' = IF Fills(c) THEN 0 ELSE Remainder(c)
  /\ encodedSize' = [encodedSize EXCEPT ![c] = @ + n]
  /\ pc' = [pc EXCEPT ![c] = IF Fills(c) THEN "send" ELSE "idle"]
  /\ UNCHANGED <<onlyAudio, isSilent, framed, pictures, syncing, element,
                 restFrameSize, taken, events>>

(* av_rescale_q: the number of the picture nearest to the time of a frame. *)
SyncPts(pts) == (2 * pts * Frame + Tick) \div (2 * Tick)

SyncForgetting ==
  IF isSilent
    THEN videoSyncPts' = SyncPts(framed) /\ soundFrom' = framed * Frame /\ asked' = 0
    ELSE /\ asked' = IF SyncPts(framed) # videoSyncPts THEN asked + 1 ELSE asked
         /\ UNCHANGED <<videoSyncPts, soundFrom>>

(* The loop of the video mode compares before the frame is encoded: with   *)
(* sound it asks for a picture when the nearest one has changed, without   *)
(* it only takes note.                                                     *)
Sync ==
  /\ videoSyncPts' = SyncPts(framed)
  /\ IF isSilent
       THEN soundFrom' = framed * Frame /\ asked' = 0
       ELSE /\ asked' = IF SyncPts(framed) # videoSyncPts THEN asked + 1 ELSE asked
            /\ UNCHANGED soundFrom

SendFrame(c) ==
  /\ pc[c] = "send"
  /\ IF onlyAudio THEN UNCHANGED <<videoSyncPts, soundFrom, asked>> ELSE Sync
  /\ framed' = framed + 1
  /\ pc' = [pc EXCEPT ![c] = IF encodedSize[c] = size[c] THEN "idle" ELSE "rest"]
  /\ events' = events \cup
       (IF \E i \in 0 .. Frame - 1 : audioTmpFrame[i] # framed * Frame + i + 1
          THEN {"misframed"} ELSE {})
  /\ UNCHANGED <<onlyAudio, isSilent, buffer, pictures, silent, element,
                 encodedSize, restFrameSize, taken, due>>

-----------------------------------------------------------------------------
(* The others: sound begins or ends; the video thread encodes a picture.   *)
Toggle ==
  /\ pc[Loop] # "ended"
  /\ isSilent' = ~isSilent
  /\ UNCHANGED <<onlyAudio, buffer, framed, pictures, syncing, pc, element,
                 encodedSize, restFrameSize, taken, events>>

Picture ==
  /\ ~onlyAudio /\ pc[Loop] # "ended"
  /\ pictures < MaxPictures
  /\ pictures' = pictures + 1
  /\ UNCHANGED <<onlyAudio, isSilent, buffer, framed, syncing, pc, element,
                 encodedSize, restFrameSize, taken, events>>

-----------------------------------------------------------------------------
TakeSomething ==
  \/ \E n \in Sizes : TakeElement(n, FALSE) \/ PadElement(n, FALSE) \/ PadFails(n, FALSE)
  \/ TakeElement(Tick, TRUE) \/ PadElement(Tick, TRUE) \/ PadFails(Tick, TRUE)
  \/ \E c \in Lambdas : TakeSilence(c)

FrameSomething ==
  \E c \in Callers :
    \/ RestOfFrame(c)
    \/ CopyOverflows(c)
    \/ Copy(c)
    \/ SendFrame(c)

Next == TakeSomething \/ FrameSomething \/ Toggle \/ Picture

Spec == Init /\ [][Next]_vars

-----------------------------------------------------------------------------
(* Properties *)

TypeOK ==
  /\ onlyAudio \in BOOLEAN /\ isSilent \in BOOLEAN /\ silent \in BOOLEAN
  /\ audioTmpFrame \in [0 .. Frame - 1 -> Int]
  /\ remainedAudioSize \in 0 .. Frame
  /\ "overlap" \notin events => remainedAudioSize < Frame
  /\ framed \in Nat /\ pictures \in 0 .. MaxPictures
  /\ videoSyncPts \in Nat
  /\ pc \in [Callers -> {"idle", "rest", "copy", "send", "ended"}]
  /\ first \in [Callers -> Nat] /\ size \in [Callers -> Nat]
  /\ encodedSize \in [Callers -> Nat]
  /\ restFrameSize \in [Callers -> 0 .. Frame]
  /\ taken \in 0 .. MaxBytes
  /\ soundFrom \in Nat /\ asked \in Nat /\ due \in Nat
  /\ events \subseteq {"overlap", "short", "misframed"}

(* However the sizes fall, as long as one caller at a time frames, every   *)
(* frame sent holds the next bytes in order, no byte is lost or sent twice *)
(* and none is written outside the frame (Encoder.cpp:612-627, 695-710).   *)
FramesInOrder ==
  "overlap" \notin events =>
    /\ "misframed" \notin events
    /\ \A c \in Callers : pc[c] = "ended" => "short" \in events
    /\ Running = {} =>
         /\ taken = framed * Frame + remainedAudioSize
         /\ \A i \in 0 .. remainedAudioSize - 1 : audioTmpFrame[i] = framed * Frame + i + 1

(* Padding brings the sound up to the picture: once the padded element is  *)
(* framed, what lacks to the pictures encoded before it is less than a     *)
(* frame (Encoder.cpp:557-572).                                            *)
PaddingCatchesUp ==
  "overlap" \notin events /\ Running = {} => due < (framed + 1) * Frame

(* While there is sound, the pictures asked for keep pace with it: up to   *)
(* the latest frame, they and the sound since silence ended never differ   *)
(* by more than one picture (Encoder.cpp:636-651).                         *)
PicturesKeepPace ==
  LET sound == (framed - 1) * Frame - soundFrom IN
  ~isSilent /\ pc[Loop] = "idle" /\ ~onlyAudio =>
    /\ asked * Tick - sound <= Tick
    /\ sound - asked * Tick <= Tick
=============================================================================
