-------------------------- MODULE AudioFramerProofs --------------------------
(* Theorems about AudioFramer for frames, pictures and elements of any     *)
(* size and any number of lambdas.                                         *)
EXTENDS AudioFramer, TLAPS

-----------------------------------------------------------------------------
(* Arithmetic and types.                                                   *)

(* A time is a natural number of bytes, and frames follow one another.     *)
LEMMA Times ==
  ASSUME NEW n \in Nat
  PROVE  /\ n * Frame \in Nat /\ n * Tick \in Nat
         /\ (n + 1) * Frame = n * Frame + Frame
BY FramerAssumption

(* The nearest picture has a number.                                       *)
LEMMA SyncPtsType == ASSUME NEW n \in Nat PROVE SyncPts(n) \in Nat
<1>1. 2 * n * Frame + Tick \in Nat /\ 2 * Tick \in Nat \ {0}
  <2>1. n * Frame \in Nat /\ 2 * n * Frame = 2 * (n * Frame)
    BY FramerAssumption
  <2> QED
    BY <2>1, FramerAssumption
<1>2. \A a \in Nat, b \in Nat \ {0} : a \div b \in Nat
  OBVIOUS
<1> QED
  BY <1>1, <1>2 DEF SyncPts

(* How far the sound is behind the picture, or ahead of it.                *)
LEMMA PaddingType ==
  TypeOK => Padding = pictures * Tick - framed * Frame /\ Padding \in Int
BY Times, FramerAssumption DEF TypeOK, Padding

(* What is left of an element after padding, rounded.                      *)
LEMMA PaddedSize ==
  ASSUME TypeOK, NEW n \in Nat, n + Padding >= 0, NEW lost \in Rounding(n)
  PROVE  lost \in {0, 1} /\ n + Padding - lost \in Nat
BY PaddingType DEF Rounding

-----------------------------------------------------------------------------
(* The inductive invariant.                                                *)

Bytes == framed * Frame

(* The buffer holds the bytes from number Bytes + 1 to Bytes + n.          *)
Holds(n) == \A i \in 0 .. n - 1 : audioTmpFrame[i] = Bytes + i + 1

(* Where a caller is in its element: all that was taken is framed, in the  *)
(* buffer or still in the element, in this order.                          *)
Place(c) ==
  /\ pc[c] \in {"rest", "copy"} =>
       /\ encodedSize[c] < size[c]
       /\ Bytes + remainedAudioSize + size[c] - encodedSize[c] = taken
       /\ first[c] + encodedSize[c] = Bytes + remainedAudioSize + 1
       /\ Holds(remainedAudioSize)
  /\ pc[c] = "copy" => restFrameSize[c] = Frame - remainedAudioSize
  /\ pc[c] = "send" =>
       /\ encodedSize[c] <= size[c]
       /\ remainedAudioSize = 0
       /\ Bytes + Frame + size[c] - encodedSize[c] = taken
       /\ first[c] + encodedSize[c] = Bytes + Frame + 1
       /\ Holds(Frame)

Ended == pc[Loop] = "ended"

OneCaller == \A c, d \in Running : c = d
OnlyLoop == ~onlyAudio => Running \subseteq {Loop}
AtRest == Running = {} => taken = Bytes + remainedAudioSize /\ Holds(remainedAudioSize)
Tidy == remainedAudioSize < Frame /\ "misframed" \notin events /\ due <= taken
EndedTogether == \A c \in Callers : pc[c] = "ended" <=> Ended

Framing == OneCaller /\ OnlyLoop /\ AtRest /\ \A c \in Callers : Place(c)

FrameInv ==
  /\ EndedTogether
  /\ "overlap" \notin events =>
       /\ Tidy
       /\ Ended => "short" \in events
       /\ ~Ended => Framing

-----------------------------------------------------------------------------
(* Types.                                                                  *)

(* The framer starts with an empty buffer.                                 *)
LEMMA InitInv == Init => TypeOK /\ FrameInv
BY FramerAssumption
DEF Init, TypeOK, Callers, FrameInv, EndedTogether, Tidy, Ended, Framing, OneCaller,
    OnlyLoop, AtRest, Running, Holds, Bytes, Place

(* An element begun is of the types of the fields.                         *)
LEMMA BeginType ==
  ASSUME TypeOK, NEW c \in Callers, NEW n \in Nat, Begin(c, n)
  PROVE  /\ first' \in [Callers -> Nat] /\ size' \in [Callers -> Nat]
         /\ encodedSize' \in [Callers -> Nat] /\ taken' \in 0 .. MaxBytes
         /\ pc' \in [Callers -> {"idle", "rest", "copy", "send", "ended"}]
BY FramerAssumption DEF TypeOK, Begin

(* The fields keep their types, given the bound of the remainder.          *)
LEMMA StepType == TypeOK /\ FrameInv' /\ [Next]_vars => TypeOK'
<1> SUFFICES ASSUME TypeOK, FrameInv', [Next]_vars PROVE TypeOK'
  OBVIOUS
<1>0. "overlap" \notin events' => remainedAudioSize' < Frame
  BY DEF FrameInv, Tidy
<1> USE DEF TypeOK, buffer, element, syncing
<1>1. ASSUME NEW n \in Nat, NEW fake, TakeElement(n, fake) PROVE TypeOK'
  <2>1. Loop \in Callers
    BY DEF Callers
  <2> QED
    BY <1>0, <1>1, <2>1, BeginType DEF TakeElement, Begin, Overlap
<1>2. ASSUME NEW n \in Nat, NEW fake, PadElement(n, fake) PROVE TypeOK'
  <2>1. PICK m \in Nat : Loop \in Callers /\ Begin(Loop, m)
    BY <1>2, PaddedSize DEF Callers, PadElement
  <2>2. due' \in Nat
    BY <1>2, Times, FramerAssumption DEF PadElement
  <2>3. events' \subseteq {"overlap", "short", "misframed"} /\ silent' \in BOOLEAN
    BY <1>2 DEF PadElement
  <2> QED
    BY <1>0, <2>1, <2>2, <2>3, BeginType DEF Begin
<1>3. ASSUME NEW n \in Nat, NEW fake, PadFails(n, fake) PROVE TypeOK'
  BY <1>0, <1>3 DEF PadFails
<1>4. ASSUME NEW c \in Lambdas, TakeSilence(c) PROVE TypeOK'
  <2>1. c \in Callers /\ Tick \in Nat
    BY FramerAssumption DEF Callers
  <2> QED
    BY <1>0, <1>4, <2>1, BeginType DEF TakeSilence, Begin, Overlap
<1>5. ASSUME NEW c \in Callers, RestOfFrame(c) PROVE TypeOK'
  <2>1. Frame - remainedAudioSize \in 0 .. Frame
    BY FramerAssumption
  <2> QED
    BY <1>0, <1>5, <2>1 DEF RestOfFrame
<1>6. ASSUME NEW c \in Callers, CopyOverflows(c) PROVE TypeOK'
  BY <1>0, <1>6 DEF CopyOverflows
<1>7. ASSUME NEW c \in Callers, Copy(c) PROVE TypeOK'
  <2>1. /\ Copied(c) \in Nat /\ remainedAudioSize + Copied(c) <= Frame
        /\ ~Fills(c) => Copied(c) = RestOfData(c)
    BY <1>7 DEF Copy, Copied, RestOfData, Fills
  <2>2. remainedAudioSize' \in 0 .. Frame
    BY <1>7, <2>1, FramerAssumption DEF Copy, Remainder
  <2>3. audioTmpFrame' \in [0 .. Frame - 1 -> Int]
    <3>1. \A i \in 0 .. Frame - 1 : first[c] + encodedSize[c] + i - remainedAudioSize \in Int
      BY FramerAssumption
    <3> QED
      BY <1>7, <3>1 DEF Copy
  <2>4. encodedSize' \in [Callers -> Nat]
    BY <1>7, <2>1 DEF Copy
  <2> QED
    BY <1>0, <1>7, <2>2, <2>3, <2>4 DEF Copy
<1>8. ASSUME NEW c \in Callers, SendFrame(c) PROVE TypeOK'
  <2>1. videoSyncPts' \in Nat /\ soundFrom' \in Nat /\ asked' \in Nat
    <3>1. SyncPts(framed) \in Nat /\ framed * Frame \in Nat
      BY SyncPtsType, Times
    <3>2. CASE UNCHANGED <<videoSyncPts, soundFrom, asked>>
      BY <3>2
    <3>3. CASE Sync
      BY <3>1, <3>3 DEF Sync
    <3> QED
      BY <1>8, <3>2, <3>3 DEF SendFrame
  <2> QED
    BY <1>0, <1>8, <2>1 DEF SendFrame
<1>9. CASE Toggle
  BY <1>0, <1>9 DEF Toggle
<1>10. CASE Picture
  BY <1>0, <1>10, FramerAssumption DEF Picture
<1>11. CASE UNCHANGED vars
  BY <1>11 DEF vars
<1> QED
  BY <1>1, <1>2, <1>3, <1>4, <1>5, <1>6, <1>7, <1>8, <1>9, <1>10, <1>11, FramerAssumption
  DEF Next, TakeSomething, FrameSomething

-----------------------------------------------------------------------------
(* The order of the bytes.                                                 *)

(* Bytes is a number, and a caller that is not idle is one of the Running. *)
LEMMA FramerFacts ==
  TypeOK => /\ Bytes \in Nat /\ framed \in Nat
            /\ Loop \in Callers /\ Lambdas \subseteq Callers
            /\ \A c \in Callers : c \in Running <=> pc[c] # "idle"
BY Times DEF TypeOK, Bytes, Callers, Running

(* One element is begun while nobody else frames.                          *)
LEMMA BeginKeepsFraming ==
  ASSUME TypeOK, FrameInv, NEW c \in Callers, NEW n \in Nat, Begin(c, n),
         Running = {}, "overlap" \notin events,
         onlyAudio \/ c = Loop
  PROVE  Framing' /\ ~Ended' /\ EndedTogether'
<1>1. /\ \A d \in Callers : pc[d] = "idle"
      /\ remainedAudioSize \in Nat /\ remainedAudioSize < Frame /\ Bytes \in Nat /\ taken \in Nat
  BY FramerFacts, FramerAssumption DEF TypeOK, FrameInv, Tidy
<1>2. ~Ended /\ taken = Bytes + remainedAudioSize /\ Holds(remainedAudioSize)
  BY <1>1, FramerFacts DEF Ended, FrameInv, Framing, AtRest
<1>3. \A d \in Callers : pc'[d] = IF d = c /\ n # 0 THEN "rest" ELSE "idle"
  BY <1>1 DEF Begin, TypeOK
<1>4. /\ first'[c] = taken + 1 /\ size'[c] = n /\ encodedSize'[c] = 0 /\ taken' = taken + n
      /\ UNCHANGED <<onlyAudio, buffer, framed>>
  BY DEF Begin, TypeOK
<1>5. Running' \subseteq {c}
  BY <1>3 DEF Running
<1>6. Bytes' = Bytes /\ Holds(remainedAudioSize)'
  BY <1>2, <1>4 DEF Bytes, Holds, buffer
<1>7. Place(c)'
  BY <1>1, <1>2, <1>3, <1>4, <1>6 DEF Place, buffer
<1>8. \A d \in Callers : Place(d)'
  BY <1>3, <1>7 DEF Place
<1>9. AtRest'
  <2>1. CASE n = 0
    BY <1>1, <1>2, <1>4, <1>6, <2>1 DEF AtRest, buffer
  <2>2. CASE n # 0
    BY <1>3, <2>2 DEF AtRest, Running
  <2> QED
    BY <2>1, <2>2
<1> QED
  BY <1>3, <1>4, <1>5, <1>8, <1>9, FramerFacts
  DEF Framing, OneCaller, OnlyLoop, Ended, EndedTogether

(* Who frames alone: all other callers are idle.                           *)
LEMMA Alone ==
  ASSUME TypeOK, FrameInv, "overlap" \notin events, NEW c \in Callers,
         pc[c] \in {"rest", "copy", "send"}
  PROVE  /\ ~Ended /\ Framing /\ Place(c) /\ Tidy
         /\ \A d \in Callers : d # c => pc[d] = "idle"
         /\ onlyAudio \/ c = Loop
BY FramerFacts DEF FrameInv, EndedTogether, Framing, OneCaller, OnlyLoop, Ended

(* A step of the one that frames, from place to place.                     *)
LEMMA MoveKeepsFraming ==
  ASSUME TypeOK, FrameInv, "overlap" \notin events, NEW c \in Callers,
         pc[c] \in {"rest", "copy", "send"}, onlyAudio' = onlyAudio,
         NEW p \in {"idle", "rest", "copy", "send"}, pc' = [pc EXCEPT ![c] = p],
         Place(c)',
         p = "idle" => (taken = Bytes + remainedAudioSize /\ Holds(remainedAudioSize))'
  PROVE  Framing' /\ ~Ended' /\ EndedTogether'
<1>1. /\ \A d \in Callers : pc'[d] = IF d = c THEN p ELSE "idle"
      /\ onlyAudio \/ c = Loop
  BY Alone DEF TypeOK
<1>2. Running' \subseteq {c} /\ (Running' = {} => p = "idle")
  BY <1>1 DEF Running
<1>3. \A d \in Callers : Place(d)'
  BY <1>1 DEF Place
<1> QED
  BY <1>1, <1>2, <1>3, FramerFacts DEF Framing, OneCaller, OnlyLoop, AtRest, Ended, EndedTogether

(* The process ends for all callers together.                              *)
LEMMA EndsTogether ==
  ASSUME TypeOK, EndedTogether, NEW c \in Callers, pc[c] # "ended",
         NEW p, p # "ended", pc' = [pc EXCEPT ![c] = p]
  PROVE  EndedTogether' /\ ~Ended'
BY FramerFacts DEF TypeOK, EndedTogether, Ended

LEMMA TakeStep ==
  ASSUME TypeOK, FrameInv, NEW c \in Callers, NEW n \in Nat, Begin(c, n),
         onlyAudio \/ c = Loop, events' = events \cup Overlap, due' = due
  PROVE  FrameInv'
<1>1. EndedTogether' /\ ~Ended'
  BY EndsTogether DEF Begin, FrameInv
<1>2. CASE "overlap" \in events'
  BY <1>1, <1>2 DEF FrameInv
<1>3. CASE "overlap" \notin events'
  <2>1. Running = {} /\ "overlap" \notin events /\ events' = events
    BY <1>3 DEF Overlap
  <2>2. Framing'
    BY <2>1, BeginKeepsFraming
  <2>3. Tidy'
    BY <2>1, FramerFacts DEF FrameInv, Tidy, Begin, buffer, TypeOK
  <2> QED
    BY <1>1, <2>2, <2>3 DEF FrameInv
<1> QED
  BY <1>2, <1>3

LEMMA PadStep ==
  ASSUME TypeOK, FrameInv, NEW n \in Nat \ {0}, NEW fake, PadElement(n, fake)
  PROVE  FrameInv'
<1>0. PICK lost \in Rounding(n) : Begin(Loop, n + Padding - lost)
  BY DEF PadElement
<1> DEFINE m == n + Padding - lost
<1>a. lost \in {0, 1} /\ m \in Nat
  BY PaddedSize DEF PadElement
<1> HIDE DEF m
<1>1. /\ Loop \in Callers /\ m \in Nat /\ Begin(Loop, m)
      /\ ~onlyAudio /\ pc[Loop] = "idle"
      /\ "overlap" \in events' <=> "overlap" \in events
      /\ "misframed" \in events' <=> "misframed" \in events
  BY <1>0, <1>a, FramerFacts DEF PadElement, Begin, m
<1>2. EndedTogether' /\ ~Ended'
  BY <1>1, EndsTogether DEF Begin, FrameInv
<1>3. ASSUME "overlap" \notin events PROVE Framing' /\ Tidy'
  <2>1. Running = {}
    BY <1>1, <1>3, FramerFacts DEF FrameInv, Framing, OnlyLoop, Ended
  <2>2. Framing'
    BY <1>1, <1>3, <2>1, BeginKeepsFraming
  <2>3. taken = Bytes + remainedAudioSize /\ Tidy
    BY <1>1, <1>3, <2>1 DEF FrameInv, Framing, AtRest, Ended
  <2>4. taken' = taken + m /\ m = n + Padding - lost /\ due' = pictures * Tick
    BY <1>1 DEF PadElement, Begin, m
  <2>5. Padding = pictures * Tick - Bytes /\ pictures * Tick \in Nat
    BY PaddingType, Times, FramerAssumption DEF TypeOK, Bytes
  <2>6. due' <= taken'
    <3>1. /\ Bytes \in Nat /\ remainedAudioSize \in Nat
          /\ n \in Nat \ {0} /\ lost \in {0, 1}
      BY <1>a, FramerFacts DEF TypeOK
    <3> QED
      BY ONLY <2>3, <2>4, <2>5, <3>1
  <2> QED
    BY <1>1, <2>2, <2>3, <2>6 DEF Tidy, Begin, buffer
<1> QED
  BY <1>1, <1>2, <1>3 DEF FrameInv

LEMMA RestStep ==
  ASSUME TypeOK, FrameInv, NEW c \in Callers, RestOfFrame(c) PROVE FrameInv'
<1>1. /\ pc[c] = "rest" /\ pc' = [pc EXCEPT ![c] = "copy"]
      /\ restFrameSize'[c] = Frame - remainedAudioSize
      /\ UNCHANGED <<onlyAudio, buffer, framed, element, encodedSize, taken, due, events>>
  BY DEF RestOfFrame, TypeOK, syncing
<1>2. EndedTogether'
  BY <1>1, EndsTogether DEF FrameInv
<1>3. ASSUME "overlap" \notin events PROVE Framing' /\ ~Ended' /\ Tidy'
  <2>1. Place(c) /\ Tidy
    BY <1>1, <1>3, Alone
  <2>2. Holds(remainedAudioSize)' = Holds(remainedAudioSize) /\ Bytes' = Bytes
    BY <1>1 DEF Holds, Bytes, buffer
  <2>3. pc'[c] = "copy"
    BY <1>1 DEF TypeOK
  <2>4. Place(c)'
    BY <1>1, <2>1, <2>2, <2>3 DEF Place, buffer, element
  <2> QED
    BY <1>1, <1>3, <2>1, <2>4, MoveKeepsFraming DEF Tidy, buffer
<1> QED
  BY <1>1, <1>2, <1>3 DEF FrameInv

(* The guards of memcpy: without an overlap nothing is written outside.    *)
LEMMA OverflowStep ==
  ASSUME TypeOK, FrameInv, NEW c \in Callers, CopyOverflows(c) PROVE FrameInv'
<1>1. EndedTogether'
  BY FramerFacts DEF CopyOverflows, EndedTogether, Ended
<1>2. "overlap" \in events
  <2> SUFFICES ASSUME "overlap" \notin events PROVE FALSE
    OBVIOUS
  <2>1. pc[c] = "copy" /\ (Copied(c) < 0 \/ remainedAudioSize + Copied(c) > Frame)
    BY DEF CopyOverflows
  <2>2. Place(c) /\ Tidy
    BY <2>1, Alone
  <2> QED
    BY <2>1, <2>2, FramerAssumption
    DEF TypeOK, Place, Tidy, Copied, Fills, RestOfData
<1> QED
  BY <1>1, <1>2 DEF FrameInv, CopyOverflows

LEMMA CopyStep ==
  ASSUME TypeOK, FrameInv, NEW c \in Callers, Copy(c) PROVE FrameInv'
<1> DEFINE n == Copied(c)
           p == IF Fills(c) THEN "send" ELSE "idle"
<1>1. /\ pc[c] = "copy" /\ pc' = [pc EXCEPT ![c] = p]
      /\ audioTmpFrame' = [i \in 0 .. Frame - 1 |->
           IF i \in remainedAudioSize .. remainedAudioSize + n - 1
             THEN first[c] + encodedSize[c] + i - remainedAudioSize
             ELSE audioTmpFrame[i]]
      /\ remainedAudioSize' = IF Fills(c) THEN 0 ELSE Remainder(c)
      /\ encodedSize'[c] = encodedSize[c] + n
      /\ UNCHANGED <<onlyAudio, framed, element, taken, due, events>>
  BY DEF Copy, TypeOK, syncing
<1>2. EndedTogether'
  BY <1>1, EndsTogether DEF FrameInv
<1>3. ASSUME "overlap" \notin events PROVE Framing' /\ ~Ended' /\ Tidy'
  <2>1. Place(c) /\ Tidy
    BY <1>1, <1>3, Alone
  <2>2. /\ Frame \in Nat \ {0} /\ Bytes \in Nat /\ remainedAudioSize \in Nat
        /\ encodedSize[c] \in Nat /\ size[c] \in Nat /\ first[c] \in Nat /\ taken \in Nat
    BY FramerFacts, FramerAssumption DEF TypeOK
  <2>3. /\ encodedSize[c] < size[c] /\ restFrameSize[c] = Frame - remainedAudioSize
        /\ Bytes + remainedAudioSize + size[c] - encodedSize[c] = taken
        /\ first[c] + encodedSize[c] = Bytes + remainedAudioSize + 1
        /\ remainedAudioSize < Frame
    BY <1>1, <2>1 DEF Place, Tidy
  <2>4. /\ n \in Nat
        /\ Fills(c) => n = Frame - remainedAudioSize /\ n <= size[c] - encodedSize[c]
        /\ ~Fills(c) => n = size[c] - encodedSize[c] /\ remainedAudioSize + n < Frame
    BY <2>2, <2>3 DEF Copied, Fills, RestOfData
  <2> HIDE DEF n
  <2>5. \A i \in 0 .. remainedAudioSize + n - 1 : audioTmpFrame'[i] = Bytes + i + 1
    <3>1. Holds(remainedAudioSize)
      BY <1>1, <2>1 DEF Place
    <3> SUFFICES ASSUME NEW i \in 0 .. remainedAudioSize + n - 1
                 PROVE  audioTmpFrame'[i] = Bytes + i + 1
      OBVIOUS
    <3>2. i \in 0 .. Frame - 1 /\ remainedAudioSize + n <= Frame
      BY <2>2, <2>3, <2>4
    <3>3. CASE i < remainedAudioSize
      <4>1. audioTmpFrame'[i] = audioTmpFrame[i] /\ i \in 0 .. remainedAudioSize - 1
        BY <1>1, <2>2, <2>4, <3>2, <3>3
      <4> QED
        BY <3>1, <4>1 DEF Holds
    <3>4. CASE i >= remainedAudioSize
      <4>1. audioTmpFrame'[i] = first[c] + encodedSize[c] + i - remainedAudioSize
        BY <1>1, <2>2, <2>4, <3>2, <3>4
      <4> QED
        BY <2>2, <2>3, <3>2, <4>1
    <3> QED
      BY <2>2, <3>2, <3>3, <3>4
  <2>6. Bytes' = Bytes /\ size'[c] = size[c] /\ first'[c] = first[c]
    BY <1>1 DEF Bytes, element
  <2>7. CASE Fills(c)
    <3>1. pc'[c] = "send" /\ p = "send" /\ remainedAudioSize' = 0
      BY <1>1, <2>7 DEF TypeOK
    <3>2. Holds(Frame)'
      BY <2>2, <2>4, <2>5, <2>6, <2>7 DEF Holds
    <3>a. /\ encodedSize'[c] <= size[c]
          /\ Bytes + Frame + size[c] - encodedSize'[c] = taken
          /\ first[c] + encodedSize'[c] = Bytes + Frame + 1
      <4>1. n = Frame - remainedAudioSize /\ n <= size[c] - encodedSize[c]
        BY <2>4, <2>7
      <4>2. encodedSize'[c] = encodedSize[c] + n
        BY <1>1
      <4> QED
        BY <2>2, <2>3, <4>1, <4>2
    <3>b. taken' = taken
      BY <1>1
    <3>3. Place(c)'
      BY <2>6, <3>1, <3>2, <3>a, <3>b DEF Place
    <3>4. Tidy'
      BY <1>1, <2>1, <2>2, <3>1 DEF Tidy
    <3> HIDE DEF p
    <3> QED
      BY <1>1, <1>3, <3>1, <3>3, <3>4, MoveKeepsFraming
  <2>8. CASE ~Fills(c)
    <3>1. pc'[c] = "idle" /\ p = "idle" /\ remainedAudioSize' = remainedAudioSize + n
      BY <1>1, <2>4, <2>8 DEF TypeOK, Remainder, RestOfData
    <3>2. Holds(remainedAudioSize)'
      <4>1. \A i \in 0 .. remainedAudioSize' - 1 : audioTmpFrame'[i] = Bytes' + i + 1
        BY <2>2, <2>4, <2>5, <2>6, <3>1
      <4> QED
        BY <4>1 DEF Holds
    <3>3. Place(c)'
      BY <3>1 DEF Place
    <3>4. Tidy' /\ taken' = Bytes' + remainedAudioSize'
      BY <1>1, <2>1, <2>2, <2>3, <2>4, <2>6, <2>8, <3>1 DEF Tidy
    <3> HIDE DEF p
    <3> QED
      BY <1>1, <1>3, <3>1, <3>2, <3>3, <3>4, MoveKeepsFraming
  <2> QED
    BY <2>7, <2>8
<1> QED
  BY <1>1, <1>2, <1>3 DEF FrameInv

LEMMA SendStep ==
  ASSUME TypeOK, FrameInv, NEW c \in Callers, SendFrame(c) PROVE FrameInv'
<1> DEFINE p == IF encodedSize[c] = size[c] THEN "idle" ELSE "rest"
<1>1. /\ pc[c] = "send" /\ pc' = [pc EXCEPT ![c] = p] /\ framed' = framed + 1
      /\ events' = events \cup
           (IF \E i \in 0 .. Frame - 1 : audioTmpFrame[i] # framed * Frame + i + 1
              THEN {"misframed"} ELSE {})
      /\ UNCHANGED <<onlyAudio, buffer, element, encodedSize, taken, due>>
  BY DEF SendFrame
<1>2. EndedTogether'
  BY <1>1, EndsTogether DEF FrameInv
<1>3. ASSUME "overlap" \notin events PROVE Framing' /\ ~Ended' /\ Tidy' /\ events' = events
  <2>1. Place(c) /\ Tidy
    BY <1>1, <1>3, Alone
  <2>2. /\ Frame \in Nat \ {0} /\ Bytes \in Nat
        /\ encodedSize[c] \in Nat /\ size[c] \in Nat /\ first[c] \in Nat /\ taken \in Nat
    BY FramerFacts, FramerAssumption DEF TypeOK
  <2>3. /\ encodedSize[c] <= size[c] /\ remainedAudioSize = 0
        /\ Bytes + Frame + size[c] - encodedSize[c] = taken
        /\ first[c] + encodedSize[c] = Bytes + Frame + 1
        /\ Holds(Frame)
    BY <1>1, <2>1 DEF Place
  <2>4. events' = events
    BY <1>1, <2>3 DEF Holds, Bytes
  <2>5. Bytes' = Bytes + Frame
    BY <1>1, FramerFacts, Times DEF Bytes
  <2>6. Holds(remainedAudioSize)'
    BY <1>1, <2>3 DEF Holds, buffer
  <2>7. /\ pc'[c] = p /\ p \in {"idle", "rest"}
        /\ p = "idle" <=> encodedSize[c] = size[c]
    BY <1>1 DEF TypeOK
  <2> HIDE DEF p
  <2>8. Place(c)'
    BY <1>1, <2>2, <2>3, <2>5, <2>6, <2>7 DEF Place, buffer, element
  <2>9. p = "idle" => (taken = Bytes + remainedAudioSize)'
    BY <1>1, <2>2, <2>3, <2>5, <2>7 DEF buffer
  <2>10. Tidy'
    BY <1>1, <2>1, <2>4 DEF Tidy, buffer
  <2> QED
    BY <1>1, <1>3, <2>4, <2>6, <2>7, <2>8, <2>9, <2>10, MoveKeepsFraming
<1> QED
  BY <1>1, <1>2, <1>3 DEF FrameInv

(* Sound that begins or ends, and pictures, leave the framer alone.        *)
LEMMA OtherStep ==
  ASSUME TypeOK, FrameInv,
         UNCHANGED <<onlyAudio, buffer, framed, pc, element, encodedSize, restFrameSize,
                     taken, due, events>>
  PROVE  FrameInv'
BY DEF FrameInv, EndedTogether, Ended, Tidy, Framing, OneCaller, OnlyLoop, AtRest, Running,
       Place, Holds, Bytes, buffer, element

(* The invariant is inductive.                                             *)
LEMMA StepFrame == TypeOK /\ FrameInv /\ [Next]_vars => FrameInv'
<1> SUFFICES ASSUME TypeOK, FrameInv, [Next]_vars PROVE FrameInv'
  OBVIOUS
<1>1. ASSUME NEW n \in Nat, NEW fake, TakeElement(n, fake) PROVE FrameInv'
  BY <1>1, TakeStep, FramerFacts DEF TakeElement
<1>2. ASSUME NEW c \in Lambdas, TakeSilence(c) PROVE FrameInv'
  BY <1>2, TakeStep, FramerFacts, FramerAssumption DEF TakeSilence
<1>3. ASSUME NEW n \in Nat, NEW fake, PadFails(n, fake) PROVE FrameInv'
  <2>1. EndedTogether' /\ Ended'
    BY <1>3, FramerFacts DEF PadFails, EndedTogether, Ended
  <2>2. /\ "overlap" \in events' <=> "overlap" \in events
        /\ "misframed" \in events' <=> "misframed" \in events
        /\ "short" \in events'
    BY <1>3 DEF PadFails
  <2>3. "overlap" \notin events => Tidy'
    BY <1>3, <2>2 DEF PadFails, FrameInv, Tidy, buffer, syncing
  <2> QED
    BY <2>1, <2>2, <2>3 DEF FrameInv
<1>4. CASE Toggle \/ Picture
  BY <1>4, OtherStep DEF Toggle, Picture, syncing
<1>5. CASE UNCHANGED vars
  BY <1>5, OtherStep DEF vars, buffer, element
<1>6. Tick \in Nat \ {0} /\ Sizes \subseteq Nat \ {0}
  BY FramerAssumption
<1>7. ASSUME NEW n \in Nat \ {0}, NEW fake, PadElement(n, fake) PROVE FrameInv'
  BY <1>7, PadStep
<1>8. CASE TakeSomething
  BY <1>1, <1>2, <1>3, <1>6, <1>7, <1>8 DEF TakeSomething
<1>9. CASE FrameSomething
  BY <1>9, RestStep, OverflowStep, CopyStep, SendStep DEF FrameSomething
<1> QED
  BY <1>4, <1>5, <1>8, <1>9 DEF Next

-----------------------------------------------------------------------------
(* The theorems.                                                           *)

(* As long as one caller at a time frames, every byte taken is framed, in  *)
(* the buffer or still in the element, in this order.                      *)
THEOREM FramerInvariant == Spec => [](TypeOK /\ FrameInv)
<1>1. TypeOK /\ FrameInv /\ [Next]_vars => TypeOK' /\ FrameInv'
  BY StepType, StepFrame
<1> QED
  BY <1>1, InitInv, PTL DEF Spec

(* The fields keep their types; the remainder is shorter than a frame.     *)
THEOREM TypeCorrect == Spec => []TypeOK
BY FramerInvariant, PTL

(* Frames hold the bytes in order, none lost and none sent twice, whatever *)
(* the sizes of the elements and of the padding.                           *)
THEOREM OrderCorrect == Spec => []FramesInOrder
<1>1. TypeOK /\ FrameInv => FramesInOrder
  <2> SUFFICES ASSUME TypeOK, FrameInv, "overlap" \notin events
               PROVE  /\ "misframed" \notin events
                      /\ \A c \in Callers : pc[c] = "ended" => "short" \in events
                      /\ Running = {} =>
                           /\ taken = framed * Frame + remainedAudioSize
                           /\ \A i \in 0 .. remainedAudioSize - 1 :
                                audioTmpFrame[i] = framed * Frame + i + 1
    BY DEF FramesInOrder
  <2>1. Running = {} => ~Ended
    BY FramerFacts DEF Ended
  <2> QED
    BY <2>1 DEF FrameInv, Tidy, EndedTogether, Framing, AtRest, Holds, Bytes
<1> QED
  BY <1>1, FramerInvariant, PTL

(* Padding brings the sound within a frame of the pictures before it.      *)
THEOREM PaddingCorrect == Spec => []PaddingCatchesUp
<1>1. TypeOK /\ FrameInv => PaddingCatchesUp
  <2> SUFFICES ASSUME TypeOK, FrameInv, "overlap" \notin events, Running = {}
               PROVE  due < (framed + 1) * Frame
    BY DEF PaddingCatchesUp
  <2>1. ~Ended
    BY FramerFacts DEF Ended
  <2>2. taken = Bytes + remainedAudioSize /\ remainedAudioSize < Frame /\ due <= taken
    BY <2>1 DEF FrameInv, Tidy, Framing, AtRest
  <2>3. (framed + 1) * Frame = Bytes + Frame
    BY FramerFacts, Times DEF Bytes
  <2> QED
    BY <2>2, <2>3, FramerFacts, FramerAssumption DEF TypeOK
<1> QED
  BY <1>1, FramerInvariant, PTL

-----------------------------------------------------------------------------
(* Sound and picture.                                                      *)

(* What the provers need to know of an integer division.                   *)
LEMMA Division ==
  ASSUME NEW a \in Nat, NEW b \in Nat \ {0}
  PROVE  /\ a \div b \in Nat
         /\ b * (a \div b) <= a /\ a < b * (a \div b) + b
OBVIOUS

(* av_rescale_q rounds: the picture nearest to a time is at most half a    *)
(* tick after it, and less than half a tick before it.                     *)
LEMMA Nearest ==
  ASSUME NEW n \in Nat
  PROVE  /\ SyncPts(n) \in Nat
         /\ 2 * (SyncPts(n) * Tick) <= 2 * (n * Frame) + Tick
         /\ 2 * (n * Frame) + Tick < 2 * (SyncPts(n) * Tick) + 2 * Tick
<1>1. n * Frame \in Nat /\ 2 * n * Frame = 2 * (n * Frame)
  BY FramerAssumption
<1>2. 2 * n * Frame + Tick \in Nat /\ 2 * Tick \in Nat \ {0} /\ Tick \in Nat
  BY <1>1, FramerAssumption
<1>3. /\ SyncPts(n) \in Nat
      /\ (2 * Tick) * SyncPts(n) <= 2 * n * Frame + Tick
      /\ 2 * n * Frame + Tick < (2 * Tick) * SyncPts(n) + 2 * Tick
  BY <1>2, Division DEF SyncPts
<1>4. (2 * Tick) * SyncPts(n) = 2 * (SyncPts(n) * Tick)
  BY <1>2, <1>3
<1> QED
  BY <1>1, <1>3, <1>4

(* A frame is no longer than a tick, so the nearest picture of the next    *)
(* frame is the same or the next: one request per frame is enough.         *)
LEMMA NextNearest ==
  ASSUME NEW n \in Nat
  PROVE  SyncPts(n + 1) \in {SyncPts(n), SyncPts(n) + 1}
<1> DEFINE p == SyncPts(n)
           q == SyncPts(n + 1)
<1>1. n + 1 \in Nat /\ Tick \in Nat \ {0} /\ Frame <= Tick /\ Frame \in Nat
  BY FramerAssumption
<1>2. (n + 1) * Frame = n * Frame + Frame /\ n * Frame \in Nat
  BY FramerAssumption
<1>3. /\ p \in Nat
      /\ 2 * (p * Tick) <= 2 * (n * Frame) + Tick
      /\ 2 * (n * Frame) + Tick < 2 * (p * Tick) + 2 * Tick
  BY Nearest
<1>4. /\ q \in Nat
      /\ 2 * (q * Tick) <= 2 * ((n + 1) * Frame) + Tick
      /\ 2 * ((n + 1) * Frame) + Tick < 2 * (q * Tick) + 2 * Tick
  BY <1>1, Nearest
<1> HIDE DEF p, q
<1>5. p * Tick \in Nat /\ q * Tick \in Nat
  BY <1>1, <1>3, <1>4
<1>6. p * Tick < q * Tick + Tick /\ q * Tick < p * Tick + 2 * Tick
  BY <1>1, <1>2, <1>3, <1>4, <1>5
<1>7. (q + 1) * Tick = q * Tick + Tick /\ (p + 2) * Tick = p * Tick + 2 * Tick
  BY <1>1, <1>3, <1>4
<1>8. p < q + 1 /\ q < p + 2
  BY <1>1, <1>3, <1>4, <1>5, <1>6, <1>7
<1>9. q = p \/ q = p + 1
  BY <1>3, <1>4, <1>8
<1> QED
  BY <1>9 DEF p, q

(* The first frame belongs to the first picture.                           *)
LEMMA FirstNearest == SyncPts(0) = 0
<1>1. 0 * Frame = 0 /\ SyncPts(0) \in Nat /\ Tick \in Nat \ {0}
  BY Nearest, FramerAssumption
<1>2. 2 * (SyncPts(0) * Tick) <= Tick
  BY <1>1, Nearest
<1>3. SyncPts(0) >= 1 => SyncPts(0) * Tick >= Tick
  BY <1>1
<1> QED
  BY <1>1, <1>2, <1>3

(* Silence last ended before frame f: the pictures asked for since are     *)
(* those from its nearest picture to that of the latest frame.             *)
PaceFrom(f) ==
  /\ soundFrom = f * Frame
  /\ framed = 0 => f = 0 /\ videoSyncPts = 0
  /\ framed > 0 => f < framed /\ videoSyncPts = SyncPts(framed - 1)
  /\ asked = videoSyncPts - SyncPts(f)

PaceInv == ~onlyAudio => \E f \in Nat : PaceFrom(f)

(* Nothing is framed and nothing asked for.                                *)
LEMMA InitPace == Init => PaceInv
BY FirstNearest, FramerAssumption DEF Init, PaceInv, PaceFrom

(* A frame of silence starts the count again; one of sound adds the        *)
(* difference of the nearest pictures, which is zero or one.               *)
LEMMA SendPace ==
  ASSUME TypeOK, PaceInv, NEW c \in Callers, SendFrame(c), ~onlyAudio
  PROVE  PaceInv'
<1>1. PICK f \in Nat : PaceFrom(f)
  BY DEF PaceInv
<1>2. Sync /\ framed' = framed + 1 /\ framed \in Nat /\ framed + 1 - 1 = framed
  BY DEF SendFrame, TypeOK
<1>3. videoSyncPts' = SyncPts(framed) /\ SyncPts(framed) \in Nat /\ SyncPts(f) \in Nat
  BY <1>2, SyncPtsType DEF Sync
<1>4. CASE isSilent
  <2>1. PICK g \in Nat : g = framed
    BY <1>2
  <2>2. soundFrom' = g * Frame /\ asked' = 0
    BY <1>2, <1>4, <2>1 DEF Sync
  <2>3. asked' = videoSyncPts' - SyncPts(g)
    BY <2>1, <2>2, <1>3
  <2>4. PaceFrom(g)'
    BY <2>1, <2>2, <2>3, <1>2, <1>3 DEF PaceFrom, SyncPts
  <2> QED
    BY <2>4 DEF PaceInv
<1>5. CASE ~isSilent
  <2>1. soundFrom' = soundFrom
        /\ asked' = IF SyncPts(framed) # videoSyncPts THEN asked + 1 ELSE asked
    BY <1>2, <1>5 DEF Sync
  <2>2. videoSyncPts \in Nat /\ SyncPts(framed) \in {videoSyncPts, videoSyncPts + 1}
    <3>1. CASE framed = 0
      BY <3>1, <1>1, FirstNearest DEF PaceFrom
    <3>2. CASE framed > 0
      <4>1. framed - 1 \in Nat /\ (framed - 1) + 1 = framed
        BY <1>2, <3>2
      <4>2. SyncPts((framed - 1) + 1) \in {SyncPts(framed - 1), SyncPts(framed - 1) + 1}
        BY <4>1, NextNearest
      <4> QED
        BY <4>1, <4>2, <3>2, <1>1, SyncPtsType DEF PaceFrom
    <3> QED
      BY <3>1, <3>2, <1>2
  <2>3. asked' = videoSyncPts' - SyncPts(f)
    BY <2>1, <2>2, <1>1, <1>3 DEF PaceFrom
  <2>4. f < framed + 1
    BY <1>1, <1>2 DEF PaceFrom
  <2>5. PaceFrom(f)'
    BY <2>1, <2>3, <2>4, <1>1, <1>2, <1>3 DEF PaceFrom, SyncPts
  <2> QED
    BY <2>5 DEF PaceInv
<1> QED
  BY <1>4, <1>5

(* No other step changes what PaceInv is about.                            *)
LEMMA StepPace == TypeOK /\ PaceInv /\ [Next]_vars => PaceInv'
<1> SUFFICES ASSUME TypeOK, PaceInv, [Next]_vars PROVE PaceInv'
  OBVIOUS
<1>1. onlyAudio' = onlyAudio
  BY DEF Next, TakeSomething, FrameSomething, TakeElement, PadElement, PadFails, TakeSilence,
     Begin, RestOfFrame, CopyOverflows, Copy, SendFrame, Toggle, Picture, vars
<1>2. ASSUME UNCHANGED <<framed, videoSyncPts, soundFrom, asked>> PROVE PaceInv'
  BY <1>1, <1>2 DEF PaceInv, PaceFrom, SyncPts
<1>3. ASSUME NEW c \in Callers, SendFrame(c) PROVE PaceInv'
  BY <1>1, <1>3, SendPace DEF PaceInv
<1>4. CASE UNCHANGED vars
  BY <1>2, <1>4 DEF vars
<1>5. CASE TakeSomething
  BY <1>2, <1>5 DEF TakeSomething, TakeElement, PadElement, PadFails, TakeSilence, Begin, syncing
<1>6. CASE FrameSomething
  BY <1>2, <1>3, <1>6 DEF FrameSomething, RestOfFrame, CopyOverflows, Copy, syncing
<1>7. CASE Toggle \/ Picture
  BY <1>2, <1>7 DEF Toggle, Picture, syncing
<1> QED
  BY <1>4, <1>5, <1>6, <1>7 DEF Next

(* Two roundings of at most half a tick each make a tick at most.          *)
LEMMA PaceKept == TypeOK /\ PaceInv => PicturesKeepPace
<1> SUFFICES ASSUME TypeOK, PaceInv, ~onlyAudio PROVE PicturesKeepPace
  BY DEF PicturesKeepPace
<1>1. PICK f \in Nat : PaceFrom(f)
  BY DEF PaceInv
<1> DEFINE n == framed - 1
<1>2. Tick \in Nat \ {0} /\ Frame \in Nat /\ Frame <= Tick /\ framed \in Nat
  BY FramerAssumption DEF TypeOK
<1>3. CASE framed = 0
  <2>1. soundFrom = 0 /\ asked = 0 /\ n * Frame = 0 - Frame /\ 0 * Tick = 0
    BY <1>1, <1>2, <1>3, FirstNearest DEF PaceFrom
  <2> QED
    BY <1>2, <2>1 DEF PicturesKeepPace
<1>4. CASE framed > 0
  <2> DEFINE p == SyncPts(n)
             q == SyncPts(f)
  <2>1. n \in Nat
    BY <1>2, <1>4
  <2>2. /\ p \in Nat
        /\ 2 * (p * Tick) <= 2 * (n * Frame) + Tick
        /\ 2 * (n * Frame) + Tick < 2 * (p * Tick) + 2 * Tick
    BY <2>1, Nearest
  <2>3. /\ q \in Nat
        /\ 2 * (q * Tick) <= 2 * (f * Frame) + Tick
        /\ 2 * (f * Frame) + Tick < 2 * (q * Tick) + 2 * Tick
    BY Nearest
  <2>4. asked = p - q /\ soundFrom = f * Frame
    BY <1>1, <1>4 DEF PaceFrom
  <2> HIDE DEF p, q
  <2>5. (p - q) * Tick = p * Tick - q * Tick /\ p * Tick \in Nat /\ q * Tick \in Nat
    BY <1>2, <2>2, <2>3
  <2>6. n * Frame \in Nat /\ f * Frame \in Nat
    BY <1>2, <2>1
  <2>7. /\ asked * Tick - (n * Frame - soundFrom) <= Tick
        /\ n * Frame - soundFrom - asked * Tick <= Tick
    BY <1>2, <2>2, <2>3, <2>4, <2>5, <2>6
  <2> QED
    BY <2>7 DEF PicturesKeepPace
<1> QED
  BY <1>2, <1>3, <1>4

(* Pictures and sound never differ by more than a picture, for frames of   *)
(* any size up to a tick, however often silence begins and ends.           *)
THEOREM PaceCorrect == Spec => []PicturesKeepPace
<1>1. Spec => []PaceInv
  <2>1. TypeOK /\ PaceInv /\ [Next]_vars => PaceInv'
    BY StepPace
  <2> QED
    BY <2>1, InitPace, TypeCorrect, PTL DEF Spec
<1> QED
  BY <1>1, TypeCorrect, PaceKept, PTL
=============================================================================
