------------------------- MODULE JpegCompressorProofs -------------------------
(* Proofs about JpegCompressor, for any number of loops and clients, any   *)
(* screen and any number of changes.                                       *)
EXTENDS JpegCompressor, TLAPS

Pixels == [Regions -> {0, 1}]

(* The fields of a frame.                                                  *)
LEMMA FrameFields ==
  ASSUME NEW f \in Frames PROVE f.size \in Sizes /\ f.pix \in Pixels /\ f # None
BY CompressorAssumption DEF Frames, Pixels

(* Patching yields a frame of the size of the image that was sent, or      *)
(* leaves what there was.                                                  *)
LEMMA PatchedType ==
  ASSUME NEW pic \in Frames \cup {None}, NEW p \in Frames \cup {None},
         NEW d \in Frames, NEW R
  PROVE  /\ Patched(pic, p, d, R) \in Frames \cup {None}
         /\ p = None => Patched(pic, p, d, R) = d
         /\ Patched(pic, p, d, R) # pic => Patched(pic, p, d, R).size = d.size
         /\ Patched(pic, p, d, R) = None => pic = None
<1>1. CASE p = None \/ pic = None \/ R = {}
  BY <1>1, FrameFields DEF Patched
<1>2. CASE p # None /\ pic # None /\ R # {}
  <2> DEFINE new == [r \in Regions |-> IF r \in R THEN d.pix[r] ELSE pic.pix[r]]
  <2>1. new \in Pixels
    BY <1>2, FrameFields DEF Pixels
  <2>2. Patched(pic, p, d, R) = [d EXCEPT !.pix = new]
    BY <1>2 DEF Patched
  <2>3. [d EXCEPT !.pix = new] \in Frames /\ [d EXCEPT !.pix = new].size = d.size
    <3> HIDE DEF new
    <3> QED
      BY <2>1 DEF Frames, Pixels
  <2> QED
    BY <1>2, <2>2, <2>3, FrameFields
<1> QED
  BY <1>1, <1>2

(* However the guest changes the screen, it stays a frame.                 *)
LEMMA DrawType == TypeOK /\ Draw => screen' \in Frames
<1> SUFFICES ASSUME TypeOK, Draw PROVE screen' \in Frames
  OBVIOUS
<1>1. screen \in [size : Sizes, pix : Pixels]
  BY DEF TypeOK, Frames, Pixels
<1>2. ASSUME NEW r \in Regions, screen' = [screen EXCEPT !.pix[r] = 1 - @]
      PROVE  screen' \in Frames
  <2>1. screen' = [size |-> screen.size, pix |-> [screen.pix EXCEPT ![r] = 1 - @]]
    BY <1>1, <1>2
  <2>2. [screen.pix EXCEPT ![r] = 1 - @] \in Pixels
    BY <1>1, <1>2 DEF Pixels
  <2> QED
    BY <1>1, <2>1, <2>2 DEF Frames, Pixels
<1>3. ASSUME NEW s \in Sizes, screen' = [screen EXCEPT !.size = s] PROVE screen' \in Frames
  BY <1>1, <1>3 DEF Frames, Pixels
<1> QED
  BY <1>2, <1>3 DEF Draw

(* Sending an image leaves the pictures typed, and touches members only.   *)
LEMMA SendType ==
  ASSUME TypeOK, NEW l \in Loops, Send(l)
  PROVE  /\ data[l] \in Frames /\ data[l].size = width[l]
         /\ picture' \in [Clients -> Frames \cup {None}]
         /\ missed' \subseteq members
         /\ \A c \in Clients \ members : picture'[c] = picture[c]
         /\ \A c \in members : picture'[c] \notin {picture[c], None} =>
              picture'[c].size = width[l]
         /\ \A c \in members : prevBuf[l] = None => picture'[c] # None \/ c \in missed'
         /\ \A c \in members : picture'[c] = None => picture[c] = None
         /\ \A c \in members : c \in missed => prevBuf[l] = None \/ c \in missed'
<1>1. data[l] \in Frames /\ data[l].size = width[l] /\ prevBuf[l] \in Frames \cup {None}
  BY DEF TypeOK, Send, Goto
<1>2. PICK R : \/ SendImage(prevBuf[l], data[l], R)
               \/ missed' = missed \cup members /\ UNCHANGED picture
  BY DEF Send
<1>3. CASE missed' = missed \cup members /\ UNCHANGED picture
  BY <1>1, <1>3 DEF TypeOK
<1>4. CASE SendImage(prevBuf[l], data[l], R)
  <2>1. /\ picture' = [c \in Clients |->
               IF c \in members THEN Patched(picture[c], prevBuf[l], data[l], R) ELSE picture[c]]
        /\ missed' = IF prevBuf[l] = None THEN missed \ members ELSE missed
    BY <1>4 DEF SendImage
  <2>2. ASSUME NEW c \in Clients
        PROVE  /\ Patched(picture[c], prevBuf[l], data[l], R) \in Frames \cup {None}
               /\ prevBuf[l] = None => Patched(picture[c], prevBuf[l], data[l], R) = data[l]
               /\ Patched(picture[c], prevBuf[l], data[l], R) # picture[c] =>
                    Patched(picture[c], prevBuf[l], data[l], R).size = data[l].size
               /\ Patched(picture[c], prevBuf[l], data[l], R) = None => picture[c] = None
    <3>1. picture[c] \in Frames \cup {None}
      BY DEF TypeOK
    <3> QED
      BY ONLY <1>1, <3>1, PatchedType
  <2>3. members \subseteq Clients /\ missed \subseteq members
        /\ picture \in [Clients -> Frames \cup {None}]
    BY DEF TypeOK
  <2>4. picture' \in [Clients -> Frames \cup {None}]
    BY <2>1, <2>2, <2>3
  <2>5. data[l] # None
    BY <1>1, FrameFields
  <2> QED
    BY <1>1, <2>1, <2>2, <2>3, <2>4, <2>5
<1> QED
  BY <1>2, <1>3, <1>4

-----------------------------------------------------------------------------
(* Types. *)

(* The program starts out typed.                                           *)
LEMMA InitType == Init => TypeOK
<1> SUFFICES ASSUME Init PROVE TypeOK
  OBVIOUS
<1>1. screen \in Frames /\ screen.size \in Sizes /\ 0 \in 0 .. MaxDraws
  BY FrameFields, CompressorAssumption DEF Init
<1> QED
  BY <1>1 DEF Init, TypeOK, PCs

(* No step of a loop breaks the types.                                     *)
LEMMA LoopKeepsType ==
  ASSUME TypeOK, NEW l \in Loops, LoopStep(l) PROVE TypeOK'
<1> USE DEF TypeOK, Goto, PCs, screenVars, memberVars, shownVars, localVars
<1>1. CASE LoopStart(l)
  BY <1>1 DEF LoopStart
<1>2. CASE AnnounceStart(l)
  BY <1>2 DEF AnnounceStart, SendImageInit
<1>3. CASE TestStopped(l)
  BY <1>3 DEF TestStopped
<1>4. CASE RequestVideo(l)
  <2>1. screen \in Frames /\ screen.size \in Sizes /\ screen # None
    BY FrameFields
  <2> QED
    BY <1>4, <2>1 DEF RequestVideo
<1>5. CASE AnnounceSize(l)
  <2>1. data[l] \in Frames /\ data[l].size \in Sizes
    BY <1>5, FrameFields DEF AnnounceSize
  <2> QED
    BY <1>5, <2>1 DEF AnnounceSize, SendImageInit
<1>6. CASE TestFull(l)
  BY <1>6 DEF TestFull
<1>7. CASE ResetFull(l)
  BY <1>7 DEF ResetFull
<1>8. CASE Send(l)
  BY <1>8, SendType DEF Send
<1> QED
  BY <1>1, <1>2, <1>3, <1>4, <1>5, <1>6, <1>7, <1>8 DEF LoopStep

(* No step of the hub thread or the guest breaks the types.                *)
LEMMA OthersKeepType ==
  ASSUME TypeOK,
         \/ \E l \in Loops : Initialize(l)
         \/ Stop
         \/ \E c \in Clients : Join(c) \/ Leave(c)
         \/ SendFull
         \/ Draw
         \/ UNCHANGED vars
  PROVE  TypeOK'
<1> USE CompressorAssumption
    DEF TypeOK, Goto, PCs, screenVars, memberVars, shownVars, localVars
<1>1. ASSUME NEW l \in Loops, Initialize(l) PROVE TypeOK'
  BY <1>1, FrameFields DEF Initialize, Alive
<1>2. CASE Stop
  BY <1>2 DEF Stop
<1>3. ASSUME NEW c \in Clients, Join(c) PROVE TypeOK'
  BY <1>3 DEF Join
<1>4. ASSUME NEW c \in Clients, Leave(c) PROVE TypeOK'
  BY <1>4 DEF Leave
<1>5. CASE SendFull
  BY <1>5 DEF SendFull
<1>6. CASE Draw
  <2>1. screen' \in Frames
    BY <1>6, DrawType
  <2> QED
    BY <1>6, <2>1 DEF Draw
<1>7. CASE UNCHANGED vars
  BY <1>7 DEF vars
<1> QED
  BY <1>1, <1>2, <1>3, <1>4, <1>5, <1>6, <1>7

(* The types are inductive.                                                *)
LEMMA StepType == TypeOK /\ [Next]_vars => TypeOK'
BY LoopKeepsType, OthersKeepType DEF Next

(* Types; a loop has data exactly between requestVideo and sendImage, and  *)
(* compares images of one size only.                                       *)
THEOREM TypeCorrect == Spec => []TypeOK
BY InitType, StepType, PTL DEF Spec

-----------------------------------------------------------------------------
(* Requests for a full image. *)

ServedBy(l) == pc[l] \in {"reset", "send"} /\ prevBuf[l] = None

(* A loop that is about to reset fullFlag is about to send a full image.   *)
ResetServes == \A l \in Loops : pc[l] = "reset" => prevBuf[l] = None

(* A loop step either leaves what keeps a member's request alone, or       *)
(* passes it on, or serves it.                                             *)
LEMMA LoopKeepsRequest ==
  ASSUME TypeOK, RequestKept, ResetServes, NEW l \in Loops, LoopStep(l)
  PROVE  RequestKept'
<1> SUFFICES ASSUME NEW c \in members, picture'[c] = None
             PROVE  (fullFlag \/ hub = c \/ c \in missed \/ \E k \in Loops : ServedBy(k))'
  BY DEF RequestKept, ServedBy, LoopStep, LoopStart, AnnounceStart, TestStopped, RequestVideo,
         AnnounceSize, TestFull, ResetFull, Send, memberVars
<1> USE DEF TypeOK, Goto, screenVars, memberVars, shownVars, localVars
<1>1. picture[c] = None
  <2>1. CASE Send(l)
    BY <2>1, SendType
  <2> QED
    BY <2>1 DEF LoopStep, LoopStart, AnnounceStart, TestStopped, RequestVideo, AnnounceSize,
                TestFull, ResetFull
<1>2. fullFlag \/ hub = c \/ c \in missed \/ \E k \in Loops : ServedBy(k)
  BY <1>1 DEF RequestKept, ServedBy
<1>3. CASE LoopStart(l) \/ AnnounceStart(l) \/ TestStopped(l) \/ RequestVideo(l) \/ AnnounceSize(l)
  BY <1>2, <1>3 DEF ServedBy, LoopStart, AnnounceStart, TestStopped, RequestVideo, AnnounceSize
<1>4. CASE TestFull(l)
  BY <1>2, <1>4 DEF ServedBy, TestFull
<1>5. CASE ResetFull(l)
  BY <1>2, <1>5 DEF ServedBy, ResetFull, ResetServes
<1>6. CASE Send(l)
  <2>1. ~ServedBy(l) \/ c \in missed'
    BY <1>6, SendType DEF ServedBy
  <2>2. c \in missed => c \in missed'
    BY <1>6, SendType
  <2>3. fullFlag' = fullFlag /\ hub' = hub
    BY <1>6 DEF Send
  <2>4. \A k \in Loops : k # l /\ ServedBy(k) => ServedBy(k)'
    BY <1>6 DEF Send, ServedBy
  <2> QED
    BY <1>2, <2>1, <2>2, <2>3, <2>4
<1> QED
  BY <1>3, <1>4, <1>5, <1>6 DEF LoopStep

(* The hub makes the request for the member it has put in the list.        *)
LEMMA OthersKeepRequest ==
  ASSUME TypeOK, RequestKept,
         \/ \E l \in Loops : Initialize(l)
         \/ Stop
         \/ \E c \in Clients : Join(c) \/ Leave(c)
         \/ SendFull
         \/ Draw
         \/ UNCHANGED vars
  PROVE  RequestKept'
<1> USE DEF TypeOK, RequestKept, Goto, screenVars, memberVars, shownVars, localVars
<1>1. ASSUME NEW l \in Loops, Initialize(l) PROVE RequestKept'
  BY <1>1 DEF Initialize
<1>2. CASE Stop
  BY <1>2 DEF Stop
<1>3. ASSUME NEW c \in Clients, Join(c) PROVE RequestKept'
  BY <1>3, CompressorAssumption DEF Join
<1>4. ASSUME NEW c \in Clients, Leave(c) PROVE RequestKept'
  BY <1>4 DEF Leave
<1>5. CASE SendFull
  BY <1>5 DEF SendFull
<1>6. CASE Draw
  BY <1>6 DEF Draw
<1>7. CASE UNCHANGED vars
  BY <1>7 DEF vars
<1> QED
  BY <1>1, <1>2, <1>3, <1>4, <1>5, <1>6, <1>7

(* A loop drops its buffer in the step before it resets fullFlag.          *)
LEMMA StepResetServes == TypeOK /\ ResetServes /\ [Next]_vars => ResetServes'
BY DEF TypeOK, ResetServes, Next, Goto, LoopStep, Initialize, Stop, Join, SendFull, Leave,
       LoopStart, AnnounceStart, TestStopped, RequestVideo, AnnounceSize, TestFull, ResetFull,
       Send, Draw, vars, localVars

(* No interleaving of sendFull with the loops' test and reset of fullFlag  *)
(* leaves a member without the full image it needs, unless tjCompress2     *)
(* fails.                                                                  *)
THEOREM RequestCorrect == Spec => []RequestKept
<1>1. Init => RequestKept /\ ResetServes
  BY DEF Init, RequestKept, ResetServes
<1>2. TypeOK /\ RequestKept /\ ResetServes /\ [Next]_vars => RequestKept' /\ ResetServes'
  BY LoopKeepsRequest, OthersKeepRequest, StepResetServes DEF Next
<1> QED
  BY <1>1, <1>2, TypeCorrect, PTL DEF Spec

-----------------------------------------------------------------------------
(* Sizes. *)

Running(l) == pc[l] \notin {"new", "done"}

(* What makes SizeKnown inductive: without overlap one loop runs, and past *)
(* its first sendImageInit the members told a size know that loop's.       *)
SizeInv ==
  /\ \A c \in Clients \ members : known[c] = None
  /\ ~overlap =>
       /\ \A k, l \in Loops : Running(k) /\ Running(l) => k = l
       /\ \A l \in Loops : Running(l) /\ pc[l] \notin {"start", "announce"} =>
            \A c \in Clients : known[c] \in {width[l], None}

(* A loop's steps keep it.                                                 *)
LEMMA LoopKeepsSize ==
  ASSUME TypeOK, SizeInv, NEW l \in Loops, LoopStep(l) PROVE SizeInv'
<1> USE DEF TypeOK, Goto, PCs, screenVars, memberVars, shownVars, localVars, SizeInv, Running
<1>1. CASE LoopStart(l)
  BY <1>1 DEF LoopStart
<1>2. CASE AnnounceStart(l)
  BY <1>2 DEF AnnounceStart, SendImageInit
<1>3. CASE TestStopped(l)
  BY <1>3 DEF TestStopped
<1>4. CASE RequestVideo(l)
  BY <1>4 DEF RequestVideo
<1>5. CASE AnnounceSize(l)
  BY <1>5 DEF AnnounceSize, SendImageInit
<1>6. CASE TestFull(l)
  BY <1>6 DEF TestFull
<1>7. CASE ResetFull(l)
  BY <1>7 DEF ResetFull
<1>8. CASE Send(l)
  BY <1>8 DEF Send
<1> QED
  BY <1>1, <1>2, <1>3, <1>4, <1>5, <1>6, <1>7, <1>8 DEF LoopStep

(* So do the hub's and the guest's: a second loop is an overlap.           *)
LEMMA OthersKeepSize ==
  ASSUME TypeOK, SizeInv,
         \/ \E l \in Loops : Initialize(l)
         \/ Stop
         \/ \E c \in Clients : Join(c) \/ Leave(c)
         \/ SendFull
         \/ Draw
         \/ UNCHANGED vars
  PROVE  SizeInv'
<1> USE DEF TypeOK, Goto, PCs, screenVars, memberVars, shownVars, localVars, SizeInv, Running
<1>1. ASSUME NEW l \in Loops, Initialize(l) PROVE SizeInv'
  BY <1>1 DEF Initialize, Alive
<1>2. CASE Stop
  BY <1>2 DEF Stop
<1>3. ASSUME NEW c \in Clients, Join(c) PROVE SizeInv'
  BY <1>3 DEF Join
<1>4. ASSUME NEW c \in Clients, Leave(c) PROVE SizeInv'
  BY <1>4 DEF Leave
<1>5. CASE SendFull
  BY <1>5 DEF SendFull
<1>6. CASE Draw
  BY <1>6 DEF Draw
<1>7. CASE UNCHANGED vars
  BY <1>7 DEF vars
<1> QED
  BY <1>1, <1>2, <1>3, <1>4, <1>5, <1>6, <1>7

(* While no two loops run, whatever image a member is sent is of the size  *)
(* it was last told.                                                       *)
THEOREM SizeCorrect == Spec => SizeKnown
<1>1. Init => SizeInv
  BY DEF Init, SizeInv, Running
<1>2. TypeOK /\ SizeInv /\ [Next]_vars => SizeInv'
  BY LoopKeepsSize, OthersKeepSize DEF Next
<1>3. TypeOK /\ SizeInv /\ [Next]_vars =>
        [\A c \in Clients :
           picture'[c] \notin {picture[c], None} /\ known[c] # None /\ ~overlap
             => picture'[c].size = known[c]]_vars
  <2> SUFFICES ASSUME TypeOK, SizeInv, [Next]_vars, NEW c \in Clients,
                      picture'[c] \notin {picture[c], None}, known[c] # None, ~overlap
               PROVE  picture'[c].size = known[c]
    OBVIOUS
  <2>1. \E l \in Loops : Send(l)
    BY DEF Next, LoopStep, Initialize, Stop, Join, SendFull, Leave, LoopStart, AnnounceStart,
           TestStopped, RequestVideo, AnnounceSize, TestFull, ResetFull, Draw, vars, shownVars,
           TypeOK
  <2>2. PICK l \in Loops : Send(l)
    BY <2>1
  <2>3. c \in members /\ picture'[c].size = width[l]
    BY <2>2, SendType
  <2>4. known[c] = width[l]
    BY <2>2 DEF SizeInv, Running, Send, Goto
  <2> QED
    BY <2>3, <2>4
<1> QED
  BY <1>1, <1>2, <1>3, TypeCorrect, PTL DEF Spec, SizeKnown

-----------------------------------------------------------------------------
(* Pictures. *)

(* The comparison of two images leaves the bottom-right pixel out.         *)
Agree(f, g) == f.size = g.size /\ \A r \in Regions \ {Corner} : f.pix[r] = g.pix[r]

(* While no two loops were alive at a time, what a member has is what the  *)
(* loop compares the next image with, but for the bottom-right pixel and   *)
(* for images that tjCompress2 failed to compress (JpegCompressor.cpp:114: *)
(* prevBuf is what the loop saw, not what was received).                   *)
PictureFollows ==
  ~overlap =>
    \A l \in Loops : \A c \in members \ missed :
      prevBuf[l] # None /\ picture[c] # None => Agree(picture[c], prevBuf[l])

(* Why: without overlap one loop runs, and who joins has no picture yet.   *)
OneRuns == ~overlap => \A k, l \in Loops : Running(k) /\ Running(l) => k = l
OutsidersBlank == \A c \in Clients \ members : picture[c] = None

(* A rectangle around all that differs turns a picture that agrees with    *)
(* the previous image into one that agrees with the new image.             *)
LEMMA PatchedAgrees ==
  ASSUME NEW pic \in Frames, NEW p \in Frames \cup {None}, NEW d \in Frames,
         NEW R \in Rectangles(p, d), p # None => Agree(pic, p) /\ p.size = d.size
  PROVE  Agree(Patched(pic, p, d, R), d)
<1>1. CASE p = None
  BY <1>1 DEF Patched, Agree
<1>2. CASE p # None
  <2> DEFINE new == [r \in Regions |-> IF r \in R THEN d.pix[r] ELSE pic.pix[r]]
  <2>1. \A r \in Regions \ {Corner} : pic.pix[r] = p.pix[r]
    BY <1>2 DEF Agree
  <2>2. \A r \in Regions \ {Corner} : r \notin R => p.pix[r] = d.pix[r]
    BY <1>2 DEF Rectangles, Differ
  <2>3. CASE R = {}
    <3>1. Patched(pic, p, d, R) = pic
      BY <1>2, <2>3 DEF Patched
    <3> QED
      BY <1>2, <2>1, <2>2, <2>3, <3>1 DEF Agree
  <2>4. CASE R # {}
    <3>1. Patched(pic, p, d, R) = [d EXCEPT !.pix = new]
      BY <1>2, <2>4, FrameFields DEF Patched
    <3>2. \A r \in Regions \ {Corner} : new[r] = d.pix[r]
      BY <2>1, <2>2
    <3> HIDE DEF new
    <3>3. [d EXCEPT !.pix = new].size = d.size /\ [d EXCEPT !.pix = new].pix = new
      BY DEF Frames
    <3> QED
      BY <3>1, <3>2, <3>3 DEF Agree
  <2> QED
    BY <2>3, <2>4
<1> QED
  BY <1>1, <1>2

(* Sending an image brings every member that gets it up to that image.     *)
LEMMA SendAgrees ==
  ASSUME TypeOK, PictureFollows, ~overlap, NEW l \in Loops, Send(l),
         NEW c \in members \ missed', picture'[c] # None
  PROVE  Agree(picture'[c], data[l])
<1>1. PICK R \in Rectangles(prevBuf[l], data[l]) :
        \/ SendImage(prevBuf[l], data[l], R)
        \/ missed' = missed \cup members
  BY DEF Send
<1>2. /\ data[l] \in Frames /\ prevBuf[l] \in Frames \cup {None} /\ c \in Clients
      /\ prevBuf[l] # None => prevBuf[l].size = data[l].size
  BY SendType DEF TypeOK
<1>3. picture'[c] = Patched(picture[c], prevBuf[l], data[l], R)
  BY <1>1, <1>2 DEF SendImage
<1>4. CASE prevBuf[l] = None
  BY <1>3, <1>4 DEF Patched, Agree
<1>5. CASE prevBuf[l] # None
  <2>1. c \notin missed /\ prevBuf[l] \in Frames
    BY <1>1, <1>2, <1>5 DEF SendImage
  <2>2. picture[c] \in Frames
    BY <1>2, <1>3, <1>5 DEF Patched, TypeOK
  <2>3. Agree(picture[c], prevBuf[l])
    BY <2>1, <2>2, <1>5, FrameFields DEF PictureFollows
  <2> QED
    BY <1>1, <1>2, <1>3, <2>2, <2>3, PatchedAgrees
<1> QED
  BY <1>4, <1>5

(* Who leaves takes nothing along, and images go to members only.          *)
LEMMA StepBlank == TypeOK /\ OutsidersBlank /\ [Next]_vars => OutsidersBlank'
<1> SUFFICES ASSUME TypeOK, OutsidersBlank, [Next]_vars PROVE OutsidersBlank'
  OBVIOUS
<1>1. ASSUME NEW l \in Loops, Send(l) PROVE OutsidersBlank'
  BY <1>1, SendType DEF OutsidersBlank, Send, memberVars
<1>2. ASSUME NEW c \in Clients, Join(c) \/ Leave(c) PROVE OutsidersBlank'
  BY <1>2 DEF OutsidersBlank, Join, Leave, shownVars, TypeOK
<1>3. CASE UNCHANGED <<members, picture>>
  BY <1>3 DEF OutsidersBlank
<1> QED
  BY <1>1, <1>2, <1>3 DEF Next, LoopStep, Initialize, Stop, SendFull, LoopStart, AnnounceStart,
     TestStopped, RequestVideo, AnnounceSize, TestFull, ResetFull, Draw, vars, memberVars,
     shownVars

(* Only Send touches what members have and sets a buffer to an image.      *)
LEMMA StepFollows ==
  ASSUME TypeOK, OneRuns, OutsidersBlank, PictureFollows, [Next]_vars
  PROVE  PictureFollows'
<1> SUFFICES ASSUME ~overlap', NEW k \in Loops, NEW c \in members', c \notin missed',
                    prevBuf'[k] # None, picture'[c] # None
             PROVE  Agree(picture'[c], prevBuf'[k])
  BY DEF PictureFollows, Agree
<1>0. ~overlap
  BY DEF Next, LoopStep, Initialize, Stop, Join, SendFull, Leave, LoopStart, AnnounceStart,
         TestStopped, RequestVideo, AnnounceSize, TestFull, ResetFull, Send, Draw, vars
<1>1. ASSUME NEW l \in Loops, Send(l) PROVE Agree(picture'[c], prevBuf'[k])
  <2>1. k = l
    BY <1>0, <1>1 DEF OneRuns, Running, TypeOK, Send, Goto
  <2>2. prevBuf'[k] = data[l]
    BY <1>1, <2>1 DEF Send, TypeOK
  <2>3. c \in members
    BY <1>1 DEF Send, memberVars
  <2> QED
    BY <1>0, <1>1, <2>2, <2>3, SendAgrees
<1>2. ASSUME \A l \in Loops : ~Send(l) PROVE Agree(picture'[c], prevBuf'[k])
  <2>1. prevBuf'[k] = prevBuf[k]
    BY <1>2 DEF TypeOK, Next, LoopStep, Initialize, Stop, Join, SendFull, Leave, LoopStart,
                AnnounceStart, TestStopped, RequestVideo, AnnounceSize, TestFull, ResetFull,
                Draw, vars, localVars
  <2>2. c \in members /\ c \notin missed /\ picture'[c] = picture[c]
    BY <1>2 DEF TypeOK, OutsidersBlank, Next, LoopStep, Initialize, Stop, Join, SendFull, Leave, LoopStart,
                AnnounceStart, TestStopped, RequestVideo, AnnounceSize, TestFull, ResetFull,
                Draw, vars, memberVars, shownVars
  <2> QED
    BY <1>0, <2>1, <2>2 DEF PictureFollows
<1> QED
  BY <1>1, <1>2

(* The differences a loop sends are always relative to what the members    *)
(* have, so that each Send brings them up to the screen it has captured.   *)
THEOREM FollowsCorrect == Spec => []PictureFollows
<1>1. Init => SizeInv /\ OutsidersBlank /\ PictureFollows
  BY DEF Init, SizeInv, Running, OutsidersBlank, PictureFollows
<1>2. TypeOK /\ SizeInv /\ [Next]_vars => SizeInv'
  BY LoopKeepsSize, OthersKeepSize DEF Next
<1>3. SizeInv => OneRuns
  BY DEF SizeInv, OneRuns
<1>4. TypeOK /\ SizeInv /\ OutsidersBlank /\ PictureFollows /\ [Next]_vars => PictureFollows'
  BY <1>3, StepFollows
<1> QED
  BY <1>1, <1>2, <1>4, StepBlank, TypeCorrect, PTL DEF Spec
=============================================================================
