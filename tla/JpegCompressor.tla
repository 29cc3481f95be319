---------------------------- MODULE JpegCompressor ----------------------------
(***************************************************************************)
(* The compressor of JpegCompressor.cpp, which shows the screen to the     *)
(* members of the meeting in image mode.  initialize starts a detached     *)
(* loop; nobody waits for one to end.  All loops share stopped and         *)
(* fullFlag, which the hub thread also writes, without a lock.  A loop     *)
(* sends the rectangle in which the screen differs from the image it saw   *)
(* last, or all of it when it has seen none or when sendFull asked for it. *)
(*                                                                         *)
(* The hub thread also lets members join (onMsg, case SETTING, in          *)
(* Collabo.cpp): it puts the member in the list, which is where sendImage  *)
(* looks, and calls sendFull afterwards.                                   *)
(*                                                                         *)
(* Every access to something shared is a step: the two flags, the screen,  *)
(* and the list of members, to all of whom an image is sent in one step.   *)
(* The screen is divided into regions that change independently; Corner is *)
(* the bottom-right pixel, which the comparison leaves out.                *)
(***************************************************************************)
EXTENDS Integers

CONSTANTS
  Loops,      (* the threads initialize starts, one per call: a bound      *)
  Clients,
  Regions,
  Corner,
  Sizes,      (* the sizes of the screen                                   *)
  MaxDraws,   (* bound on the changes of the screen                        *)
  None

Frames == [size : Sizes, pix : [Regions -> {0, 1}]]

ASSUME CompressorAssumption ==
  /\ Corner \in Regions
  /\ MaxDraws \in Nat
  /\ None \notin Clients \cup Sizes \cup Frames

(***************************************************************************)
(* stopped, fullFlag   the fields                                          *)
(* pc, width, prevBuf, data   of each loop: its next step and its locals   *)
(*               (width stands for width and height)                       *)
(* screen        what requestVideo returns; draws counts its changes       *)
(* members       the clients in the list with a role                       *)
(* hub           the member for which the hub thread has yet to call       *)
(*               sendFull                                                  *)
(* The rest is history:                                                    *)
(* picture       what each member has, from the images sent to it          *)
(* known         the size each member was last told by INITIMAGE           *)
(* missed        members for which compressing an image failed since they  *)
(*               last got a full one                                       *)
(* overlap       was a loop started while another was alive?               *)
(***************************************************************************)
VARIABLES stopped, fullFlag, pc, width, prevBuf, data, screen, draws,
          members, hub, picture, known, missed, overlap

localVars == <<width, prevBuf, data>>
screenVars == <<screen, draws>>
memberVars == <<members, hub>>
shownVars == <<picture, known, missed>>
vars == <<stopped, fullFlag, pc, width, prevBuf, data, screen, draws,
          members, hub, picture, known, missed, overlap>>

Init ==
  /\ screen \in Frames
  /\ stopped = FALSE /\ fullFlag = FALSE
  /\ pc = [l \in Loops |-> "new"]
  /\ width = [l \in Loops |-> screen.size]
  /\ prevBuf = [l \in Loops |-> None]
  /\ data = [l \in Loops |-> None]
  /\ draws = 0
  /\ members = {} /\ hub = None
  /\ picture = [c \in Clients |-> None]
  /\ known = [c \in Clients |-> None]
  /\ missed = {} /\ overlap = FALSE

Goto(l, from, to) == pc[l] = from /\ pc' = [pc EXCEPT ![l] = to]

Alive == \E l \in Loops : pc[l] \notin {"new", "done"}

-----------------------------------------------------------------------------
(* The hub thread *)

(* startStreaming in image mode; QEMU passes the size of the screen.       *)
Initialize(l) ==
  /\ hub = None
  /\ Goto(l, "new", "start")
  /\ width' = [width EXCEPT ![l] = screen.size]
  /\ overlap' = (overlap \/ Alive)
  /\ UNCHANGED <<stopped, fullFlag, prevBuf, data, screenVars, memberVars, shownVars>>

Stop ==
  /\ hub = None
  /\ stopped' = TRUE
  /\ UNCHANGED <<fullFlag, pc, localVars, screenVars, memberVars, shownVars, overlap>>

Join(c) ==
  /\ hub = None
  /\ c \notin members
  /\ members' = members \cup {c}
  /\ hub' = c
  /\ UNCHANGED <<stopped, fullFlag, pc, localVars, screenVars, shownVars, overlap>>

SendFull ==
  /\ hub # None
  /\ fullFlag' = TRUE
  /\ hub' = None
  /\ UNCHANGED <<stopped, pc, localVars, screenVars, members, shownVars, overlap>>

Leave(c) ==
  /\ hub = None
  /\ c \in members
  /\ members' = members \ {c}
  /\ picture' = [picture EXCEPT ![c] = None]
  /\ known' = [known EXCEPT ![c] = None]
  /\ missed' = missed \ {c}
  /\ UNCHANGED <<stopped, fullFlag, pc, localVars, screenVars, hub, overlap>>

-----------------------------------------------------------------------------
(* compressJpegLoop *)

LoopStart(l) ==
  /\ Goto(l, "start", "announce")
  /\ stopped' = FALSE
  /\ UNCHANGED <<fullFlag, localVars, screenVars, memberVars, shownVars, overlap>>

SendImageInit(s) == known' = [c \in Clients |-> IF c \in members THEN s ELSE known[c]]

AnnounceStart(l) ==
  /\ Goto(l, "announce", "test")
  /\ SendImageInit(width[l])
  /\ UNCHANGED <<stopped, fullFlag, localVars, screenVars, memberVars, picture, missed, overlap>>

TestStoppedRearming(l) ==
  /\ Goto(l, "test", IF stopped THEN "done" ELSE "request")
  /\ stopped' = FALSE
  /\ UNCHANGED <<fullFlag, localVars, screenVars, memberVars, shownVars, overlap>>

(* At its end the loop's locals go out of scope.                           *)
TestStopped(l) ==
  /\ Goto(l, "test", IF stopped THEN "done" ELSE "request")
  /\ prevBuf' = [prevBuf EXCEPT ![l] = IF stopped THEN None ELSE @]
  /\ UNCHANGED <<stopped, fullFlag, width, data, screenVars, memberVars, shownVars, overlap>>

RequestVideo(l) ==
  /\ Goto(l, "request", IF screen.size # width[l] THEN "resize" ELSE "full")
  /\ data' = [data EXCEPT ![l] = screen]
  /\ UNCHANGED <<stopped, fullFlag, width, prevBuf, screenVars, memberVars, shownVars, overlap>>

AnnounceSizeUntold(l) ==
  /\ Goto(l, "resize", "full")
  /\ width' = [width EXCEPT ![l] = data[l].size]
  /\ prevBuf' = [prevBuf EXCEPT ![l] = None]
  /\ UNCHANGED <<stopped, fullFlag, data, screenVars, memberVars, shownVars, overlap>>

AnnounceSizeKeepingBuf(l) ==
  /\ Goto(l, "resize", "full")
  /\ width' = [width EXCEPT ![l] = data[l].size]
  /\ SendImageInit(data[l].size)
  /\ UNCHANGED <<stopped, fullFlag, prevBuf, data, screenVars, memberVars, picture, missed, overlap>>

AnnounceSize(l) ==
  /\ Goto(l, "resize", "full")
  /\ width' = [width EXCEPT ![l] = data[l].size]
  /\ SendImageInit(data[l].size)
  /\ prevBuf' = [prevBuf EXCEPT ![l] = None]
  /\ UNCHANGED <<stopped, fullFlag, data, screenVars, memberVars, picture, missed, overlap>>

TestFullKeepingBuf(l) ==
  /\ Goto(l, "full", IF fullFlag THEN "reset" ELSE "send")
  /\ UNCHANGED <<stopped, fullFlag, localVars, screenVars, memberVars, shownVars, overlap>>

TestFull(l) ==
  /\ Goto(l, "full", IF fullFlag THEN "reset" ELSE "send")
  /\ prevBuf' = [prevBuf EXCEPT ![l] = IF fullFlag THEN None ELSE @]
  /\ UNCHANGED <<stopped, fullFlag, width, data, screenVars, memberVars, shownVars, overlap>>

ResetFull(l) ==
  /\ Goto(l, "reset", "send")
  /\ fullFlag' = FALSE
  /\ UNCHANGED <<stopped, localVars, screenVars, memberVars, shownVars, overlap>>

(* The regions the rectangle may cover.  The comparison leaves Corner out, *)
(* but sees the first byte of a pixel with its left neighbour, so that a   *)
(* change of Corner alone may or may not be noticed.                       *)
Differ(p, d) == {r \in Regions \ {Corner} : p.pix[r] # d.pix[r]}
Rectangles(p, d) ==
  IF p = None THEN {Regions}
  ELSE IF p.pix = d.pix THEN {{}}
  ELSE {R \in SUBSET Regions : Differ(p, d) \subseteq R}

(* What a member has that had pic and is sent the rectangle R of d; an     *)
(* empty one is not sent.                                                  *)
Patched(pic, p, d, R) ==
  IF p = None THEN d
  ELSE IF pic = None \/ R = {} THEN pic
  ELSE [d EXCEPT !.pix = [r \in Regions |-> IF r \in R THEN d.pix[r] ELSE pic.pix[r]]]

SendImage(p, d, R) ==
  /\ picture' = [c \in Clients |-> IF c \in members THEN Patched(picture[c], p, d, R)
                                   ELSE picture[c]]
  /\ missed' = IF p = None THEN missed \ members ELSE missed

SendResetting(l) ==
  /\ Goto(l, "send", "test")
  /\ fullFlag' = FALSE
  /\ \E R \in Rectangles(prevBuf[l], data[l]) :
       \/ SendImage(prevBuf[l], data[l], R)
       \/ R # {} /\ missed' = missed \cup members /\ UNCHANGED picture
  /\ prevBuf' = [prevBuf EXCEPT ![l] = data[l]]
  /\ data' = [data EXCEPT ![l] = None]
  /\ UNCHANGED <<stopped, width, screenVars, memberVars, known, overlap>>

(* When tjCompress2 fails nothing is sent, and prevBuf advances all the    *)
(* same.                                                                   *)
Send(l) ==
  /\ Goto(l, "send", "test")
  /\ \E R \in Rectangles(prevBuf[l], data[l]) :
       \/ SendImage(prevBuf[l], data[l], R)
       \/ R # {} /\ missed' = missed \cup members /\ UNCHANGED picture
  /\ prevBuf' = [prevBuf EXCEPT ![l] = data[l]]
  /\ data' = [data EXCEPT ![l] = None]
  /\ UNCHANGED <<stopped, fullFlag, width, screenVars, memberVars, known, overlap>>

-----------------------------------------------------------------------------
(* Environment: the guest draws, or changes the resolution. *)

Draw ==
  /\ draws < MaxDraws
  /\ draws' = draws + 1
  /\ \/ \E r \in Regions : screen' = [screen EXCEPT !.pix[r] = 1 - @]
     \/ \E s \in Sizes : screen' = [screen EXCEPT !.size = s]
  /\ UNCHANGED <<stopped, fullFlag, pc, localVars, memberVars, shownVars, overlap>>

LoopStep(l) ==
  \/ LoopStart(l)
  \/ AnnounceStart(l)
  \/ TestStopped(l)
  \/ RequestVideo(l)
  \/ AnnounceSize(l)
  \/ TestFull(l)
  \/ ResetFull(l)
  \/ Send(l)

Next ==
  \/ \E l \in Loops : Initialize(l) \/ LoopStep(l)
  \/ Stop
  \/ \E c \in Clients : Join(c) \/ Leave(c)
  \/ SendFull
  \/ Draw

Spec == Init /\ [][Next]_vars

(* A loop that runs goes on, after its sleep of 40 ms too, and the hub     *)
(* thread runs its handler to the end.                                     *)
FairSpec ==
  /\ Spec
  /\ \A l \in Loops : WF_vars(LoopStep(l))
  /\ WF_vars(SendFull)

-----------------------------------------------------------------------------
(* Properties *)

PCs == {"new", "start", "announce", "test", "request", "resize", "full", "reset",
        "send", "done"}

(* Types; a loop has data from requestVideo until it has sent it, and the  *)
(* image it compares with is of the size of the new one.                   *)
TypeOK ==
  /\ stopped \in BOOLEAN /\ fullFlag \in BOOLEAN /\ overlap \in BOOLEAN
  /\ pc \in [Loops -> PCs]
  /\ width \in [Loops -> Sizes]
  /\ prevBuf \in [Loops -> Frames \cup {None}]
  /\ data \in [Loops -> Frames \cup {None}]
  /\ \A l \in Loops : data[l] # None <=> pc[l] \in {"resize", "full", "reset", "send"}
  /\ \A l \in Loops : pc[l] \in {"full", "reset", "send"} => data[l].size = width[l]
  /\ \A l \in Loops : prevBuf[l] # None =>
       pc[l] \notin {"new", "start", "announce", "done"} /\ prevBuf[l].size = width[l]
  /\ screen \in Frames
  /\ draws \in 0 .. MaxDraws
  /\ members \subseteq Clients
  /\ hub \in members \cup {None}
  /\ picture \in [Clients -> Frames \cup {None}]
  /\ known \in [Clients -> Sizes \cup {None}]
  /\ missed \subseteq members

(* The request for a full image is never lost, although the loops reset    *)
(* fullFlag in a step of its own and without a lock: while a member has no *)
(* picture, the request stands, or is about to be made, or a loop is about *)
(* to send all it has, or compressing failed.                              *)
RequestKept ==
  \A c \in members : picture[c] = None =>
    \/ fullFlag
    \/ hub = c
    \/ c \in missed
    \/ \E l \in Loops : pc[l] \in {"reset", "send"} /\ prevBuf[l] = None

(* A member that was told a size by INITIMAGE is sent images of that size, *)
(* as long as no two loops were alive at a time.                           *)
SizeKnown ==
  [][\A c \in Clients :
       picture'[c] \notin {picture[c], None} /\ known[c] # None /\ ~overlap
         => picture'[c].size = known[c]]_vars

UpToDate(c) ==
  picture[c] # None /\ picture[c].size = screen.size
    /\ \A r \in Regions \ {Corner} : picture[c].pix[r] = screen.pix[r]

(* While a loop is alive, what a member has catches up with the screen, in *)
(* all but the bottom-right pixel, also when a revived loop and its        *)
(* successor send their differences in turn; unless compressing failed.    *)
PictureCatchesUp ==
  \A c \in Clients :
    (c \in members /\ Alive)
      ~> (c \notin members \/ c \in missed \/ ~Alive \/ UpToDate(c))

(* A stop takes effect on all loops, unless one that initialize started    *)
(* had yet to clear stopped or another is started.                         *)
Starting == \E l \in Loops : pc[l] = "start"
StopEndsLoops == (stopped /\ ~Starting) ~> (~Alive \/ Starting)
=============================================================================
