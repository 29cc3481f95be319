------------------------------- MODULE Stream -------------------------------
(***************************************************************************)
(* The way of an encoded packet to the members (Collabo.cpp, readPacket    *)
(* and the senders).  The first two packets of a stream are its header:    *)
(* readPacket keeps them, sends them to every member in an INITVIDEO when  *)
(* it has both, and any later packet in a DECODEVIDEO.  Who joins later    *)
(* gets the INITVIDEO from the handler of SETTING.                         *)
(*                                                                         *)
(* readPacket runs on the encoder's threads, and on the hub's while the    *)
(* muxer writes the header in initialize or the trailer in stop.  The      *)
(* handlers, startStreaming and stopStreaming run on the hub.  firstCount, *)
(* headerSize, header and the client list are shared with no lock: the     *)
(* senders have theirs commented out.                                      *)
(*                                                                         *)
(* A packet is <<stream, number>>.  How many packets the muxer has written *)
(* when initialize returns is left open.  Encoder.tla has the life cycle;  *)
(* here no thread of a stopped encoder is still in readPacket (its Prompt) *)
(* and the two loops write one packet at a time.                           *)
(***************************************************************************)
EXTENDS Integers, Sequences, FiniteSets

CONSTANTS
  Clients,     (* connections                                              *)
  None,        (* no client                                                *)
  MaxStreams,  (* bound on the streams of a behaviour                      *)
  MaxPackets,  (* bound on the packets of a stream, the header's included  *)
  MaxResizes   (* bound on the changes of the screen's size                *)

ASSUME StreamAssumption ==
  /\ None \notin Clients
  /\ MaxStreams \in Nat /\ MaxPackets \in Nat \ {0, 1} /\ MaxResizes \in Nat

(***************************************************************************)
(* firstCount, headerSize, header   the variables of Collabo.cpp; sizes    *)
(*              are counted in packets, and header keeps what was written  *)
(*              beyond headerSize                                          *)
(* records, members   the clients in the list, and those with a role       *)
(* stream, written    number of the latest stream and of its packets       *)
(* stopped      of the encoder                                             *)
(* hub, client  the next step of the hub, and whose SETTING it handles     *)
(* reader       the next step of readPacket, "none" when nobody is in it   *)
(* packet, left its packet, and the clients a sender has still to visit    *)
(* message      the INITVIDEO that sendVideoInitMsgAll has built           *)
(* resizes      changes of the screen's size so far                        *)
(*                                                                         *)
(* History: got (the latest INITVIDEO of each client, which stream ran     *)
(* when it became a member, and the latest stream of which it got a packet *)
(* before the INITVIDEO) and events (the irregular things that happened).  *)
(***************************************************************************)
VARIABLES firstCount, headerSize, header, records, members, stream, written,
          stopped, hub, client, reader, packet, left, message, resizes, got, events

capture == <<firstCount, headerSize, header>>
list == <<records, members>>
encoder == <<stream, written, stopped, resizes>>
reading == <<reader, packet, left, message>>
vars == <<firstCount, headerSize, header, records, members, stream, written,
          stopped, hub, client, reader, packet, left, message, resizes, got, events>>

NewClient == [init |-> <<>>, since |-> 0, early |-> 0]

Init ==
  /\ firstCount = 0 /\ headerSize = 0 /\ header = <<>>
  /\ records = {} /\ members = {}
  /\ stream = 0 /\ written = 0 /\ stopped = TRUE
  /\ hub = "idle" /\ client = None
  /\ reader = "none" /\ packet = <<0, 0>> /\ left = {} /\ message = <<>>
  /\ resizes = 0
  /\ got = [c \in Clients |-> NewClient]
  /\ events = {}

(***************************************************************************)
(* "torn":    a record was inserted or erased while a sender walked the    *)
(*            list, whose iterators that may invalidate;                   *)
(* "restart": START came while the encoder ran, which resets the capture   *)
(*            although initialize then does nothing;                       *)
(* "resize":  a lambda has stopped and started the encoder by itself,      *)
(*            which does not reset the capture.                            *)
(***************************************************************************)
Clean == events = {}

GotoHub(from, to) == hub = from /\ hub' = to
GotoReader(from, to) == reader = from /\ reader' = to

Walking == reader \in {"init", "send"}
Torn == IF Walking THEN {"torn"} ELSE {}

HeaderOf(s) == <<<<s, 1>>, <<s, 2>>>>
HeaderBegun == firstCount >= 1
HeaderFull == firstCount = 2
InitVideo == SubSeq(header, 1, headerSize)

GiveInit(c, init) == got' = [got EXCEPT ![c].init = init]

-----------------------------------------------------------------------------
(* readPacket *)

(* The muxer hands out the next packet of the stream. *)
Write ==
  /\ GotoReader("none", "test")
  /\ written' = written + 1
  /\ packet' = <<stream, written + 1>>
  /\ UNCHANGED <<stream, stopped, resizes, left, message>>

TestFirstCount ==
  /\ GotoReader("test", IF firstCount < 2 THEN "copy" ELSE "send")
  /\ left' = IF firstCount < 2 THEN {} ELSE members
  /\ UNCHANGED <<capture, list, encoder, hub, client, packet, message, got, events>>

CopyToHeader ==
  /\ GotoReader("copy", "size")
  /\ header' = Append(SubSeq(header, 1, headerSize), packet)
  /\ UNCHANGED <<firstCount, headerSize, list, encoder, hub, client, packet, left, message, got, events>>

GrowHeader ==
  /\ GotoReader("size", "count")
  /\ headerSize' = headerSize + 1
  /\ UNCHANGED <<firstCount, header, list, encoder, hub, client, packet, left, message, got, events>>

CountPacket ==
  /\ GotoReader("count", "full")
  /\ firstCount' = firstCount + 1
  /\ UNCHANGED <<headerSize, header, list, encoder, hub, client, packet, left, message, got, events>>

(* sendVideoInitMsgAll builds its message and walks the list as it is now. *)
TestHeaderFull ==
  /\ GotoReader("full", IF HeaderFull THEN "init" ELSE "none")
  /\ left' = IF HeaderFull THEN members ELSE {}
  /\ message' = IF HeaderFull THEN InitVideo ELSE <<>>
  /\ UNCHANGED <<capture, list, encoder, hub, client, packet, got, events>>

(* A client that has left is not visited any more; one that became a       *)
(* member in the meantime may be.                                          *)
Visit(c) ==
  /\ c \in members
  /\ \/ /\ reader = "init"
        /\ GiveInit(c, message)
     \/ /\ reader = "send"
        /\ got' = [got EXCEPT ![c].early =
             IF got[c].init = HeaderOf(packet[1]) THEN @ ELSE packet[1]]
  /\ left' = left \ {c}
  /\ UNCHANGED <<capture, list, encoder, hub, client, reader, packet, message, events>>

EndWalk ==
  /\ Walking
  /\ left \cap members = {}
  /\ reader' = "none"
  /\ message' = <<>>
  /\ UNCHANGED <<capture, list, encoder, hub, client, packet, left, got, events>>

(* A frame of the encoder's own threads. *)
EncodeFrame ==
  /\ ~stopped /\ written < MaxPackets
  /\ hub \notin {"write_header", "trailer", "trailer_mode"}
  /\ Write
  /\ UNCHANGED <<capture, list, hub, client, got, events>>

(* A video lambda that finds the screen changed stops and initializes the  *)
(* encoder; the packets of its header come like any other.                 *)
Resize ==
  /\ ~stopped /\ reader = "none" /\ hub \in {"idle", "accept"}
  /\ resizes < MaxResizes /\ stream < MaxStreams
  /\ resizes' = resizes + 1
  /\ stream' = stream + 1 /\ written' = 0
  /\ events' = events \cup {"resize"}
  /\ UNCHANGED <<capture, list, stopped, hub, client, reading, got>>

-----------------------------------------------------------------------------
(* The hub *)

(* A connection: START for the first. *)
Open(c) ==
  /\ c \notin records
  /\ records = {} => stream < MaxStreams
  /\ GotoHub("idle", IF records = {} THEN "start" ELSE "idle")
  /\ records' = records \cup {c}
  /\ got' = [got EXCEPT ![c] = NewClient]
  /\ events' = events \cup Torn
  /\ UNCHANGED <<capture, members, encoder, client, reading>>

(* A connection whose record the list refuses (its mcode "" is taken by    *)
(* another that has not sent SETTING): START again if there is one record. *)
OpenRefused ==
  /\ Cardinality(records) = 1 /\ members = {}
  /\ stream < MaxStreams
  /\ GotoHub("idle", "start")
  /\ UNCHANGED <<capture, list, encoder, client, reading, got, events>>

(* SETTING: the record gets a role; then the others are told and the       *)
(* member list is sent; then the member is initialized.  A member that     *)
(* sends SETTING again, with another mcode, goes the same way.             *)
Setting(c) ==
  /\ c \in records
  /\ GotoHub("idle", "accept")
  /\ client' = c
  /\ members' = members \cup {c}
  /\ got' = [got EXCEPT ![c].since = IF c \in members THEN @ ELSE stream]
  /\ UNCHANGED <<capture, records, encoder, reading, events>>

SettingWithoutInit ==
  /\ GotoHub("accept", "idle")
  /\ client' = None
  /\ UNCHANGED <<capture, list, encoder, reading, got, events>>

SettingSendInit ==
  /\ GotoHub("accept", "idle")
  /\ IF HeaderFull THEN GiveInit(client, InitVideo) ELSE UNCHANGED got
  /\ client' = None
  /\ UNCHANGED <<capture, list, encoder, reading, events>>

(* A disconnection: STOP after the last. *)
Close(c) ==
  /\ c \in records
  /\ GotoHub("idle", IF records = {c} THEN "stop" ELSE "idle")
  /\ records' = records \ {c} /\ members' = members \ {c}
  /\ events' = events \cup Torn
  /\ UNCHANGED <<capture, encoder, client, reading, got>>

(* MODE: STOP, and START with the members in place. *)
Mode ==
  /\ members # {} /\ stream < MaxStreams
  /\ GotoHub("idle", "stop_mode")
  /\ UNCHANGED <<capture, list, encoder, client, reading, got, events>>

StartWithoutReset ==
  /\ GotoHub("start", "reset")
  /\ events' = events \cup (IF stopped THEN {} ELSE {"restart"})
  /\ UNCHANGED <<capture, list, encoder, client, reading, got>>

StartStreaming ==
  /\ GotoHub("start", "reset")
  /\ firstCount' = 0
  /\ events' = events \cup (IF stopped THEN {} ELSE {"restart"})
  /\ UNCHANGED <<headerSize, header, list, encoder, client, reading, got>>

KeepHeaderSize ==
  /\ GotoHub("reset", "initialize")
  /\ UNCHANGED <<capture, list, encoder, client, reading, got, events>>

ResetHeader ==
  /\ GotoHub("reset", "initialize")
  /\ headerSize' = 0
  /\ UNCHANGED <<firstCount, header, list, encoder, client, reading, got, events>>

(* initialize is ignored while the encoder runs. *)
Initialize ==
  /\ GotoHub("initialize", IF stopped THEN "write_header" ELSE "idle")
  /\ stopped' = FALSE
  /\ IF stopped THEN stream' = stream + 1 /\ written' = 0
     ELSE UNCHANGED <<stream, written>>
  /\ UNCHANGED <<capture, list, resizes, client, reading, got, events>>

WriteHeader ==
  /\ hub = "write_header" /\ written < 2
  /\ Write
  /\ UNCHANGED <<capture, list, hub, client, got, events>>

Initialized ==
  /\ GotoHub("write_header", "idle")
  /\ reader = "none"
  /\ UNCHANGED <<capture, list, encoder, client, reading, got, events>>

(* stop waits 100 ms and writes the trailer; a stopped encoder does not.   *)
Stop(from, trailer, after) ==
  /\ reader = "none"
  /\ IF stopped
       THEN GotoHub(from, after) /\ UNCHANGED <<reading, encoder>>
       ELSE GotoHub(from, trailer) /\ Write
  /\ UNCHANGED <<capture, list, client, got, events>>

Stopped(from, after) ==
  /\ GotoHub(from, after)
  /\ reader = "none"
  /\ stopped' = TRUE
  /\ UNCHANGED <<capture, list, stream, written, resizes, client, reading, got, events>>

-----------------------------------------------------------------------------
ReadPacket ==
  \/ TestFirstCount
  \/ CopyToHeader
  \/ GrowHeader
  \/ CountPacket
  \/ TestHeaderFull
  \/ \E c \in Clients : Visit(c)
  \/ EndWalk

Handlers ==
  \/ \E c \in Clients : Open(c) \/ Setting(c) \/ Close(c)
  \/ OpenRefused
  \/ SettingSendInit
  \/ Mode

HubStreaming ==
  \/ StartStreaming
  \/ ResetHeader
  \/ Initialize
  \/ WriteHeader
  \/ Initialized
  \/ Stop("stop", "trailer", "idle")
  \/ Stopped("trailer", "idle")
  \/ Stop("stop_mode", "trailer_mode", "start")
  \/ Stopped("trailer_mode", "start")

Next == ReadPacket \/ EncodeFrame \/ Resize \/ Handlers \/ HubStreaming

Spec == Init /\ [][Next]_vars

-----------------------------------------------------------------------------
(* Properties *)

TypeOK ==
  /\ firstCount \in Nat /\ headerSize \in Nat
  /\ Clean => firstCount <= 2 /\ headerSize <= 2 /\ headerSize <= Len(header)
  /\ members \subseteq records /\ records \subseteq Clients
  /\ stream \in 0 .. MaxStreams /\ written \in 0 .. MaxPackets + 1
  /\ packet \in (0 .. MaxStreams) \X (0 .. MaxPackets + 1)
  /\ client \in Clients \cup {None} /\ (client # None) <=> (hub = "accept")
  /\ left \subseteq Clients
  /\ events \subseteq {"torn", "restart", "resize"}

(* Whatever INITVIDEO a member has got, from the reader or from SETTING,   *)
(* carries the first two packets of one stream, both and no others         *)
(* (Collabo.cpp:133-148, 240-246, 457, 532).                               *)
InitIsHeader ==
  Clean => \A c \in members : got[c].init \in {<<>>} \cup {HeaderOf(s) : s \in 1 .. stream}

(* Nobody is left out: once a stream's header is complete and no handler   *)
(* or sender is at work, every member has its INITVIDEO, also who became   *)
(* one while readPacket counted or walked (Collabo.cpp:244, 457).          *)
NobodyLeftOut ==
  Clean /\ ~stopped /\ hub = "idle" /\ firstCount = 2 /\ reader \notin {"full", "init"}
    => \A c \in members : got[c].init = HeaderOf(stream)

(* A packet reaches a member before the INITVIDEO of its stream only if it *)
(* became a member while that stream ran: then SETTING and the reader race *)
(* (Collabo.cpp:210, 457).  Who was there before, as at a change of the    *)
(* mode, gets the INITVIDEO first.                                         *)
InitFirst ==
  Clean => \A c \in members : got[c].early \in {0, got[c].since}
=============================================================================
