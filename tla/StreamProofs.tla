----------------------------- MODULE StreamProofs -----------------------------
(* Theorems about Stream for any number of clients, streams and packets.   *)
EXTENDS Stream, SequenceTheorems, TLAPS

-----------------------------------------------------------------------------
(* The inductive invariant.                                                *)

Packets == Nat \X Nat
Lesser(n) == IF n < 2 THEN n ELSE 2

(* The bounds, which hold whatever happens.                                *)
BoundInv ==
  /\ stopped \in BOOLEAN
  /\ hub \in {"start", "reset", "initialize", "stop_mode", "trailer_mode"}
       => stream < MaxStreams
  /\ ~stopped /\ hub \notin {"trailer", "trailer_mode"} => written <= MaxPackets

(* Nobody is in readPacket while the encoder is stopped, and a packet in   *)
(* it is the latest one.                                                   *)
ReaderInv ==
  /\ reader \in {"none", "test", "copy", "size", "count", "full", "init", "send"}
  /\ written \in Nat
  /\ stopped => reader = "none"
  /\ hub \in {"reset", "initialize"} => stopped
  /\ hub \in {"write_header", "trailer", "trailer_mode"} => ~stopped
  /\ written > 0 \/ ~stopped => stream >= 1
  /\ reader # "none" => packet = <<stream, written>> /\ written >= 1

(* How many packets of the stream the two counters have seen.              *)
Counted(fc, hs) == firstCount = fc /\ headerSize = hs

CountInv ==
  /\ hub = "reset" => firstCount = 0 /\ headerSize <= 2
  /\ hub = "initialize" => Counted(0, 0)
  /\ hub \notin {"reset", "initialize"} =>
       /\ reader = "none" => Counted(Lesser(written), Lesser(written))
       /\ reader = "test" => Counted(Lesser(written - 1), Lesser(written - 1))
       /\ reader \in {"copy", "size"} =>
            written <= 2 /\ Counted(written - 1, written - 1)
       /\ reader = "count" => written <= 2 /\ Counted(written - 1, written)
       /\ reader = "full" => written <= 2 /\ Counted(written, written)
       /\ reader = "init" => written = 2 /\ Counted(2, 2)
       /\ reader = "send" => written > 2 /\ Counted(2, 2)

(* What has been captured are the first packets of the stream.             *)
HeaderInv ==
  /\ header \in Seq(Packets) /\ headerSize <= Len(header)
  /\ hub # "reset" => \A i \in 1 .. headerSize : header[i] = <<stream, i>>
  /\ reader = "size" => Len(header) > headerSize /\ header[headerSize + 1] = packet
  /\ reader = "init" => message = HeaderOf(stream)

(* What the members have got.  Once the header is complete, only who is    *)
(* about to be served still lacks it.                                      *)
Inits == {<<>>} \cup {HeaderOf(s) : s \in 1 .. stream}

MemberInv ==
  /\ got \in [Clients -> [init : Inits, since : Nat, early : Nat]]
  /\ \A c \in records \ members : got[c] = NewClient
  /\ \A c \in members : got[c].early \in {0, got[c].since}
  /\ hub = "accept" => client \in members

Informed ==
  firstCount = 2 /\ reader # "full" =>
    \A c \in members :
      \/ got[c].init = HeaderOf(stream)
      \/ hub = "accept" /\ c = client /\ got[c].since = stream
      \/ reader = "init" /\ c \in left

CleanInv == ReaderInv /\ CountInv /\ HeaderInv /\ MemberInv /\ Informed

IInv == TypeOK /\ BoundInv /\ (Clean => CleanInv)

-----------------------------------------------------------------------------
(* Facts about headers.                                                    *)

(* INITVIDEO carries the two packets captured.                             *)
LEMMA InitVideoIsHeader ==
  ASSUME NEW s, \A i \in 1 .. 2 : header[i] = <<s, i>>, headerSize = 2, s \in Nat
  PROVE  InitVideo = HeaderOf(s)
<1>1. /\ InitVideo \in Seq(Packets) /\ Len(InitVideo) = 2
      /\ \A i \in 1 .. 2 : InitVideo[i] = header[i]
  <2>1. \A i \in 1 .. 2 : header[i] \in Packets
    BY DEF Packets
  <2> QED
    BY <2>1, SubSeqProperties DEF InitVideo
<1>2. HeaderOf(s) \in Seq(Packets) /\ Len(HeaderOf(s)) = 2
      /\ HeaderOf(s)[1] = <<s, 1>> /\ HeaderOf(s)[2] = <<s, 2>>
  BY DEF HeaderOf, Packets
<1>3. \A i \in 1 .. 2 : InitVideo[i] = HeaderOf(s)[i]
  <2>1. \A i \in 1 .. 2 : i = 1 \/ i = 2
    OBVIOUS
  <2> QED
    BY <1>1, <1>2, <2>1
<1> QED
  BY <1>1, <1>2, <1>3, SeqEqual

(* memcpy(header + headerSize) keeps what was there and adds the packet.   *)
LEMMA CopyExtends ==
  ASSUME header \in Seq(Packets), headerSize \in Nat, headerSize <= Len(header),
         NEW p \in Packets
  PROVE  LET new == Append(SubSeq(header, 1, headerSize), p) IN
         /\ new \in Seq(Packets) /\ Len(new) = headerSize + 1
         /\ \A i \in 1 .. headerSize : new[i] = header[i]
         /\ new[headerSize + 1] = p
<1> DEFINE kept == SubSeq(header, 1, headerSize)
<1>1. \A i \in 1 .. headerSize : header[i] \in Packets
  BY ElementOfSeq
<1>2. /\ kept \in Seq(Packets) /\ Len(kept) = headerSize
      /\ \A i \in 1 .. headerSize : kept[i] = header[i]
  BY <1>1, SubSeqProperties
<1> HIDE DEF kept
<1>3. /\ Append(kept, p) \in Seq(Packets) /\ Len(Append(kept, p)) = headerSize + 1
      /\ \A i \in 1 .. headerSize : Append(kept, p)[i] = kept[i]
      /\ Append(kept, p)[headerSize + 1] = p
  BY <1>2, AppendProperties
<1> QED
  BY <1>2, <1>3 DEF kept

(* The first process starts with nothing.                                  *)
LEMMA InitInv == Init => IInv
<1> SUFFICES ASSUME Init PROVE IInv
  OBVIOUS
<1> USE StreamAssumption DEF Init
<1>1. TypeOK /\ BoundInv
  BY DEF TypeOK, BoundInv, Clean
<1>2. ReaderInv /\ CountInv
  BY DEF ReaderInv, CountInv, Counted, Lesser
<1>3. HeaderInv
  BY DEF HeaderInv
<1>4. MemberInv /\ Informed
  BY DEF MemberInv, Informed, NewClient, Inits
<1> QED
  BY <1>1, <1>2, <1>3, <1>4 DEF IInv, CleanInv

-----------------------------------------------------------------------------
(* The steps.                                                              *)

(* What is clean was clean before.                                         *)
LEMMA CleanBefore == [Next]_vars /\ Clean' => Clean
BY DEF Next, vars, Clean, ReadPacket, Handlers, HubStreaming, TestFirstCount,
       CopyToHeader, GrowHeader, CountPacket, TestHeaderFull, Visit, EndWalk,
       EncodeFrame, Resize, Open, OpenRefused, Setting, SettingSendInit, Close,
       Mode, StartStreaming, ResetHeader, Initialize, WriteHeader, Initialized,
       Stop, Stopped

(* What CountInv says of the counters, in the form TypeOK needs.           *)
CountBounds == firstCount <= 2 /\ headerSize <= 2 /\ headerSize <= Len(header)

(* No step leaves the bounds or the types, if the counters stay bounded.   *)
LEMMA StepBounds ==
  ASSUME TypeOK, BoundInv, Clean' => CountBounds', [Next]_vars
  PROVE  TypeOK' /\ BoundInv'
<1> USE StreamAssumption DEF TypeOK, BoundInv, CountBounds, Clean, Torn, GotoHub,
     GotoReader, Write, capture, list, encoder, reading
<1>1. CASE TestFirstCount
  BY <1>1 DEF TestFirstCount
<1>2. CASE CopyToHeader
  BY <1>2 DEF CopyToHeader
<1>3. CASE GrowHeader
  BY <1>3 DEF GrowHeader
<1>4. CASE CountPacket
  BY <1>4 DEF CountPacket
<1>5. CASE TestHeaderFull
  BY <1>5 DEF TestHeaderFull
<1>6. CASE EndWalk
  BY <1>6 DEF EndWalk
<1>7. CASE EncodeFrame
  BY <1>7 DEF EncodeFrame
<1>8. CASE OpenRefused
  BY <1>8 DEF OpenRefused
<1>9. CASE SettingSendInit
  BY <1>9 DEF SettingSendInit
<1>10. CASE Mode
  BY <1>10 DEF Mode
<1>11. CASE StartStreaming
  BY <1>11 DEF StartStreaming
<1>12. CASE ResetHeader
  BY <1>12 DEF ResetHeader
<1>13. CASE Initialize
  <2>1. CASE stopped
    <3>1. /\ hub = "initialize" /\ hub' = "write_header" /\ stopped' = FALSE
          /\ stream' = stream + 1 /\ written' = 0
          /\ UNCHANGED <<capture, list, client, reading, events>>
      BY <1>13, <2>1 DEF Initialize
    <3>2. stream' \in 0 .. MaxStreams
      BY <3>1
    <3>3. BoundInv'
      <4>1. MaxPackets \in Nat /\ 0 <= MaxPackets
        OBVIOUS
      <4>2. written' <= MaxPackets
        BY <3>1, <4>1
      <4>3. hub' \notin {"start", "reset", "initialize", "stop_mode", "trailer_mode"}
        BY <3>1
      <4> QED
        BY <3>1, <4>2, <4>3
    <3> QED
      BY <3>1, <3>2, <3>3
  <2>2. CASE ~stopped
    BY <1>13, <2>2 DEF Initialize
  <2> QED
    BY <2>1, <2>2
<1>14. CASE WriteHeader
  BY <1>14 DEF WriteHeader
<1>15. CASE Initialized
  BY <1>15 DEF Initialized
<1>16. ASSUME NEW c \in Clients, Visit(c) PROVE TypeOK' /\ BoundInv'
  BY <1>16 DEF Visit
<1>17. ASSUME NEW c \in Clients, Open(c) PROVE TypeOK' /\ BoundInv'
  BY <1>17 DEF Open
<1>18. ASSUME NEW c \in Clients, Setting(c) PROVE TypeOK' /\ BoundInv'
  BY <1>18 DEF Setting
<1>19. ASSUME NEW c \in Clients, Close(c) PROVE TypeOK' /\ BoundInv'
  BY <1>19 DEF Close
<1>20. CASE Stop("stop", "trailer", "idle")
  BY <1>20 DEF Stop
<1>21. CASE Stopped("trailer", "idle")
  BY <1>21 DEF Stopped
<1>22. CASE Stop("stop_mode", "trailer_mode", "start")
  BY <1>22 DEF Stop
<1>23. CASE Stopped("trailer_mode", "start")
  BY <1>23 DEF Stopped
<1>24. CASE Resize
  BY <1>24 DEF Resize
<1>25. CASE UNCHANGED vars
  BY <1>25 DEF vars
<1> QED
  BY <1>1, <1>2, <1>3, <1>4, <1>5, <1>6, <1>7, <1>8, <1>9, <1>10, <1>11, <1>12,
     <1>13, <1>14, <1>15, <1>16, <1>17, <1>18, <1>19, <1>20, <1>21, <1>22, <1>23,
     <1>24, <1>25
  DEF Next, ReadPacket, Handlers, HubStreaming

(* stop and initialize find nobody in readPacket.                          *)
LEMMA StepReader ==
  ASSUME IInv, Clean, Clean', [Next]_vars
  PROVE  ReaderInv'
<1> USE StreamAssumption DEF IInv, CleanInv, TypeOK, BoundInv, ReaderInv, Clean,
     Torn, GotoHub, GotoReader, Write, capture, list, encoder, reading
<1>1. CASE TestFirstCount
  BY <1>1 DEF TestFirstCount
<1>2. CASE CopyToHeader
  BY <1>2 DEF CopyToHeader
<1>3. CASE GrowHeader
  BY <1>3 DEF GrowHeader
<1>4. CASE CountPacket
  BY <1>4 DEF CountPacket
<1>5. CASE TestHeaderFull
  BY <1>5 DEF TestHeaderFull
<1>6. CASE EndWalk
  BY <1>6 DEF EndWalk
<1>7. CASE EncodeFrame
  BY <1>7 DEF EncodeFrame
<1>8. CASE OpenRefused
  BY <1>8 DEF OpenRefused
<1>9. CASE SettingSendInit
  BY <1>9 DEF SettingSendInit
<1>10. CASE Mode
  BY <1>10 DEF Mode
<1>11. CASE StartStreaming
  BY <1>11 DEF StartStreaming
<1>12. CASE ResetHeader
  BY <1>12 DEF ResetHeader
<1>13. CASE Initialize
  BY <1>13 DEF Initialize
<1>14. CASE WriteHeader
  BY <1>14 DEF WriteHeader
<1>15. CASE Initialized
  BY <1>15 DEF Initialized
<1>16. ASSUME NEW c \in Clients, Visit(c) PROVE ReaderInv'
  BY <1>16 DEF Visit
<1>17. ASSUME NEW c \in Clients, Open(c) PROVE ReaderInv'
  BY <1>17 DEF Open
<1>18. ASSUME NEW c \in Clients, Setting(c) PROVE ReaderInv'
  BY <1>18 DEF Setting
<1>19. ASSUME NEW c \in Clients, Close(c) PROVE ReaderInv'
  BY <1>19 DEF Close
<1>20. CASE Stop("stop", "trailer", "idle")
  BY <1>20 DEF Stop
<1>21. CASE Stopped("trailer", "idle")
  BY <1>21 DEF Stopped
<1>22. CASE Stop("stop_mode", "trailer_mode", "start")
  BY <1>22 DEF Stop
<1>23. CASE Stopped("trailer_mode", "start")
  BY <1>23 DEF Stopped
<1>24. CASE Resize
  BY <1>24 DEF Resize
<1>25. CASE UNCHANGED vars
  BY <1>25 DEF vars
<1> QED
  BY <1>1, <1>2, <1>3, <1>4, <1>5, <1>6, <1>7, <1>8, <1>9, <1>10, <1>11, <1>12,
     <1>13, <1>14, <1>15, <1>16, <1>17, <1>18, <1>19, <1>20, <1>21, <1>22, <1>23,
     <1>24, <1>25
  DEF Next, ReadPacket, Handlers, HubStreaming

(* Both counters follow the packets, one step of readPacket apart.         *)
LEMMA StepCount ==
  ASSUME IInv, Clean, Clean', [Next]_vars
  PROVE  CountInv'
<1> USE StreamAssumption DEF IInv, CleanInv, TypeOK, BoundInv, ReaderInv, CountInv,
     Counted, Clean, Torn, Walking, GotoHub, GotoReader, Write, capture, list,
     encoder, reading, Lesser, HeaderFull
<1>1. CASE TestFirstCount
  BY <1>1 DEF TestFirstCount
<1>2. CASE CopyToHeader
  BY <1>2 DEF CopyToHeader
<1>3. CASE GrowHeader
  BY <1>3 DEF GrowHeader
<1>4. CASE CountPacket
  BY <1>4 DEF CountPacket
<1>5. CASE TestHeaderFull
  BY <1>5 DEF TestHeaderFull
<1>6. CASE EndWalk
  BY <1>6 DEF EndWalk
<1>7. CASE EncodeFrame
  BY <1>7 DEF EncodeFrame
<1>8. CASE OpenRefused
  BY <1>8 DEF OpenRefused
<1>9. CASE SettingSendInit
  BY <1>9 DEF SettingSendInit
<1>10. CASE Mode
  BY <1>10 DEF Mode
<1>11. CASE StartStreaming
  BY <1>11 DEF StartStreaming
<1>12. CASE ResetHeader
  BY <1>12 DEF ResetHeader
<1>13. CASE Initialize
  BY <1>13 DEF Initialize
<1>14. CASE WriteHeader
  BY <1>14 DEF WriteHeader
<1>15. CASE Initialized
  BY <1>15 DEF Initialized
<1>16. ASSUME NEW c \in Clients, Visit(c) PROVE CountInv'
  BY <1>16 DEF Visit
<1>17. ASSUME NEW c \in Clients, Open(c) PROVE CountInv'
  BY <1>17 DEF Open
<1>18. ASSUME NEW c \in Clients, Setting(c) PROVE CountInv'
  BY <1>18 DEF Setting
<1>19. ASSUME NEW c \in Clients, Close(c) PROVE CountInv'
  BY <1>19 DEF Close
<1>20. CASE Stop("stop", "trailer", "idle")
  BY <1>20 DEF Stop
<1>21. CASE Stopped("trailer", "idle")
  BY <1>21 DEF Stopped
<1>22. CASE Stop("stop_mode", "trailer_mode", "start")
  BY <1>22 DEF Stop
<1>23. CASE Stopped("trailer_mode", "start")
  BY <1>23 DEF Stopped
<1>24. CASE Resize
  BY <1>24 DEF Resize
<1>25. CASE UNCHANGED vars
  BY <1>25 DEF vars
<1> QED
  BY <1>1, <1>2, <1>3, <1>4, <1>5, <1>6, <1>7, <1>8, <1>9, <1>10, <1>11, <1>12,
     <1>13, <1>14, <1>15, <1>16, <1>17, <1>18, <1>19, <1>20, <1>21, <1>22, <1>23,
     <1>24, <1>25
  DEF Next, ReadPacket, Handlers, HubStreaming

(* Whoever is sent an INITVIDEO is sent the header of the stream.          *)
LEMMA Served ==
  ASSUME IInv, Clean, firstCount = 2, hub \notin {"reset", "initialize"}
  PROVE  InitVideo = HeaderOf(stream) /\ HeaderOf(stream) \in Inits
<1>1. headerSize = 2 /\ written >= 1
  BY StreamAssumption DEF IInv, CleanInv, CountInv, Counted, Lesser, TypeOK, ReaderInv
<1>2. stream \in Nat /\ stream >= 1
  BY <1>1 DEF IInv, CleanInv, ReaderInv, TypeOK, BoundInv
<1>3. \A i \in 1 .. 2 : header[i] = <<stream, i>>
  BY <1>1 DEF IInv, CleanInv, HeaderInv
<1>4. HeaderOf(stream) \in Inits
  BY <1>2 DEF Inits
<1> QED
  BY <1>1, <1>2, <1>3, <1>4, InitVideoIsHeader

(* What is below headerSize are the packets of this stream.                *)
LEMMA StepHeader ==
  ASSUME IInv, Clean, Clean', [Next]_vars
  PROVE  HeaderInv'
<1> USE StreamAssumption DEF IInv, CleanInv, TypeOK, BoundInv, ReaderInv, CountInv,
     Counted, Clean, Torn, Walking, GotoHub, GotoReader, Write, capture, list,
     encoder, reading, HeaderInv, Lesser
<1>1. CASE TestFirstCount
  BY <1>1 DEF TestFirstCount
<1>2. CASE CopyToHeader
  <2>1. /\ header \in Seq(Packets) /\ headerSize \in Nat /\ headerSize <= Len(header)
        /\ packet \in Packets
    BY DEF Packets
  <2>2. header' = Append(SubSeq(header, 1, headerSize), packet)
    BY <1>2 DEF CopyToHeader
  <2>3. /\ header' \in Seq(Packets) /\ Len(header') = headerSize + 1
        /\ \A i \in 1 .. headerSize : header'[i] = header[i]
        /\ header'[headerSize + 1] = packet
    BY <2>1, <2>2, CopyExtends
  <2>4. UNCHANGED <<headerSize, packet, stream, hub>>
    BY <1>2 DEF CopyToHeader
  <2> QED
    BY <1>2, <2>1, <2>3, <2>4 DEF CopyToHeader
<1>3. CASE GrowHeader
  BY <1>3 DEF GrowHeader
<1>4. CASE CountPacket
  BY <1>4 DEF CountPacket
<1>5. CASE TestHeaderFull
  <2>1. firstCount = 2 => InitVideo = HeaderOf(stream)
    BY <1>5, Served DEF TestHeaderFull
  <2> QED
    BY <1>5, <2>1 DEF TestHeaderFull, HeaderFull
<1>6. CASE EndWalk
  BY <1>6 DEF EndWalk
<1>7. CASE EncodeFrame
  BY <1>7 DEF EncodeFrame
<1>8. CASE OpenRefused
  BY <1>8 DEF OpenRefused
<1>9. CASE SettingSendInit
  BY <1>9 DEF SettingSendInit
<1>10. CASE Mode
  BY <1>10 DEF Mode
<1>11. CASE StartStreaming
  BY <1>11 DEF StartStreaming
<1>12. CASE ResetHeader
  BY <1>12 DEF ResetHeader
<1>13. CASE Initialize
  BY <1>13 DEF Initialize
<1>14. CASE WriteHeader
  BY <1>14 DEF WriteHeader
<1>15. CASE Initialized
  BY <1>15 DEF Initialized
<1>16. ASSUME NEW c \in Clients, Visit(c) PROVE HeaderInv'
  BY <1>16 DEF Visit
<1>17. ASSUME NEW c \in Clients, Open(c) PROVE HeaderInv'
  BY <1>17 DEF Open
<1>18. ASSUME NEW c \in Clients, Setting(c) PROVE HeaderInv'
  BY <1>18 DEF Setting
<1>19. ASSUME NEW c \in Clients, Close(c) PROVE HeaderInv'
  BY <1>19 DEF Close
<1>20. CASE Stop("stop", "trailer", "idle")
  BY <1>20 DEF Stop
<1>21. CASE Stopped("trailer", "idle")
  BY <1>21 DEF Stopped
<1>22. CASE Stop("stop_mode", "trailer_mode", "start")
  BY <1>22 DEF Stop
<1>23. CASE Stopped("trailer_mode", "start")
  BY <1>23 DEF Stopped
<1>24. CASE Resize
  BY <1>24 DEF Resize
<1>25. CASE UNCHANGED vars
  BY <1>25 DEF vars
<1> QED
  BY <1>1, <1>2, <1>3, <1>4, <1>5, <1>6, <1>7, <1>8, <1>9, <1>10, <1>11, <1>12,
     <1>13, <1>14, <1>15, <1>16, <1>17, <1>18, <1>19, <1>20, <1>21, <1>22, <1>23,
     <1>24, <1>25
  DEF Next, ReadPacket, Handlers, HubStreaming

(* The headers of the past stay headers.                                   *)
LEMMA InitsGrow ==
  ASSUME stream \in Nat, stream' \in Nat, stream <= stream' PROVE Inits \subseteq Inits'
BY DEF Inits

(* What a member gets of the running stream keeps MemberInv.               *)
LEMMA OneMember ==
  ASSUME MemberInv, members \subseteq Clients, stream \in Nat,
         UNCHANGED <<records, members, hub, client, stream>>,
         NEW c \in members,
         \/ \E h \in Inits : got' = [got EXCEPT ![c] = [got[c] EXCEPT !.init = h]]
         \/ \E n \in {got[c].early, got[c].since} :
              got' = [got EXCEPT ![c] = [got[c] EXCEPT !.early = n]]
  PROVE  MemberInv'
<1>1. PICK r \in [init : Inits, since : Nat, early : Nat] :
        /\ got' = [got EXCEPT ![c] = r]
        /\ r.since = got[c].since /\ r.early \in {0, got[c].since}
  BY DEF MemberInv
<1>2. Inits' = Inits
  BY DEF Inits
<1>3. got' \in [Clients -> [init : Inits, since : Nat, early : Nat]]
  BY <1>1 DEF MemberInv
<1>4. got'[c] = r /\ \A d \in Clients \ {c} : got'[d] = got[d]
  BY ONLY <1>1, MemberInv, members \subseteq Clients DEF MemberInv
<1> QED
  BY <1>1, <1>2, <1>3, <1>4 DEF MemberInv

(* Members get whole headers, and packets first only if they came late.    *)
LEMMA StepMembers ==
  ASSUME IInv, Clean, Clean', [Next]_vars
  PROVE  MemberInv'
<1> USE StreamAssumption DEF IInv, CleanInv, TypeOK, BoundInv, ReaderInv,
     MemberInv, Clean, Torn, Walking, NewClient, GotoHub, GotoReader, Write,
     capture, list, encoder, reading
<1>0. stream' = stream => Inits' = Inits
  BY DEF Inits
<1>1. CASE TestFirstCount
  BY <1>1, <1>0 DEF TestFirstCount
<1>2. CASE CopyToHeader
  BY <1>2, <1>0 DEF CopyToHeader
<1>3. CASE GrowHeader
  BY <1>3, <1>0 DEF GrowHeader
<1>4. CASE CountPacket
  BY <1>4, <1>0 DEF CountPacket
<1>5. CASE TestHeaderFull
  BY <1>5, <1>0 DEF TestHeaderFull
<1>6. CASE EndWalk
  BY <1>6, <1>0 DEF EndWalk
<1>7. CASE EncodeFrame
  BY <1>7, <1>0 DEF EncodeFrame
<1>8. CASE OpenRefused
  BY <1>8, <1>0 DEF OpenRefused
<1>9. CASE SettingSendInit
  <2>1. CASE firstCount = 2
    <3>1. /\ got' = [got EXCEPT ![client].init = HeaderOf(stream)]
          /\ HeaderOf(stream) \in Inits
      BY <1>9, <2>1, Served DEF SettingSendInit, HeaderFull, GiveInit
    <3> QED
      BY <1>9, <1>0, <3>1 DEF SettingSendInit
  <2>2. CASE firstCount # 2
    BY <1>9, <1>0, <2>2 DEF SettingSendInit, HeaderFull
  <2> QED
    BY <2>1, <2>2
<1>10. CASE Mode
  BY <1>10, <1>0 DEF Mode
<1>11. CASE StartStreaming
  BY <1>11, <1>0 DEF StartStreaming
<1>12. CASE ResetHeader
  BY <1>12, <1>0 DEF ResetHeader
<1>13. CASE Initialize
  <2>1. Inits \subseteq Inits'
    <3>1. stream \in Nat /\ stream' \in Nat /\ stream <= stream'
      BY <1>13 DEF Initialize
    <3> QED
      BY <3>1, InitsGrow
  <2> QED
    BY <1>13, <2>1 DEF Initialize
<1>14. CASE WriteHeader
  BY <1>14, <1>0 DEF WriteHeader
<1>15. CASE Initialized
  BY <1>15, <1>0 DEF Initialized
<1>16. ASSUME NEW c \in Clients, Visit(c) PROVE MemberInv'
  <2>0. /\ MemberInv /\ members \subseteq Clients /\ stream \in Nat
        /\ UNCHANGED <<records, members, hub, client, stream>>
    BY <1>16 DEF Visit
  <2>1. firstCount = 2 /\ hub \notin {"reset", "initialize"} /\ c \in members
    BY <1>16 DEF Visit, CountInv, Counted
  <2>2. CASE reader = "init"
    <3>1. /\ got' = [got EXCEPT ![c] = [got[c] EXCEPT !.init = HeaderOf(stream)]]
          /\ HeaderOf(stream) \in Inits
      BY <1>16, <2>1, <2>2, Served DEF Visit, GiveInit, HeaderInv
    <3> QED
      BY ONLY <2>0, <2>1, <3>1, OneMember
  <2>3. CASE reader = "send"
    <3>1. packet[1] = stream
      BY <2>3
    <3>2. got[c].init = HeaderOf(stream) \/ got[c].since = stream
      BY <2>1, <2>3 DEF Informed
    <3>3. got' = [got EXCEPT ![c] = [got[c] EXCEPT !.early =
                    IF got[c].init = HeaderOf(stream) THEN got[c].early ELSE stream]]
      BY <1>16, <2>3, <3>1 DEF Visit
    <3> QED
      BY ONLY <2>0, <2>1, <3>2, <3>3, OneMember
  <2> QED
    BY <1>16, <2>2, <2>3 DEF Visit
<1>17. ASSUME NEW c \in Clients, Open(c) PROVE MemberInv'
  <2>1. NewClient \in [init : Inits, since : Nat, early : Nat]
    BY DEF Inits
  <2>2. /\ c \notin records /\ records' = records \cup {c} /\ members' = members
        /\ got' = [got EXCEPT ![c] = NewClient]
        /\ hub' # "accept" /\ UNCHANGED <<client, stream>>
        /\ members \subseteq records /\ records \subseteq Clients
    BY <1>17 DEF Open
  <2>3. got'[c] = NewClient /\ \A d \in Clients \ {c} : got'[d] = got[d]
    BY ONLY <2>2, MemberInv DEF MemberInv
  <2>4. got' \in [Clients -> [init : Inits, since : Nat, early : Nat]]
    BY ONLY <2>1, <2>2, MemberInv DEF MemberInv
  <2> QED
    BY ONLY <1>0, <2>2, <2>3, <2>4, MemberInv DEF MemberInv
<1>18. ASSUME NEW c \in Clients, Setting(c) PROVE MemberInv'
  <2>1. /\ c \in records /\ records' = records /\ members' = members \cup {c}
        /\ client' = c /\ stream' = stream /\ stream \in Nat
        /\ got' = [got EXCEPT ![c].since =
                     IF c \in members THEN got[c].since ELSE stream]
    BY <1>18 DEF Setting
  <2>2. /\ records \subseteq Clients /\ members \subseteq records
        /\ got \in [Clients -> [init : Inits, since : Nat, early : Nat]]
    OBVIOUS
  <2>3. \A d \in Clients \ {c} : got'[d] = got[d]
    BY ONLY <2>1, <2>2
  <2>4. got' \in [Clients -> [init : Inits, since : Nat, early : Nat]]
    BY ONLY <2>1, <2>2
  <2>5. got'[c].early = got[c].early
        /\ got'[c].since = IF c \in members THEN got[c].since ELSE stream
    BY ONLY <2>1, <2>2
  <2>6. got'[c].early \in {0, got'[c].since}
    BY ONLY <2>1, <2>5, MemberInv DEF MemberInv, NewClient
  <2> QED
    BY ONLY <1>0, <2>1, <2>2, <2>3, <2>4, <2>6, MemberInv DEF MemberInv
<1>19. ASSUME NEW c \in Clients, Close(c) PROVE MemberInv'
  BY <1>19, <1>0 DEF Close
<1>20. CASE Stop("stop", "trailer", "idle")
  BY <1>20, <1>0 DEF Stop
<1>21. CASE Stopped("trailer", "idle")
  BY <1>21, <1>0 DEF Stopped
<1>22. CASE Stop("stop_mode", "trailer_mode", "start")
  BY <1>22, <1>0 DEF Stop
<1>23. CASE Stopped("trailer_mode", "start")
  BY <1>23, <1>0 DEF Stopped
<1>24. CASE Resize
  BY <1>24 DEF Resize
<1>25. CASE UNCHANGED vars
  BY <1>25, <1>0 DEF vars
<1> QED
  BY <1>1, <1>2, <1>3, <1>4, <1>5, <1>6, <1>7, <1>8, <1>9, <1>10, <1>11, <1>12,
     <1>13, <1>14, <1>15, <1>16, <1>17, <1>18, <1>19, <1>20, <1>21, <1>22, <1>23,
     <1>24, <1>25
  DEF Next, ReadPacket, Handlers, HubStreaming

(* readPacket and SETTING between them serve everybody.                    *)
LEMMA StepInformed ==
  ASSUME IInv, Clean, Clean', [Next]_vars
  PROVE  Informed'
<1> USE StreamAssumption DEF IInv, CleanInv, TypeOK, BoundInv, ReaderInv, CountInv,
     Counted, Clean, Torn, Walking, GotoHub, GotoReader, Write, capture, list,
     encoder, reading, Lesser, HeaderFull, MemberInv, Informed
<1>1. CASE TestFirstCount
  BY <1>1 DEF TestFirstCount
<1>2. CASE CopyToHeader
  BY <1>2 DEF CopyToHeader
<1>3. CASE GrowHeader
  BY <1>3 DEF GrowHeader
<1>4. CASE CountPacket
  BY <1>4 DEF CountPacket
<1>5. CASE TestHeaderFull
  BY <1>5 DEF TestHeaderFull
<1>6. CASE EndWalk
  BY <1>6 DEF EndWalk
<1>7. CASE EncodeFrame
  BY <1>7 DEF EncodeFrame
<1>8. CASE OpenRefused
  BY <1>8 DEF OpenRefused
<1>9. CASE SettingSendInit
  <2>1. firstCount = 2 => got' = [got EXCEPT ![client].init = HeaderOf(stream)]
    BY <1>9, Served DEF SettingSendInit, HeaderFull, GiveInit
  <2>2. /\ hub = "accept" /\ client \in Clients
        /\ UNCHANGED <<firstCount, members, stream, reader, left>>
    BY <1>9 DEF SettingSendInit
  <2>3. firstCount = 2 =>
          /\ got'[client].init = HeaderOf(stream)
          /\ \A d \in Clients : d # client => got'[d] = got[d]
    BY <2>1, <2>2
  <2> QED
    BY ONLY <2>2, <2>3, Informed, members \subseteq Clients DEF Informed, HeaderOf
<1>10. CASE Mode
  BY <1>10 DEF Mode
<1>11. CASE StartStreaming
  BY <1>11 DEF StartStreaming
<1>12. CASE ResetHeader
  BY <1>12 DEF ResetHeader
<1>13. CASE Initialize
  BY <1>13 DEF Initialize
<1>14. CASE WriteHeader
  BY <1>14 DEF WriteHeader
<1>15. CASE Initialized
  BY <1>15 DEF Initialized
<1>16. ASSUME NEW c \in Clients, Visit(c) PROVE Informed'
  <2>0. got \in [Clients -> [init : Inits, since : Nat, early : Nat]] /\ members \subseteq Clients
    OBVIOUS
  <2>1. firstCount = 2 /\ hub \notin {"reset", "initialize"} /\ c \in members
    BY <1>16 DEF Visit
  <2>2. CASE reader = "init"
    <3>1. got' = [got EXCEPT ![c].init = HeaderOf(stream)]
      BY <1>16, <2>2 DEF Visit, GiveInit, HeaderInv
    <3>2. \A d \in members : d # c => got'[d] = got[d]
      BY <3>1
    <3>3. got'[c].init = HeaderOf(stream)
      BY <2>1, <3>1
    <3>4. /\ left' = left \ {c}
          /\ UNCHANGED <<firstCount, members, stream, reader, hub, client>>
      BY <1>16 DEF Visit
    <3> QED
      BY ONLY <3>2, <3>3, <3>4, Informed DEF Informed, HeaderOf
  <2>3. CASE reader = "send"
    <3>1. got' = [got EXCEPT ![c] = [got[c] EXCEPT !.early =
                    IF got[c].init = HeaderOf(packet[1]) THEN got[c].early ELSE packet[1]]]
      BY <1>16, <2>3 DEF Visit
    <3>2. \A d \in members : got[d] \in [init : Inits, since : Nat, early : Nat]
      BY <2>0
    <3>3. \A d \in members : got'[d].init = got[d].init /\ got'[d].since = got[d].since
      BY ONLY <2>0, <3>1, <3>2
    <3>4. UNCHANGED <<firstCount, members, stream, reader, hub, client>>
      BY <1>16 DEF Visit
    <3> QED
      BY ONLY <2>3, <3>3, <3>4, Informed DEF Informed, HeaderOf
  <2> QED
    BY <1>16, <2>2, <2>3 DEF Visit
<1>17. ASSUME NEW c \in Clients, Open(c) PROVE Informed'
  BY <1>17 DEF Open
<1>18. ASSUME NEW c \in Clients, Setting(c) PROVE Informed'
  BY <1>18 DEF Setting
<1>19. ASSUME NEW c \in Clients, Close(c) PROVE Informed'
  BY <1>19 DEF Close
<1>20. CASE Stop("stop", "trailer", "idle")
  BY <1>20 DEF Stop
<1>21. CASE Stopped("trailer", "idle")
  BY <1>21 DEF Stopped
<1>22. CASE Stop("stop_mode", "trailer_mode", "start")
  BY <1>22 DEF Stop
<1>23. CASE Stopped("trailer_mode", "start")
  BY <1>23 DEF Stopped
<1>24. CASE Resize
  BY <1>24 DEF Resize
<1>25. CASE UNCHANGED vars
  BY <1>25 DEF vars
<1> QED
  BY <1>1, <1>2, <1>3, <1>4, <1>5, <1>6, <1>7, <1>8, <1>9, <1>10, <1>11, <1>12,
     <1>13, <1>14, <1>15, <1>16, <1>17, <1>18, <1>19, <1>20, <1>21, <1>22, <1>23,
     <1>24, <1>25
  DEF Next, ReadPacket, Handlers, HubStreaming

(* The counters stay within the header.                                    *)
LEMMA CountsBounded == ReaderInv /\ CountInv /\ HeaderInv => CountBounds
<1> SUFFICES ASSUME ReaderInv, CountInv, HeaderInv PROVE CountBounds
  OBVIOUS
<1>1. firstCount <= 2 /\ headerSize <= 2
  BY DEF CountInv, Counted, Lesser, ReaderInv
<1> QED
  BY <1>1 DEF HeaderInv, CountBounds

(* The invariant is inductive.                                             *)
LEMMA StepInv == IInv /\ [Next]_vars => IInv'
<1> SUFFICES ASSUME IInv, [Next]_vars PROVE IInv'
  OBVIOUS
<1>1. ASSUME Clean' PROVE CleanInv'
  BY <1>1, CleanBefore, StepReader, StepCount, StepHeader, StepMembers, StepInformed
  DEF CleanInv
<1>2. Clean' => CountBounds'
  <2>1. Clean' => (ReaderInv /\ CountInv /\ HeaderInv)'
    BY <1>1 DEF CleanInv
  <2> QED
    BY <2>1, CountsBounded, PTL
<1>3. TypeOK' /\ BoundInv'
  BY <1>2, StepBounds DEF IInv
<1> QED
  BY <1>1, <1>3 DEF IInv

-----------------------------------------------------------------------------
(* The theorems.                                                           *)

(* The reader, the counters, the header and what the members have agree.   *)
THEOREM StreamInvariant == Spec => []IInv
BY InitInv, StepInv, PTL DEF Spec

(* Types; until a record comes or goes below a walk, or the encoder is     *)
(* restarted below the capture, the counters stay within the header.       *)
THEOREM TypeCorrect == Spec => []TypeOK
<1>1. IInv => TypeOK
  BY DEF IInv
<1> QED
  BY <1>1, StreamInvariant, PTL

(* An INITVIDEO is the header of a stream, whole and nothing else.         *)
THEOREM HeaderCorrect == Spec => []InitIsHeader
<1>1. IInv => InitIsHeader
  BY DEF IInv, CleanInv, MemberInv, Inits, InitIsHeader, TypeOK
<1> QED
  BY <1>1, StreamInvariant, PTL

(* No member is left without its INITVIDEO.                                *)
THEOREM NobodyLeftOutCorrect == Spec => []NobodyLeftOut
<1>1. IInv => NobodyLeftOut
  BY DEF IInv, CleanInv, Informed, NobodyLeftOut
<1> QED
  BY <1>1, StreamInvariant, PTL

(* Only who joined during a stream can get a packet before its INITVIDEO.  *)
THEOREM InitFirstCorrect == Spec => []InitFirst
<1>1. IInv => InitFirst
  BY DEF IInv, CleanInv, MemberInv, InitFirst
<1> QED
  BY <1>1, StreamInvariant, PTL
=============================================================================
