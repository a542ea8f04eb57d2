----------------------------- MODULE MediaWire -----------------------------
(***************************************************************************)
(* The datagrams of a screen share: how each kind is laid out, what its    *)
(* decoder demands, and in which order the two ends look for it.           *)
(*                                                                         *)
(* Both ends use one UDP socket for everything.  The sender writes video   *)
(* (AGM1), sound (AGA1), profile changes (MPRF) and closes (MCLS); the     *)
(* receiver answers with capability feedback (MCFB), NACKs, profile ACKs   *)
(* (MPAK), closes and close ACKs (MCLA).  A kind is told by its first four *)
(* bytes, and then by the checks of its own decoder.                       *)
(*                                                                         *)
(* A datagram is a length and a set of cells: a cell is a field with its   *)
(* offset and width.  An encoder appends cells; a decoder reads fixed      *)
(* offsets, and gets Garbage where it does not hit a cell exactly.  Values *)
(* are small numbers around the limits the code compares them with; a      *)
(* floating-point value that is no number is NaN, frame rates and bit      *)
(* rates are in tenths.  What the ends do with a message they have read is *)
(* in StreamClose, ProfileTransition, VideoReceive, VideoSender and        *)
(* AudioPlayout.                                                           *)
(***************************************************************************)
EXTENDS Integers, Sequences, SequencesExt, TLC

CONSTANTS
    PayloadBytes,     \* bytes of sound or picture a datagram carries here
    MaxNackItems,     \* MAX_NACK_ITEMS (64)
    MaxMediaPayload,  \* MAX_MEDIA_PAYLOAD (1434)
    MaxPacketCount    \* MAX_VIDEO_PACKET_COUNT

ASSUME WireAssumption ==
    /\ MaxNackItems \in Nat \ {0}
    /\ MaxMediaPayload \in Nat /\ PayloadBytes \subseteq 0 .. MaxMediaPayload + 1
    /\ MaxPacketCount \in Nat \ {0}

VARIABLES
    meant,     \* the message handed to an encoder: [kind, fields]
    datagram,  \* what is on the wire
    handling,  \* how the far end is set up
    reading    \* what it made of the datagram

wireVars == <<meant, datagram, handling, reading>>

Garbage == "garbage"
NaN     == -1

-----------------------------------------------------------------------------
(* Cells.                                                                   *)

\* What extend_from_slice and push append, one after the other.
Written(writes) ==
    FoldLeft(LAMBDA d, w :
                 [len |-> d.len + w[1],
                  cells |-> d.cells \cup {[at |-> d.len, width |-> w[1], value |-> w[2]]}],
             [len |-> 0, cells |-> {}], writes)

\* from_be_bytes of bytes[at .. at + width].
Bytes(d, at, width) ==
    LET hit == {c \in d.cells : c.at = at /\ c.width = width /\ at + width <= d.len}
    IN  IF hit = {} THEN Garbage ELSE (CHOOSE c \in hit : TRUE).value

Begins(d, magic) == d.len >= 4 /\ Bytes(d, 0, 4) = magic

Finite(x, low, high) == x # NaN /\ x \in low .. high

-----------------------------------------------------------------------------
(* MEDIA_CAPABILITY_FEEDBACK.  counts stands for the five deltas, flags for *)
(* the state flags: a set, "unknown" is a bit that has no meaning.          *)

FeedbackLength(version) == IF version = 1 THEN 112 ELSE 144

FeedbackWrites(m) ==
    <<<<4, "MCFB">>, <<1, m.version>>, <<3, 0>>, <<8, m.session>>, <<8, m.sequence>>,
      <<8, m.display>>, <<4, m.numerator>>, <<4, m.denominator>>, <<4, m.width>>,
      <<4, m.height>>, <<4, m.present_fps>>, <<4, m.interval>>, <<4, m.render_fps>>,
      <<4, m.input_fps>>, <<40, m.counts>>, <<8, m.time>>>>
    \o IF m.version < 2 THEN <<>>
       ELSE <<<<8, m.generation>>, <<4, m.flags>>, <<4, m.windows>>, <<4, m.settle>>,
              <<4, m.settle_ms>>, <<8, m.started>>>>

\* A first version says nothing of the profile: no generation, no flag.
FeedbackReads(d) ==
    LET since2(at, width, none) == IF Bytes(d, 4, 1) < 2 THEN none ELSE Bytes(d, at, width)
    IN  [version |-> Bytes(d, 4, 1), session |-> Bytes(d, 8, 8),
         sequence |-> Bytes(d, 16, 8), display |-> Bytes(d, 24, 8),
         numerator |-> Bytes(d, 32, 4), denominator |-> Bytes(d, 36, 4),
         width |-> Bytes(d, 40, 4), height |-> Bytes(d, 44, 4),
         present_fps |-> Bytes(d, 48, 4), interval |-> Bytes(d, 52, 4),
         render_fps |-> Bytes(d, 56, 4), input_fps |-> Bytes(d, 60, 4),
         counts |-> Bytes(d, 64, 40), time |-> Bytes(d, 104, 8),
         generation |-> since2(112, 8, 0), flags |-> since2(120, 4, {}),
         windows |-> since2(124, 4, 0), settle |-> since2(128, 4, 0),
         settle_ms |-> since2(132, 4, 0), started |-> since2(136, 8, 0)]

ValidFeedback(m) ==
    /\ m.version \in {1, 2} /\ m.session # 0
    /\ m.denominator # 0
    /\ m.numerator = 0 \/ m.numerator \in 10 * m.denominator .. 1000 * m.denominator
    /\ m.width <= 32768 /\ m.height <= 32768
    /\ \A f \in {"present_fps", "render_fps", "input_fps"} : Finite(m[f], 0, 10000)
    /\ Finite(m.interval, 0, 100000)
    /\ "unknown" \notin m.flags

DecodesFeedback(d) ==
    /\ d.len >= 5 /\ Bytes(d, 4, 1) \in {1, 2}
    /\ d.len = FeedbackLength(Bytes(d, 4, 1))
    /\ Bytes(d, 5, 3) = 0
    /\ ValidFeedback(FeedbackReads(d))

-----------------------------------------------------------------------------
(* MEDIA_PROFILE_CHANGE and its ACK.                                        *)

ChangeWrites(m) ==
    <<<<4, "MPRF">>, <<1, 1>>, <<3, 0>>, <<8, m.old>>, <<8, m.new>>, <<8, m.sequence>>,
      <<8, m.generation>>, <<4, m.width>>, <<4, m.height>>, <<4, m.fps>>,
      <<4, m.bitrate>>, <<8, m.time>>, <<1, m.reason>>>>

ChangeReads(d) ==
    [version |-> Bytes(d, 4, 1), old |-> Bytes(d, 8, 8), new |-> Bytes(d, 16, 8),
     sequence |-> Bytes(d, 24, 8), generation |-> Bytes(d, 32, 8),
     width |-> Bytes(d, 40, 4), height |-> Bytes(d, 44, 4), fps |-> Bytes(d, 48, 4),
     bitrate |-> Bytes(d, 52, 4), time |-> Bytes(d, 56, 8), reason |-> Bytes(d, 64, 1)]

\* A session gives way to another one; every number of the change is in use.
ValidMove(m) ==
    /\ m.version = 1
    /\ 0 \notin {m.old, m.new, m.sequence, m.generation} /\ m.old # m.new

ValidChange(m) ==
    /\ ValidMove(m)
    /\ \A lines \in {m.width, m.height} : lines \in 1 .. 32768 /\ lines % 2 = 0
    /\ m.fps \in 1 .. 240
    /\ Finite(m.bitrate, 1, 10000)
    /\ m.reason \in 1 .. 3

DecodesChange(d) ==
    /\ d.len = 65 /\ Bytes(d, 4, 1) = 1 /\ Bytes(d, 5, 3) = 0
    /\ ValidChange(ChangeReads(d))

AckWrites(m) ==
    <<<<4, "MPAK">>, <<1, m.version>>, <<1, m.status>>, <<1, m.reason>>, <<1, 0>>,
      <<8, m.old>>, <<8, m.new>>, <<8, m.sequence>>, <<8, m.generation>>>>

AckReads(d) ==
    [version |-> Bytes(d, 4, 1), status |-> Bytes(d, 5, 1), reason |-> Bytes(d, 6, 1),
     old |-> Bytes(d, 8, 8), new |-> Bytes(d, 16, 8), sequence |-> Bytes(d, 24, 8),
     generation |-> Bytes(d, 32, 8)]

\* Status 1 accepts, without a reason; 2 rejects.
ValidAck(m) ==
    /\ ValidMove(m)
    /\ m.status \in {1, 2}
    /\ m.status = 1 => m.reason = 0

DecodesAck(d) ==
    /\ d.len = 40 /\ Bytes(d, 4, 1) = 1 /\ Bytes(d, 7, 1) = 0
    /\ ValidAck(AckReads(d))

-----------------------------------------------------------------------------
(* STREAM_CLOSE and its ACK.                                                *)

StopReasons == 1 .. 12

CloseWrites(m) ==
    <<<<4, "MCLS">>, <<1, m.version>>, <<1, m.stream>>, <<1, m.reason>>, <<1, 0>>,
      <<8, m.session>>, <<8, m.id>>, <<8, m.time>>, <<8, m.frame>>>>

CloseReads(d) ==
    [version |-> Bytes(d, 4, 1), stream |-> Bytes(d, 5, 1), reason |-> Bytes(d, 6, 1),
     session |-> Bytes(d, 8, 8), id |-> Bytes(d, 16, 8), time |-> Bytes(d, 24, 8),
     frame |-> Bytes(d, 32, 8)]

ValidClose(m) == m.version = 1 /\ 0 \notin {m.stream, m.id} /\ m.reason \in StopReasons

DecodesClose(d) ==
    /\ d.len = 40 /\ Bytes(d, 4, 1) = 1 /\ Bytes(d, 7, 1) = 0
    /\ ValidClose(CloseReads(d))

CloseAckWrites(m) ==
    <<<<4, "MCLA">>, <<1, m.version>>, <<1, m.stream>>, <<2, 0>>, <<8, m.session>>,
      <<8, m.id>>>>

CloseAckReads(d) ==
    [version |-> Bytes(d, 4, 1), stream |-> Bytes(d, 5, 1), session |-> Bytes(d, 8, 8),
     id |-> Bytes(d, 16, 8)]

ValidCloseAck(m) == m.version = 1 /\ 0 \notin {m.stream, m.id}

DecodesCloseAck(d) ==
    /\ d.len = 24 /\ Bytes(d, 4, 1) = 1 /\ Bytes(d, 6, 2) = 0
    /\ ValidCloseAck(CloseAckReads(d))

-----------------------------------------------------------------------------
(* NACK: the packets of some frames that are missing.                       *)

NackWrites(m) ==
    <<<<4, "NACK">>, <<1, 1>>, <<8, m.session>>, <<2, Len(m.items)>>>>
    \o FlattenSeq([i \in 1 .. Len(m.items) |-> <<<<8, m.items[i].frame>>,
                                                  <<2, m.items[i].index>>>>])

NackReads(d) ==
    [session |-> Bytes(d, 5, 8),
     items |-> [i \in 1 .. Bytes(d, 13, 2) |->
                    [frame |-> Bytes(d, 5 + 10 * i, 8), index |-> Bytes(d, 13 + 10 * i, 2)]]]

ValidNack(m) == Len(m.items) \in 1 .. MaxNackItems

DecodesNack(d) ==
    /\ d.len >= 15 /\ Begins(d, "NACK") /\ Bytes(d, 4, 1) = 1
    /\ Bytes(d, 13, 2) \in 1 .. MaxNackItems
    /\ d.len = 15 + 10 * Bytes(d, 13, 2)

-----------------------------------------------------------------------------
(* Media packets and sound packets; bytes is the length of their payload.   *)

MediaWrites(m) ==
    <<<<4, "AGM1">>, <<1, 1>>, <<1, m.stream>>, <<2, m.flags>>, <<8, m.session>>,
      <<8, m.frame>>, <<2, m.index>>, <<2, m.count>>, <<8, m.time>>, <<2, m.bytes>>,
      <<m.bytes, "payload">>>>

MediaReads(d) ==
    [stream |-> Bytes(d, 5, 1), flags |-> Bytes(d, 6, 2), session |-> Bytes(d, 8, 8),
     frame |-> Bytes(d, 16, 8), index |-> Bytes(d, 24, 2), count |-> Bytes(d, 26, 2),
     time |-> Bytes(d, 28, 8), bytes |-> Bytes(d, 36, 2)]

ValidMedia(m) ==
    /\ m.bytes <= MaxMediaPayload
    /\ m.count \in 1 .. MaxPacketCount
    /\ m.index < m.count

\* Bytes after the payload are not looked at.
DecodesMedia(d) ==
    /\ d.len >= 38 /\ d.len <= 38 + MaxMediaPayload
    /\ Begins(d, "AGM1") /\ Bytes(d, 4, 1) = 1
    /\ ValidMedia(MediaReads(d))
    /\ 38 + MediaReads(d).bytes <= d.len

SoundWrites(m) ==
    <<<<4, "AGA1">>, <<1, 1>>, <<1, 1>>, <<2, 0>>, <<8, m.session>>, <<8, m.sequence>>,
      <<8, m.time>>, <<4, m.rate>>, <<2, m.channels>>, <<2, m.bits>>, <<2, m.samples>>,
      <<2, m.bytes>>, <<m.bytes, "payload">>>>

SoundReads(d) ==
    [session |-> Bytes(d, 8, 8), sequence |-> Bytes(d, 16, 8), time |-> Bytes(d, 24, 8),
     rate |-> Bytes(d, 32, 4), channels |-> Bytes(d, 36, 2), bits |-> Bytes(d, 38, 2),
     samples |-> Bytes(d, 40, 2), bytes |-> Bytes(d, 42, 2)]

SoundFits(m) == m.bytes = (m.samples * m.channels * m.bits) \div 8

ValidSound(m) == 0 \notin {m.samples, m.rate, m.channels} /\ SoundFits(m)

\* The decoder does not ask for a sample, a rate or a channel.
DecodesSound(d) ==
    /\ d.len >= 44 /\ Begins(d, "AGA1") /\ Bytes(d, 4, 1) = 1 /\ Bytes(d, 5, 1) = 1
    /\ 44 + SoundReads(d).bytes <= d.len
    /\ SoundFits(SoundReads(d))

-----------------------------------------------------------------------------
(* Encoding.                                                                *)

ToSender   == {"feedback", "ack", "close", "closeAck", "nack"}
ToReceiver == {"change", "close", "media", "sound"}
Kinds      == ToSender \cup ToReceiver

Valid(k, m) ==
    CASE k = "feedback" -> ValidFeedback(m)
      [] k = "change"   -> ValidChange(m)
      [] k = "ack"      -> ValidAck(m)
      [] k = "close"    -> ValidClose(m)
      [] k = "closeAck" -> ValidCloseAck(m)
      [] k = "nack"     -> ValidNack(m)
      [] k = "media"    -> ValidMedia(m)
      [] k = "sound"    -> ValidSound(m)

Encoded(k, m) ==
    Written(CASE k = "feedback" -> FeedbackWrites(m)
              [] k = "change"   -> ChangeWrites(m)
              [] k = "ack"      -> AckWrites(m)
              [] k = "close"    -> CloseWrites(m)
              [] k = "closeAck" -> CloseAckWrites(m)
              [] k = "nack"     -> NackWrites(m)
              [] k = "media"    -> MediaWrites(m)
              [] k = "sound"    -> SoundWrites(m))

-----------------------------------------------------------------------------
(* The messages that are tried: an ordinary one of each kind, and what      *)
(* differs from it in one field.                                            *)

OneOff(ordinary, odd) ==
    {ordinary} \cup UNION {{[ordinary EXCEPT ![f] = v] : v \in odd[f]} : f \in DOMAIN odd}

FeedbackMessages ==
    LET ordinary == [version |-> 2, session |-> 1, sequence |-> 2, display |-> 3,
                     numerator |-> 60, denominator |-> 1, width |-> 1920, height |-> 1080,
                     present_fps |-> 600, interval |-> 170, render_fps |-> 590,
                     input_fps |-> 580, counts |-> 4, time |-> 5, generation |-> 6,
                     flags |-> {"eligible"}, windows |-> 7, settle |-> 8,
                     settle_ms |-> 9, started |-> 10]
    IN  OneOff(ordinary, [version |-> {0, 1, 3}, session |-> {0},
                          numerator |-> {0, 9, 10, 1000, 1001}, denominator |-> {0, 6, 7},
                          width |-> {0, 32768, 32769}, height |-> {32769},
                          present_fps |-> {NaN, 0, 10000, 10001}, render_fps |-> {NaN},
                          input_fps |-> {10001}, interval |-> {NaN, 100000, 100001},
                          flags |-> {{}, {"unknown"}}])

ChangeMessages ==
    LET ordinary == [version |-> 1, old |-> 1, new |-> 2, sequence |-> 3, generation |-> 4,
                     width |-> 1280, height |-> 720, fps |-> 60, bitrate |-> 150,
                     time |-> 5, reason |-> 1]
    IN  OneOff(ordinary, [old |-> {0, 2}, new |-> {0}, sequence |-> {0},
                          generation |-> {0}, width |-> {0, 1281, 32768, 32770},
                          height |-> {0, 721, 32770}, fps |-> {0, 1, 240, 241},
                          bitrate |-> {NaN, 0, 1, 10000, 10001}, reason |-> {0, 3, 4}])

AckMessages ==
    LET ordinary == [version |-> 1, status |-> 1, reason |-> 0, old |-> 1, new |-> 2,
                     sequence |-> 3, generation |-> 4]
        rejected == [ordinary EXCEPT !.status = 2, !.reason = 1]
    IN  {rejected} \cup
        OneOff(ordinary, [version |-> {2}, status |-> {0, 3}, reason |-> {1},
                          old |-> {0, 2}, new |-> {0}, sequence |-> {0},
                          generation |-> {0}])

CloseMessages ==
    OneOff([version |-> 1, stream |-> 1, reason |-> 8, session |-> 1, id |-> 2,
            time |-> 3, frame |-> 4],
           [version |-> {2}, stream |-> {0}, reason |-> {0, 1, 12, 13}, session |-> {0},
            id |-> {0}])

CloseAckMessages ==
    OneOff([version |-> 1, stream |-> 1, session |-> 1, id |-> 2],
           [version |-> {2}, stream |-> {0}, session |-> {0}, id |-> {0}])

NackMessages ==
    {[session |-> 1, items |-> [i \in 1 .. n |-> [frame |-> i, index |-> 2 * i]]] :
         n \in 0 .. MaxNackItems + 1}

MediaMessages ==
    OneOff([stream |-> 1, flags |-> 1, session |-> 1, frame |-> 2, index |-> 0, count |-> 1,
            time |-> 3, bytes |-> MaxMediaPayload],
           [bytes |-> PayloadBytes, count |-> {0, MaxPacketCount, MaxPacketCount + 1},
            index |-> {1}])

SoundMessages ==
    OneOff([session |-> 1, sequence |-> 2, time |-> 3, rate |-> 48000, channels |-> 2,
            bits |-> 16, samples |-> 2, bytes |-> 8],
           [samples |-> {0, 3}, rate |-> {0}, channels |-> {0}, bits |-> {8},
            bytes |-> {0, 7}])

WireMessages(k) ==
    CASE k = "feedback" -> FeedbackMessages
      [] k = "change"   -> ChangeMessages
      [] k = "ack"      -> AckMessages
      [] k = "close"    -> CloseMessages
      [] k = "closeAck" -> CloseAckMessages
      [] k = "nack"     -> NackMessages
      [] k = "media"    -> MediaMessages
      [] k = "sound"    -> SoundMessages

-----------------------------------------------------------------------------
(* What the ends make of a datagram.                                        *)

Taken(k, fields, ok) == IF ok THEN [as |-> k, fields |-> fields] ELSE [as |-> "invalid"]
Ignored == [as |-> "ignored"]

ShortOrNack(d)   == d.len < 4 \/ Begins(d, "NACK")
IsMediaPacket(d) == d.len >= 38 /\ Begins(d, "AGM1")

\* Mutant: the flag of a stop is looked at before anything else.
AtReceiver_DeafWhenStopping(d, h) ==
    CASE h.stopping         -> Ignored
      [] Begins(d, "MCLS") -> Taken("close", CloseReads(d), DecodesClose(d))
      [] Begins(d, "MPRF") -> Taken("change", ChangeReads(d), DecodesChange(d))
      [] h.sound /\ Begins(d, "AGA1") -> Taken("sound", SoundReads(d), DecodesSound(d))
      [] OTHER -> IF IsMediaPacket(d)
                  THEN Taken("media", MediaReads(d), DecodesMedia(d)) ELSE Ignored

\* receive_loop: a closing peer is heard even while the receiver stops; a NACK
\* has no business here.
AtReceiver(d, h) ==
    IF Begins(d, "MCLS") THEN Taken("close", CloseReads(d), DecodesClose(d))
    ELSE IF h.stopping THEN Ignored
    ELSE IF Begins(d, "MPRF") THEN Taken("change", ChangeReads(d), DecodesChange(d))
    ELSE IF h.sound /\ Begins(d, "AGA1") THEN Taken("sound", SoundReads(d), DecodesSound(d))
    ELSE IF ShortOrNack(d) \/ ~IsMediaPacket(d) THEN Ignored
    ELSE Taken("media", MediaReads(d), DecodesMedia(d))

\* run_media_control_receiver
AtSender(d, h) ==
    IF Begins(d, "MCLS")
    THEN Taken("close", CloseReads(d), DecodesClose(d) /\ CloseReads(d).stream = 1)
    ELSE IF Begins(d, "MCLA")
    THEN Taken("closeAck", CloseAckReads(d), DecodesCloseAck(d))
    ELSE IF h.stopping THEN Ignored
    ELSE IF Begins(d, "MPAK") THEN Taken("ack", AckReads(d), DecodesAck(d))
    ELSE IF Begins(d, "MCFB") THEN Taken("feedback", FeedbackReads(d), DecodesFeedback(d))
    ELSE IF h.repair /\ DecodesNack(d) THEN Taken("nack", NackReads(d), TRUE)
    ELSE Ignored

-----------------------------------------------------------------------------
Nothing == [kind |-> "nothing"]

WireInit == meant = Nothing /\ datagram = Nothing /\ handling = Nothing /\ reading = Nothing

\* An encoder writes what it is given; this program's encoders refuse what the
\* far end would not accept, another build's might not.
Encode(k, m) ==
    /\ meant = Nothing
    /\ meant' = [kind |-> k, fields |-> m, ours |-> Valid(k, m)]
    /\ datagram' = [kind |-> "whole", bytes |-> Encoded(k, m)]
    /\ UNCHANGED <<handling, reading>>

\* A build of another protocol version, or another program on the same port.
With(d, at, v) ==
    [d EXCEPT !.cells = {IF c.at = at THEN [c EXCEPT !.value = v] ELSE c : c \in @}]

Strays(d) ==
    {[kind |-> "cut", bytes |-> [d EXCEPT !.len = @ - 1]],
     [kind |-> "short", bytes |-> [d EXCEPT !.len = 3]],
     [kind |-> "padded", bytes |-> [d EXCEPT !.len = @ + 1]],
     [kind |-> "version", bytes |-> With(d, 4, 9)],
     [kind |-> "unknown", bytes |-> With(d, 0, "RTP?")]}

Stray ==
    /\ datagram.kind = "whole" /\ reading = Nothing
    /\ datagram' \in Strays(datagram.bytes)
    /\ UNCHANGED <<meant, handling, reading>>

Arrive(side, h) ==
    /\ datagram # Nothing /\ reading = Nothing
    /\ handling' = [side |-> side] @@ h
    /\ reading' = IF side = "sender" THEN AtSender(datagram.bytes, h)
                  ELSE AtReceiver(datagram.bytes, h)
    /\ UNCHANGED <<meant, datagram>>

NextDatagram ==
    /\ reading # Nothing
    /\ meant' = Nothing /\ datagram' = Nothing /\ handling' = Nothing /\ reading' = Nothing

WireNext ==
    \/ \E k \in Kinds : \E m \in WireMessages(k) : Encode(k, m)
    \/ Stray
    \/ \E side \in {"sender", "receiver"} :
          \E h \in [stopping : BOOLEAN, sound : BOOLEAN, repair : BOOLEAN] : Arrive(side, h)
    \/ NextDatagram

WireSpec == WireInit /\ [][WireNext]_wireVars

-----------------------------------------------------------------------------
\* A legacy feedback packet has no word about the profile.
AsSent(k, m) ==
    IF k = "feedback" /\ m.version = 1
    THEN [m EXCEPT !.generation = 0, !.flags = {}, !.windows = 0, !.settle = 0,
                   !.settle_ms = 0, !.started = 0]
    ELSE m

\* The end the kind is for, with what it needs switched on and not stopping;
\* closes and their ACKs are heard while stopping too.
Expected(k) ==
    /\ k \in IF handling.side = "sender" THEN ToSender ELSE ToReceiver
    /\ handling.stopping => k \in {"close", "closeAck"}
    /\ k = "sound" => handling.sound
    /\ k = "nack" => handling.repair

\* Every datagram that one end's encoder lets out is taken by the other end as
\* the message it is, field by field, whatever else shares the socket.
HandledAsSent ==
    (reading # Nothing /\ meant.ours /\ datagram.kind = "whole" /\ Expected(meant.kind))
        => reading = [as |-> meant.kind, fields |-> AsSent(meant.kind, meant.fields)]

\* Whatever is taken is the message that was written, for the end that took it: no
\* kind passes for another one, and one of a foreign version, cut short, or with a
\* field no encoder lets out, does not pass at all.  (Sound and pictures may have
\* bytes behind them; sound of no length, rate or channel is let in.)
ReadAsMeant ==
    (reading # Nothing /\ reading.as \in Kinds)
        => /\ reading = [as |-> meant.kind, fields |-> AsSent(meant.kind, meant.fields)]
           /\ Expected(meant.kind)
           /\ meant.ours \/ meant.kind = "sound"
           /\ \/ datagram.kind = "whole"
              \/ datagram.kind = "padded" /\ meant.kind \in {"media", "sound"}
=============================================================================
