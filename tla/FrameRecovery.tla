--------------------------- MODULE FrameRecovery ---------------------------
(***************************************************************************)
(* One encoded frame on its way through the packets: packetize_frame cuts  *)
(* it into data packets and, with forward error correction, adds their XOR *)
(* as a parity packet; the reassembler puts the frame together again, and  *)
(* makes up for one data packet it never got.                              *)
(*                                                                         *)
(* A byte is 0 or 1, which is all that XOR tells apart; lengths are scaled *)
(* down, with the relations between them kept.  Packets are lost,          *)
(* duplicated and reordered.  Which frames are awaited and which are given *)
(* up is in VideoReceive; when a packet is asked for again is in           *)
(* RepairRounds.                                                           *)
(***************************************************************************)
EXTENDS Integers, Sequences, FiniteSets, FiniteSetsExt, SequencesExt

CONSTANTS
    HeaderLen,      \* HEADER_LEN of a media packet
    MetadataLen,    \* FEC_METADATA_LEN
    MinUdp, MaxUdp, \* MIN_UDP_PAYLOAD_SIZE, MAX_UDP_PAYLOAD_SIZE
    MaxFrameBytes,  \* MAX_VIDEO_FRAME_BYTES
    PacketMargin    \* what MAX_VIDEO_PACKET_COUNT allows on top

ASSUME RecoveryAssumption ==
    /\ {HeaderLen, MetadataLen, MinUdp, MaxUdp, PacketMargin} \subseteq Nat
    /\ MaxFrameBytes \in Nat \ {0}
    /\ HeaderLen + MetadataLen < MinUdp /\ MinUdp <= MaxUdp

VARIABLES
    picture,   \* the frame being sent: its bytes and flags
    shards,    \* its packets, in the order they are sent; the parity is last
    held,      \* the receiver's assembly of the frame
    rebuilt    \* the frame the receiver made of it

recoveryVars == <<picture, shards, held, rebuilt>>

NoPicture == [bytes |-> <<>>, flags |-> {"none"}]
Missing   == <<-1>>
NoParity  == [count |-> 0, size |-> 0, last |-> 0, xor |-> <<>>]
Empty     == [count |-> 0, parts |-> <<>>, parity |-> NoParity, flags |-> {}]

-----------------------------------------------------------------------------
(* The sender.                                                              *)

DivCeil(a, b) == (a + b - 1) \div b
MaxPackets    == DivCeil(MaxFrameBytes, MinUdp - HeaderLen) + PacketMargin

\* data_payload_size
ShardSize(fec, udp) == udp - HeaderLen - (IF fec THEN MetadataLen ELSE 0)

Pieces(bytes, size) ==
    LET count == IF bytes = <<>> THEN 1 ELSE DivCeil(Len(bytes), size)
        end(k) == IF k * size < Len(bytes) THEN k * size ELSE Len(bytes)
    IN  [k \in 1..count |-> SubSeq(bytes, (k - 1) * size + 1, end(k))]

\* XOR of byte strings, the shorter ones as if padded with zeros.
Xor(strings) ==
    [n \in 1..Max({Len(s) : s \in Range(strings)}) |->
        Cardinality({k \in DOMAIN strings : n <= Len(strings[k]) /\ strings[k][n] = 1}) % 2]

\* FecParity and its encode(), which refuses what would not decode.
Parity(pieces, size) ==
    [count |-> Len(pieces), size |-> size, last |-> Len(Last(pieces)), xor |-> Xor(pieces)]
ParityFits(p, udp) ==
    /\ p.count \in 1..MaxPackets /\ p.size > 0
    /\ Len(p.xor) <= p.size /\ p.last <= p.size
    /\ MetadataLen + Len(p.xor) <= udp - HeaderLen

\* The flags of the frame go with its first packet and with the parity.
DataShards(f, pieces, fec) ==
    [k \in DOMAIN pieces |->
        [index |-> k, count |-> Len(pieces), payload |-> pieces[k],
         flags |-> (IF k = 1 THEN f.flags ELSE {})
                   \cup (IF fec THEN {"protected"} ELSE {})
                   \cup (IF k = Len(pieces) THEN {"end"} ELSE {})]]

ParityShard(f, p) ==
    [index |-> 0, count |-> p.count, payload |-> p, flags |-> {"fec"} \cup f.flags]

\* packetize_frame: the packets, none when the f is refused.
Packetized(f, fec, udp) ==
    LET size   == ShardSize(fec, udp)
        pieces == Pieces(f.bytes, size)
        parity == Parity(pieces, size)
    IN  IF \/ Len(f.bytes) > MaxFrameBytes \/ udp \notin MinUdp..MaxUdp
           \/ Len(pieces) > MaxPackets
           \/ fec /\ ~ParityFits(parity, udp)
        THEN <<>>
        ELSE DataShards(f, pieces, fec)
             \o (IF fec THEN <<ParityShard(f, parity)>> ELSE <<>>)

\* A frame of any length, with any flags an encoder gives it, is packetized.
SendPicture(bytes, flags, fec, udp) ==
    /\ picture = NoPicture
    /\ picture' = [bytes |-> bytes, flags |-> flags]
    /\ shards' = Packetized(picture', fec, udp)
    /\ UNCHANGED <<held, rebuilt>>

-----------------------------------------------------------------------------
(* The receiver.                                                            *)

Gaps(h) == {k \in DOMAIN h.parts : h.parts[k] = Missing}

\* ensure_inflight_frame
Begun(h, shard) ==
    IF h.count # 0 THEN h
    ELSE [h EXCEPT !.count = shard.count, !.parts = [k \in 1..shard.count |-> Missing]]

WithPiece(h, shard) ==
    [h EXCEPT !.flags = @ \cup shard.flags,
              !.parts = [h.parts EXCEPT ![shard.index] =
                                IF @ = Missing THEN shard.payload ELSE @]]
WithParity(h, shard) ==
    [h EXCEPT !.flags = @ \cup (shard.flags \ {"fec"}), !.parity = shard.payload]

\* expected_payload_len
ExpectedLen(p, k) == IF k = p.count THEN p.last ELSE p.size

Recoverable(h, gap) ==
    LET p == h.parity IN
    /\ Len(h.parts) = p.count
    /\ Len(p.xor) >= ExpectedLen(p, gap)
    /\ \A k \in DOMAIN h.parts \ {gap} :
           Len(h.parts[k]) = ExpectedLen(p, k) /\ Len(h.parts[k]) <= Len(p.xor)

\* recover_missing_payload: XOR of the parity and the others, cut to length.
Recovered(h, gap) ==
    SubSeq(Xor([h.parts EXCEPT ![gap] = h.parity.xor]), 1, ExpectedLen(h.parity, gap))

\* The recovery of try_complete_frame: with one gap and the parity, or not.
Completed(h) ==
    IF Cardinality(Gaps(h)) # 1 \/ h.parity = NoParity THEN h
    ELSE LET gap == CHOOSE k \in Gaps(h) : TRUE
         IN  IF Recoverable(h, gap) THEN [h EXCEPT !.parts = [h.parts EXCEPT ![gap] = Recovered(h, gap)]]
             ELSE [h EXCEPT !.parity = NoParity]

\* finish_complete_frame
Whole(h) == [bytes |-> FlattenSeq(h.parts), flags |-> h.flags \ {"fec", "protected"}]

\* accept_data_packet, accept_fec_packet and try_complete_frame: a frame that
\* has everything leaves the assembly, and packets of it that come later are
\* dropped.
ReceiveShard(n) ==
    /\ rebuilt = NoPicture
    /\ \E b \in {Begun(held, shards[n])} :
       \E h \in {Completed(IF "fec" \in shards[n].flags THEN WithParity(b, shards[n])
                           ELSE WithPiece(b, shards[n]))} :
         IF Gaps(h) = {}
         THEN rebuilt' = Whole(h) /\ held' = Empty
         ELSE held' = h /\ UNCHANGED rebuilt
    /\ UNCHANGED <<picture, shards>>

-----------------------------------------------------------------------------
RecoveryInit ==
    /\ picture = NoPicture /\ shards = <<>>
    /\ held = Empty /\ rebuilt = NoPicture

Pictures == UNION {[1..n -> {0, 1}] : n \in 0..(MaxFrameBytes + 1)}

RecoveryNext ==
    \/ \E bytes \in Pictures, flags \in SUBSET {"key"}, fec \in BOOLEAN, udp \in {MinUdp, MaxUdp} :
          SendPicture(bytes, flags, fec, udp)
    \/ \E n \in DOMAIN shards : ReceiveShard(n)

RecoverySpec == RecoveryInit /\ [][RecoveryNext]_recoveryVars

-----------------------------------------------------------------------------
(* Properties.                                                              *)

Given == {k \in DOMAIN held.parts : held.parts[k] # Missing}

\* Whatever was lost, repeated or reordered on the way, a frame the receiver
\* completes is the frame that was sent, flags included: a recovered first
\* packet takes nothing from a keyframe.
RebuiltIsSent ==
    rebuilt # NoPicture =>
        /\ rebuilt.bytes = picture.bytes
        /\ rebuilt.flags \ {"end"} = picture.flags

\* One data packet may be lost when the parity arrives: an assembly that still
\* waits lacks two packets, or one and the parity.
OneLossIsRecovered ==
    held.count # 0 =>
        Cardinality(Given) + (IF held.parity = NoParity THEN 0 ELSE 1) < held.count

\* A frame within the limit is sent, whatever its length and the size of a
\* datagram, when there is no parity; with parity it is refused for the number
\* of its packets only.
OnlyOversizeIsRefused ==
    picture # NoPicture /\ shards = <<>> =>
        \/ Len(picture.bytes) > MaxFrameBytes
        \/ Len(picture.bytes) > MaxPackets * (MinUdp - HeaderLen - MetadataLen)
=============================================================================
