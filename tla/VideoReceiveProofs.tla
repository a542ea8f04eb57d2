-------------------------- MODULE VideoReceiveProofs --------------------------
(***************************************************************************)
(* What the receive side of the screen video keeps, for every value of the *)
(* constants: its types, the budgets of the assembly, and the order and    *)
(* the continuity of what a decoder is fed.                                *)
(*                                                                         *)
(* The invariant follows the frames on their way.  In the reassembler the  *)
(* reservations are sums over the frames in flight, which are distinct;    *)
(* the frames it releases rise, and what it passes over without releasing  *)
(* is a loss.  From there to the decoder (playout buffer, queue, batch,    *)
(* the frame fed last) all frames are in their order, and each is linked   *)
(* to the one before it: it is the next frame, an IDR frame or a reset, or *)
(* follows a loss in `early'; only a queue that waits for an IDR frame may *)
(* be followed by a break.                                                 *)
(***************************************************************************)
EXTENDS VideoReceive, SequenceTheorems, FiniteSetTheorems, FunctionTheorems, TLAPS

\* One step of Keep, and what folds it.
Keeping(kept, out, x) == IF x \in kept THEN Append(out, x) ELSE out
K == INSTANCE FoldLemmas WITH Op <- Keeping

-----------------------------------------------------------------------------
(* Keep, element by element. *)

\* Keep goes through the sequence from its first element to its last.
LEMMA KeepSteps ==
    ASSUME NEW D, NEW q \in Seq(D), NEW kept
    PROVE  \E g : /\ Keep(q, kept) = g[Len(q)]
                  /\ g[0] = <<>>
                  /\ \A m \in 1..Len(q) : g[m] = Keeping(kept, g[m - 1], q[m])
<1> DEFINE IsKeep(f) ==
               f = [s \in SUBSET DOMAIN q |->
                      IF s = {} THEN <<>>
                      ELSE LET x == Max(s)
                           IN  IF q[x] \in kept THEN Append(f[s \ {x}], q[x])
                                                ELSE f[s \ {x}]]
           h == CHOOSE f : IsKeep(f)
           n == Len(q)
<1>1. Keep(q, kept) = h[DOMAIN q]
    BY DEF Keep, FoldLeft, MapThenFoldSet
<1>2. n \in Nat /\ DOMAIN q = 1..n
    BY LenProperties
<1>3. ASSUME NEW f
      PROVE  K!IsFold(f, kept, <<>>, q, n) <=> IsKeep(f)
    BY <1>2 DEF K!IsFold, K!Top, Max, Keeping
<1>4. \E f : IsKeep(f)
    BY <1>2, <1>3, K!FoldExists
<1>5. IsKeep(h)
    BY <1>4
<1> HIDE DEF IsKeep, h, n
<1>6. K!IsFold(h, kept, <<>>, q, n)
    BY <1>3, <1>5
<1>7. \E g : K!IsRun(g, h, kept, <<>>, q, n)
    BY <1>2, <1>6, K!FoldRuns
<1> QED BY <1>1, <1>2, <1>7 DEF n, K!IsRun, Keeping

\* What Keep returns: the elements of the sequence that are in the set, no more of
\* them, each pair of them in the order it had.
LEMMA KeepFacts ==
    ASSUME NEW D, NEW q \in Seq(D), NEW kept, NEW R,
           \A j, k \in 1..Len(q) : j < k => <<q[j], q[k]>> \in R
    PROVE  /\ Keep(q, kept) \in Seq(D)
           /\ Len(Keep(q, kept)) <= Len(q)
           /\ ToSet(Keep(q, kept)) = ToSet(q) \cap kept
           /\ \A j, k \in 1..Len(Keep(q, kept)) :
                 j < k => <<Keep(q, kept)[j], Keep(q, kept)[k]>> \in R
<1>1. PICK g : /\ Keep(q, kept) = g[Len(q)]
               /\ g[0] = <<>>
               /\ \A m \in 1..Len(q) : g[m] = Keeping(kept, g[m - 1], q[m])
    BY KeepSteps
<1> DEFINE n == Len(q)
           Good(m) == /\ g[m] \in Seq(D) /\ Len(g[m]) <= m
                      /\ \A x : x \in ToSet(g[m]) <=>
                                \E k \in 1..m : q[k] = x /\ x \in kept
                      /\ \A j, k \in 1..Len(g[m]) :
                            j < k => <<g[m][j], g[m][k]>> \in R
           G == {m \in 0..n : Good(m)}
<1>2. n \in Nat /\ DOMAIN q = 1..n
    BY LenProperties
<1>3. 0 \in G
    <2>1. <<>> \in Seq(D) /\ Len(<<>>) = 0 /\ ToSet(<<>>) = {}
        BY EmptySeq DEF ToSet
    <2>2. Good(0)
        BY <1>1, <2>1
    <2> HIDE DEF Good
    <2> QED BY <1>2, <2>2
<1>4. ASSUME NEW m \in 1..n, m - 1 \in G
      PROVE  m \in G
    <2> DEFINE o == g[m - 1]
               x == q[m]
    <2>1. o \in Seq(D) /\ Len(o) \in Nat /\ DOMAIN o = 1..Len(o) /\ Len(o) <= m - 1
        BY <1>4, LenProperties
    <2>2. x \in D
        BY ElementOfSeq
    <2>3. \A y : y \in ToSet(o) <=> \E k \in 1..(m - 1) : q[k] = y /\ y \in kept
        BY <1>4
    <2>4. \A j, k \in 1..Len(o) : j < k => <<o[j], o[k]>> \in R
        BY <1>4
    <2>5. CASE x \notin kept
        <3>1. g[m] = o
            BY <1>1, <2>5 DEF Keeping
        <3>2. \A y : y \in ToSet(o) <=> \E k \in 1..m : q[k] = y /\ y \in kept
            BY <2>3, <2>5
        <3> HIDE DEF o, x
        <3> QED BY <1>2, <2>1, <2>4, <3>1, <3>2
    <2>6. CASE x \in kept
        <3> DEFINE r == Append(o, x)
        <3>1. g[m] = r
            BY <1>1, <2>6 DEF Keeping
        <3>2. /\ r \in Seq(D) /\ Len(r) = Len(o) + 1 /\ DOMAIN r = 1..(Len(o) + 1)
              /\ \A j \in 1..Len(o) : r[j] = o[j]
              /\ r[Len(o) + 1] = x
            BY <2>1, <2>2, AppendProperties, LenProperties
        <3> HIDE DEF r
        <3>3. \A y : y \in ToSet(r) <=> y \in ToSet(o) \/ y = x
            <4>1. \A y : y \in ToSet(r) <=> \E k \in 1..(Len(o) + 1) : r[k] = y
                BY <3>2 DEF ToSet
            <4>2. \A y : y \in ToSet(o) <=> \E k \in 1..Len(o) : o[k] = y
                BY <2>1 DEF ToSet
            <4>3. Len(o) \in Nat
                BY <2>1
            <4> HIDE DEF o, x
            <4>4. ASSUME NEW y, y \in ToSet(r)
                  PROVE  y \in ToSet(o) \/ y = x
                <5>1. PICK k \in 1..(Len(o) + 1) : r[k] = y
                    BY <4>1, <4>4
                <5>2. k \in 1..Len(o) \/ k = Len(o) + 1
                    BY <4>3
                <5> QED BY <3>2, <4>2, <5>1, <5>2
            <4>5. ASSUME NEW y, y \in ToSet(o)
                  PROVE  y \in ToSet(r)
                <5>1. PICK k \in 1..Len(o) : o[k] = y
                    BY <4>2, <4>5
                <5>2. k \in 1..(Len(o) + 1) /\ r[k] = y
                    BY <3>2, <4>3, <5>1
                <5> QED BY <4>1, <5>2
            <4>6. x \in ToSet(r)
                <5>1. Len(o) + 1 \in 1..(Len(o) + 1)
                    BY <4>3
                <5> QED BY <3>2, <4>1, <5>1
            <4> QED BY <4>4, <4>5, <4>6
        <3>4. \A y : y \in ToSet(r) <=> \E k \in 1..m : q[k] = y /\ y \in kept
            BY <2>3, <2>6, <3>3
        <3>5. ASSUME NEW j \in 1..Len(r), NEW k \in 1..Len(r), j < k
              PROVE  <<r[j], r[k]>> \in R
            <4>1. CASE k <= Len(o)
                <5>1. j \in 1..Len(o) /\ k \in 1..Len(o)
                    BY <2>1, <3>2, <3>5, <4>1
                <5> HIDE DEF o, x
                <5> QED BY <2>4, <3>2, <3>5, <5>1
            <4>2. CASE k = Len(o) + 1
                <5>1. j \in 1..Len(o) /\ r[j] = o[j] /\ r[k] = x
                    BY <2>1, <3>2, <3>5, <4>2
                <5>2. o[j] \in ToSet(o)
                    BY <2>1, <5>1 DEF ToSet
                <5>3. PICK i \in 1..(m - 1) : q[i] = o[j]
                    BY <2>3, <5>2
                <5>4. i \in 1..n /\ m \in 1..n /\ i < m
                    BY <1>2
                <5> HIDE DEF o
                <5> QED BY <5>1, <5>3, <5>4
            <4> QED BY <2>1, <3>2, <3>5, <4>1, <4>2
        <3> HIDE DEF o, x
        <3> QED BY <1>2, <2>1, <3>1, <3>2, <3>4, <3>5
    <2> QED BY <2>5, <2>6
<1>5. Good(n)
    <2>1. \A m \in 0..n : m \in G
        <3> HIDE DEF G, n
        <3> QED BY <1>2, <1>3, <1>4, K!SegmentInduction
    <2>2. n \in 0..n
        BY <1>2
    <2>3. n \in G
        BY <2>1, <2>2
    <2> HIDE DEF Good
    <2> QED BY <2>3
<1>6. ToSet(Keep(q, kept)) = ToSet(q) \cap kept
    <2>1. \A y : y \in ToSet(q) <=> \E k \in 1..n : q[k] = y
        BY <1>2 DEF ToSet
    <2> QED BY <1>1, <1>5, <2>1
<1> HIDE DEF G
<1> QED BY <1>1, <1>5, <1>6

-----------------------------------------------------------------------------
(* What frames reserve. *)

\* The packets of a set of frames, each one a slot.
Payloads(fs) == UNION {{f} \X (1..Size[f]) : f \in fs}

\* The packets of a frame are as many as its size says.
LEMMA PayloadsOfOne ==
    ASSUME NEW f \in Frames
    PROVE  /\ IsFiniteSet({f} \X (1..Size[f]))
           /\ Cardinality({f} \X (1..Size[f])) = Size[f]
<1>1. Size[f] \in Nat \ {0}
    BY ReceiveAssumption
<1>2. IsFiniteSet({f}) /\ Cardinality({f}) = 1
    BY FS_Singleton
<1>3. IsFiniteSet(1..Size[f]) /\ Cardinality(1..Size[f]) = Size[f]
    BY <1>1, FS_Interval
<1>4. /\ IsFiniteSet({f} \X (1..Size[f]))
      /\ Cardinality({f} \X (1..Size[f])) = Cardinality({f}) * Cardinality(1..Size[f])
    BY <1>2, <1>3, FS_Product
<1> QED BY <1>1, <1>2, <1>3, <1>4

\* There are finitely many packets.
LEMMA PayloadsFinite == \A fs \in SUBSET Frames : IsFiniteSet(Payloads(fs))
<1> DEFINE G == {m \in 0..(LastFrame + 1) : IsFiniteSet(Payloads(0..(m - 1)))}
<1>1. LastFrame \in Nat /\ LastFrame + 1 \in Nat
    BY ReceiveAssumption
<1>2. 0 \in G
    <2>1. Payloads(0..(0 - 1)) = {}
        BY DEF Payloads
    <2> QED BY <1>1, <2>1, FS_EmptySet
<1>3. ASSUME NEW m \in 1..(LastFrame + 1), m - 1 \in G
      PROVE  m \in G
    <2>1. m - 1 \in Frames
        BY <1>1 DEF Frames
    <2>2. 0..(m - 1) = (0..((m - 1) - 1)) \cup {m - 1}
        OBVIOUS
    <2>3. Payloads(0..(m - 1)) =
              Payloads(0..((m - 1) - 1)) \cup ({m - 1} \X (1..Size[m - 1]))
        BY <2>2 DEF Payloads
    <2>4. IsFiniteSet(Payloads(0..((m - 1) - 1)))
        BY <1>3
    <2>5. IsFiniteSet({m - 1} \X (1..Size[m - 1]))
        BY <2>1, PayloadsOfOne
    <2>6. IsFiniteSet(Payloads(0..((m - 1) - 1)) \cup ({m - 1} \X (1..Size[m - 1])))
        BY <2>4, <2>5, FS_Union
    <2>7. IsFiniteSet(Payloads(0..(m - 1)))
        BY <2>3, <2>6, Zenon
    <2> QED BY <1>1, <2>7
<1>4. \A m \in 0..(LastFrame + 1) : m \in G
    <2> HIDE DEF G
    <2> QED BY <1>1, <1>2, <1>3, K!SegmentInduction
<1>5. IsFiniteSet(Payloads(Frames))
    <2>1. LastFrame + 1 \in G /\ Frames = 0..((LastFrame + 1) - 1)
        BY <1>1, <1>4 DEF Frames
    <2> QED BY <2>1
<1> QED
    <2> TAKE fs \in SUBSET Frames
    <2>1. Payloads(fs) \in SUBSET Payloads(Frames)
        BY DEF Payloads
    <2> QED BY <1>5, <2>1, FS_Subset

\* A set of frames is finite.
LEMMA FramesFinite == \A fs \in SUBSET Frames : IsFiniteSet(fs)
<1>1. IsFiniteSet(Frames)
    BY ReceiveAssumption, FS_Interval DEF Frames
<1> QED BY <1>1, FS_Subset

\* The reservation of a set of frames is a number, and nothing for no frame.
LEMMA ReservationType ==
    ASSUME NEW fs \in SUBSET Frames
    PROVE  /\ Slots[fs] \in Nat /\ Slots[fs] = Cardinality(Payloads(fs))
           /\ Bytes[fs] \in Nat /\ Bytes[fs] = Slots[fs] + Cardinality(fs)
           /\ Cardinality(fs) \in Nat
           /\ fs = {} => Slots[fs] = 0 /\ Bytes[fs] = 0
<1>1. Slots[fs] = Cardinality(Payloads(fs)) /\ Slots[fs] \in Nat
    BY PayloadsFinite, FS_CardinalityType DEF Slots, Payloads
<1>2. Cardinality(fs) \in Nat
    BY FramesFinite, FS_CardinalityType
<1>3. Bytes[fs] = Slots[fs] + Cardinality(fs)
    BY DEF Bytes
<1>4. fs = {} => Payloads(fs) = {} /\ Cardinality(fs) = 0
    BY FS_EmptySet DEF Payloads
<1> QED BY <1>1, <1>2, <1>3, <1>4, FS_EmptySet

\* Frames reserve apart: what two sets of frames have reserved together is the sum.
LEMMA ReservationAdds ==
    ASSUME NEW fs \in SUBSET Frames, NEW gs \in SUBSET Frames, fs \cap gs = {}
    PROVE  /\ Slots[fs \cup gs] = Slots[fs] + Slots[gs]
           /\ Bytes[fs \cup gs] = Bytes[fs] + Bytes[gs]
<1>1. fs \cup gs \in SUBSET Frames
    OBVIOUS
<1>2. /\ Payloads(fs \cup gs) = Payloads(fs) \cup Payloads(gs)
      /\ Payloads(fs) \cap Payloads(gs) = {}
    BY DEF Payloads
<1>3. Cardinality(Payloads(fs \cup gs)) =
          Cardinality(Payloads(fs)) + Cardinality(Payloads(gs)) - Cardinality({})
    <2>1. IsFiniteSet(Payloads(fs)) /\ IsFiniteSet(Payloads(gs))
        BY PayloadsFinite
    <2>2. Cardinality(Payloads(fs) \cup Payloads(gs)) =
              Cardinality(Payloads(fs)) + Cardinality(Payloads(gs))
                  - Cardinality(Payloads(fs) \cap Payloads(gs))
        BY <2>1, FS_Union
    <2> QED BY <1>2, <2>2
<1>4. Cardinality(fs \cup gs) = Cardinality(fs) + Cardinality(gs) - Cardinality({})
    BY FramesFinite, FS_Union
<1>5. Cardinality({}) = 0
    BY FS_EmptySet
<1> QED BY <1>1, <1>3, <1>4, <1>5, ReservationType

\* What frames give back is what they had reserved.
LEMMA ReservationGivenBack ==
    ASSUME NEW fs \in SUBSET Frames, NEW gs \in SUBSET fs
    PROVE  /\ Slots[fs \ gs] = Slots[fs] - Slots[gs]
           /\ Bytes[fs \ gs] = Bytes[fs] - Bytes[gs]
<1>1. fs \ gs \in SUBSET Frames /\ gs \in SUBSET Frames
    OBVIOUS
<1>2. (fs \ gs) \cap gs = {} /\ (fs \ gs) \cup gs = fs
    OBVIOUS
<1>3. Slots[fs] = Slots[fs \ gs] + Slots[gs] /\ Bytes[fs] = Bytes[fs \ gs] + Bytes[gs]
    BY <1>1, <1>2, ReservationAdds
<1> QED BY <1>1, <1>3, ReservationType

\* One frame reserves its packets, and a payload more in bytes.
LEMMA ReservationOfOne ==
    ASSUME NEW f \in Frames
    PROVE  Slots[{f}] = Size[f] /\ Bytes[{f}] = Size[f] + 1 /\ Size[f] \in Nat \ {0}
<1>1. Payloads({f}) = {f} \X (1..Size[f])
    BY DEF Payloads
<1>2. Cardinality({f}) = 1
    BY FS_Singleton
<1> QED BY <1>1, <1>2, PayloadsOfOne, ReservationType, ReceiveAssumption

-----------------------------------------------------------------------------
(* The reassembler. *)

\* A frame in flight with the packets it has, and the reassembler's state.
Flight == [id : Frames, got : SUBSET Nat]

Assembler ==
    [session : 0..Sessions, next : None..(LastFrame + 1), high : None..LastFrame,
     order : Seq(Flight), complete : SUBSET Frames, skipped : SUBSET Frames,
     blocked : BOOLEAN, slots : Int, bytes : Int]

\* The frames in flight: each once, with packets it has.
OrderOK(o) ==
    /\ o \in Seq(Flight)
    /\ \A k \in 1..Len(o) : o[k].got \subseteq 0..Size[o[k].id]
    /\ \A j, k \in 1..Len(o) : j < k => o[j].id # o[k].id

\* The budget is what the frames in flight have reserved, and is kept.
BudgetOK(a) ==
    /\ a.slots = Slots[InFlight(a)]
    /\ a.bytes = Bytes[InFlight(a)]
    /\ Len(a.order) <= MaxFrames
    /\ a.slots <= MaxSlots
    /\ a.bytes <= MaxBytes

\* Before the first packet there is nothing.
IdleOK(a) ==
    a.next = None => a.order = <<>> /\ a.complete = {} /\ a.skipped = {}

\* The reassembler: nothing complete has been passed, and the reservations are exact.
AssemblerOK(a) ==
    /\ a \in Assembler
    /\ OrderOK(a.order)
    /\ BudgetOK(a)
    /\ \A f \in a.complete : f >= a.next
    /\ IdleOK(a)

\* The frames in flight, without some: the others, each once still.
LEMMA WithoutFacts ==
    ASSUME NEW a, OrderOK(a.order), NEW fs
    PROVE  /\ OrderOK(Without(a, fs))
           /\ Len(Without(a, fs)) <= Len(a.order)
           /\ {Without(a, fs)[k].id : k \in DOMAIN Without(a, fs)} = InFlight(a) \ fs
<1> DEFINE o == a.order
           kept == {e \in ToSet(o) : e.id \notin fs}
           r == Without(a, fs)
           R == {p \in Flight \X Flight : p[1].id # p[2].id}
<1>1. o \in Seq(Flight) /\ Len(o) \in Nat /\ DOMAIN o = 1..Len(o)
    BY LenProperties DEF OrderOK
<1>2. r = Keep(o, kept)
    BY DEF Without
<1>3. \A k \in 1..Len(o) : o[k] \in Flight
    BY <1>1, ElementOfSeq
<1>4. ASSUME NEW j \in 1..Len(o), NEW k \in 1..Len(o), j < k
      PROVE  <<o[j], o[k]>> \in R
    BY <1>3, <1>4 DEF OrderOK
<1>5. /\ r \in Seq(Flight) /\ Len(r) <= Len(o)
      /\ ToSet(r) = ToSet(o) \cap kept
      /\ \A j, k \in 1..Len(r) : j < k => <<r[j], r[k]>> \in R
    <2> HIDE DEF o, kept, R, r
    <2> QED BY <1>1, <1>2, <1>4, KeepFacts
<1>6. Len(r) \in Nat /\ DOMAIN r = 1..Len(r)
    BY <1>5, LenProperties
<1>7. \A k \in 1..Len(r) : r[k] \in ToSet(r)
    BY <1>6 DEF ToSet
<1>8. \A x \in ToSet(o) : x.got \subseteq 0..Size[x.id]
    BY <1>1 DEF OrderOK, ToSet
<1>9. OrderOK(r)
    <2>1. \A k \in 1..Len(r) : r[k].got \subseteq 0..Size[r[k].id]
        <3> HIDE DEF r
        <3> QED BY <1>5, <1>7, <1>8
    <2>2. \A j, k \in 1..Len(r) : j < k => r[j].id # r[k].id
        <3> HIDE DEF r
        <3> QED BY <1>5
    <2> QED BY <1>5, <2>1, <2>2 DEF OrderOK
<1>10. {r[k].id : k \in DOMAIN r} = InFlight(a) \ fs
    <2>1. ToSet(r) = kept
        BY <1>5
    <2>2. {r[k].id : k \in DOMAIN r} = {x.id : x \in ToSet(r)}
        BY DEF ToSet
    <2>3. InFlight(a) = {x.id : x \in ToSet(o)}
        BY DEF ToSet, InFlight
    <2>4. {x.id : x \in kept} = {x.id : x \in ToSet(o)} \ fs
        OBVIOUS
    <2> HIDE DEF r, o, kept
    <2> QED BY <2>1, <2>2, <2>3, <2>4
<1> QED BY <1>5, <1>9, <1>10

\* What is in flight are frames.
LEMMA InFlightFrames ==
    ASSUME NEW a, OrderOK(a.order)
    PROVE  InFlight(a) \in SUBSET Frames
<1>1. a.order \in Seq(Flight) /\ DOMAIN a.order = 1..Len(a.order)
    BY LenProperties DEF OrderOK
<1>2. \A k \in 1..Len(a.order) : a.order[k] \in Flight
    BY <1>1, ElementOfSeq
<1> QED BY <1>1, <1>2 DEF InFlight, Flight

\* Releasing frames in flight gives back what they had reserved and nothing else.
LEMMA ReleaseKeeps ==
    ASSUME NEW a, AssemblerOK(a), NEW fs \in SUBSET InFlight(a)
    PROVE  /\ AssemblerOK(Release(a, fs))
           /\ InFlight(Release(a, fs)) = InFlight(a) \ fs
           /\ Release(a, fs).session = a.session /\ Release(a, fs).next = a.next
           /\ Release(a, fs).high = a.high
           /\ Release(a, fs).complete = a.complete
           /\ Release(a, fs).skipped = a.skipped
<1> DEFINE b == Release(a, fs)
           r == Without(a, fs)
<1>1. a \in Assembler /\ OrderOK(a.order) /\ BudgetOK(a) /\ IdleOK(a)
    BY DEF AssemblerOK
<1>2. /\ OrderOK(r) /\ Len(r) <= Len(a.order)
      /\ {r[k].id : k \in DOMAIN r} = InFlight(a) \ fs
    BY <1>1, WithoutFacts
<1>3. InFlight(a) \in SUBSET Frames /\ fs \in SUBSET Frames
    BY <1>1, InFlightFrames
<1>4. /\ Slots[InFlight(a) \ fs] = Slots[InFlight(a)] - Slots[fs]
      /\ Bytes[InFlight(a) \ fs] = Bytes[InFlight(a)] - Bytes[fs]
    BY <1>3, ReservationGivenBack
<1>5. /\ Slots[fs] \in Nat /\ Bytes[fs] \in Nat
      /\ Slots[InFlight(a)] \in Nat /\ Bytes[InFlight(a)] \in Nat
    BY <1>3, ReservationType
<1> HIDE DEF r
<1>6. /\ b.order = r /\ b.slots = a.slots - Slots[fs] /\ b.bytes = a.bytes - Bytes[fs]
      /\ b.session = a.session /\ b.next = a.next /\ b.high = a.high
      /\ b.complete = a.complete /\ b.skipped = a.skipped /\ b.blocked = a.blocked
    BY <1>1 DEF Release, Assembler, r
<1>7. b \in Assembler
    <2>1. r \in Seq(Flight)
        BY <1>2 DEF OrderOK
    <2>2. b = [a EXCEPT !.order = r, !.slots = @ - Slots[fs], !.bytes = @ - Bytes[fs]]
        BY DEF Release, r
    <2>3. a.slots - Slots[fs] \in Int /\ a.bytes - Bytes[fs] \in Int
        BY <1>1, <1>5 DEF Assembler
    <2> HIDE DEF b
    <2> QED BY <1>1, <2>1, <2>2, <2>3 DEF Assembler
<1> HIDE DEF b
<1>8. InFlight(b) = InFlight(a) \ fs
    BY <1>2, <1>6 DEF InFlight
<1>9. BudgetOK(b)
    <2>1. Len(r) \in Nat /\ Len(a.order) \in Nat
        BY <1>1, <1>2, LenProperties DEF OrderOK
    <2> QED BY <1>1, <1>2, <1>4, <1>5, <1>6, <1>8, <2>1, ReceiveAssumption DEF BudgetOK
<1>10. IdleOK(b)
    <2>1. CASE a.next = None
        <3>1. a.order = <<>> /\ Len(a.order) = 0
            BY <1>1, <2>1 DEF IdleOK
        <3>2. r = <<>>
            <4>1. r \in Seq(Flight) /\ Len(r) <= 0
                BY <1>2, <3>1 DEF OrderOK
            <4> QED BY <4>1, EmptySeq
        <3> QED BY <1>1, <1>6, <2>1, <3>2 DEF IdleOK
    <2>2. CASE a.next # None
        BY <1>6, <2>2 DEF IdleOK
    <2> QED BY <2>1, <2>2
<1>11. AssemblerOK(b)
    BY <1>2, <1>6, <1>7, <1>9, <1>10 DEF AssemblerOK
<1> QED BY <1>6, <1>8, <1>11 DEF b

\* More frames may be passed over by the release order.
LEMMA SkippingKeeps ==
    ASSUME NEW a, AssemblerOK(a), NEW fs \in SUBSET Frames, a.next = None => fs = {}
    PROVE  AssemblerOK([a EXCEPT !.skipped = @ \cup fs])
<1> DEFINE b == [a EXCEPT !.skipped = @ \cup fs]
<1>1. /\ b \in Assembler /\ b.order = a.order /\ b.slots = a.slots /\ b.bytes = a.bytes
      /\ b.session = a.session /\ b.next = a.next /\ b.complete = a.complete
      /\ b.skipped = a.skipped \cup fs
    BY DEF AssemblerOK, Assembler
<1> HIDE DEF b
<1>2. InFlight(b) = InFlight(a)
    BY <1>1 DEF InFlight
<1>3. IdleOK(b)
    BY <1>1 DEF AssemblerOK, IdleOK
<1>4. AssemblerOK(b)
    BY <1>1, <1>2, <1>3 DEF AssemblerOK, BudgetOK
<1> QED BY <1>4 DEF b

\* Frames in flight that are given up leave a hole and take nothing with them.
LEMMA GiveUpKeeps ==
    ASSUME NEW a, AssemblerOK(a), NEW fs \in SUBSET InFlight(a)
    PROVE  LET g == GiveUp(a, fs)
           IN  /\ AssemblerOK(g.asm)
               /\ g.lost = fs /\ fs \in SUBSET Frames
               /\ g.asm.session = a.session /\ g.asm.next = a.next
               /\ g.asm.high = a.high
               /\ g.asm.complete = a.complete
               /\ g.asm.skipped = a.skipped \cup fs
<1> DEFINE b == Release(a, fs)
<1>1. fs \in SUBSET Frames
    BY InFlightFrames DEF AssemblerOK
<1>2. /\ AssemblerOK(b) /\ b.session = a.session /\ b.next = a.next /\ b.high = a.high
      /\ b.complete = a.complete /\ b.skipped = a.skipped
    BY ReleaseKeeps
<1>3. b.next = None => fs = {}
    <2>1. a.next = None => a.order = <<>>
        BY DEF AssemblerOK, IdleOK
    <2> QED BY <1>2, <2>1 DEF InFlight
<1> HIDE DEF b
<1> DEFINE c == [b EXCEPT !.skipped = @ \cup fs]
<1>4. AssemblerOK(c)
    BY <1>1, <1>2, <1>3, SkippingKeeps
<1>5. /\ c.session = b.session /\ c.next = b.next /\ c.high = b.high
      /\ c.complete = b.complete /\ c.skipped = b.skipped \cup fs
    BY <1>2 DEF AssemblerOK, Assembler
<1>6. GiveUp(a, fs) = [asm |-> c, lost |-> fs]
    BY DEF GiveUp, b
<1> HIDE DEF c
<1>7. GiveUp(a, fs).asm = c /\ GiveUp(a, fs).lost = fs
    BY <1>6
<1> QED BY <1>1, <1>2, <1>4, <1>5, <1>7

\* A frame that fits is taken into flight, and reserves.
LEMMA ReserveKeeps ==
    ASSUME NEW a, AssemblerOK(a), a.next # None, NEW f \in Frames \ InFlight(a), Fits(a, f)
    PROVE  /\ AssemblerOK(Reserve(a, f))
           /\ InFlight(Reserve(a, f)) = InFlight(a) \cup {f}
           /\ Reserve(a, f).session = a.session /\ Reserve(a, f).next = a.next
           /\ Reserve(a, f).high = a.high
           /\ Reserve(a, f).complete = a.complete
           /\ Reserve(a, f).skipped = a.skipped
<1> DEFINE b == Reserve(a, f)
           e == [id |-> f, got |-> {}]
           r == Append(a.order, e)
           n == Len(a.order)
<1>1. a \in Assembler /\ OrderOK(a.order) /\ BudgetOK(a)
    BY DEF AssemblerOK
<1>2. a.order \in Seq(Flight) /\ n \in Nat /\ DOMAIN a.order = 1..n /\ e \in Flight
    BY <1>1, LenProperties DEF OrderOK, Flight
<1>3. /\ r \in Seq(Flight) /\ Len(r) = n + 1 /\ DOMAIN r = 1..(n + 1)
      /\ \A k \in 1..n : r[k] = a.order[k]
      /\ r[n + 1] = e
    BY <1>2, AppendProperties, LenProperties
<1> HIDE DEF r, n
<1>4. {r[k].id : k \in DOMAIN r} = InFlight(a) \cup {f}
    <2>1. 1..(n + 1) = (1..n) \cup {n + 1}
        BY <1>2
    <2>2. {r[k].id : k \in 1..n} = InFlight(a)
        BY <1>2, <1>3 DEF InFlight
    <2>3. {r[k].id : k \in {n + 1}} = {f}
        BY <1>3
    <2>4. {r[k].id : k \in DOMAIN r} = {r[k].id : k \in 1..n} \cup {r[k].id : k \in {n + 1}}
        BY <1>3, <2>1
    <2> QED BY <2>2, <2>3, <2>4
<1>5. OrderOK(r)
    <2>1. ASSUME NEW k \in 1..(n + 1)
          PROVE  r[k].got \subseteq 0..Size[r[k].id]
        BY <1>1, <1>2, <1>3 DEF OrderOK, n
    <2>2. ASSUME NEW j \in 1..(n + 1), NEW k \in 1..(n + 1), j < k
          PROVE  r[j].id # r[k].id
        <3>1. j \in 1..n /\ r[j] = a.order[j] /\ a.order[j].id \in InFlight(a)
            BY <1>2, <1>3, <2>2 DEF InFlight
        <3>2. CASE k \in 1..n
            BY <1>1, <1>3, <2>2, <3>1, <3>2 DEF OrderOK, n
        <3>3. CASE k = n + 1
            BY <1>3, <3>1, <3>3
        <3> QED BY <1>2, <3>2, <3>3
    <2> QED BY <1>3, <2>1, <2>2 DEF OrderOK
<1>6. /\ b.order = r /\ b.slots = a.slots + Size[f] /\ b.bytes = a.bytes + Bytes[{f}]
      /\ b.session = a.session /\ b.next = a.next /\ b.high = a.high
      /\ b.complete = a.complete /\ b.skipped = a.skipped
    BY <1>1 DEF Reserve, Assembler, r
<1>7. Bytes[{f}] \in Nat /\ Size[f] \in Nat /\ Slots[{f}] = Size[f]
    BY ReservationOfOne
<1>8. b \in Assembler
    <2>1. b = [a EXCEPT !.order = r, !.slots = @ + Size[f], !.bytes = @ + Bytes[{f}]]
        BY DEF Reserve, r
    <2>2. a.slots + Size[f] \in Int /\ a.bytes + Bytes[{f}] \in Int
        BY <1>1, <1>7 DEF Assembler
    <2> HIDE DEF b
    <2> QED BY <1>1, <1>3, <2>1, <2>2 DEF Assembler
<1> HIDE DEF b
<1>9. InFlight(b) = InFlight(a) \cup {f}
    BY <1>4, <1>6 DEF InFlight
<1>10. BudgetOK(b)
    <2>1. InFlight(a) \in SUBSET Frames /\ {f} \in SUBSET Frames /\ InFlight(a) \cap {f} = {}
        BY <1>1, InFlightFrames
    <2>2. /\ Slots[InFlight(b)] = Slots[InFlight(a)] + Slots[{f}]
          /\ Bytes[InFlight(b)] = Bytes[InFlight(a)] + Bytes[{f}]
        BY <1>9, <2>1, ReservationAdds
    <2>3. n < MaxFrames /\ n + 1 <= MaxFrames
        BY <1>2, ReceiveAssumption DEF Fits, n
    <2> QED BY <1>1, <1>3, <1>6, <1>7, <2>2, <2>3 DEF BudgetOK, Fits
<1>11. AssemblerOK(b)
    BY <1>5, <1>6, <1>8, <1>10 DEF AssemblerOK, IdleOK
<1> QED BY <1>6, <1>9, <1>11 DEF b

\* A packet that is stored: the frame stays in flight, or it is complete and has given
\* back what it had reserved.
LEMMA StoreKeeps ==
    ASSUME NEW a, AssemblerOK(a), NEW f \in InFlight(a), NEW i \in 0..Size[f], f >= a.next
    PROVE  /\ AssemblerOK(Store(a, f, i))
           /\ Store(a, f, i).session = a.session /\ Store(a, f, i).next = a.next
           /\ Store(a, f, i).high = a.high
           /\ Store(a, f, i).skipped = a.skipped
<1> DEFINE k == CHOOSE k \in DOMAIN a.order : a.order[k].id = f
           got == a.order[k].got \cup {i}
           n == Len(a.order)
<1>1. a \in Assembler /\ OrderOK(a.order) /\ BudgetOK(a) /\ IdleOK(a)
    BY DEF AssemblerOK
<1>2. a.order \in Seq(Flight) /\ n \in Nat /\ DOMAIN a.order = 1..n
    BY <1>1, LenProperties DEF OrderOK
<1>3. k \in 1..n /\ a.order[k].id = f
    <2>1. \E j \in DOMAIN a.order : a.order[j].id = f
        BY DEF InFlight
    <2> QED BY <1>2, <2>1
<1>4. f \in Frames /\ Size[f] \in Nat \ {0} /\ InFlight(a) \in SUBSET Frames
    BY <1>1, InFlightFrames, ReservationOfOne
<1> HIDE DEF k
<1>5. got \subseteq 0..Size[f] /\ got \in SUBSET Nat
    BY <1>1, <1>3, <1>4 DEF OrderOK
<1> HIDE DEF got
<1>6. CASE Whole(f, got)
    <2> DEFINE b == Release(a, {f})
               c == [b EXCEPT !.complete = @ \cup {f}]
    <2>1. {f} \in SUBSET InFlight(a)
        OBVIOUS
    <2>2. /\ AssemblerOK(b) /\ b.session = a.session /\ b.next = a.next /\ b.high = a.high
          /\ b.complete = a.complete /\ b.skipped = a.skipped
        BY <2>1, ReleaseKeeps
    <2>3. Store(a, f, i) = c
        BY <1>6 DEF Store, k, got
    <2> HIDE DEF b
    <2>4. /\ c \in Assembler /\ c.order = b.order /\ c.slots = b.slots /\ c.bytes = b.bytes
          /\ c.session = b.session /\ c.next = b.next /\ c.high = b.high
          /\ c.complete = b.complete \cup {f} /\ c.skipped = b.skipped
        BY <1>4, <2>2 DEF AssemblerOK, Assembler
    <2> HIDE DEF c
    <2>5. InFlight(c) = InFlight(b)
        BY <2>4 DEF InFlight
    <2>6. IdleOK(c)
        <3>1. a.next # None
            BY <1>1 DEF IdleOK, InFlight
        <3> QED BY <2>2, <2>4, <3>1 DEF IdleOK
    <2>7. AssemblerOK(c)
        BY <2>2, <2>4, <2>5, <2>6 DEF AssemblerOK, BudgetOK
    <2> QED BY <2>2, <2>3, <2>4, <2>7
<1>7. CASE ~Whole(f, got)
    <2> DEFINE e == [a.order[k] EXCEPT !.got = got]
               r == [a.order EXCEPT ![k] = e]
               c == [a EXCEPT !.order = r]
    <2>1. Store(a, f, i) = c
        BY <1>7 DEF Store, k, got
    <2>2. a.order[k] \in Flight
        BY <1>2, <1>3, ElementOfSeq
    <2>3. e \in Flight /\ e.id = f /\ e.got = got
        BY <1>3, <1>5, <2>2 DEF Flight
    <2> HIDE DEF e
    <2>4. /\ r \in Seq(Flight) /\ Len(r) = n /\ DOMAIN r = 1..n
          /\ \A j \in 1..n : r[j] = IF j = k THEN e ELSE a.order[j]
        BY <1>2, <1>3, <2>3, ExceptSeq, LenProperties
    <2> HIDE DEF r
    <2>5. \A j \in 1..n : r[j].id = a.order[j].id
        BY <1>3, <2>3, <2>4
    <2>6. OrderOK(r)
        <3>1. ASSUME NEW j \in 1..n
              PROVE  r[j].got \subseteq 0..Size[r[j].id]
            BY <1>1, <1>5, <2>3, <2>4 DEF OrderOK, n
        <3>2. ASSUME NEW j \in 1..n, NEW m \in 1..n, j < m
              PROVE  r[j].id # r[m].id
            BY <1>1, <2>5, <3>2 DEF OrderOK, n
        <3> QED BY <2>4, <3>1, <3>2 DEF OrderOK
    <2>7. /\ c \in Assembler /\ c.order = r /\ c.slots = a.slots /\ c.bytes = a.bytes
          /\ c.session = a.session /\ c.next = a.next /\ c.high = a.high
          /\ c.complete = a.complete /\ c.skipped = a.skipped
        BY <1>1, <2>4 DEF Assembler
    <2> HIDE DEF c
    <2>8. InFlight(c) = InFlight(a)
        BY <1>2, <2>4, <2>5, <2>7 DEF InFlight
    <2>9. IdleOK(c)
        <3>1. a.next # None
            BY <1>1 DEF IdleOK, InFlight
        <3> QED BY <2>7, <3>1 DEF IdleOK
    <2>10. BudgetOK(c)
        BY <1>1, <2>4, <2>7, <2>8 DEF BudgetOK, n
    <2>11. AssemblerOK(c)
        BY <2>6, <2>7, <2>9, <2>10 DEF AssemblerOK
    <2> QED BY <2>1, <2>7, <2>11
<1> QED BY <1>6, <1>7

\* What a step of the reassembler before the release may do: the release order stays
\* where it is, or begins, and what it may pass over newly is reported as lost.
StepFrom(a, s) ==
    /\ AssemblerOK(s.asm)
    /\ s.lost \in SUBSET Frames
    /\ s.asm.session = a.session
    /\ a.next # None => s.asm.next = a.next
    /\ s.asm.skipped \subseteq a.skipped \cup s.lost
    /\ s.lost # {} => s.asm.next # None

\* A packet of the session is stored, comes too late, or costs its frame the budget.
LEMMA AcceptStep ==
    ASSUME NEW a, AssemblerOK(a), NEW f \in Frames, NEW i \in 0..Size[f]
    PROVE  StepFrom(a, Accept(a, f, i)) /\ Accept(a, f, i).asm.next # None
<1> DEFINE seen == [a EXCEPT !.next = IF @ = None THEN f ELSE @,
                             !.high = IF f > @ THEN f ELSE @]
<1>1. a \in Assembler /\ OrderOK(a.order) /\ BudgetOK(a) /\ IdleOK(a)
    BY DEF AssemblerOK
<1>2. f \in Nat /\ LastFrame \in Nat /\ f <= LastFrame
    BY ReceiveAssumption DEF Frames
<1>3. /\ seen.next = (IF a.next = None THEN f ELSE a.next)
      /\ seen.high = (IF f > a.high THEN f ELSE a.high)
      /\ seen.order = a.order /\ seen.slots = a.slots /\ seen.bytes = a.bytes
      /\ seen.session = a.session /\ seen.complete = a.complete
      /\ seen.skipped = a.skipped
    BY <1>1 DEF Assembler
<1>4. seen \in Assembler /\ seen.next # None
    <2>1. a.next \in None..(LastFrame + 1) /\ a.high \in None..LastFrame
        BY <1>1 DEF Assembler
    <2>2. f \in None..(LastFrame + 1) /\ f \in None..LastFrame /\ f # None
        BY <1>2 DEF None
    <2> QED BY <1>1, <2>1, <2>2 DEF Assembler
<1> HIDE DEF seen
<1>5. InFlight(seen) = InFlight(a)
    BY <1>3 DEF InFlight
<1>6. AssemblerOK(seen)
    <2>1. \A c \in seen.complete : c >= seen.next
        BY <1>1, <1>3 DEF AssemblerOK, IdleOK
    <2> QED BY <1>1, <1>3, <1>4, <1>5, <2>1 DEF AssemblerOK, BudgetOK, IdleOK
<1>7. seen.next \in Int /\ f \in Int
    BY <1>2, <1>4 DEF Assembler, None
<1>8. CASE f < seen.next
    <2>1. Accept(a, f, i) = [asm |-> seen, lost |-> {}]
        BY <1>7, <1>8 DEF Accept, seen
    <2> QED BY <1>3, <1>4, <1>6, <2>1 DEF StepFrom
<1>9. CASE f \in InFlight(seen) /\ ~(f < seen.next)
    <2>1. Accept(a, f, i) = [asm |-> Store(seen, f, i), lost |-> {}]
        BY <1>7, <1>9 DEF Accept, seen
    <2>2. f >= seen.next
        BY <1>7, <1>9
    <2>3. /\ AssemblerOK(Store(seen, f, i))
          /\ Store(seen, f, i).session = seen.session /\ Store(seen, f, i).next = seen.next
          /\ Store(seen, f, i).skipped = seen.skipped
        BY <1>6, <1>9, <2>2, StoreKeeps
    <2> QED BY <1>3, <1>4, <2>1, <2>3 DEF StepFrom
<1>10. CASE f \notin InFlight(seen) /\ f >= seen.next /\ Fits(seen, f)
    <2> DEFINE b == Reserve(seen, f)
    <2>1. Accept(a, f, i) = [asm |-> Store(b, f, i), lost |-> {}]
        BY <1>7, <1>10 DEF Accept, seen
    <2>2. /\ AssemblerOK(b) /\ InFlight(b) = InFlight(seen) \cup {f}
          /\ b.session = seen.session /\ b.next = seen.next /\ b.skipped = seen.skipped
        BY <1>4, <1>6, <1>10, ReserveKeeps
    <2> HIDE DEF b
    <2>3. /\ AssemblerOK(Store(b, f, i))
          /\ Store(b, f, i).session = b.session /\ Store(b, f, i).next = b.next
          /\ Store(b, f, i).skipped = b.skipped
        BY <1>10, <2>2, StoreKeeps
    <2> QED BY <1>3, <1>4, <2>1, <2>2, <2>3 DEF StepFrom
<1>11. CASE f \notin InFlight(seen) /\ f >= seen.next /\ ~Fits(seen, f)
    <2> DEFINE c == [seen EXCEPT !.skipped = @ \cup {f}]
    <2>1. Accept(a, f, i) = [asm |-> c, lost |-> {f}]
        BY <1>7, <1>11 DEF Accept, seen
    <2>2. {f} \in SUBSET Frames
        OBVIOUS
    <2>3. AssemblerOK(c)
        BY <1>4, <1>6, <2>2, SkippingKeeps
    <2>4. c.session = seen.session /\ c.next = seen.next /\ c.skipped = seen.skipped \cup {f}
        BY <1>4 DEF Assembler
    <2> HIDE DEF c
    <2> QED BY <1>3, <1>4, <2>1, <2>2, <2>3, <2>4 DEF StepFrom
<1> QED BY <1>7, <1>8, <1>9, <1>10, <1>11

-----------------------------------------------------------------------------
(* The release. *)

\* A set of numbers in an interval that is not empty has a least member.
LEMMA LeastOf ==
    ASSUME NEW lo \in Int, NEW hi \in Int, NEW S \in SUBSET (lo..hi), S # {}
    PROVE  Min(S) \in S /\ \A y \in S : Min(S) <= y
<1> DEFINE Least == \E x \in S : \A y \in S : x <= y
           G == {m \in 0..(hi - lo) : (\E y \in S : y <= lo + m) => Least}
<1>1. hi - lo \in Nat
    <2>1. PICK y \in S : TRUE
        OBVIOUS
    <2>2. y \in Int /\ lo <= y /\ y <= hi
        OBVIOUS
    <2> QED BY <2>2
<1>2. 0 \in G
    BY <1>1
<1>3. ASSUME NEW m \in 1..(hi - lo), m - 1 \in G
      PROVE  m \in G
    <2>1. ASSUME NEW y \in S, y <= lo + m
          PROVE  Least
        <3>1. CASE \E z \in S : z <= lo + (m - 1)
            BY <1>3, <3>1
        <3>2. CASE ~\E z \in S : z <= lo + (m - 1)
            <4>1. \A z \in S : y <= z
                BY <2>1, <3>2
            <4> QED BY <4>1
        <3> QED BY <3>1, <3>2
    <2> HIDE DEF Least
    <2> QED BY <1>1, <2>1
<1>4. \A m \in 0..(hi - lo) : m \in G
    <2> HIDE DEF G
    <2> QED BY <1>1, <1>2, <1>3, K!SegmentInduction
<1>5. Least
    <2>1. hi - lo \in G
        BY <1>1, <1>4
    <2>2. PICK y \in S : TRUE
        OBVIOUS
    <2>3. y <= lo + (hi - lo)
        OBVIOUS
    <2> HIDE DEF Least
    <2> QED BY <2>1, <2>2, <2>3
<1> QED BY <1>5 DEF Min

\* Frames of rising numbers.
Rising(q) == \A j, k \in 1..Len(q) : j < k => q[j] < q[k]

\* The run that is released: what is complete of it in the order of its numbers, and
\* the rest of it had been given up.
LEMMA DrainFacts ==
    ASSUME NEW s, AssemblerOK(s.asm)
    PROVE  LET a == s.asm
               t == Drain(s)
           IN  /\ AssemblerOK(t.asm) /\ t.lost = s.lost
               /\ t.asm.session = a.session /\ t.asm.next >= a.next
               /\ a.next = None => t.asm.next = None
               /\ t.asm.skipped \subseteq a.skipped
               /\ t.out \in Seq(Frames) /\ Rising(t.out)
               /\ \A x \in ToSet(t.out) : a.next <= x /\ x < t.asm.next
               /\ \A m \in a.next..(t.asm.next - 1) : m \in ToSet(t.out) \cup a.skipped
<1> DEFINE a == s.asm
           t == Drain(s)
           open == {m \in a.next..(LastFrame + 1) : m \notin a.complete \cup a.skipped}
           stop == Min(open)
           run == a.next..(stop - 1)
           rest == a.complete \ run
           q == [k \in 1..(stop - a.next) |-> a.next + k - 1]
           out == Keep(q, a.complete)
           blocked == a.high > stop \/ rest # {}
           b == [a EXCEPT !.next = stop, !.complete = rest,
                          !.skipped = @ \ (run \ a.complete), !.blocked = blocked]
<1>1. a \in Assembler /\ OrderOK(a.order) /\ BudgetOK(a) /\ IdleOK(a)
    BY DEF AssemblerOK
<1>2. /\ a.next \in Int /\ None <= a.next /\ a.next <= LastFrame + 1 /\ LastFrame \in Nat
      /\ a.complete \in SUBSET Frames /\ a.skipped \in SUBSET Frames
    BY <1>1, ReceiveAssumption DEF Assembler, None
<1>3. LastFrame + 1 \in open /\ open \in SUBSET (a.next..(LastFrame + 1))
    BY <1>2 DEF Frames
<1>4. stop \in open /\ \A y \in open : stop <= y
    <2>1. a.next \in Int /\ LastFrame + 1 \in Int /\ open # {}
        BY <1>2, <1>3
    <2> HIDE DEF open, a
    <2> QED BY <1>3, <2>1, LeastOf
<1> HIDE DEF stop
<1>5. /\ stop \in Int /\ a.next <= stop /\ stop <= LastFrame + 1
      /\ stop \notin a.complete \cup a.skipped
    BY <1>2, <1>4
<1>6. \A m \in run : m \in a.complete \cup a.skipped
    <2> TAKE m \in run
    <2>1. m \in a.next..(LastFrame + 1) /\ ~(stop <= m)
        BY <1>2, <1>5
    <2>2. m \notin open
        BY <1>4, <2>1
    <2> QED BY <2>1, <2>2
<1>7. t = [asm |-> b, out |-> out, lost |-> s.lost]
    BY DEF Drain, stop, open
<1>8. a.next = None => stop = None
    <2>1. None \notin Frames
        BY DEF None, Frames
    <2>2. a.next = None => None \in open
        BY <1>2, <2>1 DEF None
    <2> QED BY <1>2, <1>4, <1>5, <2>2 DEF None
<1>9. /\ q \in Seq(Int) /\ Len(q) = stop - a.next /\ DOMAIN q = 1..(stop - a.next)
      /\ \A k \in 1..(stop - a.next) : q[k] = a.next + k - 1
    BY <1>2, <1>5
<1>10. ToSet(q) = run
    <2>1. \A k \in 1..(stop - a.next) : q[k] \in run
        BY <1>2, <1>5, <1>9
    <2>2. ASSUME NEW m \in run
          PROVE  m \in ToSet(q)
        <3>1. (m - a.next) + 1 \in 1..(stop - a.next) /\ q[(m - a.next) + 1] = m
            BY <1>2, <1>5, <1>9
        <3> HIDE DEF q
        <3> QED BY <1>9, <3>1 DEF ToSet
    <2> HIDE DEF q, run
    <2> QED BY <1>9, <2>1, <2>2 DEF ToSet
<1>11. /\ out \in Seq(Int) /\ ToSet(out) = run \cap a.complete
       /\ Rising(out)
    <2> DEFINE R == {p \in Int \X Int : p[1] < p[2]}
    <2>1. \A j, k \in 1..Len(q) : j < k => <<q[j], q[k]>> \in R
        BY <1>2, <1>5, <1>9
    <2> HIDE DEF q
    <2>2. /\ out \in Seq(Int) /\ ToSet(out) = ToSet(q) \cap a.complete
          /\ \A j, k \in 1..Len(out) : j < k => <<out[j], out[k]>> \in R
        <3> HIDE DEF R, a
        <3> QED BY <1>9, <2>1, KeepFacts
    <2> HIDE DEF out
    <2> QED BY <1>10, <2>2 DEF Rising
<1> HIDE DEF out, q
<1>12. out \in Seq(Frames)
    <2>1. Len(out) \in Nat /\ DOMAIN out = 1..Len(out) /\ out = [k \in 1..Len(out) |-> out[k]]
        BY <1>11, LenProperties
    <2>2. \A k \in 1..Len(out) : out[k] \in ToSet(out)
        BY <2>1 DEF ToSet
    <2>3. \A k \in 1..Len(out) : out[k] \in Frames
        BY <1>2, <1>11, <2>2
    <2>4. SubSeq(out, 1, Len(out)) = out
        BY <1>11, SubSeqFull
    <2>5. SubSeq(out, 1, Len(out)) \in Seq(Frames)
        BY <2>1, <2>3, SubSeqProperties
    <2> QED BY <2>4, <2>5
<1>13. blocked \in BOOLEAN
    OBVIOUS
<1> HIDE DEF blocked
<1>14. /\ b.next = stop /\ b.complete = rest /\ b.skipped = a.skipped \ (run \ a.complete)
       /\ b.session = a.session /\ b.order = a.order /\ b.slots = a.slots
       /\ b.bytes = a.bytes
    BY <1>1 DEF Assembler
<1>15. b \in Assembler
    <2>1. stop \in None..(LastFrame + 1)
        BY <1>2, <1>5 DEF None
    <2>2. rest \in SUBSET Frames /\ a.skipped \ (run \ a.complete) \in SUBSET Frames
        BY <1>2
    <2> HIDE DEF run, rest, a
    <2> QED BY <1>1, <1>13, <2>1, <2>2 DEF Assembler
<1>16. \A c \in rest : c >= stop
    BY <1>2, <1>5 DEF AssemblerOK, Frames
<1> HIDE DEF b
<1>17. InFlight(b) = InFlight(a)
    BY <1>14 DEF InFlight
<1>18. IdleOK(b)
    <2>1. b.next = None => a.next = None
        BY <1>2, <1>5, <1>14 DEF None
    <2> QED BY <1>1, <1>14, <2>1 DEF IdleOK
<1>19. AssemblerOK(b)
    BY <1>1, <1>14, <1>15, <1>16, <1>17, <1>18 DEF AssemblerOK, BudgetOK
<1>20. \A x \in ToSet(out) : a.next <= x /\ x < stop
    BY <1>2, <1>5, <1>11
<1>21. \A m \in a.next..(stop - 1) : m \in ToSet(out) \cup a.skipped
    BY <1>6, <1>11
<1> HIDE DEF run, rest
<1> QED BY <1>5, <1>7, <1>8, <1>11, <1>12, <1>14, <1>19, <1>20, <1>21

\* The gate that gives way moves on, and what it passes by is lost.
LEMMA SkipFacts ==
    ASSUME NEW s, AssemblerOK(s.asm), s.lost \in SUBSET Frames,
           NEW waited, GivesWay(s.asm, waited)
    PROVE  LET a == s.asm
               u == Skip(s)
           IN  /\ AssemblerOK(u.asm)
               /\ u.lost \in SUBSET Frames /\ s.lost \subseteq u.lost /\ u.lost # {}
               /\ u.asm.session = a.session
               /\ u.asm.next > a.next
               /\ u.asm.skipped \subseteq a.skipped
               /\ \A m \in a.next..(u.asm.next - 1) : m \in u.lost
<1> DEFINE a == s.asm
           u == Skip(s)
           to == IF a.complete = {} THEN a.next + 1 ELSE Min(a.complete)
           fs == {f \in InFlight(a) : f < to}
           g == GiveUp(a, fs).asm
           b == [g EXCEPT !.next = to, !.skipped = {f \in @ : f >= to}]
<1>1. a \in Assembler /\ OrderOK(a.order) /\ BudgetOK(a) /\ IdleOK(a)
    BY DEF AssemblerOK
<1>2. /\ a.next \in Nat /\ a.high \in Int /\ a.high <= LastFrame /\ LastFrame \in Nat
      /\ a.complete \in SUBSET Frames /\ a.next \notin a.complete
      /\ a.high > a.next \/ a.complete # {}
    BY <1>1, ReceiveAssumption DEF Assembler, None, GivesWay
<1>3. to \in Nat /\ a.next < to /\ to <= LastFrame /\ \A c \in a.complete : c >= to
    <2>1. CASE a.complete = {}
        BY <1>2, <2>1
    <2>2. CASE a.complete # {}
        <3>1. a.complete \in SUBSET (0..LastFrame)
            BY <1>2 DEF Frames
        <3>2. Min(a.complete) \in a.complete /\ \A y \in a.complete : Min(a.complete) <= y
            <4>1. 0 \in Int /\ LastFrame \in Int
                BY <1>2
            <4> HIDE DEF a
            <4> QED BY <2>2, <3>1, <4>1, LeastOf
        <3>3. Min(a.complete) \in 0..LastFrame /\ Min(a.complete) >= a.next
            BY <3>1, <3>2 DEF AssemblerOK
        <3>4. to = Min(a.complete) /\ Min(a.complete) # a.next
            BY <1>2, <2>2, <3>2
        <3>5. \A c \in a.complete : c \in 0..LastFrame
            BY <3>1
        <3> HIDE DEF to, a
        <3> QED BY <1>2, <3>2, <3>3, <3>4, <3>5
    <2> QED BY <2>1, <2>2
<1> HIDE DEF to
<1>4. fs \in SUBSET InFlight(a) /\ AssemblerOK(a)
    OBVIOUS
<1>5. /\ AssemblerOK(g) /\ g.session = a.session /\ g.complete = a.complete
      /\ g.skipped = a.skipped \cup fs
    <2> HIDE DEF fs, a
    <2> QED BY <1>4, GiveUpKeeps
<1>6. u = [asm |-> b, lost |-> s.lost \cup a.next..(to - 1)]
    BY DEF Skip, to
<1>7. a.next..(to - 1) \in SUBSET Frames /\ a.next \in a.next..(to - 1)
    BY <1>2, <1>3 DEF Frames
<1>8. g \in Assembler
    BY <1>5 DEF AssemblerOK
<1> HIDE DEF g
<1>9. /\ b.next = to /\ b.skipped = {f \in g.skipped : f >= to}
      /\ b.session = g.session /\ b.order = g.order /\ b.slots = g.slots
      /\ b.bytes = g.bytes /\ b.complete = g.complete
    BY <1>8 DEF Assembler
<1>10. b \in Assembler
    <2>1. to \in None..(LastFrame + 1)
        BY <1>2, <1>3 DEF None
    <2>2. {f \in g.skipped : f >= to} \in SUBSET Frames
        BY <1>8 DEF Assembler
    <2> QED BY <1>8, <2>1, <2>2 DEF Assembler
<1> HIDE DEF b
<1>11. InFlight(b) = InFlight(g)
    BY <1>9 DEF InFlight
<1>12. IdleOK(b)
    BY <1>3, <1>9 DEF IdleOK, None
<1>13. AssemblerOK(b)
    BY <1>3, <1>5, <1>9, <1>10, <1>11, <1>12 DEF AssemblerOK, BudgetOK
<1>14. b.skipped \subseteq a.skipped
    <2>1. \A f \in fs : f < to /\ f \in Nat
        BY <1>1, InFlightFrames DEF Frames
    <2> HIDE DEF fs
    <2> QED BY <1>3, <1>5, <1>9, <2>1
<1> HIDE DEF u
<1>15. u.asm = b /\ u.lost = s.lost \cup a.next..(to - 1)
    BY <1>6
<1> HIDE DEF a, fs
<1>16. /\ u.asm.session = a.session /\ u.asm.next = to
    BY <1>5, <1>9, <1>15
<1>17. u.lost \in SUBSET Frames /\ s.lost \subseteq u.lost /\ u.lost # {}
    BY <1>7, <1>15
<1>18. \A m \in a.next..(to - 1) : m \in u.lost
    BY <1>15
<1> QED BY <1>2, <1>3, <1>13, <1>14, <1>15, <1>16, <1>17, <1>18 DEF a, u

\* What a whole reassembly step does to the release: it goes on in the order of the
\* frames, and every frame it passes is released, had been given up, or is lost by it.
Released(a, t) ==
    /\ AssemblerOK(t.asm) /\ t.lost \in SUBSET Frames
    /\ t.asm.session = a.session /\ t.asm.next >= a.next
    /\ t.lost # {} => t.asm.next # None
    /\ t.asm.skipped \subseteq a.skipped \cup t.lost
    /\ t.out \in Seq(Frames) /\ Rising(t.out)
    /\ \A x \in ToSet(t.out) : a.next <= x /\ x < t.asm.next
    /\ \A m \in Frames :
          /\ m < t.asm.next
          /\ (a.next # None /\ a.next <= m) \/ \E x \in ToSet(t.out) : x <= m
          => m \in ToSet(t.out) \cup a.skipped \cup t.lost

\* Every step of the reassembler ends as a release.
LEMMA TakeReadyFacts ==
    ASSUME NEW a, a.next \in Int, None <= a.next, NEW s, StepFrom(a, s), NEW waited
    PROVE  LET t == TakeReady(s, waited)
           IN  /\ Released(a, t)
               /\ s.asm.next = None => t.asm.next = None
               /\ s.asm.next # None => t.asm.next # None
<1> DEFINE t == TakeReady(s, waited)
           u == IF GivesWay(s.asm, waited) THEN Skip(s) ELSE s
<1>1. /\ AssemblerOK(s.asm) /\ s.asm \in Assembler /\ s.lost \in SUBSET Frames
      /\ s.asm.session = a.session
      /\ a.next # None => s.asm.next = a.next
      /\ s.asm.skipped \subseteq a.skipped \cup s.lost
      /\ s.lost # {} => s.asm.next # None
    BY DEF StepFrom, AssemblerOK
<1>2. s.asm.next \in Int /\ None <= s.asm.next /\ a.next <= s.asm.next
    BY <1>1 DEF Assembler, None
<1>3. /\ AssemblerOK(u.asm) /\ u.lost \in SUBSET Frames /\ s.lost \subseteq u.lost
      /\ u.asm.session = a.session
      /\ u.asm.next \in Int /\ s.asm.next <= u.asm.next
      /\ s.asm.next = None => u.asm.next = None
      /\ u.asm.skipped \subseteq a.skipped \cup u.lost
      /\ u.lost # {} => u.asm.next # None
      /\ \A m \in s.asm.next..(u.asm.next - 1) : m \in u.lost
    <2>1. CASE GivesWay(s.asm, waited)
        <3>1. u = Skip(s)
            BY <2>1
        <3> HIDE DEF u
        <3>2. /\ AssemblerOK(u.asm)
              /\ u.lost \in SUBSET Frames /\ s.lost \subseteq u.lost /\ u.lost # {}
              /\ u.asm.session = s.asm.session
              /\ u.asm.next > s.asm.next
              /\ u.asm.skipped \subseteq s.asm.skipped
              /\ \A m \in s.asm.next..(u.asm.next - 1) : m \in u.lost
            BY <1>1, <2>1, <3>1, SkipFacts
        <3>3. u.asm.next \in Int
            BY <3>2 DEF AssemblerOK, Assembler, None
        <3>4. s.asm.next # None
            BY <2>1 DEF GivesWay
        <3> QED BY <1>1, <1>2, <3>2, <3>3, <3>4 DEF None
    <2>2. CASE ~GivesWay(s.asm, waited)
        <3>1. u = s
            BY <2>2
        <3> HIDE DEF u
        <3> QED BY <1>1, <1>2, <3>1
    <2> QED BY <2>1, <2>2
<1>4. t = Drain(u)
    BY DEF TakeReady
<1> HIDE DEF t, u
<1>5. /\ AssemblerOK(t.asm) /\ t.lost = u.lost
      /\ t.asm.session = u.asm.session /\ t.asm.next >= u.asm.next
      /\ u.asm.next = None => t.asm.next = None
      /\ t.asm.skipped \subseteq u.asm.skipped
      /\ t.out \in Seq(Frames) /\ Rising(t.out)
      /\ \A x \in ToSet(t.out) : u.asm.next <= x /\ x < t.asm.next
      /\ \A m \in u.asm.next..(t.asm.next - 1) : m \in ToSet(t.out) \cup u.asm.skipped
    BY <1>3, <1>4, DrainFacts
<1>6. t.asm.next \in Int
    BY <1>5 DEF AssemblerOK, Assembler, None
<1>7. ToSet(t.out) \subseteq Nat
    <2>1. DOMAIN t.out = 1..Len(t.out) /\ \A k \in 1..Len(t.out) : t.out[k] \in Frames
        BY <1>5, LenProperties, ElementOfSeq
    <2> QED BY <2>1 DEF ToSet, Frames
<1>8. ASSUME NEW m \in Frames, m < t.asm.next,
             (a.next # None /\ a.next <= m) \/ \E x \in ToSet(t.out) : x <= m
      PROVE  m \in ToSet(t.out) \cup a.skipped \cup t.lost
    <2>1. m \in Int
        BY DEF Frames
    <2>2. CASE u.asm.next <= m
        <3>1. m \in u.asm.next..(t.asm.next - 1)
            BY <1>3, <1>6, <1>8, <2>1, <2>2
        <3> QED BY <1>3, <1>5, <3>1
    <2>3. CASE ~(u.asm.next <= m)
        <3>1. ~\E x \in ToSet(t.out) : x <= m
            BY <1>3, <1>5, <1>7, <2>1, <2>3
        <3>2. s.asm.next <= m
            BY <1>1, <1>8, <3>1
        <3>3. m \in s.asm.next..(u.asm.next - 1)
            BY <1>2, <1>3, <2>1, <2>3, <3>2
        <3> QED BY <1>3, <1>5, <3>3
    <2> QED BY <2>2, <2>3
<1>9. \A x \in ToSet(t.out) : a.next <= x /\ x < t.asm.next
    BY <1>2, <1>3, <1>5, <1>7
<1>10. t.asm.next >= a.next /\ (s.asm.next # None => t.asm.next # None)
    BY <1>2, <1>3, <1>5, <1>6 DEF None
<1>11. t.lost # {} => t.asm.next # None
    BY <1>2, <1>3, <1>5, <1>6 DEF None
<1>12. Released(a, t)
    BY <1>3, <1>5, <1>8, <1>9, <1>10, <1>11 DEF Released
<1> QED BY <1>3, <1>5, <1>10, <1>12 DEF t

\* The oldest frames in flight are given up.
LEMMA TimedOutStep ==
    ASSUME AssemblerOK(asm), NEW k \in 0..Len(asm.order)
    PROVE  StepFrom(asm, TimedOut(k)) /\ TimedOut(k).asm.next = asm.next
<1> DEFINE fs == {asm.order[j].id : j \in 1..k}
<1>1. asm.order \in Seq(Flight) /\ DOMAIN asm.order = 1..Len(asm.order)
      /\ Len(asm.order) \in Nat
    BY LenProperties DEF AssemblerOK, OrderOK
<1>2. fs \in SUBSET InFlight(asm)
    BY <1>1 DEF InFlight
<1>3. fs # {} => asm.next # None
    <2>1. InFlight(asm) # {} => asm.order # <<>>
        BY DEF InFlight
    <2>2. fs # {} => InFlight(asm) # {}
        BY <1>2
    <2> HIDE DEF fs
    <2> QED BY <2>1, <2>2 DEF AssemblerOK, IdleOK
<1>4. TimedOut(k) = GiveUp(asm, fs)
    BY DEF TimedOut
<1> HIDE DEF fs
<1> QED BY <1>2, <1>3, <1>4, GiveUpKeeps DEF StepFrom

-----------------------------------------------------------------------------
(* Sequences and what is in them. *)

\* What is in a sequence is at one of its places.
LEMMA InSeq ==
    ASSUME NEW S, NEW q \in Seq(S)
    PROVE  /\ \A x : x \in ToSet(q) <=> \E k \in 1..Len(q) : q[k] = x
           /\ ToSet(q) \subseteq S
<1>1. DOMAIN q = 1..Len(q) /\ \A k \in 1..Len(q) : q[k] \in S
    BY LenProperties, ElementOfSeq
<1> QED BY <1>1 DEF ToSet

\* An element more at the end.
LEMMA InAppend ==
    ASSUME NEW S, NEW q \in Seq(S), NEW x \in S
    PROVE  ToSet(Append(q, x)) = ToSet(q) \cup {x}
<1> DEFINE r == Append(q, x)
<1>1. /\ r \in Seq(S) /\ Len(r) = Len(q) + 1 /\ Len(q) \in Nat
      /\ \A k \in 1..Len(q) : r[k] = q[k]
      /\ r[Len(q) + 1] = x
    BY AppendProperties, LenProperties
<1> HIDE DEF r
<1>2. ASSUME NEW y, y \in ToSet(r)
      PROVE  y \in ToSet(q) \/ y = x
    <2>1. PICK k \in 1..Len(r) : r[k] = y
        BY <1>1, <1>2, InSeq
    <2>2. k \in 1..Len(q) \/ k = Len(q) + 1
        BY <1>1
    <2> QED BY <1>1, <2>1, <2>2, InSeq
<1>3. ASSUME NEW y, y \in ToSet(q)
      PROVE  y \in ToSet(r)
    <2>1. PICK k \in 1..Len(q) : q[k] = y
        BY <1>3, InSeq
    <2>2. k \in 1..Len(r) /\ r[k] = y
        BY <1>1, <2>1
    <2> QED BY <1>1, <2>2, InSeq
<1>4. x \in ToSet(r)
    <2>1. Len(q) + 1 \in 1..Len(r)
        BY <1>1
    <2> QED BY <1>1, <2>1, InSeq
<1>5. ToSet(r) = ToSet(q) \cup {x}
    BY <1>2, <1>3, <1>4
<1> QED BY <1>5 DEF r

\* Two sequences one after the other.
LEMMA InConcat ==
    ASSUME NEW S, NEW q \in Seq(S), NEW r \in Seq(S)
    PROVE  ToSet(q \o r) = ToSet(q) \cup ToSet(r)
<1> DEFINE c == q \o r
<1>1. /\ c \in Seq(S) /\ Len(c) = Len(q) + Len(r) /\ Len(q) \in Nat /\ Len(r) \in Nat
      /\ \A k \in 1..(Len(q) + Len(r)) :
            c[k] = IF k <= Len(q) THEN q[k] ELSE r[k - Len(q)]
    BY ConcatProperties, LenProperties
<1> HIDE DEF c
<1>2. ASSUME NEW y, y \in ToSet(c)
      PROVE  y \in ToSet(q) \/ y \in ToSet(r)
    <2>1. PICK k \in 1..Len(c) : c[k] = y
        BY <1>1, <1>2, InSeq
    <2>2. CASE k <= Len(q)
        <3>1. k \in 1..Len(q) /\ q[k] = y
            BY <1>1, <2>1, <2>2
        <3> QED BY <3>1, InSeq
    <2>3. CASE ~(k <= Len(q))
        <3>1. k - Len(q) \in 1..Len(r) /\ r[k - Len(q)] = y
            BY <1>1, <2>1, <2>3
        <3> QED BY <3>1, InSeq
    <2> QED BY <2>2, <2>3
<1>3. ASSUME NEW y, y \in ToSet(q)
      PROVE  y \in ToSet(c)
    <2>1. PICK k \in 1..Len(q) : q[k] = y
        BY <1>3, InSeq
    <2>2. k \in 1..Len(c) /\ c[k] = y
        BY <1>1, <2>1
    <2> QED BY <1>1, <2>2, InSeq
<1>4. ASSUME NEW y, y \in ToSet(r)
      PROVE  y \in ToSet(c)
    <2>1. PICK k \in 1..Len(r) : r[k] = y
        BY <1>4, InSeq
    <2>2. k + Len(q) \in 1..Len(c) /\ k + Len(q) \in 1..(Len(q) + Len(r))
        BY <1>1
    <2>3. ~(k + Len(q) <= Len(q)) /\ (k + Len(q)) - Len(q) = k
        BY <1>1
    <2>4. c[k + Len(q)] = r[k]
        BY <1>1, <2>2, <2>3
    <2> QED BY <1>1, <2>1, <2>2, <2>4, InSeq
<1>5. ToSet(c) = ToSet(q) \cup ToSet(r)
    BY <1>2, <1>3, <1>4
<1> QED BY <1>5 DEF c

\* Without the first element.
LEMMA InTail ==
    ASSUME NEW S, NEW q \in Seq(S), q # <<>>
    PROVE  /\ ToSet(Tail(q)) \subseteq ToSet(q)
           /\ Head(q) \in ToSet(q) /\ Head(q) = q[1]
<1>1. /\ Tail(q) \in Seq(S) /\ Len(Tail(q)) = Len(q) - 1
      /\ \A k \in 1..Len(Tail(q)) : Tail(q)[k] = q[k + 1]
      /\ Len(q) \in Nat \ {0}
    BY HeadTailProperties, EmptySeq
<1>2. Head(q) = q[1] /\ 1 \in 1..Len(q)
    BY <1>1
<1>3. ASSUME NEW y \in ToSet(Tail(q))
      PROVE  y \in ToSet(q)
    <2>1. PICK k \in 1..Len(Tail(q)) : Tail(q)[k] = y
        BY <1>1, InSeq
    <2>2. k + 1 \in 1..Len(q) /\ q[k + 1] = y
        BY <1>1, <2>1
    <2> QED BY <2>2, InSeq
<1>4. Head(q) \in ToSet(q)
    BY <1>2, InSeq
<1> QED BY <1>2, <1>3, <1>4

-----------------------------------------------------------------------------
(* The decode queue. *)

\* A closed gate waits for an IDR frame, and the queue waits with it.
QueueOK(q) ==
    /\ q \in [items : Seq(Items), waiting : BOOLEAN, gate : BOOLEAN]
    /\ q.gate => q.waiting

\* One step of Enqueue, and what folds it.
EnqueueStep(none, q, x) == EnqueueFrame(q, x)
E == INSTANCE FoldLemmas WITH Op <- EnqueueStep

\* The frames enter the queue one after the other.
LEMMA EnqueueSteps ==
    ASSUME NEW q, NEW t \in Seq(Frame)
    PROVE  \E g : /\ Enqueue(q, t) = g[Len(t)]
                  /\ g[0] = q
                  /\ \A m \in 1..Len(t) : g[m] = EnqueueFrame(g[m - 1], t[m])
<1> DEFINE IsEnqueue(f) ==
               f = [s \in SUBSET DOMAIN t |->
                      IF s = {} THEN q
                      ELSE LET x == Max(s) IN EnqueueFrame(f[s \ {x}], t[x])]
           h == CHOOSE f : IsEnqueue(f)
           n == Len(t)
<1>1. Enqueue(q, t) = h[DOMAIN t]
    BY DEF Enqueue, FoldLeft, MapThenFoldSet
<1>2. n \in Nat /\ DOMAIN t = 1..n
    BY LenProperties
<1>3. ASSUME NEW f
      PROVE  E!IsFold(f, 0, q, t, n) <=> IsEnqueue(f)
    BY <1>2 DEF E!IsFold, E!Top, Max, EnqueueStep
<1>4. \E f : IsEnqueue(f)
    BY <1>2, <1>3, E!FoldExists
<1>5. IsEnqueue(h)
    BY <1>4
<1> HIDE DEF IsEnqueue, h, n
<1>6. E!IsFold(h, 0, q, t, n)
    BY <1>3, <1>5
<1>7. \E g : E!IsRun(g, h, 0, q, t, n)
    BY <1>2, <1>6, E!FoldRuns
<1> QED BY <1>1, <1>2, <1>7 DEF n, EnqueueStep, E!IsRun

\* One frame: it is held back by a queue that waits, or it empties a full queue, which
\* then waits, or it is the last one in the queue.
LEMMA EnqueueFrameFacts ==
    ASSUME NEW q, QueueOK(q), NEW x \in Frame
    PROVE  LET r == EnqueueFrame(q, x)
           IN  /\ QueueOK(r)
               /\ \/ r = q /\ q.waiting
                  \/ r.items = <<Reset>> /\ r.waiting
                  \/ /\ ~r.waiting
                     /\ \/ r.items = Append(q.items, x) /\ (q.waiting => x.id \in Idr)
                        \/ r.items = Append(<<Reset>>, x) /\ x.id \in Idr
<1> DEFINE idr == x.id \in Idr
           full == (q.gate \/ ~q.waiting) /\ QueueFrames(q) >= MaxDecodeQueue
           room == IF full THEN Restart(q) ELSE q
           c == [room EXCEPT !.items = Append(@, x), !.waiting = FALSE, !.gate = FALSE]
<1>1. /\ q \in [items : Seq(Items), waiting : BOOLEAN, gate : BOOLEAN]
      /\ q.gate => q.waiting
    BY DEF QueueOK
<1>2. /\ Restart(q).items = <<Reset>> /\ Restart(q).waiting
      /\ Restart(q).gate = q.gate
      /\ Restart(q) \in [items : Seq(Items), waiting : BOOLEAN, gate : BOOLEAN]
    <2>1. <<Reset>> \in Seq(Items)
        BY DEF Items
    <2>2. Restart(q) = [q EXCEPT !.items = <<Reset>>, !.waiting = TRUE]
        BY DEF Restart
    <2> QED BY <1>1, <2>1, <2>2
<1>3. x \in Items
    BY DEF Items
<1>4. EnqueueFrame(q, x) = IF ~PassesGate(q, x) \/ (q.waiting /\ ~idr) THEN q
                           ELSE IF ~idr /\ full THEN room
                           ELSE c
    BY DEF EnqueueFrame
<1> HIDE DEF full
<1>5. CASE ~PassesGate(q, x) \/ (q.waiting /\ ~idr)
    <2>1. EnqueueFrame(q, x) = q
        BY <1>4, <1>5
    <2>2. q.waiting
        BY <1>1, <1>5 DEF PassesGate
    <2> QED BY <2>1, <2>2
<1>6. CASE ~(~PassesGate(q, x) \/ (q.waiting /\ ~idr)) /\ ~idr /\ full
    <2>1. EnqueueFrame(q, x) = Restart(q)
        BY <1>4, <1>6
    <2> QED BY <1>2, <2>1 DEF QueueOK
<1>7. CASE ~(~PassesGate(q, x) \/ (q.waiting /\ ~idr)) /\ ~(~idr /\ full)
    <2>1. EnqueueFrame(q, x) = c
        BY <1>4, <1>7
    <2>2. room \in [items : Seq(Items), waiting : BOOLEAN, gate : BOOLEAN]
        BY <1>1, <1>2
    <2>3. /\ c.items = Append(room.items, x) /\ ~c.waiting /\ ~c.gate
          /\ c \in [items : Seq(Items), waiting : BOOLEAN, gate : BOOLEAN]
        <3>1. Append(room.items, x) \in Seq(Items)
            BY <1>3, <2>2, AppendProperties
        <3> HIDE DEF room
        <3> QED BY <2>2, <3>1
    <2>4. q.waiting => idr
        BY <1>7
    <2>5. CASE full
        <3>1. room.items = <<Reset>> /\ idr
            BY <1>2, <1>7, <2>5
        <3> HIDE DEF c, room
        <3> QED BY <2>1, <2>3, <3>1 DEF QueueOK
    <2>6. CASE ~full
        <3>1. room.items = q.items
            BY <2>6
        <3> HIDE DEF c, room
        <3> QED BY <2>1, <2>3, <2>4, <3>1 DEF QueueOK
    <2> QED BY <2>5, <2>6
<1> QED BY <1>5, <1>6, <1>7

-----------------------------------------------------------------------------
(* The order of the frames. *)

\* Every frame of the one set comes before every frame of the other.
Precedes(A, B) == \A x \in A, y \in B : x # Reset /\ y # Reset => Before(x, y)

\* The frames of a sequence are in the order they were sent in, whatever resets are
\* between them.
Ascending(q) ==
    \A j, k \in 1..Len(q) : j < k /\ q[j] # Reset /\ q[k] # Reset => Before(q[j], q[k])

\* Where the release stands: the next frame of the session.
Cursor(a) == [session |-> a.session, id |-> a.next]

\* From the decoder to the reassembler the frames are in the order they were sent in:
\* the frame fed last, the batch, the queue, the playout buffer, what is not released.
InOrder(f, b, i, p, c) ==
    /\ Ascending(b) /\ Ascending(i) /\ Ascending(p)
    /\ Precedes({f}, ToSet(b))
    /\ Precedes({f} \cup ToSet(b), ToSet(i))
    /\ Precedes({f} \cup ToSet(b) \cup ToSet(i), ToSet(p))
    /\ Precedes({f} \cup ToSet(b) \cup ToSet(i) \cup ToSet(p), {c})

\* A frame and where it could stand.
Places == [session : 0..Sessions, id : Int]

\* The frames of a sequence that are put at its end.
LEMMA AscendingAppend ==
    ASSUME NEW q \in Seq(Items), Ascending(q), NEW x \in Items, Precedes(ToSet(q), {x})
    PROVE  Ascending(Append(q, x))
<1> DEFINE r == Append(q, x)
<1>1. /\ r \in Seq(Items) /\ Len(r) = Len(q) + 1 /\ Len(q) \in Nat
      /\ \A k \in 1..Len(q) : r[k] = q[k]
      /\ r[Len(q) + 1] = x
    BY AppendProperties, LenProperties
<1> HIDE DEF r
<1>2. ASSUME NEW j \in 1..Len(r), NEW k \in 1..Len(r), j < k, r[j] # Reset, r[k] # Reset
      PROVE  Before(r[j], r[k])
    <2>1. j \in 1..Len(q) /\ r[j] = q[j] /\ q[j] \in ToSet(q)
        BY <1>1, <1>2, InSeq
    <2>2. CASE k \in 1..Len(q)
        BY <1>1, <1>2, <2>1, <2>2 DEF Ascending
    <2>3. CASE k = Len(q) + 1
        BY <1>1, <1>2, <2>1, <2>3 DEF Precedes
    <2> QED BY <1>1, <2>2, <2>3
<1>3. Ascending(r)
    BY <1>2 DEF Ascending
<1> QED BY <1>3 DEF r

\* A sequence behind another one.
LEMMA AscendingConcat ==
    ASSUME NEW q \in Seq(Items), Ascending(q), NEW r \in Seq(Items), Ascending(r),
           Precedes(ToSet(q), ToSet(r))
    PROVE  Ascending(q \o r)
<1> DEFINE c == q \o r
<1>1. /\ c \in Seq(Items) /\ Len(c) = Len(q) + Len(r) /\ Len(q) \in Nat /\ Len(r) \in Nat
      /\ \A k \in 1..(Len(q) + Len(r)) :
            c[k] = IF k <= Len(q) THEN q[k] ELSE r[k - Len(q)]
    BY ConcatProperties, LenProperties
<1> HIDE DEF c
<1>2. ASSUME NEW j \in 1..Len(c), NEW k \in 1..Len(c), j < k, c[j] # Reset, c[k] # Reset
      PROVE  Before(c[j], c[k])
    <2>1. CASE k <= Len(q)
        <3>1. j \in 1..Len(q) /\ k \in 1..Len(q) /\ c[j] = q[j] /\ c[k] = q[k]
            BY <1>1, <1>2, <2>1
        <3> QED BY <1>2, <3>1 DEF Ascending
    <2>2. CASE j <= Len(q) /\ ~(k <= Len(q))
        <3>1. j \in 1..Len(q) /\ k - Len(q) \in 1..Len(r) /\ c[j] = q[j] /\ c[k] = r[k - Len(q)]
            BY <1>1, <2>2
        <3>2. c[j] \in ToSet(q) /\ c[k] \in ToSet(r)
            BY <3>1, InSeq
        <3> QED BY <1>2, <3>2 DEF Precedes
    <2>3. CASE ~(j <= Len(q))
        <3>1. /\ j - Len(q) \in 1..Len(r) /\ k - Len(q) \in 1..Len(r)
              /\ c[j] = r[j - Len(q)] /\ c[k] = r[k - Len(q)]
              /\ j - Len(q) < k - Len(q)
            BY <1>1, <1>2, <2>3
        <3> QED BY <1>2, <3>1 DEF Ascending
    <2> QED BY <2>1, <2>2, <2>3
<1>3. Ascending(c)
    BY <1>2 DEF Ascending
<1> QED BY <1>3 DEF c

\* Without its head a sequence stays in order, and behind its head.
LEMMA AscendingTail ==
    ASSUME NEW q \in Seq(Items), q # <<>>, Ascending(q)
    PROVE  Ascending(Tail(q)) /\ Precedes({Head(q)}, ToSet(Tail(q)))
<1> DEFINE r == Tail(q)
<1>1. /\ r \in Seq(Items) /\ Len(r) = Len(q) - 1 /\ Len(q) \in Nat \ {0}
      /\ \A k \in 1..Len(r) : r[k] = q[k + 1]
      /\ Head(q) = q[1]
    BY HeadTailProperties, EmptySeq, InTail
<1> HIDE DEF r
<1>2. Ascending(r)
    BY <1>1 DEF Ascending
<1>3. Precedes({Head(q)}, ToSet(r))
    <2>1. ASSUME NEW y \in ToSet(r), Head(q) # Reset, y # Reset
          PROVE  Before(Head(q), y)
        <3>1. PICK k \in 1..Len(r) : r[k] = y
            BY <1>1, InSeq
        <3>2. k + 1 \in 1..Len(q) /\ 1 \in 1..Len(q) /\ 1 < k + 1 /\ q[k + 1] = y
            BY <1>1, <3>1
        <3> QED BY <1>1, <2>1, <3>2 DEF Ascending
    <2> QED BY <2>1 DEF Precedes
<1> QED BY <1>2, <1>3 DEF r

\* A frame belongs to a session and is not the reset.
LEMMA FrameIsNotReset ==
    ASSUME NEW x \in Frame
    PROVE  /\ x # Reset /\ x.session \in 1..Sessions /\ x.id \in Frames
           /\ x.session \in Int /\ x.id \in Int /\ x.id >= 0
           /\ x = [session |-> x.session, id |-> x.id]
BY ReceiveAssumption DEF Frame, Reset, Frames

\* A whole run of frames enters the queue: it keeps its order, and holds no frame that
\* was neither in it nor in the run.
LEMMA EnqueueInOrder ==
    ASSUME NEW q, QueueOK(q), Ascending(q.items),
           NEW t \in Seq(Frame), Ascending(t), Precedes(ToSet(q.items), ToSet(t))
    PROVE  LET r == Enqueue(q, t)
           IN  /\ QueueOK(r) /\ Ascending(r.items)
               /\ ToSet(r.items) \subseteq ToSet(q.items) \cup {Reset} \cup ToSet(t)
<1>1. PICK g : /\ Enqueue(q, t) = g[Len(t)]
               /\ g[0] = q
               /\ \A m \in 1..Len(t) : g[m] = EnqueueFrame(g[m - 1], t[m])
    BY EnqueueSteps
<1> DEFINE n == Len(t)
           Good(m) ==
               /\ QueueOK(g[m]) /\ Ascending(g[m].items)
               /\ \A x \in ToSet(g[m].items) :
                     \/ x \in ToSet(q.items) \cup {Reset}
                     \/ \E k \in 1..m : x = t[k]
           G == {m \in 0..n : Good(m)}
<1>2. n \in Nat /\ \A k \in 1..n : t[k] \in Frame
    BY LenProperties, ElementOfSeq
<1>3. 0 \in G
    BY <1>1, <1>2
<1>4. ASSUME NEW m \in 1..n, m - 1 \in G
      PROVE  m \in G
    <2> DEFINE old == g[m - 1]
               new == g[m]
               x == t[m]
    <2>1. /\ QueueOK(old) /\ Ascending(old.items)
          /\ \A y \in ToSet(old.items) :
                \/ y \in ToSet(q.items) \cup {Reset}
                \/ \E k \in 1..(m - 1) : y = t[k]
        BY <1>4
    <2>2. x \in Frame /\ x \in Items
        BY <1>2 DEF Items
    <2>3. new = EnqueueFrame(old, x)
        BY <1>1
    <2> HIDE DEF old, new, x
    <2>4. /\ QueueOK(new)
          /\ \/ new = old
             \/ new.items = <<Reset>>
             \/ new.items = Append(old.items, x)
             \/ new.items = Append(<<Reset>>, x)
        BY <2>1, <2>2, <2>3, EnqueueFrameFacts
    <2>5. old.items \in Seq(Items) /\ <<Reset>> \in Seq(Items) /\ ToSet(<<Reset>>) = {Reset}
        BY <2>1 DEF QueueOK, Items, ToSet
    <2>6. Precedes(ToSet(old.items), {x})
        <3>1. ASSUME NEW y \in ToSet(old.items), y # Reset
              PROVE  Before(y, x)
            <4>1. CASE y \in ToSet(q.items)
                <5>1. x \in ToSet(t) /\ x # Reset
                    BY <1>2, <2>2, FrameIsNotReset, InSeq DEF x
                <5> QED BY <3>1, <4>1, <5>1 DEF Precedes
            <4>2. CASE \E k \in 1..(m - 1) : y = t[k]
                <5>1. PICK k \in 1..(m - 1) : y = t[k]
                    BY <4>2
                <5>2. k \in 1..n /\ m \in 1..n /\ k < m
                    BY <1>2
                <5>3. t[m] # Reset
                    BY <2>2, FrameIsNotReset DEF x
                <5> QED BY <3>1, <5>1, <5>2, <5>3 DEF Ascending, x
            <4> QED BY <2>1, <3>1, <4>1, <4>2
        <3> QED BY <3>1 DEF Precedes
    <2>7. /\ Ascending(<<Reset>>)
          /\ Precedes({Reset}, {x})
        BY DEF Ascending, Precedes
    <2>8. /\ Ascending(new.items)
          /\ ToSet(new.items) \subseteq ToSet(old.items) \cup {Reset, x}
        <3>1. CASE new = old
            BY <2>1, <3>1
        <3>2. CASE new.items = <<Reset>>
            BY <2>5, <2>7, <3>2
        <3>3. CASE new.items = Append(old.items, x)
            BY <2>1, <2>2, <2>5, <2>6, <3>3, AscendingAppend, InAppend
        <3>4. CASE new.items = Append(<<Reset>>, x)
            <4>1. Precedes(ToSet(<<Reset>>), {x})
                BY <2>5, <2>7
            <4> DEFINE one == <<Reset>>
            <4>2. one \in Seq(Items) /\ ToSet(one) = {Reset} /\ Ascending(one)
                BY <2>5, <2>7
            <4>3. new.items = Append(one, x) /\ Precedes(ToSet(one), {x})
                BY <3>4, <4>1
            <4> HIDE DEF one
            <4>4. Ascending(Append(one, x))
                BY <2>2, <4>2, <4>3, AscendingAppend
            <4>5. ToSet(Append(one, x)) = ToSet(one) \cup {x}
                BY <2>2, <4>2, InAppend
            <4> QED BY <4>2, <4>3, <4>4, <4>5
        <3> QED BY <2>4, <3>1, <3>2, <3>3, <3>4
    <2>9. ASSUME NEW y \in ToSet(new.items)
          PROVE  y \in ToSet(q.items) \cup {Reset} \/ \E k \in 1..m : y = t[k]
        <3>1. CASE y = x
            <4>1. m \in 1..m /\ y = t[m]
                BY <3>1 DEF x
            <4> QED BY <4>1
        <3>2. CASE y \in ToSet(old.items)
            <4>1. CASE \E k \in 1..(m - 1) : y = t[k]
                <5>1. \A k \in 1..(m - 1) : k \in 1..m
                    OBVIOUS
                <5> QED BY <4>1, <5>1
            <4> QED BY <2>1, <3>2, <4>1
        <3> QED BY <2>8, <3>1, <3>2
    <2>10. Good(m)
        BY <2>4, <2>8, <2>9 DEF new
    <2> HIDE DEF Good
    <2> QED BY <1>2, <2>10
<1>5. Good(n)
    <2>1. \A m \in 0..n : m \in G
        <3> HIDE DEF G, n
        <3> QED BY <1>2, <1>3, <1>4, K!SegmentInduction
    <2>2. n \in 0..n
        BY <1>2
    <2>3. n \in G
        BY <2>1, <2>2
    <2> HIDE DEF Good
    <2> QED BY <2>3
<1>6. \A k \in 1..n : t[k] \in ToSet(t)
    BY InSeq
<1>7. \A x \in ToSet(g[n].items) : x \in ToSet(q.items) \cup {Reset} \cup ToSet(t)
    BY <1>5, <1>6
<1>8. QueueOK(g[n]) /\ Ascending(g[n].items)
    BY <1>5
<1> HIDE DEF Good, G
<1> QED BY <1>1, <1>7, <1>8

\* The cursor only moves on: what came before it still does.
LEMMA CursorMoves ==
    ASSUME NEW A \in SUBSET Items, NEW c \in Places, NEW d \in Places,
           c.session < d.session \/ (c.session = d.session /\ c.id <= d.id),
           Precedes(A, {c}), c # Reset \/ A \subseteq {Reset}
    PROVE  Precedes(A, {d})
<1>1. ASSUME NEW x \in A, x # Reset, d # Reset
      PROVE  Before(x, d)
    <2>1. Before(x, c)
        BY <1>1 DEF Precedes
    <2>2. x.session \in Int /\ x.id \in Int
        BY <1>1, FrameIsNotReset DEF Items
    <2>3. c.session \in Int /\ c.id \in Int /\ d.session \in Int /\ d.id \in Int
        BY DEF Places
    <2> QED BY <2>1, <2>2, <2>3 DEF Before
<1> QED BY <1>1 DEF Precedes

-----------------------------------------------------------------------------
(* The continuity of decoding. *)

\* Stands for a decoder that is not there: whatever follows it is no break.
Loose == [session |-> 0, id |-> None - 1]

\* What may stand somewhere between the decoder and the playout buffer.
Stage == Items \cup {Loose}

\* A frame or the cursor directly after something, but for the losses in e.
Predecessor(x) == [session |-> x.session, id |-> x.id - 1]
Joined(e, y, x) == y \in {Loose, Predecessor(x)} \/ Predecessor(x) \in e

\* What the decoder may be given after y: a reset, an IDR frame, or the next frame.
Linked(e, y, x) == x = Reset \/ x.id \in Idr \/ Joined(e, y, x)

\* Every element of a sequence is linked to the one before it.
Links(e, q) == \A k \in 1..(Len(q) - 1) : Linked(e, q[k], q[k + 1])

\* What the decoder has been given and the batch still holds for it.
Behind(d, f, b) == <<IF d THEN f ELSE Loose>> \o b

\* From the decoder on every frame continues the one before it; but a queue that waits
\* for an IDR frame breaks with what is behind it.
Continuous(e, d, f, b, q, p, c) ==
    LET chain == Behind(d, f, b) \o q.items
    IN  /\ Links(e, chain)
        /\ Links(e, p)
        /\ p # <<>> => Joined(e, p[Len(p)], c)
        /\ ~q.waiting => IF p = <<>> THEN Joined(e, chain[Len(chain)], c)
                         ELSE Linked(e, chain[Len(chain)], p[1])

\* With more losses known nothing becomes a break.
LEMMA LinksMore ==
    ASSUME NEW e, NEW h, e \subseteq h
    PROVE  /\ \A y, x : Joined(e, y, x) => Joined(h, y, x)
           /\ \A y, x : Linked(e, y, x) => Linked(h, y, x)
           /\ \A q : Links(e, q) => Links(h, q)
<1>1. \A y, x : Joined(e, y, x) => Joined(h, y, x)
    BY DEF Joined
<1>2. \A y, x : Linked(e, y, x) => Linked(h, y, x)
    BY <1>1 DEF Linked
<1> QED BY <1>1, <1>2 DEF Links

\* An element that is linked to the last one.
LEMMA LinksAppend ==
    ASSUME NEW e, NEW q \in Seq(Stage), Links(e, q), NEW x \in Stage,
           q # <<>> => Linked(e, q[Len(q)], x)
    PROVE  Links(e, Append(q, x))
<1> DEFINE r == Append(q, x)
           n == Len(q)
<1>1. /\ n \in Nat /\ Len(r) = n + 1
      /\ \A k \in 1..n : r[k] = q[k]
      /\ r[n + 1] = x
      /\ q # <<>> => n # 0
    BY AppendProperties, LenProperties, EmptySeq
<1>2. n # 0 => Linked(e, q[n], x)
    BY <1>1
<1>3. \A k \in 1..(n - 1) : Linked(e, q[k], q[k + 1])
    BY DEF Links
<1> HIDE DEF r, n
<1>4. ASSUME NEW k \in 1..(Len(r) - 1)
      PROVE  Linked(e, r[k], r[k + 1])
    <2>1. CASE k = n
        BY <1>1, <1>2, <2>1
    <2>2. CASE k # n
        <3>1. k \in 1..(n - 1) /\ k \in 1..n /\ k + 1 \in 1..n
            BY <1>1, <2>2
        <3> QED BY <1>1, <1>3, <3>1
    <2> QED BY <2>1, <2>2
<1>5. Links(e, r)
    BY <1>4 DEF Links
<1> QED BY <1>5 DEF r

\* A linked sequence behind another one.
LEMMA LinksConcat ==
    ASSUME NEW e, NEW q \in Seq(Stage), NEW r \in Seq(Stage), Links(e, q), Links(e, r),
           q # <<>> /\ r # <<>> => Linked(e, q[Len(q)], r[1])
    PROVE  Links(e, q \o r)
<1> DEFINE c == q \o r
           m == Len(q)
           n == Len(r)
<1>1. /\ m \in Nat /\ n \in Nat /\ Len(c) = m + n
      /\ \A k \in 1..(m + n) : c[k] = IF k <= m THEN q[k] ELSE r[k - m]
      /\ q # <<>> <=> m # 0
      /\ r # <<>> <=> n # 0
    BY ConcatProperties, LenProperties, EmptySeq
<1>2. m # 0 /\ n # 0 => Linked(e, q[m], r[1])
    BY <1>1
<1>3. /\ \A k \in 1..(m - 1) : Linked(e, q[k], q[k + 1])
      /\ \A k \in 1..(n - 1) : Linked(e, r[k], r[k + 1])
    BY DEF Links
<1> HIDE DEF c, m, n
<1>4. ASSUME NEW k \in 1..(Len(c) - 1)
      PROVE  Linked(e, c[k], c[k + 1])
    <2>1. CASE k < m
        <3>1. k \in 1..(m - 1) /\ c[k] = q[k] /\ c[k + 1] = q[k + 1]
            BY <1>1, <2>1
        <3> QED BY <1>3, <3>1
    <2>2. CASE k = m
        <3>1. m # 0 /\ n # 0 /\ c[k] = q[m] /\ c[k + 1] = r[(k + 1) - m] /\ (k + 1) - m = 1
            BY <1>1, <2>2
        <3> QED BY <1>2, <3>1
    <2>3. CASE k > m
        <3>1. /\ k - m \in 1..(n - 1) /\ c[k] = r[k - m] /\ c[k + 1] = r[(k + 1) - m]
              /\ (k + 1) - m = (k - m) + 1
            BY <1>1, <2>3
        <3> QED BY <1>3, <3>1
    <2> QED BY <1>1, <2>1, <2>2, <2>3
<1>5. Links(e, c)
    BY <1>4 DEF Links
<1> QED BY <1>5 DEF c

\* What is linked stays so without its end.
LEMMA LinksPrefix ==
    ASSUME NEW e, NEW q \in Seq(Stage), NEW r \in Seq(Stage), Links(e, q \o r)
    PROVE  Links(e, q)
<1> DEFINE c == q \o r
           m == Len(q)
           n == Len(r)
<1>1. /\ m \in Nat /\ n \in Nat /\ Len(c) = m + n
      /\ \A k \in 1..(m + n) : c[k] = IF k <= m THEN q[k] ELSE r[k - m]
    BY ConcatProperties, LenProperties
<1>2. \A k \in 1..(Len(c) - 1) : Linked(e, c[k], c[k + 1])
    BY DEF Links
<1> HIDE DEF c
<1>3. ASSUME NEW k \in 1..(m - 1)
      PROVE  Linked(e, q[k], q[k + 1])
    <2>1. k \in 1..(Len(c) - 1) /\ c[k] = q[k] /\ c[k + 1] = q[k + 1]
        BY <1>1
    <2> QED BY <1>2, <2>1
<1> QED BY <1>3 DEF Links

\* A part of a linked sequence.
LEMMA LinksSubSeq ==
    ASSUME NEW e, NEW q \in Seq(Stage), Links(e, q),
           NEW m \in 1..(Len(q) + 1), NEW n \in 0..Len(q)
    PROVE  Links(e, SubSeq(q, m, n))
<1> DEFINE r == SubSeq(q, m, n)
<1>1. Len(q) \in Nat
    BY LenProperties
<1>2. /\ Len(r) = IF m <= n THEN n - m + 1 ELSE 0
      /\ \A k \in 1..(n - m + 1) : r[k] = q[m + k - 1]
    <2>1. m \in Int /\ n \in Int /\ \A k \in m..n : q[k] \in Stage
        BY <1>1, ElementOfSeq
    <2> HIDE DEF r
    <2> QED BY <2>1, SubSeqProperties DEF r
<1> HIDE DEF r
<1>3. ASSUME NEW k \in 1..(Len(r) - 1)
      PROVE  Linked(e, r[k], r[k + 1])
    <2>1. m <= n /\ k \in 1..(n - m + 1) /\ k + 1 \in 1..(n - m + 1)
        BY <1>1, <1>2
    <2>2. /\ r[k] = q[m + k - 1] /\ r[k + 1] = q[m + (k + 1) - 1]
          /\ m + (k + 1) - 1 = (m + k - 1) + 1
          /\ m + k - 1 \in 1..(Len(q) - 1)
        BY <1>1, <1>2, <2>1
    <2> QED BY <2>2 DEF Links
<1>4. Links(e, r)
    BY <1>3 DEF Links
<1> QED BY <1>4 DEF r

\* One frame enters a queue that is linked to what is before it.
LEMMA EnqueueFrameLinks ==
    ASSUME NEW e, NEW b \in Seq(Stage), b # <<>>, NEW q, QueueOK(q), NEW x \in Frame,
           Links(e, b \o q.items),
           ~q.waiting => Linked(e, (b \o q.items)[Len(b \o q.items)], x)
    PROVE  LET r == EnqueueFrame(q, x)
               c == b \o r.items
           IN  /\ Links(e, c)
               /\ ~r.waiting => c[Len(c)] = x
<1> DEFINE r == EnqueueFrame(q, x)
           i == q.items
           one == <<Reset>>
<1>1. /\ QueueOK(r)
      /\ \/ r = q /\ q.waiting
         \/ r.items = one /\ r.waiting
         \/ /\ ~r.waiting
            /\ \/ r.items = Append(i, x) /\ (q.waiting => x.id \in Idr)
               \/ r.items = Append(one, x) /\ x.id \in Idr
    BY EnqueueFrameFacts
<1>2. /\ i \in Seq(Stage) /\ one \in Seq(Stage) /\ x \in Stage /\ Reset \in Stage
      /\ one = <<Reset>>
    <2>1. i \in Seq(Items)
        BY DEF QueueOK
    <2> HIDE DEF i
    <2> QED BY <2>1 DEF Stage, Items
<1> HIDE DEF one, i, r
<1>3. /\ b \o i \in Seq(Stage) /\ b \o i # <<>>
      /\ b \o one = Append(b, Reset) /\ Append(b, Reset) \in Seq(Stage)
      /\ Append(b, Reset) # <<>>
      /\ b \o Append(i, x) = Append(b \o i, x)
      /\ b \o Append(one, x) = Append(b \o one, x)
    <2>1. b \o i \in Seq(Stage) /\ b \o i # <<>>
        BY <1>2, ConcatProperties, ConcatEqualIffEmpty
    <2>2. b \o one = Append(b, Reset) /\ Append(b, Reset) \in Seq(Stage)
          /\ Append(b, Reset) # <<>>
        BY <1>2, AppendIsConcat, AppendProperties
    <2>3. b \o one \in Seq(Stage)
        BY <2>2
    <2>4. <<x>> \in Seq(Stage)
        BY <1>2
    <2>5. /\ Append(i, x) = i \o <<x>> /\ Append(one, x) = one \o <<x>>
          /\ Append(b \o i, x) = (b \o i) \o <<x>>
          /\ Append(b \o one, x) = (b \o one) \o <<x>>
        BY <1>2, <2>1, <2>3, AppendIsConcat
    <2>6. /\ (b \o i) \o <<x>> = b \o (i \o <<x>>)
          /\ (b \o one) \o <<x>> = b \o (one \o <<x>>)
        BY <1>2, <2>4, ConcatAssociative
    <2> QED BY <2>1, <2>2, <2>5, <2>6
<1>4. Links(e, b)
    BY <1>2, LinksPrefix DEF i
<1>5. Links(e, Append(b, Reset))
    <2>1. Linked(e, b[Len(b)], Reset)
        BY DEF Linked
    <2> QED BY <1>2, <1>4, <2>1, LinksAppend
<1>6. CASE r = q /\ q.waiting
    BY <1>6 DEF r
<1>7. CASE r.items = one /\ r.waiting
    BY <1>3, <1>5, <1>7 DEF r
<1>8. CASE ~r.waiting /\ r.items = Append(i, x) /\ (q.waiting => x.id \in Idr)
    <2>1. Linked(e, (b \o i)[Len(b \o i)], x)
        BY <1>8 DEF i, Linked
    <2>2. Links(e, Append(b \o i, x))
        BY <1>2, <1>3, <2>1, LinksAppend DEF i
    <2>3. Append(b \o i, x)[Len(Append(b \o i, x))] = x
        BY <1>2, <1>3, AppendProperties
    <2> QED BY <1>3, <1>8, <2>2, <2>3 DEF r
<1>9. CASE ~r.waiting /\ r.items = Append(one, x) /\ x.id \in Idr
    <2> DEFINE c == Append(b, Reset)
    <2>1. Linked(e, c[Len(c)], x)
        BY <1>9 DEF Linked
    <2>2. c \in Seq(Stage) /\ Links(e, c) /\ b \o Append(one, x) = Append(c, x)
        BY <1>3, <1>5
    <2> HIDE DEF c
    <2>3. Links(e, Append(c, x))
        BY <1>2, <2>1, <2>2, LinksAppend
    <2>4. Append(c, x)[Len(Append(c, x))] = x
        BY <1>2, <2>2, AppendProperties
    <2> QED BY <1>9, <2>2, <2>3, <2>4 DEF r
<1> QED BY <1>1, <1>6, <1>7, <1>8, <1>9

\* A linked run of frames enters a queue that is linked to what is before it.
LEMMA EnqueueLinks ==
    ASSUME NEW e, NEW b \in Seq(Stage), b # <<>>, NEW q, QueueOK(q),
           NEW t \in Seq(Frame), t # <<>>, Links(e, b \o q.items), Links(e, t),
           ~q.waiting => Linked(e, (b \o q.items)[Len(b \o q.items)], t[1])
    PROVE  LET r == Enqueue(q, t)
               c == b \o r.items
           IN  /\ Links(e, c)
               /\ ~r.waiting => c[Len(c)] = t[Len(t)]
<1>1. PICK g : /\ Enqueue(q, t) = g[Len(t)]
               /\ g[0] = q
               /\ \A m \in 1..Len(t) : g[m] = EnqueueFrame(g[m - 1], t[m])
    BY EnqueueSteps
<1> DEFINE n == Len(t)
           Final(m) == (b \o g[m].items)[Len(b \o g[m].items)]
           Good(m) == /\ QueueOK(g[m])
                      /\ Links(e, b \o g[m].items)
                      /\ ~g[m].waiting => IF m = 0 THEN Linked(e, Final(m), t[1])
                                          ELSE Final(m) = t[m]
           G == {m \in 0..n : Good(m)}
<1>2. n \in Nat \ {0} /\ \A k \in 1..n : t[k] \in Frame
    BY LenProperties, ElementOfSeq, EmptySeq
<1>3. \A k \in 1..(n - 1) : Linked(e, t[k], t[k + 1])
    BY DEF Links
<1>4. 0 \in G
    BY <1>1, <1>2
<1>5. ASSUME NEW m \in 1..n, m - 1 \in G
      PROVE  m \in G
    <2> DEFINE old == g[m - 1]
               new == g[m]
               x == t[m]
    <2>1. Good(m - 1)
        BY <1>5
    <2>2. x \in Frame /\ new = EnqueueFrame(old, x)
        BY <1>1, <1>2
    <2>3. ~old.waiting => Linked(e, Final(m - 1), x)
        <3>1. CASE m = 1
            BY <2>1, <3>1
        <3>2. CASE m # 1
            <4>1. m - 1 \in 1..(n - 1) /\ (m - 1) + 1 = m /\ m - 1 # 0
                BY <1>2, <3>2
            <4>2. Linked(e, t[m - 1], x)
                BY <1>3, <4>1
            <4>3. ~old.waiting => Final(m - 1) = t[m - 1]
                BY <2>1, <4>1
            <4> HIDE DEF Final, old, x
            <4> QED BY <4>2, <4>3
        <3> QED BY <3>1, <3>2
    <2>4. QueueOK(old) /\ Links(e, b \o old.items)
        BY <2>1
    <2>5. ~old.waiting => Linked(e, (b \o old.items)[Len(b \o old.items)], x)
        BY <2>3
    <2> HIDE DEF old, x, Good
    <2>6. /\ QueueOK(new) /\ Links(e, b \o new.items)
          /\ ~new.waiting => (b \o new.items)[Len(b \o new.items)] = x
        <3>1. QueueOK(new)
            BY <2>2, <2>4, EnqueueFrameFacts
        <3>2. /\ Links(e, b \o new.items)
              /\ ~new.waiting => (b \o new.items)[Len(b \o new.items)] = x
            <4> HIDE DEF new
            <4> QED BY <2>2, <2>4, <2>5, EnqueueFrameLinks
        <3> QED BY <3>1, <3>2
    <2>7. Good(m)
        BY <1>2, <2>6 DEF Good, x
    <2> QED BY <1>2, <2>7
<1>6. Good(n)
    <2>1. \A m \in 0..n : m \in G
        <3> HIDE DEF G, n
        <3> QED BY <1>2, <1>4, <1>5, K!SegmentInduction
    <2>2. n \in 0..n
        BY <1>2
    <2>3. n \in G
        BY <2>1, <2>2
    <2> HIDE DEF Good
    <2> QED BY <2>3
<1>7. n # 0
    BY <1>2
<1> QED BY <1>1, <1>6, <1>7

-----------------------------------------------------------------------------
(* What a reassembly step releases, and what it adds to the losses. *)

\* The frames as the playout buffer takes them, and the losses after the step.
Sent(s, ids) == [k \in DOMAIN ids |-> [session |-> s, id |-> ids[k]]]
Losses(e, t) == e \cup [session : {t.asm.session}, id : TooEarly(t)]

\* The losses behind the release that are not known yet as such.
KnownLosses(e, a) ==
    \A f \in a.skipped : f >= a.next => [session |-> a.session, id |-> f] \in e

\* What the release has passed without releasing it is a known loss.
LEMMA PassedIsLost ==
    ASSUME NEW a, AssemblerOK(a), NEW t, Released(a, t), NEW e, KnownLosses(e, a),
           NEW m \in Frames, m < t.asm.next, m \notin ToSet(t.out),
           \/ \E x \in ToSet(t.out) : x <= m
           \/ a.next # None /\ a.next <= m /\ t.lost = {}
    PROVE  [session |-> a.session, id |-> m] \in Losses(e, t)
<1>1. /\ t.asm.session = a.session
      /\ \A x \in ToSet(t.out) : a.next <= x
      /\ m \in ToSet(t.out) \cup a.skipped \cup t.lost
    BY DEF Released
<1>2. a.next \in Int /\ m \in Int /\ ToSet(t.out) \subseteq Int
    <2>1. t.out \in Seq(Frames)
        BY DEF Released
    <2>2. ToSet(t.out) \subseteq Frames
        BY <2>1, InSeq
    <2> QED BY <2>2 DEF AssemblerOK, Assembler, Frames, None
<1>3. a.next <= m
    BY <1>1, <1>2
<1>4. CASE m \in a.skipped
    BY <1>3, <1>4 DEF KnownLosses, Losses
<1>5. CASE m \in t.lost
    <2>1. PICK x \in ToSet(t.out) : x <= m
        BY <1>5
    <2>2. x # m
        BY <2>1
    <2>3. x < m
        BY <1>2, <2>1, <2>2
    <2>4. m \in TooEarly(t)
        BY <1>5, <2>1, <2>3 DEF TooEarly
    <2> QED BY <1>1, <2>4 DEF Losses
<1> QED BY <1>1, <1>4, <1>5

\* Between two frames that follow one another in a rising sequence there is none of it,
\* nor before the first, nor after the last.
LEMMA RisingGaps ==
    ASSUME NEW q \in Seq(Frames), Rising(q), NEW m \in Int
    PROVE  /\ \A k \in 1..(Len(q) - 1) :
                 q[k] < m /\ m < q[k + 1] => m \notin ToSet(q)
           /\ q # <<>> /\ m < q[1] => m \notin ToSet(q)
           /\ q # <<>> /\ q[Len(q)] < m => m \notin ToSet(q)
           /\ q = <<>> => m \notin ToSet(q)
<1> DEFINE n == Len(q)
<1>1. /\ n \in Nat /\ \A k \in 1..n : q[k] \in Int
      /\ q # <<>> => n # 0
      /\ q = <<>> => n = 0
    <2>1. n \in Nat /\ \A k \in 1..n : q[k] \in Frames
        BY LenProperties, ElementOfSeq
    <2> QED BY <2>1, EmptySeq DEF Frames
<1>2. \A j, k \in 1..n : j < k => q[j] < q[k]
    BY DEF Rising
<1>3. m \in ToSet(q) <=> \E k \in 1..n : q[k] = m
    BY InSeq
<1> HIDE DEF n
<1>4. ASSUME NEW k \in 1..(n - 1), q[k] < m, m < q[k + 1], NEW j \in 1..n, q[j] = m
      PROVE  FALSE
    <2>1. k \in 1..n /\ k + 1 \in 1..n
        BY <1>1
    <2>2. j <= k \/ j > k
        OBVIOUS
    <2>3. CASE j <= k
        <3>1. j = k \/ j < k
            BY <2>3
        <3>2. q[j] <= q[k]
            BY <1>1, <1>2, <2>1, <3>1
        <3> QED BY <1>1, <1>4, <2>1, <3>2
    <2>4. CASE j > k
        <3>1. j = k + 1 \/ k + 1 < j
            BY <2>4
        <3>2. q[k + 1] <= q[j]
            BY <1>1, <1>2, <2>1, <3>1
        <3> QED BY <1>1, <1>4, <2>1, <3>2
    <2> QED BY <2>2, <2>3, <2>4
<1>5. ASSUME n # 0, m < q[1], NEW j \in 1..n, q[j] = m
      PROVE  FALSE
    <2>1. 1 \in 1..n /\ (j = 1 \/ 1 < j)
        BY <1>1, <1>5
    <2>2. q[1] <= q[j]
        BY <1>1, <1>2, <2>1
    <2> QED BY <1>1, <1>5, <2>1, <2>2
<1>6. ASSUME n # 0, q[n] < m, NEW j \in 1..n, q[j] = m
      PROVE  FALSE
    <2>1. n \in 1..n /\ (j = n \/ j < n)
        BY <1>1, <1>6
    <2>2. q[j] <= q[n]
        BY <1>1, <1>2, <2>1
    <2> QED BY <1>1, <1>6, <2>1, <2>2
<1>7. n = 0 => m \notin ToSet(q)
    BY <1>3
<1> QED BY <1>1, <1>3, <1>4, <1>5, <1>6, <1>7 DEF n

\* The frames released are frames of the session, between where the release stood and
\* where it stands.
LEMMA SentFrames ==
    ASSUME NEW a, AssemblerOK(a), a.session \in 1..Sessions, NEW t, Released(a, t)
    PROVE  LET n == Sent(a.session, t.out)
           IN  /\ n \in Seq(Frame) /\ Len(n) = Len(t.out) /\ (n = <<>> <=> t.out = <<>>)
               /\ \A k \in 1..Len(n) : n[k] = [session |-> a.session, id |-> t.out[k]]
               /\ Ascending(n)
               /\ \A x \in ToSet(n) : /\ x \in Frame /\ x.session = a.session
                                      /\ a.next <= x.id /\ x.id < t.asm.next
<1> DEFINE s == a.session
           n == Sent(s, t.out)
<1>1. t.out \in Seq(Frames) /\ Rising(t.out)
      /\ \A x \in ToSet(t.out) : a.next <= x /\ x < t.asm.next
    BY DEF Released
<1>2. /\ Len(t.out) \in Nat /\ DOMAIN t.out = 1..Len(t.out)
      /\ \A k \in 1..Len(t.out) : t.out[k] \in Frames /\ t.out[k] \in ToSet(t.out)
    BY <1>1, LenProperties, ElementOfSeq, InSeq
<1>3. n = [k \in 1..Len(t.out) |-> [session |-> s, id |-> t.out[k]]]
    BY <1>2 DEF Sent
<1>4. /\ n \in Seq(Frame) /\ Len(n) = Len(t.out)
      /\ \A k \in 1..Len(n) : n[k] = [session |-> s, id |-> t.out[k]]
    <2>1. \A k \in 1..Len(t.out) : [session |-> s, id |-> t.out[k]] \in Frame
        BY <1>2 DEF Frame
    <2> HIDE DEF n, s
    <2> QED BY <1>2, <1>3, <2>1
<1> HIDE DEF n
<1>5. n = <<>> <=> t.out = <<>>
    <2>1. (n # <<>> => Len(n) # 0) /\ (t.out # <<>> => Len(t.out) # 0)
        BY <1>1, <1>4, EmptySeq
    <2>2. (n = <<>> => Len(n) = 0) /\ (t.out = <<>> => Len(t.out) = 0)
        BY EmptySeq
    <2> QED BY <1>4, <2>1, <2>2
<1>6. Ascending(n)
    <2>1. ASSUME NEW j \in 1..Len(n), NEW k \in 1..Len(n), j < k
          PROVE  Before(n[j], n[k])
        <3>1. t.out[j] < t.out[k]
            BY <1>1, <1>4, <2>1 DEF Rising
        <3>2. /\ n[j] = [session |-> s, id |-> t.out[j]]
              /\ n[k] = [session |-> s, id |-> t.out[k]]
            BY <1>4
        <3>3. /\ n[j].session = n[k].session
              /\ n[j].id = t.out[j] /\ n[k].id = t.out[k]
            BY <3>2
        <3> QED BY <3>1, <3>3 DEF Before
    <2> QED BY <2>1 DEF Ascending
<1>7. ASSUME NEW x \in ToSet(n)
      PROVE  x \in Frame /\ x.session = s /\ a.next <= x.id /\ x.id < t.asm.next
    <2>1. PICK k \in 1..Len(n) : n[k] = x
        BY <1>4, InSeq
    <2>2. x = [session |-> s, id |-> t.out[k]] /\ t.out[k] \in ToSet(t.out) /\ x \in Frame
        BY <1>2, <1>4, <2>1, ElementOfSeq
    <2> QED BY <1>1, <2>2
<1> QED BY <1>4, <1>5, <1>6, <1>7 DEF n, s

\* The frames released are continuous, but for losses, up to the next one; and what
\* the release had reached before stays joined to them, when the step loses nothing.
LEMMA SentLinks ==
    ASSUME NEW a, AssemblerOK(a), a.session \in 1..Sessions, NEW t, Released(a, t),
           t.asm.next # None, NEW e, KnownLosses(e, a)
    PROVE  LET n == Sent(a.session, t.out)
               h == Losses(e, t)
               c == Cursor(t.asm)
           IN  /\ Links(h, n)
               /\ n # <<>> => Joined(h, n[Len(n)], c)
               /\ t.lost = {} /\ a.next # None =>
                     \A y : Joined(e, y, Cursor(a)) =>
                               Joined(h, y, IF n = <<>> THEN c ELSE n[1])
               /\ KnownLosses(h, t.asm)
<1> DEFINE s == a.session
           n == Sent(s, t.out)
           h == Losses(e, t)
           c == Cursor(t.asm)
           F(k) == [session |-> s, id |-> k]
           o == t.out
<1>1. /\ o \in Seq(Frames) /\ Rising(o)
      /\ \A x \in ToSet(o) : a.next <= x /\ x < t.asm.next
      /\ t.asm.session = s /\ t.asm.next >= a.next
      /\ t.asm.skipped \subseteq a.skipped \cup t.lost /\ t.lost \subseteq Frames
      /\ AssemblerOK(t.asm)
    BY DEF Released
<1>2. /\ a.next \in Int /\ None <= a.next /\ t.asm.next \in Nat /\ t.asm.next <= LastFrame + 1
      /\ LastFrame \in Nat
    <2>1. /\ a.next \in None..(LastFrame + 1) /\ t.asm.next \in None..(LastFrame + 1)
        BY <1>1 DEF AssemblerOK, Assembler
    <2> QED BY <2>1, ReceiveAssumption DEF None
<1>3. /\ n \in Seq(Frame) /\ Len(n) = Len(o) /\ (n = <<>> <=> o = <<>>)
      /\ \A k \in 1..Len(o) : n[k] = F(o[k])
    <2> DEFINE x == Sent(a.session, t.out)
    <2>1. /\ x \in Seq(Frame) /\ Len(x) = Len(t.out)
          /\ x = <<>> <=> t.out = <<>>
          /\ \A k \in 1..Len(x) : x[k] = [session |-> a.session, id |-> t.out[k]]
        <3>1. x \in Seq(Frame) /\ Len(x) = Len(t.out)
            BY SentFrames
        <3>2. x = <<>> <=> t.out = <<>>
            BY SentFrames
        <3>3. \A k \in 1..Len(x) : x[k] = [session |-> a.session, id |-> t.out[k]]
            BY SentFrames
        <3> QED BY <3>1, <3>2, <3>3
    <2>2. n = x /\ s = a.session /\ o = t.out
        OBVIOUS
    <2> HIDE DEF s, o, n, x
    <2>3. /\ n \in Seq(Frame) /\ Len(n) = Len(o)
          /\ n = <<>> <=> o = <<>>
          /\ \A k \in 1..Len(n) : n[k] = [session |-> s, id |-> o[k]]
        BY <2>1, <2>2
    <2>4. \A k \in 1..Len(o) : n[k] = F(o[k])
        BY <2>3
    <2> QED BY <2>3, <2>4
<1>4. /\ Len(o) \in Nat /\ (o # <<>> => Len(o) # 0)
      /\ \A k \in 1..Len(o) : o[k] \in Frames /\ o[k] \in ToSet(o) /\ o[k] \in Nat
    <2>1. Len(o) \in Nat /\ (o # <<>> => Len(o) # 0)
        BY <1>1, LenProperties, EmptySeq
    <2>2. \A k \in 1..Len(o) : o[k] \in Frames /\ o[k] \in ToSet(o)
        BY <1>1, ElementOfSeq, InSeq
    <2> QED BY <2>1, <2>2 DEF Frames
<1>5. ASSUME NEW m \in Int, 0 <= m, m < t.asm.next, m \notin ToSet(o),
             \/ \E x \in ToSet(o) : x <= m
             \/ a.next # None /\ a.next <= m /\ t.lost = {}
      PROVE  F(m) \in h
    <2>1. m \in Frames
        BY <1>2, <1>5 DEF Frames
    <2> QED BY <1>5, <2>1, PassedIsLost
<1>6. e \subseteq h
    BY DEF Losses
<1>7. c = F(t.asm.next)
    BY <1>1 DEF Cursor
<1>8. \A k : Predecessor(F(k)) = F(k - 1)
    BY DEF Predecessor
<1> HIDE DEF n, h, c, s
<1>9. ASSUME NEW k \in 1..(Len(n) - 1)
      PROVE  Linked(h, n[k], n[k + 1])
    <2> DEFINE m == o[k + 1] - 1
    <2>1. /\ k \in 1..Len(o) /\ k + 1 \in 1..Len(o) /\ k < k + 1
        BY <1>3, <1>4
    <2>2. /\ o[k] \in Nat /\ o[k + 1] \in Nat /\ o[k] < o[k + 1] /\ o[k + 1] < t.asm.next
          /\ o[k] \in ToSet(o)
        BY <1>1, <1>4, <2>1 DEF Rising
    <2>3. n[k] = F(o[k]) /\ Predecessor(n[k + 1]) = F(m)
        BY <1>3, <1>8, <2>1
    <2>4. CASE o[k] = m
        BY <2>3, <2>4 DEF Linked, Joined
    <2>5. CASE o[k] # m
        <3>1. /\ m \in Int /\ 0 <= m /\ m < t.asm.next
              /\ o[k] < m /\ m < o[k + 1] /\ o[k] <= m
            <4> DEFINE u == o[k]
                       w == o[k + 1]
            <4>1. u \in Nat /\ w \in Nat /\ u < w /\ w < t.asm.next /\ u # w - 1
                BY <2>2, <2>5
            <4> HIDE DEF u, w
            <4>2. /\ w - 1 \in Int /\ 0 <= w - 1 /\ w - 1 < t.asm.next
                  /\ u < w - 1 /\ w - 1 < w /\ u <= w - 1
                BY <1>2, <4>1
            <4> QED BY <4>2 DEF u, w
        <3>2. m \notin ToSet(o)
            BY <1>1, <1>3, <3>1, RisingGaps
        <3>3. \E x \in ToSet(o) : x <= m
            BY <2>2, <3>1
        <3> HIDE DEF m, F
        <3>4. F(m) \in h
            BY <1>5, <3>1, <3>2, <3>3
        <3> QED BY <2>3, <3>4 DEF Linked, Joined
    <2> QED BY <2>4, <2>5
<1>10. ASSUME n # <<>>
       PROVE  Joined(h, n[Len(n)], c)
    <2> DEFINE m == t.asm.next - 1
               k == Len(o)
    <2>1. k \in 1..Len(o) /\ o # <<>>
        BY <1>3, <1>4, <1>10
    <2>2. /\ o[k] \in Nat /\ o[k] < t.asm.next /\ o[k] \in ToSet(o)
          /\ n[Len(n)] = F(o[k]) /\ Predecessor(c) = F(m)
        BY <1>1, <1>3, <1>4, <1>7, <1>8, <2>1
    <2>3. CASE o[k] = m
        BY <2>2, <2>3 DEF Joined
    <2>4. CASE o[k] # m
        <3>1. m \in Int /\ 0 <= m /\ m < t.asm.next /\ o[k] < m /\ o[k] <= m
            BY <1>2, <2>2, <2>4
        <3>2. m \notin ToSet(o)
            BY <1>1, <2>1, <3>1, RisingGaps
        <3>3. \E x \in ToSet(o) : x <= m
            BY <2>2, <3>1
        <3> HIDE DEF m, F
        <3>4. F(m) \in h
            BY <1>5, <3>1, <3>2, <3>3
        <3> QED BY <2>2, <3>4 DEF Joined
    <2> QED BY <2>3, <2>4
<1>11. ASSUME t.lost = {}, a.next # None, NEW y, Joined(e, y, Cursor(a))
       PROVE  Joined(h, y, IF n = <<>> THEN c ELSE n[1])
    <2> DEFINE j == IF n = <<>> THEN t.asm.next ELSE o[1]
               m == j - 1
    <2>1. (IF n = <<>> THEN c ELSE n[1]) = F(j)
        BY <1>3, <1>4, <1>7
    <2>2. y \in {Loose, F(a.next - 1)} \/ F(a.next - 1) \in e
        BY <1>8, <1>11 DEF Joined, Cursor, s, Predecessor
    <2>3. /\ j \in Nat /\ a.next <= j /\ j <= t.asm.next
        BY <1>1, <1>2, <1>3, <1>4
    <2>4. CASE j = a.next
        <3>1. y \in {Loose, Predecessor(F(j))} \/ Predecessor(F(j)) \in h
            BY <1>6, <1>8, <2>2, <2>4
        <3> HIDE DEF F, j
        <3> QED BY <2>1, <3>1 DEF Joined
    <2>5. CASE j # a.next
        <3>1. m \in Int /\ 0 <= m /\ m < t.asm.next /\ a.next <= m
            BY <1>2, <1>11, <2>3, <2>5 DEF None
        <3>2. m \notin ToSet(o)
            <4>1. CASE n = <<>>
                BY <1>1, <1>3, <3>1, <4>1, RisingGaps
            <4>2. CASE n # <<>>
                <5>1. o # <<>> /\ m < o[1]
                    BY <1>3, <2>3, <4>2
                <5> QED BY <1>1, <3>1, <5>1, RisingGaps
            <4> QED BY <4>1, <4>2
        <3>3. a.next # None /\ a.next <= m /\ t.lost = {}
            BY <1>11, <3>1
        <3>4. Predecessor(F(j)) = F(m)
            BY <1>8
        <3> HIDE DEF m, F, j
        <3>5. F(m) \in h
            BY <1>5, <3>1, <3>2, <3>3
        <3> QED BY <2>1, <3>4, <3>5 DEF Joined
    <2> QED BY <2>4, <2>5
<1>12. KnownLosses(h, t.asm)
    <2>1. ASSUME NEW f \in t.asm.skipped, f >= t.asm.next
          PROVE  F(f) \in h
        <3>1. f \in Int
            BY <1>1, <2>1 DEF AssemblerOK, Assembler, Frames
        <3>2. CASE f \in a.skipped
            <4>1. f >= a.next
                BY <1>1, <1>2, <2>1, <3>1
            <4> QED BY <1>6, <3>2, <4>1 DEF KnownLosses, s
        <3>3. CASE f \in t.lost
            <4>1. f \in TooEarly(t)
                BY <2>1, <3>3 DEF TooEarly
            <4> QED BY <1>1, <4>1 DEF h, Losses
        <3> QED BY <1>1, <2>1, <3>2, <3>3
    <2> QED BY <1>1, <2>1 DEF KnownLosses
<1>13. Links(h, n)
    BY <1>9 DEF Links
<1> QED BY <1>10, <1>11, <1>12, <1>13 DEF n, h, c, s

\* The recovery leaves a queue that waits, and in it what was there or the reset alone.
LEMMA RecoveryFacts ==
    ASSUME NEW q, QueueOK(q)
    PROVE  LET r == BeginRecovery(q)
           IN  QueueOK(r) /\ r.waiting /\ (r.items = q.items \/ r.items = <<Reset>>)
<1>1. /\ q \in [items : Seq(Items), waiting : BOOLEAN, gate : BOOLEAN]
      /\ q.gate => q.waiting
    BY DEF QueueOK
<1>2. <<Reset>> \in Seq(Items)
    BY DEF Items
<1>3. CASE q.gate
    BY <1>1, <1>3 DEF BeginRecovery, QueueOK
<1>4. CASE ~q.gate
    <2> DEFINE one == <<Reset>>
               r == [[q EXCEPT !.gate = TRUE] EXCEPT !.items = one, !.waiting = TRUE]
    <2>1. BeginRecovery(q) = r
        BY <1>4 DEF BeginRecovery, Restart, MarkDamaged
    <2>2. one \in Seq(Items)
        BY <1>2
    <2> HIDE DEF one
    <2>3. r.items = one /\ r.waiting /\ QueueOK(r)
        BY <1>1, <2>2 DEF QueueOK
    <2> QED BY <2>1, <2>3 DEF one
<1> QED BY <1>3, <1>4

\* What came before the place where the release stood comes before what is released,
\* and before the place where it stands.
LEMMA ReleaseGoesOn ==
    ASSUME NEW a, AssemblerOK(a), a.session \in 1..Sessions, NEW t, Released(a, t),
           NEW A \in SUBSET Items, Precedes(A, {Cursor(a)})
    PROVE  LET n == ToSet(Sent(a.session, t.out))
           IN  /\ Precedes(A, n)
               /\ Precedes(A \cup n, {Cursor(t.asm)})
<1> DEFINE n == ToSet(Sent(a.session, t.out))
<1>1. \A x \in n : /\ x \in Frame /\ x.session = a.session
                   /\ a.next <= x.id /\ x.id < t.asm.next
    BY SentFrames
<1>2. t.asm.session = a.session /\ t.asm.next >= a.next
    BY DEF Released
<1>3. a.next \in Int /\ t.asm.next \in Int /\ a.session \in Int
    <2>1. a \in Assembler /\ t.asm \in Assembler
        BY DEF AssemblerOK, Released
    <2> QED BY <2>1 DEF Assembler, None
<1>4. Cursor(a) # Reset /\ Cursor(a).session = a.session /\ Cursor(a).id = a.next
    BY DEF Cursor, Reset
<1>5. Cursor(t.asm).session = a.session /\ Cursor(t.asm).id = t.asm.next
    BY <1>2 DEF Cursor
<1> HIDE DEF n
<1>6. ASSUME NEW x \in A, x # Reset
      PROVE  /\ x.session \in Int /\ x.id \in Int
             /\ \/ x.session < a.session
                \/ x.session = a.session /\ x.id < a.next
    <2>1. Before(x, Cursor(a))
        BY <1>4, <1>6 DEF Precedes
    <2>2. x.session \in Int /\ x.id \in Int
        BY <1>6, FrameIsNotReset DEF Items
    <2> QED BY <1>4, <2>1, <2>2 DEF Before
<1>7. ASSUME NEW x \in A, NEW y \in n, x # Reset
      PROVE  Before(x, y)
    <2>1. y.session = a.session /\ a.next <= y.id /\ y.id \in Int
        BY <1>1, FrameIsNotReset
    <2> QED BY <1>3, <1>6, <1>7, <2>1 DEF Before
<1>8. ASSUME NEW x \in A, x # Reset
      PROVE  Before(x, Cursor(t.asm))
    BY <1>2, <1>3, <1>5, <1>6, <1>8 DEF Before
<1>9. ASSUME NEW x \in n
      PROVE  Before(x, Cursor(t.asm))
    BY <1>1, <1>5 DEF Before
<1> QED BY <1>7, <1>8, <1>9 DEF Precedes, n

\* A reassembly step keeps the order from the decoder on.
LEMMA DeliverOrder ==
    ASSUME NEW a, AssemblerOK(a), a.session \in 1..Sessions, NEW t, Released(a, t),
           NEW f \in Items, NEW b \in Seq(Items), NEW i \in Seq(Items), NEW p \in Seq(Frame),
           InOrder(f, b, i, p, Cursor(a)),
           NEW j \in {i, <<Reset>>}, NEW o \in {p, <<>>}
    PROVE  LET n == o \o Sent(a.session, t.out)
           IN  n \in Seq(Frame) /\ InOrder(f, b, j, n, Cursor(t.asm))
<1> DEFINE m == Sent(a.session, t.out)
           n == o \o m
<1>1. m \in Seq(Frame) /\ Ascending(m)
    BY SentFrames
<1>2. /\ p \in Seq(Items) /\ m \in Seq(Items) /\ o \in Seq(Items) /\ o \in Seq(Frame)
      /\ ToSet(o) \subseteq ToSet(p) /\ Ascending(o)
    <2>1. Seq(Frame) \subseteq Seq(Items)
        BY DEF Items
    <2>2. <<>> \in Seq(Frame)
        BY EmptySeq
    <2>3. ToSet(<<>>) = {}
        BY DEF ToSet
    <2>4. Ascending(<<>>) /\ Ascending(p)
        BY DEF Ascending, InOrder
    <2> QED BY <1>1, <2>1, <2>2, <2>3, <2>4
<1>3. j \in Seq(Items) /\ Ascending(j) /\ ToSet(j) \subseteq ToSet(i) \cup {Reset}
    <2>1. CASE j = i
        BY <2>1 DEF InOrder
    <2>2. CASE j = <<Reset>>
        <3>1. <<Reset>> \in Seq(Items)
            BY DEF Items
        <3>2. ToSet(<<Reset>>) = {Reset}
            BY DEF ToSet
        <3>3. Ascending(<<Reset>>)
            BY DEF Ascending
        <3> QED BY <2>2, <3>1, <3>2, <3>3
    <2> QED BY <2>1, <2>2
<1> DEFINE B == {f} \cup ToSet(b)
           A == B \cup ToSet(i) \cup ToSet(p)
           M == ToSet(m)
<1>4. A \in SUBSET Items
    <2>1. /\ ToSet(b) \subseteq Items /\ ToSet(i) \subseteq Items /\ ToSet(p) \subseteq Items
        BY <1>2, InSeq
    <2> QED BY <2>1
<1>5. /\ Ascending(b) /\ Ascending(i) /\ Ascending(p)
      /\ Precedes({f}, ToSet(b))
      /\ Precedes(B, ToSet(i))
      /\ Precedes(B \cup ToSet(i), ToSet(p))
      /\ Precedes(A, {Cursor(a)})
    BY DEF InOrder
<1>6. Precedes(A, M) /\ Precedes(A \cup M, {Cursor(t.asm)})
    <2> HIDE DEF A
    <2> QED BY <1>4, <1>5, ReleaseGoesOn
<1>7. ToSet(n) = ToSet(o) \cup M
    <2> HIDE DEF m
    <2> QED BY <1>2, InConcat
<1>8. n \in Seq(Frame) /\ Ascending(n)
    <2>1. Precedes(ToSet(o), M)
        BY <1>2, <1>6 DEF Precedes
    <2> HIDE DEF m
    <2> QED BY <1>1, <1>2, <2>1, ConcatProperties, AscendingConcat
<1> DEFINE N == ToSet(n)
           J == ToSet(j)
           I == ToSet(i)
           P == ToSet(p)
           C == Cursor(t.asm)
<1>9. J \subseteq I \cup {Reset} /\ N \subseteq P \cup M
    BY <1>2, <1>3, <1>7
<1> HIDE DEF n, N, J, I, P, M, C, m
<1>10. Precedes(B, J)
    BY <1>5, <1>9 DEF Precedes, I
<1>11. Precedes(B \cup J, N)
    BY <1>5, <1>6, <1>9 DEF Precedes, I, P
<1>12. Precedes(B \cup J \cup N, {C})
    BY <1>6, <1>9 DEF Precedes, I, P, C
<1> QED BY <1>3, <1>5, <1>8, <1>10, <1>11, <1>12 DEF InOrder, N, J, C, n, m

\* What is behind the queue has a last item.
LEMMA BehindFacts ==
    ASSUME NEW d \in BOOLEAN, NEW f \in Items, NEW b \in Seq(Items), NEW i \in Seq(Items)
    PROVE  /\ Behind(d, f, b) \in Seq(Stage) /\ Behind(d, f, b) # <<>>
           /\ Behind(d, f, b) \o i \in Seq(Stage)
           /\ Len(Behind(d, f, b) \o i) \in Nat \ {0}
<1> DEFINE y == IF d THEN f ELSE Loose
           one == <<y>>
           c == one \o b
<1>1. Behind(d, f, b) = c
    BY DEF Behind
<1>2. y \in Stage
    BY DEF Stage
<1> HIDE DEF y
<1>3. one \in Seq(Stage) /\ Len(one) = 1
    BY <1>2
<1> HIDE DEF one
<1>4. b \in Seq(Stage) /\ i \in Seq(Stage)
    BY DEF Stage
<1>5. c \in Seq(Stage) /\ Len(c) = Len(one) + Len(b) /\ Len(b) \in Nat
    BY <1>3, <1>4, ConcatProperties, LenProperties
<1> HIDE DEF c
<1>6. c \o i \in Seq(Stage) /\ Len(c \o i) = Len(c) + Len(i) /\ Len(i) \in Nat
    BY <1>4, <1>5, ConcatProperties, LenProperties
<1>7. c # <<>>
    BY <1>3, <1>5, EmptySeq
<1> QED BY <1>1, <1>3, <1>5, <1>6, <1>7

\* A reassembly step keeps the continuity from the decoder on.
LEMMA DeliverLinks ==
    ASSUME NEW a, AssemblerOK(a), a.session \in 1..Sessions, NEW t, Released(a, t),
           t.asm.next # None,
           NEW d \in BOOLEAN, NEW f \in Items, NEW b \in Seq(Items), NEW q, QueueOK(q),
           NEW p \in Seq(Frame), NEW e, KnownLosses(e, a),
           Continuous(e, d, f, b, q, p, Cursor(a)),
           a.next = None =>
              /\ p = <<>>
              /\ q.waiting \/ (b = <<>> /\ q.items = <<>> /\ ~d)
    PROVE  LET n == (IF t.lost = {} THEN p ELSE <<>>) \o Sent(a.session, t.out)
               r == IF t.lost = {} THEN q ELSE BeginRecovery(q)
               h == Losses(e, t)
           IN  Continuous(h, d, f, b, r, n, Cursor(t.asm)) /\ KnownLosses(h, t.asm)
<1> DEFINE m == Sent(a.session, t.out)
           h == Losses(e, t)
           c == Cursor(t.asm)
           z == Behind(d, f, b)
           chain == z \o q.items
           last == chain[Len(chain)]
<1>1. /\ m \in Seq(Frame) /\ m \in Seq(Stage) /\ p \in Seq(Stage)
      /\ Len(m) \in Nat /\ Len(p) \in Nat
      /\ m # <<>> => Len(m) # 0
      /\ p # <<>> => Len(p) # 0
    <2>1. m \in Seq(Frame)
        BY SentFrames
    <2>2. Seq(Frame) \subseteq Seq(Stage)
        BY DEF Stage, Items
    <2> HIDE DEF m
    <2> QED BY <2>1, <2>2, LenProperties, EmptySeq
<1>2. /\ Links(h, m)
      /\ m # <<>> => Joined(h, m[Len(m)], c)
      /\ t.lost = {} /\ a.next # None =>
            \A y : Joined(e, y, Cursor(a)) => Joined(h, y, IF m = <<>> THEN c ELSE m[1])
      /\ KnownLosses(h, t.asm)
    BY SentLinks
<1>3. q.items \in Seq(Items) /\ q.items \in Seq(Stage)
    <2>1. q.items \in Seq(Items)
        BY DEF QueueOK
    <2> QED BY <2>1 DEF Stage
<1>4. z \in Seq(Stage) /\ z # <<>> /\ chain \in Seq(Stage)
    BY <1>3, BehindFacts
<1>5. e \subseteq h
    BY DEF Losses
<1>6. /\ \A y, x : Joined(e, y, x) => Joined(h, y, x)
      /\ \A y, x : Linked(e, y, x) => Linked(h, y, x)
      /\ \A k : Links(e, k) => Links(h, k)
    BY <1>5, LinksMore
<1>7. /\ Links(e, chain) /\ Links(e, p)
      /\ p # <<>> => Joined(e, p[Len(p)], Cursor(a))
      /\ ~q.waiting => IF p = <<>> THEN Joined(e, last, Cursor(a)) ELSE Linked(e, last, p[1])
    BY DEF Continuous
<1>8. a.next = None => q.waiting \/ last = Loose
    <2>1. CASE b = <<>> /\ q.items = <<>> /\ ~d
        <3>1. z = <<Loose>>
            BY <2>1 DEF Behind
        <3>2. chain = <<Loose>>
            BY <2>1, <3>1
        <3> QED BY <3>2
    <2> QED BY <2>1
<1> HIDE DEF m, h, c, z, chain, last
<1>9. CASE t.lost = {}
    <2> DEFINE n == p \o m
    <2>1. /\ n \in Seq(Stage)
          /\ Len(n) = Len(p) + Len(m)
          /\ \A k \in 1..(Len(p) + Len(m)) : n[k] = IF k <= Len(p) THEN p[k] ELSE m[k - Len(p)]
          /\ n = <<>> <=> p = <<>> /\ m = <<>>
          /\ m = <<>> => n = p
          /\ p = <<>> => n = m
        BY <1>1, ConcatProperties, ConcatEqualIffEmpty, ConcatEmptySeq
    <2> HIDE DEF n
    <2>2. p # <<>> => a.next # None
        OBVIOUS
    <2>3. p # <<>> => Joined(h, p[Len(p)], IF m = <<>> THEN c ELSE m[1])
        BY <1>2, <1>7, <1>9, <2>2
    <2>4. Links(h, n)
        <3>1. Links(h, p)
            BY <1>6, <1>7
        <3>2. p # <<>> /\ m # <<>> => Linked(h, p[Len(p)], m[1])
            BY <2>3 DEF Linked
        <3> QED BY <1>1, <1>2, <3>1, <3>2, LinksConcat DEF n
    <2>5. n # <<>> => Joined(h, n[Len(n)], c)
        <3>1. CASE m = <<>>
            BY <2>1, <2>3, <3>1
        <3>2. CASE m # <<>>
            <4>1. /\ Len(n) \in 1..(Len(p) + Len(m)) /\ ~(Len(n) <= Len(p))
                  /\ Len(n) - Len(p) = Len(m)
                BY <1>1, <2>1, <3>2
            <4>2. n[Len(n)] = m[Len(m)]
                BY <2>1, <4>1
            <4> QED BY <1>2, <3>2, <4>2
        <3> QED BY <3>1, <3>2
    <2>6. ASSUME ~q.waiting
          PROVE  IF n = <<>> THEN Joined(h, last, c) ELSE Linked(h, last, n[1])
        <3>1. CASE p # <<>>
            <4>1. n # <<>> /\ 1 \in 1..(Len(p) + Len(m)) /\ 1 <= Len(p)
                BY <1>1, <2>1, <3>1
            <4>2. n[1] = p[1]
                BY <2>1, <4>1
            <4> QED BY <1>6, <1>7, <2>6, <3>1, <4>1, <4>2
        <3>2. CASE p = <<>>
            <4>1. Joined(h, last, IF m = <<>> THEN c ELSE m[1])
                <5>1. CASE a.next = None
                    BY <1>8, <2>6, <5>1 DEF Joined
                <5>2. CASE a.next # None
                    BY <1>2, <1>7, <1>9, <2>6, <3>2, <5>2
                <5> QED BY <5>1, <5>2
            <4> QED BY <2>1, <3>2, <4>1 DEF Linked
        <3> QED BY <3>1, <3>2
    <2>7. Links(h, chain)
        BY <1>6, <1>7
    <2>8. Continuous(h, d, f, b, q, n, c)
        BY <2>4, <2>5, <2>6, <2>7 DEF Continuous, chain, z, last
    <2> QED BY <1>2, <1>9, <2>8 DEF n, m, h, c
<1>10. CASE t.lost # {}
    <2> DEFINE r == BeginRecovery(q)
    <2>1. QueueOK(r) /\ r.waiting /\ (r.items = q.items \/ r.items = <<Reset>>)
        BY RecoveryFacts
    <2> HIDE DEF r
    <2>2. Links(h, z \o r.items)
        <3>1. CASE r.items = q.items
            BY <1>6, <1>7, <3>1 DEF chain
        <3>2. CASE r.items = <<Reset>>
            <4>1. Reset \in Stage
                BY DEF Stage, Items
            <4>2. z \o <<Reset>> = Append(z, Reset)
                BY <1>4, <4>1, AppendIsConcat
            <4>3. Links(h, z)
                BY <1>3, <1>4, <1>6, <1>7, LinksPrefix DEF chain
            <4>4. Linked(h, z[Len(z)], Reset)
                BY DEF Linked
            <4>5. Links(h, Append(z, Reset))
                BY <1>4, <4>1, <4>3, <4>4, LinksAppend
            <4> QED BY <3>2, <4>2, <4>5
        <3> QED BY <2>1, <3>1, <3>2
    <2>3. <<>> \o m = m
        BY <1>1, ConcatEmptySeq
    <2>4. Continuous(h, d, f, b, r, m, c)
        BY <1>2, <2>1, <2>2 DEF Continuous, z
    <2> QED BY <1>2, <1>10, <2>3, <2>4 DEF r, m, h, c
<1> QED BY <1>9, <1>10

\* The decoder moves on by one item of the batch.
LEMMA DecoderMoves ==
    ASSUME NEW e, NEW d \in BOOLEAN, NEW f \in Items, NEW b \in Seq(Items), b # <<>>,
           NEW q, QueueOK(q), NEW p, NEW c, Continuous(e, d, f, b, q, p, c),
           NEW x \in BOOLEAN, NEW g \in Items, x => g = Head(b)
    PROVE  Continuous(e, x, g, Tail(b), q, p, c)
<1> DEFINE old == Behind(d, f, b) \o q.items
           new == Behind(x, g, Tail(b)) \o q.items
           y == IF d THEN f ELSE Loose
           z == IF x THEN g ELSE Loose
           i == q.items
           n == Len(b)
           r == Tail(b)
<1>1. i \in Seq(Items) /\ i \in Seq(Stage) /\ b \in Seq(Stage)
    <2>1. i \in Seq(Items)
        BY DEF QueueOK
    <2> HIDE DEF i
    <2> QED BY <2>1 DEF Stage
<1>2. /\ r \in Seq(Items) /\ r \in Seq(Stage) /\ Len(r) = n - 1 /\ n \in Nat \ {0}
      /\ \A k \in 1..(n - 1) : r[k] = b[k + 1]
      /\ Head(b) = b[1]
    <2>1. /\ r \in Seq(Items) /\ Len(r) = n - 1 /\ n \in Nat \ {0} /\ Head(b) = b[1]
          /\ \A k \in 1..Len(r) : r[k] = b[k + 1]
        BY HeadTailProperties, EmptySeq, InTail
    <2> HIDE DEF r, n
    <2> QED BY <2>1 DEF Stage
<1>3. y \in Stage /\ z \in {Loose, Head(b)} /\ z \in Stage
    BY DEF Stage
<1>4. old = (<<y>> \o b) \o i /\ new = (<<z>> \o r) \o i
    BY DEF Behind
<1> HIDE DEF y, z, i, r, n, old, new
<1>5. ASSUME NEW w \in Stage, NEW v \in Seq(Stage)
      PROVE  LET u == (<<w>> \o v) \o i
             IN  /\ Len(u) = 1 + Len(v) + Len(i)
                 /\ \A k \in 1..(1 + Len(v) + Len(i)) :
                       u[k] = IF k = 1 THEN w
                              ELSE IF k <= 1 + Len(v) THEN v[k - 1]
                              ELSE i[k - (1 + Len(v))]
    <2> DEFINE one == <<w>>
               t == one \o v
               u == t \o i
    <2>1. one \in Seq(Stage) /\ Len(one) = 1 /\ one[1] = w
        BY <1>5
    <2> HIDE DEF one
    <2>2. /\ t \in Seq(Stage) /\ Len(t) = 1 + Len(v) /\ Len(v) \in Nat
          /\ \A k \in 1..(1 + Len(v)) : t[k] = IF k <= 1 THEN one[k] ELSE v[k - 1]
        <3>1. /\ t \in Seq(Stage) /\ Len(t) = Len(one) + Len(v)
              /\ \A k \in 1..(Len(one) + Len(v)) :
                    t[k] = IF k <= Len(one) THEN one[k] ELSE v[k - Len(one)]
            BY <1>5, <2>1, ConcatProperties
        <3>2. Len(v) \in Nat
            BY <1>5, LenProperties
        <3> HIDE DEF t
        <3> QED BY <2>1, <3>1, <3>2
    <2> HIDE DEF t
    <2>3. /\ Len(u) = Len(t) + Len(i) /\ Len(i) \in Nat
          /\ \A k \in 1..(Len(t) + Len(i)) : u[k] = IF k <= Len(t) THEN t[k] ELSE i[k - Len(t)]
        BY <1>1, <2>2, ConcatProperties, LenProperties
    <2> HIDE DEF u
    <2>4. ASSUME NEW k \in 1..(1 + Len(v) + Len(i))
          PROVE  u[k] = IF k = 1 THEN w
                        ELSE IF k <= 1 + Len(v) THEN v[k - 1]
                        ELSE i[k - (1 + Len(v))]
        <3>1. CASE k = 1
            <4>1. k \in 1..(1 + Len(v)) /\ k \in 1..(Len(t) + Len(i)) /\ k <= Len(t) /\ k <= 1
                BY <2>2, <2>3, <3>1
            <4>2. u[k] = t[k] /\ t[k] = one[k]
                BY <2>2, <2>3, <4>1
            <4> QED BY <2>1, <3>1, <4>2
        <3>2. CASE k # 1 /\ k <= 1 + Len(v)
            <4>1. /\ k \in 1..(1 + Len(v)) /\ k \in 1..(Len(t) + Len(i)) /\ k <= Len(t)
                  /\ ~(k <= 1)
                BY <2>2, <2>3, <3>2
            <4>2. u[k] = t[k] /\ t[k] = v[k - 1]
                BY <2>2, <2>3, <4>1
            <4> QED BY <3>2, <4>2
        <3>3. CASE ~(k <= 1 + Len(v))
            <4>1. k # 1 /\ k \in 1..(Len(t) + Len(i)) /\ ~(k <= Len(t))
                BY <2>2, <2>3, <3>3
            <4>2. u[k] = i[k - Len(t)]
                BY <2>3, <4>1
            <4> QED BY <2>2, <3>3, <4>1, <4>2
        <3> QED BY <3>1, <3>2, <3>3
    <2>5. Len(u) = 1 + Len(v) + Len(i)
        BY <2>2, <2>3
    <2> QED BY <2>4, <2>5 DEF u, t, one
<1>6. /\ Len(old) = 1 + n + Len(i)
      /\ \A k \in 1..(1 + n + Len(i)) :
            old[k] = IF k = 1 THEN y
                     ELSE IF k <= 1 + n THEN b[k - 1] ELSE i[k - (1 + n)]
    <2> DEFINE u == (<<y>> \o b) \o i
    <2>1. /\ Len(u) = 1 + Len(b) + Len(i)
          /\ \A k \in 1..(1 + Len(b) + Len(i)) :
                u[k] = IF k = 1 THEN y
                       ELSE IF k <= 1 + Len(b) THEN b[k - 1] ELSE i[k - (1 + Len(b))]
        BY <1>1, <1>3, <1>5
    <2>2. u = old
        BY <1>4
    <2> HIDE DEF u
    <2> QED BY <2>1, <2>2 DEF n
<1>7. /\ Len(new) = 1 + (n - 1) + Len(i)
      /\ \A k \in 1..(1 + (n - 1) + Len(i)) :
            new[k] = IF k = 1 THEN z
                     ELSE IF k <= 1 + (n - 1) THEN r[k - 1] ELSE i[k - (1 + (n - 1))]
    <2> DEFINE u == (<<z>> \o r) \o i
    <2>1. /\ Len(u) = 1 + Len(r) + Len(i)
          /\ \A k \in 1..(1 + Len(r) + Len(i)) :
                u[k] = IF k = 1 THEN z
                       ELSE IF k <= 1 + Len(r) THEN r[k - 1] ELSE i[k - (1 + Len(r))]
        BY <1>2, <1>3, <1>5
    <2>2. u = new /\ Len(r) = n - 1
        BY <1>2, <1>4
    <2> HIDE DEF u
    <2> QED BY <2>1, <2>2
<1>8. Len(i) \in Nat
    BY <1>1, LenProperties
<1>9. /\ Links(e, old) /\ Links(e, p)
      /\ p # <<>> => Joined(e, p[Len(p)], c)
      /\ ~q.waiting => IF p = <<>> THEN Joined(e, old[Len(old)], c)
                       ELSE Linked(e, old[Len(old)], p[1])
    BY DEF Continuous, old, i
<1>10. ASSUME NEW k \in 2..Len(new)
       PROVE  new[k] = old[k + 1]
    <2>1. k \in 1..(1 + (n - 1) + Len(i)) /\ k + 1 \in 1..(1 + n + Len(i)) /\ k # 1 /\ k + 1 # 1
        BY <1>2, <1>7, <1>8
    <2>2. CASE k <= n
        <3>1. new[k] = r[k - 1] /\ old[k + 1] = b[(k + 1) - 1] /\ k - 1 \in 1..(n - 1)
            BY <1>2, <1>6, <1>7, <2>1, <2>2
        <3>2. r[k - 1] = b[(k - 1) + 1]
            BY <1>2, <3>1
        <3> QED BY <3>1, <3>2
    <2>3. CASE ~(k <= n)
        <3>1. new[k] = i[k - (1 + (n - 1))] /\ old[k + 1] = i[(k + 1) - (1 + n)]
            BY <1>2, <1>6, <1>7, <2>1, <2>3
        <3>2. k - (1 + (n - 1)) = (k + 1) - (1 + n)
            BY <1>2
        <3> QED BY <3>1, <3>2
    <2> QED BY <2>2, <2>3
<1>11. /\ Len(new) \in Nat \ {0} /\ Len(old) = Len(new) + 1
       /\ new[1] = z /\ (z = Loose \/ z = old[2])
    <2>1. /\ 1 \in 1..(1 + (n - 1) + Len(i)) /\ 2 \in 1..(1 + n + Len(i)) /\ 2 <= 1 + n
          /\ 1 + (n - 1) + Len(i) \in Nat \ {0} /\ 1 + n + Len(i) = (1 + (n - 1) + Len(i)) + 1
        BY <1>2, <1>8
    <2>2. old[2] = b[2 - 1]
        BY <1>6, <2>1
    <2>3. old[2] = Head(b)
        BY <1>2, <2>2
    <2> QED BY <1>3, <1>6, <1>7, <2>1, <2>3
<1>12. ASSUME NEW k \in 1..(Len(new) - 1)
       PROVE  Linked(e, new[k], new[k + 1])
    <2>1. /\ k + 1 \in 2..Len(new) /\ k + 1 \in 1..(Len(old) - 1)
        BY <1>11
    <2>2. new[k + 1] = old[(k + 1) + 1] /\ Linked(e, old[k + 1], old[(k + 1) + 1])
        BY <1>9, <1>10, <2>1 DEF Links
    <2>3. CASE k = 1
        <3>1. new[k] = Loose \/ new[k] = old[k + 1]
            BY <1>11, <2>3
        <3> QED BY <2>2, <3>1 DEF Linked, Joined
    <2>4. CASE k # 1
        <3>1. k \in 2..Len(new)
            BY <1>11, <2>4
        <3> QED BY <1>10, <2>2, <3>1
    <2> QED BY <2>3, <2>4
<1>13. new[Len(new)] = Loose \/ new[Len(new)] = old[Len(old)]
    <2>1. CASE Len(new) = 1
        <3>1. Len(old) = 2
            BY <1>11, <2>1
        <3> QED BY <1>11, <2>1, <3>1
    <2>2. CASE Len(new) # 1
        <3>1. Len(new) \in 2..Len(new)
            <4> DEFINE k == Len(new)
            <4>1. k \in Nat \ {0} /\ k # 1
                BY <1>11, <2>2
            <4> HIDE DEF k
            <4>2. k \in 2..k
                BY <4>1
            <4> QED BY <4>2 DEF k
        <3>2. new[Len(new)] = old[Len(new) + 1]
            BY <1>10, <3>1
        <3> QED BY <1>11, <3>2
    <2> QED BY <2>1, <2>2
<1>14. Links(e, new)
    BY <1>12 DEF Links
<1>15. ~q.waiting => IF p = <<>> THEN Joined(e, new[Len(new)], c)
                     ELSE Linked(e, new[Len(new)], p[1])
    BY <1>9, <1>13 DEF Joined, Linked
<1> QED BY <1>9, <1>14, <1>15 DEF Continuous, new, r, i

\* The decoder takes the items in order.
LEMMA DecoderInOrder ==
    ASSUME NEW f \in Items, NEW b \in Seq(Items), b # <<>>, NEW i, NEW p, NEW c,
           InOrder(f, b, i, p, c), NEW g \in {f, Head(b)}
    PROVE  InOrder(g, Tail(b), i, p, c)
<1> DEFINE r == Tail(b)
           x == Head(b)
           B == ToSet(b)
           R == ToSet(r)
<1>1. Ascending(r) /\ Precedes({x}, R)
    BY AscendingTail DEF InOrder
<1>2. R \subseteq B /\ x \in B
    BY InTail
<1>3. /\ Ascending(i) /\ Ascending(p)
      /\ Precedes({f}, B)
      /\ Precedes({f} \cup B, ToSet(i))
      /\ Precedes({f} \cup B \cup ToSet(i), ToSet(p))
      /\ Precedes({f} \cup B \cup ToSet(i) \cup ToSet(p), {c})
    BY DEF InOrder
<1> DEFINE I == ToSet(i)
           P == ToSet(p)
<1> HIDE DEF B, R, r, x, I, P
<1>4. g = f \/ g = x
    BY DEF x
<1>5. Precedes({g}, R)
    BY <1>1, <1>2, <1>3, <1>4 DEF Precedes
<1>6. {g} \cup R \subseteq {f} \cup B
    BY <1>2, <1>4
<1>7. /\ Precedes({g} \cup R, I)
      /\ Precedes({g} \cup R \cup I, P)
      /\ Precedes({g} \cup R \cup I \cup P, {c})
    BY <1>3, <1>6 DEF Precedes, I, P
<1> QED BY <1>1, <1>3, <1>5, <1>7 DEF InOrder, I, P, R, r

\* The batch is taken out of the queue as a whole.
LEMMA BatchTaken ==
    ASSUME NEW d \in BOOLEAN, NEW f \in Items, NEW i \in Seq(Items)
    PROVE  Behind(d, f, <<>>) \o i = Behind(d, f, i) \o <<>>
<1> DEFINE y == IF d THEN f ELSE Loose
           one == <<y>>
<1>1. Behind(d, f, <<>>) = one \o <<>> /\ Behind(d, f, i) = one \o i
    BY DEF Behind
<1>2. y \in Stage /\ i \in Seq(Stage)
    BY DEF Stage
<1> HIDE DEF y
<1>3. one \in Seq(Stage)
    BY <1>2
<1> HIDE DEF one
<1>4. one \o <<>> = one
    BY <1>3, ConcatEmptySeq
<1>5. one \o i \in Seq(Stage)
    BY <1>2, <1>3, ConcatProperties
<1>6. (one \o i) \o <<>> = one \o i
    BY <1>5, ConcatEmptySeq
<1> QED BY <1>1, <1>4, <1>6

\* The frames that are due and the rest of the playout buffer.
LEMMA DueFacts ==
    ASSUME NEW p \in Seq(Frame), NEW n \in 1..Len(p)
    PROVE  LET t == SubSeq(p, 1, n)
               o == SubSeq(p, n + 1, Len(p))
           IN  /\ t \in Seq(Frame) /\ Len(t) = n /\ \A k \in 1..n : t[k] = p[k]
               /\ o \in Seq(Frame) /\ Len(o) = Len(p) - n
               /\ \A k \in 1..(Len(p) - n) : o[k] = p[n + k]
               /\ ToSet(t) \subseteq ToSet(p) /\ ToSet(o) \subseteq ToSet(p)
               /\ Ascending(p) => /\ Ascending(t) /\ Ascending(o)
                                  /\ Precedes(ToSet(t), ToSet(o))
<1> DEFINE t == SubSeq(p, 1, n)
           o == SubSeq(p, n + 1, Len(p))
           m == Len(p)
<1>1. m \in Nat /\ \A k \in 1..m : p[k] \in Frame
    BY LenProperties, ElementOfSeq
<1>2. t \in Seq(Frame) /\ Len(t) = n /\ \A k \in 1..n : t[k] = p[k]
    <2>1. 1 \in Int /\ n \in Int /\ \A k \in 1..n : p[k] \in Frame
        BY <1>1
    <2>2. /\ t \in Seq(Frame) /\ Len(t) = IF 1 <= n THEN n - 1 + 1 ELSE 0
          /\ \A k \in 1..(n - 1 + 1) : t[k] = p[1 + k - 1]
        BY <2>1, SubSeqProperties
    <2> HIDE DEF t
    <2>3. \A k \in 1..n : 1 + k - 1 = k
        OBVIOUS
    <2> QED BY <1>1, <2>2, <2>3
<1>3. o \in Seq(Frame) /\ Len(o) = m - n /\ \A k \in 1..(m - n) : o[k] = p[n + k]
    <2>1. n + 1 \in Int /\ m \in Int /\ \A k \in (n + 1)..m : p[k] \in Frame
        BY <1>1
    <2>2. /\ o \in Seq(Frame) /\ Len(o) = IF n + 1 <= m THEN m - (n + 1) + 1 ELSE 0
          /\ \A k \in 1..(m - (n + 1) + 1) : o[k] = p[(n + 1) + k - 1]
        BY <2>1, SubSeqProperties
    <2> HIDE DEF o
    <2>3. /\ \A k \in 1..(m - n) : (n + 1) + k - 1 = n + k
          /\ m - (n + 1) + 1 = m - n
          /\ ~(n + 1 <= m) => m - n = 0
        BY <1>1
    <2> QED BY <1>1, <2>2, <2>3
<1> HIDE DEF t, o, m
<1>4. ASSUME NEW x \in ToSet(t)
      PROVE  \E k \in 1..n : x = p[k]
    BY <1>2, InSeq
<1>5. ASSUME NEW x \in ToSet(o)
      PROVE  \E k \in 1..(m - n) : x = p[n + k]
    BY <1>3, InSeq
<1>6. ToSet(t) \subseteq ToSet(p) /\ ToSet(o) \subseteq ToSet(p)
    <2>1. /\ \A k \in 1..n : k \in 1..m
          /\ \A k \in 1..(m - n) : n + k \in 1..m
        BY <1>1 DEF m
    <2>2. \A k \in 1..m : p[k] \in ToSet(p)
        BY InSeq DEF m
    <2> QED BY <1>4, <1>5, <2>1, <2>2
<1>7. ASSUME Ascending(p)
      PROVE  Ascending(t) /\ Ascending(o) /\ Precedes(ToSet(t), ToSet(o))
    <2>0. n \in 1..m
        BY DEF m
    <2>1. \A j, k \in 1..m : j < k /\ p[j] # Reset /\ p[k] # Reset => Before(p[j], p[k])
        BY <1>7 DEF Ascending, m
    <2>2. Ascending(t)
        <3>1. \A k \in 1..n : k \in 1..m
            BY <1>1, <2>0
        <3> QED BY <1>2, <2>1, <3>1 DEF Ascending
    <2>3. Ascending(o)
        <3>1. ASSUME NEW j \in 1..(m - n), NEW k \in 1..(m - n), j < k,
                     o[j] # Reset, o[k] # Reset
              PROVE  Before(o[j], o[k])
            <4>1. n + j \in 1..m /\ n + k \in 1..m /\ n + j < n + k
                BY <1>1, <2>0, <3>1
            <4> QED BY <1>3, <2>1, <3>1, <4>1
        <3> QED BY <1>3, <3>1 DEF Ascending
    <2>4. Precedes(ToSet(t), ToSet(o))
        <3>1. ASSUME NEW x \in ToSet(t), NEW y \in ToSet(o), x # Reset, y # Reset
              PROVE  Before(x, y)
            <4>1. PICK j \in 1..n : x = p[j]
                BY <1>4
            <4>2. PICK k \in 1..(m - n) : y = p[n + k]
                BY <1>5
            <4>3. j \in 1..m /\ n + k \in 1..m /\ j < n + k
                BY <1>1, <2>0
            <4> QED BY <2>1, <3>1, <4>1, <4>2, <4>3
        <3> QED BY <3>1 DEF Precedes
    <2> QED BY <2>2, <2>3, <2>4
<1> QED BY <1>2, <1>3, <1>6, <1>7 DEF t, o, m

\* Frames that are due leave the playout buffer for the queue in their order.
LEMMA DueInOrder ==
    ASSUME NEW f \in Items, NEW b \in Seq(Items), NEW q, QueueOK(q), NEW p \in Seq(Frame),
           NEW c, InOrder(f, b, q.items, p, c), NEW n \in 1..Len(p)
    PROVE  LET r == Enqueue(q, SubSeq(p, 1, n))
               o == SubSeq(p, n + 1, Len(p))
           IN  QueueOK(r) /\ o \in Seq(Frame) /\ InOrder(f, b, r.items, o, c)
<1> DEFINE t == SubSeq(p, 1, n)
           o == SubSeq(p, n + 1, Len(p))
           r == Enqueue(q, t)
           B == {f} \cup ToSet(b)
           I == ToSet(q.items)
           P == ToSet(p)
           T == ToSet(t)
           O == ToSet(o)
           R == ToSet(r.items)
<1>1. /\ Ascending(b) /\ Ascending(q.items) /\ Ascending(p)
      /\ Precedes({f}, ToSet(b))
      /\ Precedes(B, I)
      /\ Precedes(B \cup I, P)
      /\ Precedes(B \cup I \cup P, {c})
    BY DEF InOrder
<1>2. /\ t \in Seq(Frame) /\ o \in Seq(Frame)
      /\ T \subseteq P /\ O \subseteq P
      /\ Ascending(t) /\ Ascending(o) /\ Precedes(T, O)
    BY <1>1, DueFacts
<1> HIDE DEF t, o, B, P, T, O
<1>3. Precedes(I, T)
    BY <1>1, <1>2 DEF Precedes
<1>4. QueueOK(r) /\ Ascending(r.items) /\ R \subseteq I \cup {Reset} \cup T
    BY <1>1, <1>2, <1>3, EnqueueInOrder DEF T
<1> HIDE DEF r, R, I
<1>5. Precedes(B, R)
    BY <1>1, <1>2, <1>4 DEF Precedes
<1>6. Precedes(B \cup R, O)
    BY <1>1, <1>2, <1>4 DEF Precedes
<1>7. Precedes(B \cup R \cup O, {c})
    BY <1>1, <1>2, <1>4 DEF Precedes
<1> QED BY <1>1, <1>2, <1>4, <1>5, <1>6, <1>7 DEF InOrder, B, O, R, r, o, t

\* And without a break.
LEMMA DueLinks ==
    ASSUME NEW e, NEW d \in BOOLEAN, NEW f \in Items, NEW b \in Seq(Items),
           NEW q, QueueOK(q), NEW p \in Seq(Frame), NEW c,
           Continuous(e, d, f, b, q, p, c), NEW n \in 1..Len(p)
    PROVE  Continuous(e, d, f, b, Enqueue(q, SubSeq(p, 1, n)), SubSeq(p, n + 1, Len(p)), c)
<1> DEFINE t == SubSeq(p, 1, n)
           o == SubSeq(p, n + 1, Len(p))
           r == Enqueue(q, t)
           m == Len(p)
           z == Behind(d, f, b)
           old == z \o q.items
           new == z \o r.items
<1>1. /\ t \in Seq(Frame) /\ Len(t) = n /\ \A k \in 1..n : t[k] = p[k]
      /\ o \in Seq(Frame) /\ Len(o) = m - n
      /\ \A k \in 1..(m - n) : o[k] = p[n + k]
    BY DueFacts
<1>2. m \in Nat /\ n \in 1..m
    BY LenProperties
<1>3. /\ Links(e, old) /\ Links(e, p)
      /\ p # <<>> => Joined(e, p[m], c)
      /\ ~q.waiting => IF p = <<>> THEN Joined(e, old[Len(old)], c)
                       ELSE Linked(e, old[Len(old)], p[1])
    BY DEF Continuous
<1>4. p # <<>> /\ t # <<>>
    <2>1. Len(<<>>) = 0
        BY EmptySeq
    <2> HIDE DEF t
    <2> QED BY <1>1, <1>2, <2>1 DEF m
<1>5. Links(e, t) /\ Links(e, o)
    <2>1. p \in Seq(Stage)
        BY DEF Stage, Items
    <2>2. /\ 1 \in 1..(Len(p) + 1) /\ n \in 0..Len(p)
          /\ n + 1 \in 1..(Len(p) + 1) /\ Len(p) \in 0..Len(p)
        BY <1>2
    <2> QED BY <1>3, <2>1, <2>2, LinksSubSeq
<1>6. z \in Seq(Stage) /\ z # <<>>
    <2>1. <<>> \in Seq(Items)
        BY EmptySeq
    <2> QED BY <2>1, BehindFacts
<1> HIDE DEF t, o, m, z
<1>7. t[1] = p[1] /\ t[Len(t)] = p[n]
    BY <1>1, <1>2
<1>8. Links(e, new) /\ (~r.waiting => new[Len(new)] = p[n])
    <2>1. ~q.waiting => Linked(e, (z \o q.items)[Len(z \o q.items)], t[1])
        BY <1>3, <1>4, <1>7
    <2>2. Links(e, z \o q.items)
        BY <1>3
    <2>3. /\ Links(e, z \o r.items)
          /\ ~r.waiting => (z \o r.items)[Len(z \o r.items)] = t[Len(t)]
        <3>1. /\ t \in Seq(Frame) /\ t # <<>> /\ Links(e, t)
              /\ z \in Seq(Stage) /\ z # <<>> /\ QueueOK(q)
            BY <1>1, <1>4, <1>5, <1>6
        <3> QED BY <2>1, <2>2, <3>1, EnqueueLinks
    <2> QED BY <1>7, <2>3
<1> HIDE DEF new, r
<1>9. o # <<>> => m - n # 0
    BY <1>1, <1>2, EmptySeq
<1>10. o # <<>> => Joined(e, o[Len(o)], c)
    <2>1. m - n # 0 => m - n \in 1..(m - n) /\ n + (m - n) = m
        BY <1>2
    <2>2. o # <<>> => o[Len(o)] = p[m]
        BY <1>1, <1>9, <2>1
    <2> QED BY <1>3, <1>4, <2>2
<1>11. ~r.waiting => IF o = <<>> THEN Joined(e, new[Len(new)], c)
                     ELSE Linked(e, new[Len(new)], o[1])
    <2>1. CASE o = <<>>
        <3>1. m = n
            BY <1>1, <1>2, <2>1, EmptySeq
        <3> QED BY <1>3, <1>4, <1>8, <2>1, <3>1
    <2>2. CASE o # <<>>
        <3>1. 1 \in 1..(m - n) /\ n \in 1..(m - 1)
            BY <1>2, <1>9, <2>2
        <3>2. o[1] = p[n + 1] /\ Linked(e, p[n], p[n + 1])
            BY <1>1, <1>3, <3>1 DEF Links, m
        <3> QED BY <1>8, <2>2, <3>2
    <2> QED BY <2>1, <2>2
<1> QED BY <1>5, <1>8, <1>10, <1>11 DEF Continuous, new, z, r, o, t, m

-----------------------------------------------------------------------------
(* The inductive invariant. *)

\* The types of everything behind the reassembler.
Types ==
    /\ announced \in 1..Sessions
    /\ playout \in Seq(Frame)
    /\ QueueOK(queue)
    /\ batch \in Seq(Items)
    /\ decoding \in BOOLEAN
    /\ fed \in Items
    /\ early \in SUBSET Frame

\* The release order begins with the first packet, and before that there is nothing.
SessionOK ==
    /\ asm.session <= announced
    /\ asm.session = 0 <=> asm.next = None
    /\ asm.session = 0 => /\ batch = <<>> /\ queue.items = <<>> /\ playout = <<>>
                          /\ ~decoding /\ fed = Reset

\* The inductive invariant.
VideoInv ==
    /\ AssemblerOK(asm)
    /\ Types
    /\ SessionOK
    /\ InOrder(fed, batch, queue.items, playout, Cursor(asm))
    /\ Continuous(early, decoding, fed, batch, queue, playout, Cursor(asm))
    /\ KnownLosses(early, asm)

\* The losses are frames of a session.
LEMMA LossesAreFrames ==
    ASSUME NEW e \in SUBSET Frame, NEW a, a.session \in 1..Sessions, NEW t, Released(a, t)
    PROVE  Losses(e, t) \in SUBSET Frame
<1>1. t.asm.session \in 1..Sessions /\ TooEarly(t) \in SUBSET Frames
    BY DEF Released, TooEarly
<1> QED BY <1>1 DEF Losses, Frame

\* Nothing has been received yet.
LEMMA FreshOK ==
    ASSUME NEW s \in 0..Sessions
    PROVE  /\ AssemblerOK(FreshAssembler(s)) /\ FreshAssembler(s).session = s
           /\ FreshAssembler(s).next = None
           /\ \A e : KnownLosses(e, FreshAssembler(s))
<1> DEFINE a == FreshAssembler(s)
<1>1. /\ a.session = s /\ a.next = None /\ a.high = None /\ a.order = <<>>
      /\ a.complete = {} /\ a.skipped = {} /\ a.blocked = FALSE /\ a.slots = 0 /\ a.bytes = 0
    BY DEF FreshAssembler
<1>2. a \in Assembler
    <2>1. /\ None \in None..(LastFrame + 1) /\ None \in None..LastFrame
        BY ReceiveAssumption DEF None
    <2>2. <<>> \in Seq(Flight)
        BY EmptySeq
    <2> QED BY <2>1, <2>2 DEF FreshAssembler, Assembler
<1> HIDE DEF a
<1>3. OrderOK(a.order)
    <2>1. <<>> \in Seq(Flight) /\ Len(<<>>) = 0
        BY EmptySeq
    <2>2. 1..0 = {}
        OBVIOUS
    <2> QED BY <1>1, <2>1, <2>2 DEF OrderOK
<1>4. BudgetOK(a)
    <2>1. InFlight(a) = {}
        BY <1>1 DEF InFlight
    <2>2. {} \in SUBSET Frames
        OBVIOUS
    <2>3. Slots[InFlight(a)] = 0 /\ Bytes[InFlight(a)] = 0
        BY <2>1, <2>2, ReservationType
    <2>4. Len(a.order) = 0
        BY <1>1, EmptySeq
    <2>5. MaxFrames >= 0 /\ MaxSlots >= 0 /\ MaxBytes >= 0
        BY ReceiveAssumption
    <2> QED BY <1>1, <2>3, <2>4, <2>5 DEF BudgetOK
<1>5. AssemblerOK(a)
    BY <1>1, <1>2, <1>3, <1>4 DEF AssemblerOK, IdleOK
<1>6. \A e : KnownLosses(e, a)
    BY <1>1 DEF KnownLosses
<1> QED BY <1>1, <1>5, <1>6 DEF a

\* It holds before the first packet: there is nothing to be out of order or joined.
LEMMA VideoInit == Init => VideoInv
<1> SUFFICES ASSUME Init
             PROVE  VideoInv
    OBVIOUS
<1>1. /\ asm = FreshAssembler(0) /\ announced = 1 /\ playout = <<>>
      /\ queue = [items |-> <<>>, waiting |-> FALSE, gate |-> FALSE]
      /\ batch = <<>> /\ decoding = FALSE /\ fed = Reset /\ early = {}
    BY DEF Init
<1>2. /\ AssemblerOK(asm) /\ asm.session = 0 /\ asm.next = None /\ KnownLosses(early, asm)
    BY <1>1, FreshOK, ReceiveAssumption
<1>3. queue.items = <<>> /\ QueueOK(queue)
    <2>1. <<>> \in Seq(Items)
        BY EmptySeq
    <2> QED BY <1>1, <2>1 DEF QueueOK
<1>4. Types
    <2>1. <<>> \in Seq(Items) /\ <<>> \in Seq(Frame)
        BY EmptySeq
    <2>2. 1 \in 1..Sessions
        BY ReceiveAssumption
    <2> QED BY <1>1, <1>3, <2>1, <2>2 DEF Types, Items
<1>5. SessionOK
    BY <1>1, <1>2, <1>3 DEF SessionOK
<1>6. InOrder(fed, batch, queue.items, playout, Cursor(asm))
    <2>1. Ascending(<<>>) /\ ToSet(<<>>) = {}
        BY DEF Ascending, ToSet
    <2>2. \A A, B : A \subseteq {Reset} => Precedes(A, B)
        BY DEF Precedes
    <2> QED BY <1>1, <1>3, <2>1, <2>2 DEF InOrder
<1>7. Continuous(early, decoding, fed, batch, queue, playout, Cursor(asm))
    <2>1. Behind(decoding, fed, batch) \o queue.items = <<Loose>>
        <3>1. Behind(decoding, fed, batch) = <<Loose>>
            BY <1>1 DEF Behind
        <3> QED BY <1>3, <3>1
    <2>2. \A e : Links(e, <<>>) /\ Links(e, <<Loose>>)
        BY DEF Links
    <2>3. \A e, c : Joined(e, Loose, c)
        BY DEF Joined
    <2> QED BY <1>1, <2>1, <2>2, <2>3 DEF Continuous
<1> QED BY <1>2, <1>4, <1>5, <1>6, <1>7 DEF VideoInv

\* Every reassembly step of a session keeps the invariant.
LEMMA DeliverKeeps ==
    ASSUME Types, NEW a, AssemblerOK(a), a.session \in 1..Sessions, a.session <= announced,
           NEW s, StepFrom(a, s), s.asm.next # None, NEW waited \in BOOLEAN,
           NEW p \in Seq(Frame), NEW q, QueueOK(q),
           InOrder(fed, batch, q.items, p, Cursor(a)),
           Continuous(early, decoding, fed, batch, q, p, Cursor(a)),
           KnownLosses(early, a),
           a.next = None =>
              /\ p = <<>>
              /\ q.waiting \/ (batch = <<>> /\ q.items = <<>> /\ ~decoding),
           Deliver(s, waited, p, q), UNCHANGED <<announced, batch, decoding, fed>>
    PROVE  VideoInv'
<1> DEFINE t == TakeReady(s, waited)
           n == (IF t.lost = {} THEN p ELSE <<>>) \o Sent(a.session, t.out)
           r == IF t.lost = {} THEN q ELSE BeginRecovery(q)
<1>1. a.next \in Int /\ None <= a.next
    BY DEF AssemblerOK, Assembler, None
<1>2. Released(a, t) /\ t.asm.next # None
    BY <1>1, TakeReadyFacts
<1>3. AssemblerOK(t.asm) /\ t.asm.session = a.session
    BY <1>2 DEF Released
<1>4. /\ asm' = t.asm
      /\ playout' = PushFrames(IF t.lost = {} THEN p ELSE Cleared, t.asm.session, t.out)
      /\ queue' = r
      /\ early' = early \cup [session : {t.asm.session}, id : TooEarly(t)]
    BY DEF Deliver
<1> HIDE DEF t
<1>5. playout' = n
    BY <1>3, <1>4 DEF PushFrames, Cleared, Sent
<1>6. early' = Losses(early, t)
    BY <1>4 DEF Losses
<1>7. batch' = batch /\ decoding' = decoding /\ fed' = fed /\ announced' = announced
    OBVIOUS
<1>8. QueueOK(r) /\ r.items \in {q.items, <<Reset>>}
    BY RecoveryFacts
<1>9. /\ announced \in 1..Sessions /\ batch \in Seq(Items) /\ decoding \in BOOLEAN
      /\ fed \in Items /\ early \in SUBSET Frame /\ q.items \in Seq(Items)
    BY DEF Types, QueueOK
<1> HIDE DEF n, r
<1>10. n \in Seq(Frame) /\ InOrder(fed, batch, r.items, n, Cursor(t.asm))
    BY <1>2, <1>8, <1>9, DeliverOrder DEF n
<1>11. Continuous(Losses(early, t), decoding, fed, batch, r, n, Cursor(t.asm))
       /\ KnownLosses(Losses(early, t), t.asm)
    BY <1>2, <1>9, DeliverLinks DEF n, r
<1>12. Losses(early, t) \in SUBSET Frame
    BY <1>2, <1>9, LossesAreFrames
<1>13. Types'
    BY <1>4, <1>5, <1>6, <1>7, <1>8, <1>9, <1>10, <1>12 DEF Types
<1>14. SessionOK'
    BY <1>2, <1>3, <1>4, <1>7 DEF SessionOK
<1>15. AssemblerOK(asm')
    BY <1>3, <1>4
<1>16. InOrder(fed', batch', queue'.items, playout', Cursor(asm'))
    BY <1>4, <1>5, <1>7, <1>10
<1>17. /\ Continuous(early', decoding', fed', batch', queue', playout', Cursor(asm'))
       /\ KnownLosses(early', asm')
    BY <1>4, <1>5, <1>6, <1>7, <1>11
<1> QED BY <1>13, <1>14, <1>15, <1>16, <1>17 DEF VideoInv

\* A packet of the session, or of the session that begins with it.
LEMMA ReceivePacketKeeps ==
    ASSUME VideoInv, NEW s \in 1..Sessions, NEW f \in Frames, NEW waited \in BOOLEAN,
           NEW i \in Packets(f), ReceivePacket(s, f, i, waited)
    PROVE  VideoInv'
<1> DEFINE a == [asm EXCEPT !.session = s]
<1>1. /\ AssemblerOK(asm) /\ Types /\ SessionOK /\ KnownLosses(early, asm)
      /\ InOrder(fed, batch, queue.items, playout, Cursor(asm))
      /\ Continuous(early, decoding, fed, batch, queue, playout, Cursor(asm))
    BY DEF VideoInv
<1>2. /\ s <= announced /\ asm.session \in {0, s}
      /\ Deliver(Accept(a, f, i), waited, playout, queue)
      /\ UNCHANGED <<announced, batch, decoding, fed>>
    BY DEF ReceivePacket
<1>3. i \in 0..Size[f]
    BY ReceiveAssumption DEF Packets
<1>4. asm \in Assembler /\ OrderOK(asm.order) /\ BudgetOK(asm) /\ IdleOK(asm)
    BY <1>1 DEF AssemblerOK
<1>5. /\ a \in Assembler /\ a.session = s /\ a.next = asm.next /\ a.order = asm.order
      /\ a.complete = asm.complete /\ a.skipped = asm.skipped
      /\ a.slots = asm.slots /\ a.bytes = asm.bytes
    BY <1>4 DEF Assembler
<1> HIDE DEF a
<1>6. AssemblerOK(a)
    BY <1>1, <1>4, <1>5 DEF AssemblerOK, BudgetOK, IdleOK, InFlight
<1>7. StepFrom(a, Accept(a, f, i)) /\ Accept(a, f, i).asm.next # None
    BY <1>3, <1>6, AcceptStep
<1>8. QueueOK(queue) /\ playout \in Seq(Frame) /\ queue.items \in Seq(Items)
    BY <1>1 DEF Types, QueueOK
<1>9. CASE asm.session = s
    <2>1. asm.next # None
        BY <1>1, <1>9 DEF SessionOK
    <2>2. Cursor(a) = Cursor(asm) /\ KnownLosses(early, a)
        BY <1>1, <1>5, <1>9 DEF Cursor, KnownLosses
    <2> QED BY <1>1, <1>2, <1>5, <1>6, <1>7, <1>8, <2>1, <2>2, DeliverKeeps
<1>10. CASE asm.session = 0
    <2>1. /\ asm.next = None /\ batch = <<>> /\ queue.items = <<>> /\ playout = <<>>
          /\ ~decoding /\ fed = Reset
        BY <1>1, <1>10 DEF SessionOK
    <2>2. KnownLosses(early, a)
        BY <1>4, <1>5, <2>1 DEF KnownLosses, IdleOK
    <2>3. InOrder(fed, batch, queue.items, playout, Cursor(a))
        <3>1. ToSet(<<>>) = {}
            BY DEF ToSet
        <3>2. \A A, B : A \subseteq {Reset} => Precedes(A, B)
            BY DEF Precedes
        <3> QED BY <1>1, <2>1, <3>1, <3>2 DEF InOrder
    <2>4. Continuous(early, decoding, fed, batch, queue, playout, Cursor(a))
        <3>1. Behind(decoding, fed, batch) \o queue.items = <<Loose>>
            <4>1. Behind(decoding, fed, batch) = <<Loose>>
                BY <2>1 DEF Behind
            <4> QED BY <2>1, <4>1
        <3>2. \A e, c : Joined(e, Loose, c)
            BY DEF Joined
        <3> QED BY <1>1, <2>1, <3>1, <3>2 DEF Continuous
    <2> QED BY <1>1, <1>2, <1>5, <1>6, <1>7, <1>8, <2>1, <2>2, <2>3, <2>4, DeliverKeeps
<1> QED BY <1>2, <1>9, <1>10

\* The queue at a profile transition.
LEMMA BeginProfileFacts ==
    ASSUME NEW q, QueueOK(q)
    PROVE  LET r == BeginProfile(q)
           IN  QueueOK(r) /\ r.waiting /\ r.items = <<Reset>>
<1> DEFINE one == <<Reset>>
           r == [[q EXCEPT !.items = one, !.waiting = TRUE] EXCEPT !.gate = FALSE]
<1>1. BeginProfile(q) = r
    BY DEF BeginProfile, Restart
<1>2. one \in Seq(Items)
    BY DEF Items
<1> HIDE DEF one
<1>3. r.items = one /\ r.waiting /\ QueueOK(r)
    BY <1>2 DEF QueueOK
<1> QED BY <1>1, <1>3 DEF one

\* The first packet of the next session.
LEMMA SwitchSessionKeeps ==
    ASSUME VideoInv, NEW s \in 1..Sessions, NEW f \in Frames, NEW waited \in BOOLEAN,
           NEW i \in Packets(f), SwitchSession(s, f, i, waited)
    PROVE  VideoInv'
<1> DEFINE a == FreshAssembler(s)
           q == BeginProfile(queue)
<1>1. /\ AssemblerOK(asm) /\ Types /\ SessionOK
      /\ InOrder(fed, batch, queue.items, playout, Cursor(asm))
      /\ Continuous(early, decoding, fed, batch, queue, playout, Cursor(asm))
    BY DEF VideoInv
<1>2. /\ s = announced /\ asm.session \notin {0, s}
      /\ Deliver(Accept(a, f, i), waited, <<>>, q)
      /\ UNCHANGED <<announced, batch, decoding, fed>>
    BY DEF SwitchSession, Cleared
<1>3. i \in 0..Size[f]
    BY ReceiveAssumption DEF Packets
<1>4. AssemblerOK(a) /\ a.session = s /\ a.next = None /\ KnownLosses(early, a)
    BY FreshOK
<1>5. QueueOK(q) /\ q.waiting /\ q.items = <<Reset>>
    BY <1>1, BeginProfileFacts DEF Types
<1> HIDE DEF a, q
<1>6. StepFrom(a, Accept(a, f, i)) /\ Accept(a, f, i).asm.next # None
    BY <1>3, <1>4, AcceptStep
<1>7. /\ batch \in Seq(Items) /\ decoding \in BOOLEAN /\ fed \in Items /\ <<>> \in Seq(Frame)
      /\ queue.items \in Seq(Items)
    BY <1>1, EmptySeq DEF Types, QueueOK
<1>8. asm.session \in Int /\ asm.session # 0 /\ asm.session < s /\ asm.session \in 0..Sessions
      /\ asm.next \in Int
    <2>1. asm.session \in 0..Sessions /\ asm.next \in Int
        BY <1>1 DEF AssemblerOK, Assembler, None
    <2>2. asm.session <= s /\ asm.session # 0 /\ asm.session # s
        BY <1>1, <1>2 DEF SessionOK
    <2> QED BY <2>1, <2>2
<1>9. InOrder(fed, batch, q.items, <<>>, Cursor(a))
    <2> DEFINE B == {fed} \cup ToSet(batch)
               J == ToSet(q.items)
    <2>1. J = {Reset} /\ Ascending(q.items) /\ Ascending(<<>>) /\ ToSet(<<>>) = {}
        BY <1>5 DEF ToSet, Ascending
    <2>2. B \in SUBSET Items
        BY <1>7, InSeq
    <2>3. Precedes(B, {Cursor(asm)}) /\ Ascending(batch) /\ Precedes({fed}, ToSet(batch))
        BY <1>1 DEF InOrder, Precedes
    <2> HIDE DEF B, J
    <2>4. Precedes(B, {Cursor(a)})
        <3> DEFINE c == Cursor(asm)
                   d == Cursor(a)
        <3>1. /\ c \in Places /\ d \in Places /\ c.session = asm.session /\ d.session = s
              /\ c # Reset
            BY <1>4, <1>8 DEF Cursor, Places, Reset, None
        <3>2. c.session < d.session
            BY <1>8, <3>1
        <3> HIDE DEF c, d
        <3> QED BY <2>2, <2>3, <3>1, <3>2, CursorMoves DEF c, d
    <2>5. /\ Precedes(B, J) /\ Precedes(B \cup J, {}) /\ Precedes(B \cup J \cup {}, {Cursor(a)})
        BY <2>1, <2>4 DEF Precedes
    <2> QED BY <2>1, <2>3, <2>5 DEF InOrder, B, J
<1>10. Continuous(early, decoding, fed, batch, q, <<>>, Cursor(a))
    <2> DEFINE z == Behind(decoding, fed, batch)
    <2>1. z \in Seq(Stage) /\ z # <<>> /\ queue.items \in Seq(Stage)
        BY <1>7, BehindFacts DEF Stage
    <2>2. Links(early, z \o queue.items)
        BY <1>1 DEF Continuous
    <2> HIDE DEF z
    <2>3. Links(early, z)
        BY <2>1, <2>2, LinksPrefix
    <2>4. Reset \in Stage /\ Linked(early, z[Len(z)], Reset)
        BY DEF Stage, Items, Linked
    <2>5. Links(early, Append(z, Reset)) /\ z \o <<Reset>> = Append(z, Reset)
        BY <2>1, <2>3, <2>4, LinksAppend, AppendIsConcat
    <2>6. Links(early, <<>>)
        BY DEF Links
    <2> QED BY <1>5, <2>5, <2>6 DEF Continuous, z
<1>11. s <= announced
    BY <1>2
<1> QED BY <1>1, <1>2, <1>4, <1>5, <1>6, <1>7, <1>9, <1>10, <1>11, DeliverKeeps

\* Frames time out.
LEMMA ExpireKeeps ==
    ASSUME VideoInv, NEW k \in 0..MaxFrames, NEW waited \in BOOLEAN, Expire(k, waited)
    PROVE  VideoInv'
<1>1. /\ AssemblerOK(asm) /\ Types /\ SessionOK /\ KnownLosses(early, asm)
      /\ InOrder(fed, batch, queue.items, playout, Cursor(asm))
      /\ Continuous(early, decoding, fed, batch, queue, playout, Cursor(asm))
    BY DEF VideoInv
<1>2. /\ k <= Len(asm.order) /\ Deliver(TimedOut(k), waited, playout, queue)
      /\ UNCHANGED <<announced, batch, decoding, fed>>
    BY DEF Expire
<1>3. StepFrom(asm, TimedOut(k)) /\ TimedOut(k).asm.next = asm.next
    <2>1. Len(asm.order) \in Nat
        BY <1>1, LenProperties DEF AssemblerOK, OrderOK
    <2>2. k \in 0..Len(asm.order)
        BY <1>2, <2>1
    <2> QED BY <1>1, <2>2, TimedOutStep
<1>4. QueueOK(queue) /\ playout \in Seq(Frame)
    BY <1>1 DEF Types
<1>5. asm.next \in Int /\ None <= asm.next /\ asm.session \in 0..Sessions
    BY <1>1 DEF AssemblerOK, Assembler, None
<1>6. CASE asm.next # None
    <2>1. asm.session \in 1..Sessions /\ asm.session <= announced
        BY <1>1, <1>5, <1>6 DEF SessionOK
    <2> DEFINE s == TimedOut(k)
    <2>2. StepFrom(asm, s) /\ s.asm.next # None /\ Deliver(s, waited, playout, queue)
        BY <1>2, <1>3, <1>6
    <2> HIDE DEF s
    <2> QED BY <1>1, <1>2, <1>4, <1>6, <2>1, <2>2, DeliverKeeps
<1>7. CASE asm.next = None
    <2> DEFINE s == TimedOut(k)
               t == TakeReady(s, waited)
    <2>1. Released(asm, t) /\ t.asm.next = None
        <3>1. StepFrom(asm, s) /\ s.asm.next = None
            BY <1>3, <1>7
        <3> HIDE DEF s
        <3> QED BY <1>5, <3>1, TakeReadyFacts
    <2>2. /\ asm' = t.asm
          /\ playout' = PushFrames(IF t.lost = {} THEN playout ELSE Cleared,
                                   t.asm.session, t.out)
          /\ queue' = IF t.lost = {} THEN queue ELSE BeginRecovery(queue)
          /\ early' = early \cup [session : {t.asm.session}, id : TooEarly(t)]
        BY <1>2 DEF Deliver
    <2> HIDE DEF s, t
    <2>3. /\ t.lost = {} /\ AssemblerOK(t.asm) /\ t.asm.session = asm.session
          /\ t.out \in Seq(Frames) /\ \A x \in ToSet(t.out) : asm.next <= x /\ x < t.asm.next
          /\ t.asm.skipped \subseteq asm.skipped \cup t.lost
        BY <2>1 DEF Released
    <2>4. t.out = <<>>
        <3>1. SUFFICES ASSUME t.out # <<>> PROVE FALSE
            OBVIOUS
        <3>2. Len(t.out) \in Nat \ {0}
            BY <2>3, <3>1, EmptySeq
        <3>3. 1 \in 1..Len(t.out)
            BY <3>2
        <3>4. t.out[1] \in ToSet(t.out) /\ t.out[1] \in Int
            <4>1. t.out[1] \in ToSet(t.out)
                BY <2>3, <3>3, InSeq
            <4>2. t.out[1] \in Frames
                BY <2>3, <3>3, ElementOfSeq
            <4> QED BY <4>1, <4>2 DEF Frames
        <3>5. asm.next <= t.out[1] /\ t.out[1] < asm.next
            BY <1>7, <2>1, <2>3, <3>4
        <3> QED BY <1>5, <3>4, <3>5
    <2>5. playout' = playout
        <3>1. PushFrames(playout, t.asm.session, <<>>) = playout \o <<>>
            BY DEF PushFrames
        <3>2. playout \o <<>> = playout
            BY <1>4, ConcatEmptySeq
        <3> QED BY <2>2, <2>3, <2>4, <3>1, <3>2
    <2>6. TooEarly(t) = {}
        BY <2>3 DEF TooEarly
    <2>7. early' = early /\ queue' = queue
        BY <2>2, <2>3, <2>6
    <2>8. Cursor(asm') = Cursor(asm) /\ asm'.session = asm.session /\ asm'.next = asm.next
        BY <1>7, <2>1, <2>2, <2>3 DEF Cursor
    <2>9. asm'.skipped \subseteq asm.skipped
        BY <2>2, <2>3
    <2>10. KnownLosses(early', asm')
        BY <1>1, <2>7, <2>8, <2>9 DEF KnownLosses
    <2>11. AssemblerOK(asm')
        BY <2>2, <2>3
    <2>12. Types' /\ SessionOK'
        BY <1>1, <1>2, <2>5, <2>7, <2>8 DEF Types, SessionOK
    <2>13. /\ InOrder(fed', batch', queue'.items, playout', Cursor(asm'))
           /\ Continuous(early', decoding', fed', batch', queue', playout', Cursor(asm'))
        BY <1>1, <1>2, <2>5, <2>7, <2>8
    <2> QED BY <2>10, <2>11, <2>12, <2>13 DEF VideoInv
<1> QED BY <1>6, <1>7

\* The buffered frames that are due enter the queue.
LEMMA ReleaseDueKeeps ==
    ASSUME VideoInv, NEW n \in 1..Len(playout), ReleaseDue(n)
    PROVE  VideoInv'
<1> DEFINE r == Enqueue(queue, SubSeq(playout, 1, n))
           o == SubSeq(playout, n + 1, Len(playout))
<1>1. /\ AssemblerOK(asm) /\ Types /\ SessionOK /\ KnownLosses(early, asm)
      /\ InOrder(fed, batch, queue.items, playout, Cursor(asm))
      /\ Continuous(early, decoding, fed, batch, queue, playout, Cursor(asm))
    BY DEF VideoInv
<1>2. /\ playout' = o /\ queue' = r
      /\ UNCHANGED <<asm, announced, batch, decoding, fed, early>>
    BY DEF ReleaseDue
<1>3. /\ QueueOK(queue) /\ playout \in Seq(Frame) /\ batch \in Seq(Items)
      /\ decoding \in BOOLEAN /\ fed \in Items
    BY <1>1 DEF Types
<1>4. QueueOK(r) /\ o \in Seq(Frame) /\ InOrder(fed, batch, r.items, o, Cursor(asm))
    BY <1>1, <1>3, DueInOrder
<1>5. Continuous(early, decoding, fed, batch, r, o, Cursor(asm))
    BY <1>1, <1>3, DueLinks
<1> HIDE DEF r, o
<1>6. asm.session # 0
    <2>1. playout # <<>>
        <3>1. Len(<<>>) = 0 /\ 1..0 = {}
            BY EmptySeq
        <3> QED BY <3>1
    <2> QED BY <1>1, <2>1 DEF SessionOK
<1>7. Types' /\ SessionOK'
    BY <1>1, <1>2, <1>4, <1>6 DEF Types, SessionOK
<1>8. /\ AssemblerOK(asm') /\ KnownLosses(early', asm')
      /\ InOrder(fed', batch', queue'.items, playout', Cursor(asm'))
      /\ Continuous(early', decoding', fed', batch', queue', playout', Cursor(asm'))
    BY <1>1, <1>2, <1>4, <1>5
<1> QED BY <1>7, <1>8 DEF VideoInv

\* The main thread takes the queue's items.
LEMMA TakeBatchKeeps ==
    ASSUME VideoInv, TakeBatch
    PROVE  VideoInv'
<1> DEFINE i == queue.items
           r == [queue EXCEPT !.items = <<>>]
<1>1. /\ AssemblerOK(asm) /\ Types /\ SessionOK /\ KnownLosses(early, asm)
      /\ InOrder(fed, batch, queue.items, playout, Cursor(asm))
      /\ Continuous(early, decoding, fed, batch, queue, playout, Cursor(asm))
    BY DEF VideoInv
<1>2. /\ batch = <<>> /\ i # <<>> /\ batch' = i /\ queue' = r
      /\ UNCHANGED <<asm, announced, playout, decoding, fed, early>>
    BY DEF TakeBatch
<1>3. /\ queue \in [items : Seq(Items), waiting : BOOLEAN, gate : BOOLEAN]
      /\ queue.gate => queue.waiting
      /\ decoding \in BOOLEAN /\ fed \in Items
    BY <1>1 DEF Types, QueueOK
<1>4. /\ i \in Seq(Items) /\ r.items = <<>> /\ r.waiting = queue.waiting /\ r.gate = queue.gate
      /\ r \in [items : Seq(Items), waiting : BOOLEAN, gate : BOOLEAN]
    <2>1. <<>> \in Seq(Items)
        BY EmptySeq
    <2> QED BY <1>3, <2>1
<1>5. QueueOK(r)
    BY <1>3, <1>4 DEF QueueOK
<1> HIDE DEF r
<1>6. InOrder(fed, i, <<>>, playout, Cursor(asm))
    <2>1. ToSet(<<>>) = {} /\ Ascending(<<>>)
        BY DEF ToSet, Ascending
    <2> DEFINE I == ToSet(i)
               P == ToSet(playout)
    <2>2. /\ Ascending(i) /\ Ascending(playout)
          /\ Precedes({fed} \cup I, P) /\ Precedes({fed} \cup I \cup P, {Cursor(asm)})
          /\ Precedes({fed}, I)
        BY <1>1, <1>2, <2>1 DEF InOrder, Precedes
    <2>3. Precedes({fed} \cup I, {})
        BY DEF Precedes
    <2> HIDE DEF I, P
    <2>4. Precedes({fed} \cup I \cup {}, P) /\ Precedes({fed} \cup I \cup {} \cup P, {Cursor(asm)})
        BY <2>2 DEF Precedes
    <2> QED BY <2>1, <2>2, <2>3, <2>4 DEF InOrder, I, P
<1>7. Continuous(early, decoding, fed, i, r, playout, Cursor(asm))
    <2>1. Behind(decoding, fed, i) \o r.items = Behind(decoding, fed, batch) \o queue.items
        <3>1. Behind(decoding, fed, <<>>) \o i = Behind(decoding, fed, i) \o <<>>
            BY <1>3, <1>4, BatchTaken
        <3> QED BY <1>2, <1>4, <3>1
    <2> QED BY <1>1, <1>4, <2>1 DEF Continuous
<1>8. asm.session # 0
    BY <1>1, <1>2 DEF SessionOK
<1>9. Types' /\ SessionOK'
    BY <1>1, <1>2, <1>4, <1>5, <1>8 DEF Types, SessionOK
<1>10. /\ AssemblerOK(asm') /\ KnownLosses(early', asm')
       /\ InOrder(fed', batch', queue'.items, playout', Cursor(asm'))
       /\ Continuous(early', decoding', fed', batch', queue', playout', Cursor(asm'))
    BY <1>1, <1>2, <1>4, <1>6, <1>7
<1> QED BY <1>9, <1>10 DEF VideoInv

\* The main thread goes on by one item.
LEMMA DecodeKeeps ==
    ASSUME VideoInv, batch # <<>>, batch' = Tail(batch), decoding' \in BOOLEAN,
           fed' \in {fed, Head(batch)},
           decoding' => fed' = Head(batch),
           UNCHANGED <<asm, announced, playout, queue, early>>
    PROVE  VideoInv'
<1>1. /\ AssemblerOK(asm) /\ Types /\ SessionOK /\ KnownLosses(early, asm)
      /\ InOrder(fed, batch, queue.items, playout, Cursor(asm))
      /\ Continuous(early, decoding, fed, batch, queue, playout, Cursor(asm))
    BY DEF VideoInv
<1>2. /\ QueueOK(queue) /\ batch \in Seq(Items) /\ decoding \in BOOLEAN /\ fed \in Items
    BY <1>1 DEF Types
<1>3. Head(batch) \in Items /\ Tail(batch) \in Seq(Items)
    BY <1>2, HeadTailProperties
<1>4. fed' \in Items
    BY <1>2, <1>3
<1>5. InOrder(fed', Tail(batch), queue.items, playout, Cursor(asm))
    <2> DEFINE g == fed'
    <2>1. g \in {fed, Head(batch)}
        OBVIOUS
    <2> HIDE DEF g
    <2>2. InOrder(g, Tail(batch), queue.items, playout, Cursor(asm))
        BY <1>1, <1>2, <2>1, DecoderInOrder
    <2> QED BY <2>2 DEF g
<1>6. Continuous(early, decoding', fed', Tail(batch), queue, playout, Cursor(asm))
    <2> DEFINE g == fed'
               x == decoding'
    <2>1. x \in BOOLEAN /\ g \in Items /\ (x => g = Head(batch))
        BY <1>4
    <2> HIDE DEF g, x
    <2>2. Continuous(early, x, g, Tail(batch), queue, playout, Cursor(asm))
        BY <1>1, <1>2, <2>1, DecoderMoves
    <2> QED BY <2>2 DEF g, x
<1>7. asm.session # 0
    BY <1>1 DEF SessionOK
<1>8. Types' /\ SessionOK'
    BY <1>1, <1>3, <1>4, <1>7 DEF Types, SessionOK
<1>9. /\ AssemblerOK(asm') /\ KnownLosses(early', asm')
      /\ InOrder(fed', batch', queue'.items, playout', Cursor(asm'))
      /\ Continuous(early', decoding', fed', batch', queue', playout', Cursor(asm'))
    BY <1>1, <1>5, <1>6
<1> QED BY <1>8, <1>9 DEF VideoInv

\* No step breaks the invariant.
LEMMA VideoStep == VideoInv /\ [Next]_vars => VideoInv'
<1> SUFFICES ASSUME VideoInv, [Next]_vars
             PROVE  VideoInv'
    OBVIOUS
<1>1. CASE \E s \in 1..Sessions, f \in Frames, waited \in BOOLEAN :
              \E i \in Packets(f) :
                 \/ ReceivePacket(s, f, i, waited)
                 \/ SwitchSession(s, f, i, waited)
    BY <1>1, ReceivePacketKeeps, SwitchSessionKeeps
<1>2. CASE Announce
    <2>1. /\ announced' = announced + 1 /\ announced < Sessions
          /\ UNCHANGED <<asm, playout, queue, batch, decoding, fed, early>>
        BY <1>2 DEF Announce
    <2>2. /\ AssemblerOK(asm) /\ Types /\ SessionOK /\ KnownLosses(early, asm)
          /\ InOrder(fed, batch, queue.items, playout, Cursor(asm))
          /\ Continuous(early, decoding, fed, batch, queue, playout, Cursor(asm))
        BY DEF VideoInv
    <2>3. announced \in 1..Sessions /\ Sessions \in Nat
        BY <2>2, ReceiveAssumption DEF Types
    <2>4. announced' \in 1..Sessions
        BY <2>1, <2>3
    <2>5. asm.session <= announced'
        <3>1. asm.session \in Int
            BY <2>2 DEF AssemblerOK, Assembler
        <3> QED BY <2>1, <2>2, <2>3, <3>1 DEF SessionOK
    <2>6. Types' /\ SessionOK'
        BY <2>1, <2>2, <2>4, <2>5 DEF Types, SessionOK
    <2>7. /\ AssemblerOK(asm') /\ KnownLosses(early', asm')
          /\ InOrder(fed', batch', queue'.items, playout', Cursor(asm'))
          /\ Continuous(early', decoding', fed', batch', queue', playout', Cursor(asm'))
        BY <2>1, <2>2
    <2> QED BY <2>6, <2>7 DEF VideoInv
<1>3. CASE \E k \in 0..MaxFrames, waited \in BOOLEAN : Expire(k, waited)
    BY <1>3, ExpireKeeps
<1>4. CASE \E n \in 1..Len(playout) : ReleaseDue(n)
    BY <1>4, ReleaseDueKeeps
<1>5. CASE TakeBatch
    BY <1>5, TakeBatchKeeps
<1>6. CASE DecodeReset
    BY <1>6, DecodeKeeps DEF DecodeReset
<1>7. CASE DecodeFrame
    <2>1. /\ batch # <<>> /\ batch' = Tail(batch)
          /\ UNCHANGED <<asm, announced, playout, queue, early>>
        BY <1>7 DEF DecodeFrame
    <2>2. decoding \in BOOLEAN
        BY DEF VideoInv, Types
    <2>3. /\ decoding' \in BOOLEAN /\ fed' \in {fed, Head(batch)}
          /\ decoding' => fed' = Head(batch)
        BY <1>7, <2>2 DEF DecodeFrame
    <2> QED BY <2>1, <2>3, DecodeKeeps
<1>8. CASE UNCHANGED vars
    <2>1. /\ AssemblerOK(asm) /\ Types /\ SessionOK /\ KnownLosses(early, asm)
          /\ InOrder(fed, batch, queue.items, playout, Cursor(asm))
          /\ Continuous(early, decoding, fed, batch, queue, playout, Cursor(asm))
        BY DEF VideoInv
    <2>2. Types' /\ SessionOK'
        BY <1>8, <2>1 DEF vars, Types, SessionOK
    <2>3. /\ AssemblerOK(asm') /\ KnownLosses(early', asm')
          /\ InOrder(fed', batch', queue'.items, playout', Cursor(asm'))
          /\ Continuous(early', decoding', fed', batch', queue', playout', Cursor(asm'))
        BY <1>8, <2>1 DEF vars
    <2> QED BY <2>2, <2>3 DEF VideoInv
<1> QED BY <1>1, <1>2, <1>3, <1>4, <1>5, <1>6, <1>7, <1>8 DEF Next

-----------------------------------------------------------------------------
(* What the invariant says to the runs. *)

\* A frame is in flight at most once: there are as many frames as places.
LEMMA FlightsCounted ==
    ASSUME NEW a, OrderOK(a.order)
    PROVE  Cardinality(InFlight(a)) = Len(a.order)
<1> DEFINE n == Len(a.order)
           S == InFlight(a)
           g == [k \in 1..n |-> a.order[k].id]
<1>1. /\ n \in Nat /\ DOMAIN a.order = 1..n
      /\ \A j, k \in 1..n : j < k => a.order[j].id # a.order[k].id
    BY LenProperties DEF OrderOK
<1>2. S = {a.order[k].id : k \in 1..n}
    BY <1>1 DEF InFlight
<1>3. g \in [1..n -> S]
    BY <1>2
<1>4. \A j, k \in 1..n : g[j] = g[k] => j = k
    <2> TAKE j, k \in 1..n
    <2>1. j < k \/ k < j \/ j = k
        BY <1>1
    <2> QED BY <1>1, <2>1
<1>5. \A x \in S : \E k \in 1..n : g[k] = x
    BY <1>2
<1> HIDE DEF g, S
<1>6. g \in Bijection(1..n, S)
    BY <1>3, <1>4, <1>5, Fun_IsBij
<1>7. ExistsBijection(1..n, S)
    BY <1>6 DEF ExistsBijection
<1> HIDE DEF n
<1>8. Cardinality(S) = n
    BY <1>1, <1>7, FS_CountingElements
<1> QED BY <1>8 DEF S, n

\* The invariant implies what the run checks of every state.
LEMMA VideoInvImplies == VideoInv => TypeOK /\ BudgetHonest
<1> SUFFICES ASSUME VideoInv
             PROVE  TypeOK /\ BudgetHonest
    OBVIOUS
<1>1. /\ asm \in Assembler /\ OrderOK(asm.order) /\ BudgetOK(asm)
      /\ \A f \in asm.complete : f >= asm.next
      /\ Types /\ SessionOK
    BY DEF VideoInv, AssemblerOK
<1>2. BudgetHonest
    BY <1>1 DEF BudgetOK, BudgetHonest
<1>3. asm.session \in 0..announced
    <2>1. asm.session \in 0..Sessions /\ announced \in 1..Sessions /\ asm.session <= announced
        BY <1>1 DEF Assembler, Types, SessionOK
    <2> QED BY <2>1
<1>4. /\ asm.next \in None..(LastFrame + 1) /\ asm.high \in None..LastFrame
      /\ asm.complete \cup asm.skipped \subseteq Frames /\ asm.blocked \in BOOLEAN
    BY <1>1 DEF Assembler
<1>5. ASSUME NEW k \in DOMAIN asm.order
      PROVE  asm.order[k].id \in Frames /\ asm.order[k].got \in SUBSET (0..Size[asm.order[k].id])
    <2>1. asm.order \in Seq(Flight) /\ k \in 1..Len(asm.order)
        BY <1>1, LenProperties DEF OrderOK
    <2>2. asm.order[k] \in Flight
        BY <2>1, ElementOfSeq
    <2> QED BY <1>1, <2>1, <2>2 DEF Flight, OrderOK
<1>6. {asm.slots, asm.bytes} \subseteq Nat
    <2>1. InFlight(asm) \in SUBSET Frames
        BY <1>1, InFlightFrames
    <2> QED BY <1>1, <2>1, ReservationType DEF BudgetOK
<1>7. Cardinality(InFlight(asm)) = Len(asm.order)
    BY <1>1, FlightsCounted
<1>8. /\ announced \in 1..Sessions /\ playout \in Seq(Frame)
      /\ queue \in [items : Seq(Items), waiting : BOOLEAN, gate : BOOLEAN]
      /\ batch \in Seq(Items) /\ decoding \in BOOLEAN /\ fed \in Items /\ early \subseteq Frame
    BY <1>1 DEF Types, QueueOK
<1>9. TypeOK
    BY <1>1, <1>3, <1>4, <1>5, <1>6, <1>7, <1>8 DEF TypeOK
<1> QED BY <1>2, <1>9

\* Only the decoder's step changes what is fed, and it takes the batch's first item.
LEMMA FedIsHead ==
    ASSUME VideoInv, [Next]_vars, fed' # fed
    PROVE  /\ batch # <<>> /\ fed' = Head(batch) /\ fed' \in Frame
           /\ decoding \/ fed'.id \in Idr
<1>1. DecodeFrame
    BY DEF Next, vars, ReceivePacket, SwitchSession, Announce, Expire, ReleaseDue, TakeBatch,
           DecodeReset
<1>2. batch # <<>> /\ Head(batch) # Reset /\ fed' = Head(batch)
      /\ (decoding \/ Head(batch).id \in Idr)
    BY <1>1 DEF DecodeFrame
<1>3. Head(batch) \in Items
    BY <1>2, HeadTailProperties DEF VideoInv, Types
<1> QED BY <1>2, <1>3 DEF Items

\* The frame fed last comes before all of the batch, so the next one follows it.
LEMMA OrderStep == VideoInv /\ [Next]_vars => (fed' # fed => Before(fed, fed'))
<1> SUFFICES ASSUME VideoInv, [Next]_vars, fed' # fed
             PROVE  Before(fed, fed')
    OBVIOUS
<1>1. batch # <<>> /\ fed' = Head(batch) /\ fed' \in Frame
    BY FedIsHead
<1>2. batch \in Seq(Items) /\ fed \in Items /\ Precedes({fed}, ToSet(batch))
    BY DEF VideoInv, Types, InOrder
<1>3. Head(batch) \in ToSet(batch)
    BY <1>1, <1>2, InTail
<1> DEFINE g == fed'
<1>4. g \in Frame /\ g # Reset /\ g.session \in 1..Sessions
    BY <1>1, FrameIsNotReset
<1> HIDE DEF g
<1>5. CASE fed # Reset
    BY <1>1, <1>2, <1>3, <1>4, <1>5 DEF Precedes, g
<1>6. CASE fed = Reset
    <2>1. fed.session = 0
        BY <1>6 DEF Reset
    <2>2. fed.session < g.session
        BY <1>4, <2>1, ReceiveAssumption
    <2> QED BY <2>2 DEF Before, g
<1> QED BY <1>5, <1>6

\* A decoder that goes on has just been fed the frame before, or that was an early loss.
LEMMA ContinuityStep ==
    VideoInv /\ [Next]_vars =>
        (fed' # fed /\ fed'.id \notin Idr =>
            LET before == [fed' EXCEPT !.id = @ - 1]
            IN  fed = before \/ before \in early)
<1> SUFFICES ASSUME VideoInv, [Next]_vars, fed' # fed, fed'.id \notin Idr
             PROVE  \/ fed = [fed' EXCEPT !.id = @ - 1]
                    \/ [fed' EXCEPT !.id = @ - 1] \in early
    OBVIOUS
<1>1. batch # <<>> /\ fed' = Head(batch) /\ fed' \in Frame /\ decoding
    BY FedIsHead
<1>2. /\ batch \in Seq(Items) /\ fed \in Items /\ QueueOK(queue)
      /\ Links(early, Behind(decoding, fed, batch) \o queue.items)
    BY DEF VideoInv, Types, Continuous
<1> DEFINE g == fed'
           one == <<fed>>
           z == one \o batch
<1>3. g \in Frame /\ g # Reset /\ g = Head(batch) /\ g.id \notin Idr
    BY <1>1, FrameIsNotReset
<1>4. [g EXCEPT !.id = @ - 1] = Predecessor(g)
    BY <1>3 DEF Frame, Predecessor
<1> HIDE DEF g
<1>5. Links(early, z \o queue.items)
    BY <1>1, <1>2 DEF Behind
<1>6. one \in Seq(Stage) /\ Len(one) = 1 /\ one[1] = fed
    BY <1>2 DEF Stage
<1>7. batch \in Seq(Stage) /\ queue.items \in Seq(Stage)
    BY <1>2 DEF QueueOK, Stage
<1> HIDE DEF one
<1>8. /\ z \in Seq(Stage) /\ Len(z) = Len(one) + Len(batch)
      /\ \A k \in 1..(Len(one) + Len(batch)) :
            z[k] = IF k <= Len(one) THEN one[k] ELSE batch[k - Len(one)]
    BY <1>6, <1>7, ConcatProperties
<1>9. Len(batch) \in Nat \ {0} /\ Head(batch) = batch[1]
    BY <1>1, <1>2, EmptySeq, HeadTailProperties
<1> HIDE DEF z
<1>10. Links(early, z)
    BY <1>5, <1>7, <1>8, LinksPrefix
<1>11. z[1] = fed /\ z[2] = Head(batch) /\ 1 \in 1..(Len(z) - 1)
    <2>1. 1 \in 1..(Len(one) + Len(batch)) /\ 2 \in 1..(Len(one) + Len(batch))
        BY <1>6, <1>9
    <2>2. z[1] = one[1] /\ z[2] = batch[2 - 1]
        BY <1>6, <1>8, <2>1
    <2>3. 1 \in 1..(Len(z) - 1)
        BY <1>6, <1>8, <1>9
    <2> QED BY <1>6, <1>9, <2>2, <2>3
<1>12. Linked(early, fed, g)
    <2>1. Linked(early, z[1], z[1 + 1])
        BY <1>10, <1>11 DEF Links
    <2>2. z[1 + 1] = g
        BY <1>3, <1>11
    <2> QED BY <1>11, <2>1, <2>2
<1>13. fed # Loose
    <2>1. CASE fed = Reset
        BY <2>1 DEF Reset, Loose, None
    <2>2. CASE fed \in Frame
        <3>1. fed.session \in 1..Sessions
            BY <2>2, FrameIsNotReset
        <3>2. Loose.session = 0
            BY DEF Loose
        <3> QED BY <3>1, <3>2, ReceiveAssumption
    <2> QED BY <1>2, <2>1, <2>2 DEF Items
<1>14. fed = Predecessor(g) \/ Predecessor(g) \in early
    BY <1>3, <1>12, <1>13 DEF Linked, Joined
<1> QED BY <1>4, <1>14 DEF g

-----------------------------------------------------------------------------
(* The theorems. *)

\* The inductive invariant holds in every run.
LEMMA VideoAlways == Spec => []VideoInv
<1>1. Init /\ [][Next]_vars => []VideoInv
    BY VideoInit, VideoStep, PTL
<1> QED BY <1>1, PTL DEF Spec

\* Every variable keeps its type, and no frame is assembled twice at a time, whatever the
\* network delivers (H264Reassembler, DecodeQueue and the loops around them).
THEOREM VideoTypes == Spec => []TypeOK
BY VideoAlways, VideoInvImplies, PTL

\* The budgets of the assembly are exactly what the frames in flight have reserved, and
\* within their limits: by completion, eviction, timeout or a new session nothing of them
\* leaks and nothing is given back twice.
THEOREM BudgetIsHonest == Spec => []BudgetHonest
BY VideoAlways, VideoInvImplies, PTL

\* From datagrams in any order to a decoder fed in the order the frames were sent in:
\* across losses, recoveries, a full queue and a change of session.
THEOREM FedInSendingOrder == Spec => FedInOrder
<1>1. VideoInv /\ [Next]_vars => [fed' # fed => Before(fed, fed')]_vars
    BY OrderStep
<1> QED BY <1>1, VideoAlways, PTL DEF Spec, FedInOrder

\* A frame that refers to its predecessor is decoded only after it, by the same decoder.
THEOREM DecodingIsContinuous == Spec => DecodeContinuity
<1>1. VideoInv /\ [Next]_vars =>
         [fed' # fed /\ fed'.id \notin Idr =>
             LET before == [fed' EXCEPT !.id = @ - 1]
             IN  fed = before \/ before \in early]_vars
    BY ContinuityStep
<1> QED BY <1>1, VideoAlways, PTL DEF Spec, DecodeContinuity

\* What a decoder is given is a part of what was sent, in its order and without a gap that
\* it cannot bridge.
THEOREM DecodedIsSent == Spec => DecodedAsSent
BY FedInSendingOrder, DecodingIsContinuous DEF DecodedAsSent
=============================================================================
