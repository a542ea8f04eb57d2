------------------------------ MODULE FoldLemmas ------------------------------
(***************************************************************************)
(* What the folds of the community modules compute, step by step.          *)
(* FoldLeft is defined by a recursive function over sets of indices, which *)
(* takes the largest index last; here this function is shown to exist, and *)
(* to give the values a loop over the sequence would: the first is the     *)
(* base, and each one follows from the one before it and the next element. *)
(*                                                                         *)
(* The operator that is folded is a parameter of the module (its first     *)
(* argument stands for what a loop leaves alone), so each INSTANCE states  *)
(* the lemmas of one loop.                                                 *)
(***************************************************************************)
EXTENDS Integers, WellFoundedInduction, TLAPS

\* One step: what a loop leaves alone, the value so far, the next element.
CONSTANT Op(_, _, _)

\* The index that is taken last.
Top(s) == CHOOSE x \in s : \A y \in s : x >= y

\* The function behind the fold of the sequence t over the indices 1..n.
IsFold(f, p, base, t, n) ==
    f = [s \in SUBSET (1..n) |->
            IF s = {} THEN base ELSE Op(p, f[s \ {Top(s)}], t[Top(s)])]

\* What holds of 0 and passes from each number to the next holds of them all.
LEMMA SegmentInduction ==
    ASSUME NEW n \in Nat, NEW G, 0 \in G, \A m \in 1..n : m - 1 \in G => m \in G
    PROVE  \A m \in 0..n : m \in G
<1> DEFINE B == {m \in 0..n : m \notin G}
           R == OpToRel(<, Nat)
<1>1. SUFFICES ASSUME B # {} PROVE FALSE
    OBVIOUS
<1>2. IsWellFoundedOn(R, Nat)
    BY NatLessThanWellFounded
<1>3. B \subseteq Nat
    OBVIOUS
<1>4. PICK x \in B : \A y \in B : <<y, x>> \notin R
    <2> HIDE DEF B, R
    <2> QED BY <1>1, <1>2, <1>3, WFMin
<1>5. x # 0 /\ x \in 1..n
    OBVIOUS
<1>6. x - 1 \in 0..n /\ <<x - 1, x>> \in R
    BY <1>5 DEF OpToRel
<1> QED BY <1>4, <1>5, <1>6

\* The last index of a set that has it.
LEMMA TopOf ==
    ASSUME NEW n \in Nat, NEW s \in SUBSET (1..n), n \in s
    PROVE  Top(s) = n
<1>1. n \in s /\ \A y \in s : n >= y
    OBVIOUS
<1>2. Top(s) \in s /\ \A y \in s : Top(s) >= y
    BY <1>1 DEF Top
<1>3. Top(s) \in 1..n /\ n \in 1..n /\ Top(s) >= n
    BY <1>2
<1> QED BY <1>1, <1>2, <1>3

\* There is such a function: it is built index by index.
LEMMA FoldExists ==
    ASSUME NEW p, NEW base, NEW t, NEW n \in Nat
    PROVE  \E f : IsFold(f, p, base, t, n)
<1> DEFINE G == {m \in 0..n : \E f : IsFold(f, p, base, t, m)}
<1>1. 0 \in G
    <2> DEFINE f == [s \in SUBSET (1..0) |-> base]
    <2>1. IsFold(f, p, base, t, 0)
        BY DEF IsFold
    <2> QED BY <2>1
<1>2. ASSUME NEW m \in 1..n, m - 1 \in G
      PROVE  m \in G
    <2>1. PICK f : IsFold(f, p, base, t, m - 1)
        BY <1>2
    <2> DEFINE g == [s \in SUBSET (1..m) |->
                        IF m \in s THEN Op(p, f[s \ {m}], t[m]) ELSE f[s]]
    <2>2. ASSUME NEW s \in SUBSET (1..m)
          PROVE  g[s] = IF s = {} THEN base ELSE Op(p, g[s \ {Top(s)}], t[Top(s)])
        <3>1. CASE m \in s
            <4>1. Top(s) = m
                BY <3>1, TopOf
            <4>2. s \ {m} \in SUBSET (1..m) /\ m \notin s \ {m} /\ s # {}
                BY <3>1
            <4>3. g[s] = Op(p, f[s \ {m}], t[m]) /\ g[s \ {m}] = f[s \ {m}]
                BY <3>1, <4>2
            <4> HIDE DEF g
            <4> QED BY <4>1, <4>2, <4>3
        <3>2. CASE m \notin s
            <4>1. s \in SUBSET (1..(m - 1))
                BY <3>2
            <4>2. f[s] = IF s = {} THEN base ELSE Op(p, f[s \ {Top(s)}], t[Top(s)])
                BY <2>1, <4>1 DEF IsFold
            <4>3. s \ {Top(s)} \in SUBSET (1..m) /\ m \notin s \ {Top(s)}
                BY <3>2
            <4>4. g[s] = f[s] /\ g[s \ {Top(s)}] = f[s \ {Top(s)}]
                BY <3>2, <4>3
            <4> HIDE DEF g
            <4> QED BY <4>2, <4>4
        <3> QED BY <3>1, <3>2
    <2>3. IsFold(g, p, base, t, m)
        <3>1. g = [s \in SUBSET (1..m) |-> g[s]]
            OBVIOUS
        <3> HIDE DEF g
        <3> QED BY <2>2, <3>1 DEF IsFold
    <2> HIDE DEF g
    <2> QED BY <2>3
<1>3. \A m \in 0..n : m \in G
    <2> HIDE DEF G
    <2> QED BY <1>1, <1>2, SegmentInduction
<1> QED BY <1>3

\* g is the run of the loop: it begins with the base, goes on one step after the
\* other, and ends with the fold.
IsRun(g, f, p, base, t, n) ==
    /\ g[n] = f[1..n]
    /\ g[0] = base
    /\ \A m \in 1..n : g[m] = Op(p, g[m - 1], t[m])

\* A fold has a run.
LEMMA FoldRuns ==
    ASSUME NEW p, NEW base, NEW t, NEW n \in Nat, NEW f, IsFold(f, p, base, t, n)
    PROVE  \E g : IsRun(g, f, p, base, t, n)
<1> DEFINE g == [m \in 0..n |-> f[1..m]]
<1>1. g[0] = base
    <2>1. f[{}] = base
        BY DEF IsFold
    <2>2. 1..0 = {} /\ 0 \in 0..n
        OBVIOUS
    <2> QED BY <2>1, <2>2
<1>2. ASSUME NEW m \in 1..n
      PROVE  g[m] = Op(p, g[m - 1], t[m])
    <2>1. Top(1..m) = m
        BY TopOf
    <2>2. 1..m \in SUBSET (1..n) /\ 1..m # {} /\ (1..m) \ {m} = 1..(m - 1)
        OBVIOUS
    <2>3. f[1..m] = Op(p, f[1..(m - 1)], t[m])
        BY <2>1, <2>2 DEF IsFold
    <2> QED BY <2>3
<1>3. g[n] = f[1..n]
    OBVIOUS
<1> HIDE DEF g
<1> QED BY <1>1, <1>2, <1>3 DEF IsRun
=============================================================================
