--------------------------- MODULE ReceivingProofs ---------------------------
(***************************************************************************)
(* What MCReceiving's run checks of the parts of the receiving side, for   *)
(* every value of the constants: the window of packet numbers, the partial *)
(* files, the native process and its application, the clock of the sound   *)
(* that pictures wait for, the playout of the sound, the recovery of a     *)
(* frame by parity and the command line; first each part against its own   *)
(* specification, then all of them together.                               *)
(***************************************************************************)
EXTENDS MCReceiving, SequenceTheorems, FiniteSetTheorems, WellFoundedInduction, TLAPS

-----------------------------------------------------------------------------
(* ReplayWindow.  Types and safety are inductive together.  The step that  *)
(* needs care is a jump: it may widen the window, but never back over what *)
(* it has let go of.                                                       *)
ReplayInvariant == ReplayTypeOK /\ ReplaySafety

USE DEF Least, Most

\* The window begins empty and with nothing heard.
LEMMA InitialWindow == ReplayInit => ReplayInvariant
BY NumbersAssumption, WindowSizesAssumption
DEF ReplayInit, ReplayInvariant, ReplayTypeOK, ReplaySafety, ControlOnce, WindowIsTrue

\* The first number of a window: there is none to take it for.
LEMMA FirstKeeps ==
    ASSUME ReplayInvariant, NEW seq \in Numbers, Accept(seq), AcceptFirst(seq)
    PROVE  ReplayInvariant'
<1>1. seq \in Nat \ {0} /\ heard = {}
    BY NumbersAssumption DEF ReplayInvariant, ReplayTypeOK, AcceptFirst
<1>2. /\ base' = seq /\ bits' = {0} /\ heard' = {seq} /\ heardAgain' = {}
      /\ windowSize' = windowSize /\ use' = use /\ expandMargin' = expandMargin
    BY <1>1 DEF Accept, AcceptFirst, ReplayInvariant, ReplayTypeOK
<1>3. ReplayTypeOK'
    BY <1>1, <1>2, WindowSizesAssumption DEF ReplayInvariant, ReplayTypeOK
<1>4. ControlOnce' /\ WindowIsTrue'
    BY <1>1, <1>2, WindowSizesAssumption
    DEF ReplayInvariant, ReplayTypeOK, ControlOnce, WindowIsTrue
<1> QED BY <1>3, <1>4 DEF ReplayInvariant, ReplaySafety

\* A number ahead of all others is new, and the window that it moves, and may widen,
\* reaches back at most to where it reached: a jump that widens it leaves all it
\* remembered behind.
LEMMA AheadKeeps ==
    ASSUME ReplayInvariant, NEW seq \in Numbers, Accept(seq), AcceptAhead(seq)
    PROVE  ReplayInvariant'
<1> DEFINE diff == seq - base
<1>1. /\ seq \in Nat /\ base \in Nat /\ diff \in Nat \ {0} /\ seq = base + diff
      /\ windowSize \in Nat \ {0} /\ bits \subseteq 0..(windowSize - 1)
    BY NumbersAssumption, WindowSizesAssumption
    DEF ReplayInvariant, ReplayTypeOK, AcceptAhead
<1>2. seq \notin heard
    BY <1>1 DEF ReplayInvariant, ReplayTypeOK, AcceptAhead
<1>3. /\ base' = seq /\ heard' = heard \cup {seq} /\ heardAgain' = heardAgain
      /\ windowSize' = Most(windowSize, diff) /\ use' = use /\ expandMargin' = expandMargin
      /\ bits' = {0} \cup {k \in diff..(windowSize - 1) : k - diff \in bits}
    BY <1>2 DEF Accept, AcceptAhead, Shifted
<1>4. windowSize' \in 1..MaxReplayWindow
    BY <1>1, <1>3, WindowSizesAssumption
    DEF ReplayInvariant, ReplayTypeOK, AcceptAhead, TooFarRight
<1>5. bits' \subseteq 0..(windowSize' - 1)
    BY <1>1, <1>3
<1>6. ReplayTypeOK'
    BY <1>1, <1>3, <1>4, <1>5 DEF ReplayInvariant, ReplayTypeOK
<1>7. ControlOnce'
    BY <1>3 DEF ReplayInvariant, ReplaySafety, ControlOnce
<1>8. \A k \in bits' : base' - k \in heard'
    <2> SUFFICES ASSUME NEW k \in bits' PROVE seq - k \in heard'
        BY <1>3
    <2>1. CASE k = 0
        BY <1>1, <1>3, <2>1
    <2>2. CASE k \in diff..(windowSize - 1) /\ k - diff \in bits
        <3>1. base - (k - diff) \in heard
            BY <2>2 DEF ReplayInvariant, ReplaySafety, WindowIsTrue
        <3>2. seq - k = base - (k - diff)
            BY <1>1, <2>2
        <3> QED BY <1>3, <3>1, <3>2
    <2> QED BY <1>3, <2>1, <2>2
<1>9. ASSUME use = "control", NEW k \in 0..(windowSize' - 1), seq - k \in heard'
      PROVE  k \in bits'
    <2>1. CASE k = 0
        BY <1>3, <2>1
    <2>2. CASE k # 0
        <3>1. seq - k \in heard
            BY <1>1, <1>3, <1>9, <2>2
        <3>2. seq - k <= base
            BY <3>1 DEF ReplayInvariant, ReplayTypeOK
        <3>3. k >= diff /\ k \in Nat
            BY <1>1, <1>4, <1>9, <3>2
        <3>4. windowSize' = windowSize /\ k <= windowSize - 1
            BY <1>1, <1>3, <1>9, <3>3
        <3>5. k - diff \in 0..(windowSize - 1) /\ base - (k - diff) = seq - k
            BY <1>1, <3>3, <3>4
        <3>6. k - diff \in bits
            BY <1>9, <3>1, <3>5 DEF ReplayInvariant, ReplaySafety, WindowIsTrue
        <3> QED BY <1>1, <1>3, <3>3, <3>4, <3>6
    <2> QED BY <2>1, <2>2
<1>10. WindowIsTrue'
    BY <1>3, <1>8, <1>9 DEF WindowIsTrue
<1> QED BY <1>6, <1>7, <1>10 DEF ReplayInvariant, ReplaySafety

\* A number in the window whose bit is clear was not heard, when the window is one that
\* only a jump widens.
LEMMA BehindKeeps ==
    ASSUME ReplayInvariant, NEW seq \in Numbers, Accept(seq), AcceptBehind(seq)
    PROVE  ReplayInvariant'
<1> DEFINE back == base - seq
<1>1. /\ seq \in Nat /\ base \in Nat /\ windowSize \in Nat \ {0}
      /\ back \in 0..(windowSize - 1) /\ seq = base - back /\ back \notin bits
    BY NumbersAssumption, WindowSizesAssumption
    DEF ReplayInvariant, ReplayTypeOK, AcceptBehind, DupOld
<1>2. /\ base' = base /\ windowSize' = windowSize /\ use' = use
      /\ expandMargin' = expandMargin /\ bits' = bits \cup {back} /\ heard' = heard \cup {seq}
      /\ heardAgain' = IF seq \in heard THEN heardAgain \cup {seq} ELSE heardAgain
    BY DEF Accept, AcceptBehind
<1>3. ReplayTypeOK'
    BY <1>1, <1>2 DEF ReplayInvariant, ReplayTypeOK
<1>4. use = "control" => seq \notin heard
    BY <1>1 DEF ReplayInvariant, ReplaySafety, WindowIsTrue
<1>5. ControlOnce'
    BY <1>2, <1>4 DEF ReplayInvariant, ReplaySafety, ControlOnce
<1>6. \A k \in bits' : base' - k \in heard'
    BY <1>1, <1>2 DEF ReplayInvariant, ReplaySafety, WindowIsTrue
<1>7. ASSUME use = "control", NEW k \in 0..(windowSize - 1), base - k \in heard'
      PROVE  k \in bits'
    <2>1. CASE base - k = seq
        BY <1>1, <1>2, <2>1
    <2>2. CASE base - k \in heard
        BY <1>2, <1>7, <2>2 DEF ReplayInvariant, ReplaySafety, WindowIsTrue
    <2> QED BY <1>2, <1>7, <2>1, <2>2
<1>8. WindowIsTrue'
    BY <1>2, <1>6, <1>7 DEF WindowIsTrue
<1> QED BY <1>3, <1>5, <1>8 DEF ReplayInvariant, ReplaySafety

\* The adaptive reordering widens the window of DATA, where all that is promised is
\* that what the bits say is true.
LEMMA WidenKeeps ==
    ASSUME ReplayInvariant, NEW w \in AskedWindows, NEW m \in AskedWindows, Widen(w, m)
    PROVE  ReplayInvariant'
<1>1. w \in Nat /\ m \in Nat
    BY WindowSizesAssumption
<1>2. ReplayTypeOK'
    BY <1>1, WindowSizesAssumption DEF ReplayInvariant, ReplayTypeOK, Widen
<1>3. ControlOnce' /\ WindowIsTrue'
    BY DEF ReplayInvariant, ReplaySafety, ControlOnce, WindowIsTrue, Widen
<1> QED BY <1>2, <1>3 DEF ReplayInvariant, ReplaySafety

\* Every step, and standing still, keeps the invariant.
LEMMA ReplayStep == ReplayInvariant /\ [ReplayNext]_replayVars => ReplayInvariant'
<1> SUFFICES ASSUME ReplayInvariant, [ReplayNext]_replayVars PROVE ReplayInvariant'
    OBVIOUS
<1>1. ASSUME NEW seq \in Numbers, Accept(seq) PROVE ReplayInvariant'
    BY <1>1, FirstKeeps, AheadKeeps, BehindKeeps DEF Accept
<1>2. ASSUME NEW w \in AskedWindows, NEW m \in AskedWindows, Widen(w, m) PROVE ReplayInvariant'
    BY <1>2, WidenKeeps
<1>3. CASE UNCHANGED replayVars
    BY <1>3 DEF replayVars, ReplayInvariant, ReplayTypeOK, ReplaySafety, ControlOnce,
                WindowIsTrue
<1> QED BY <1>1, <1>2, <1>3 DEF ReplayNext

\* Whatever the sizes of the window, however packets are reordered and repeated, a
\* control packet is accepted once, and the window tells the truth of what was.
THEOREM ReplayIsSound == ReplaySpec => []ReplaySafety
<1>1. ReplayInvariant => ReplaySafety
    BY DEF ReplayInvariant
<1> QED BY <1>1, InitialWindow, ReplayStep, PTL DEF ReplaySpec

\* The variables keep their types, and no accepted number is beyond the base.
THEOREM ReplayTypes == ReplaySpec => []ReplayTypeOK
<1>1. ReplayInvariant => ReplayTypeOK
    BY DEF ReplayInvariant
<1> QED BY <1>1, InitialWindow, ReplayStep, PTL DEF ReplaySpec

-----------------------------------------------------------------------------
(* FileResume.  The invariant says of the disk that every .part file is    *)
(* the beginning of one file, and of a session, for each of its places,    *)
(* how much of its file is on the disk and how much in its buffer.         *)

\* The first n units of a file, and those between two places of it.
FirstUnits(f, n)      == [i \in 1 .. n |-> <<f, i>>]
UnitsBetween(f, m, n) == [i \in 1 .. n - m |-> <<f, m + i>>]

\* Where a session may be.
Places == {"new", "approval", "open", "append", "create", "meta", "receive", "verify",
           "replace", "unmeta", "commit", "leave", "end"}
\* What an attempt may come to: none of its own checks refuses it.
Outcomes == {"unknown", "rejected", "session_failed", "crash", "complete",
             "complete_ack_timeout"}

\* What a .part file may hold.
Beginnings == {FirstUnits(f, n) : f \in Files, n \in 0 .. FileSize}

\* The disk: prefixes and whole files.
DiskTypes ==
    /\ part \in [1 .. Paths -> {NoFile} \cup Beginnings]
    /\ out \in [1 .. Paths -> {NoFile} \cup {Content(f) : f \in Files}]
    /\ meta \in [1 .. Paths -> [file : Files \cup {NoFile}, received : 0 .. FileSize]]

\* The sessions.
AttemptTypes ==
    /\ pc \in [AttemptIds -> Places]
    /\ file \in [AttemptIds -> Files \cup {NoFile}]
    /\ path \in [AttemptIds -> 0 .. Paths]
    /\ policy \in [AttemptIds -> Policies \cup {"none"}]
    /\ offer \in [AttemptIds -> 0 .. FileSize - 1]
    /\ offset \in [AttemptIds -> 0 .. FileSize - 1]
    /\ received \in [AttemptIds -> 0 .. FileSize]
    /\ handle \in [AttemptIds -> {"closed", "append", "write"}]
    /\ written \in [AttemptIds -> 0 .. FileSize]
    /\ buffer \in [AttemptIds -> Seq(Files \X Nat)]
    /\ exitReason \in [AttemptIds -> Outcomes]

\* One attempt is served at a time.
Serial == \A s, t \in AttemptIds : s < t /\ pc[t] # "new" => pc[s] = "end"

\* What meta says of a .part file is of the file whose beginning it is, unless one of
\* the two is empty.
KeptIsTrue ==
    \A p \in 1 .. Paths, g \in Files, n \in 1 .. FileSize :
        part[p] = FirstUnits(g, n) /\ meta[p].received > 0 => meta[p].file \in {g, NoFile}

\* Nothing received yet, or no longer anything of it in memory.
Idle(s) ==
    /\ handle[s] = "closed" /\ received[s] = 0 /\ written[s] = 0 /\ buffer[s] = <<>>
\* No session, or none any more.
AtRest(s) ==
    /\ Idle(s) /\ file[s] = NoFile /\ path[s] = 0 /\ offset[s] = 0 /\ offer[s] = 0

\* Part 1 begins with n units of f
Resumable(f, n) == meta[1].file = f /\ \E m \in n .. FileSize : part[1] = FirstUnits(f, m)

\* What holds of a session at each of its places: while it waits for the decision ...
AtApproval(s) ==
    /\ Idle(s) /\ offset[s] = 0
    /\ file[s] \in Files /\ (offer[s] > 0 => Resumable(file[s], offer[s]))

\* ... when the path is allocated ...
AtOpen(s) ==
    /\ Idle(s) /\ file[s] \in Files /\ path[s] \in 1 .. Paths
    /\ IF policy[s] = "resume" THEN path[s] = 1 /\ Resumable(file[s], offset[s]) ELSE offset[s] = 0

\* ... when the .part file has been cut ...
AtAppend(s) ==
    /\ Idle(s) /\ file[s] \in Files /\ path[s] = 1 /\ meta[1].file = file[s]
    /\ part[1] = FirstUnits(file[s], offset[s])

\* ... when the old one is gone ...
AtCreate(s) ==
    /\ Idle(s) /\ file[s] \in Files /\ path[s] \in 1 .. Paths /\ offset[s] = 0
    /\ part[path[s]] = NoFile

\* ... while it receives: k units are in the file, the rest up to received in the buffer ...
FlushedUpTo(s, k) ==
    /\ part[path[s]] = FirstUnits(file[s], k)
    /\ buffer[s] = UnitsBetween(file[s], k, received[s])
    /\ written[s] = k - offset[s] /\ (handle[s] = "write" => offset[s] = 0)

Writing(s) ==
    /\ file[s] \in Files /\ path[s] \in 1 .. Paths /\ handle[s] # "closed"
    /\ \E k \in offset[s] .. received[s] : FlushedUpTo(s, k)

\* ... after the meta file names this file ...
AtReceive(s) == Writing(s) /\ meta[path[s]].file = file[s]

\* ... when all is in the file ...
AtVerify(s) ==
    /\ handle[s] = "closed" /\ buffer[s] = <<>> /\ received[s] = FileSize
    /\ file[s] \in Files /\ path[s] \in 1 .. Paths
    /\ part[path[s]] = Content(file[s])

\* ... when the file has its name ...
AtCommit(s) ==
    /\ handle[s] = "closed" /\ buffer[s] = <<>> /\ received[s] = FileSize
    /\ file[s] \in Files /\ path[s] \in 1 .. Paths /\ part[path[s]] = NoFile

\* ... and in the finally block.
AtLeave(s) ==
    /\ file[s] \in Files /\ path[s] \in 1 .. Paths
    /\ IF exitReason[s] = "session_failed" THEN Writing(s)
       ELSE /\ handle[s] = "closed" /\ buffer[s] = <<>> /\ received[s] \in {0, FileSize}
            /\ received[s] > 0 => part[path[s]] = NoFile

\* All of that, by place.
Session(s) ==
    /\ pc[s] \in {"new", "end"} => AtRest(s)
    /\ pc[s] = "approval" => AtApproval(s)
    /\ pc[s] = "open" => AtOpen(s)
    /\ pc[s] = "append" => AtAppend(s)
    /\ pc[s] = "create" => AtCreate(s)
    /\ pc[s] = "meta" => Writing(s) /\ received[s] = offset[s]
    /\ pc[s] = "receive" => AtReceive(s)
    /\ pc[s] \in {"verify", "replace"} => AtVerify(s)
    /\ pc[s] \in {"unmeta", "commit"} => AtCommit(s)
    /\ pc[s] = "leave" => AtLeave(s)
\* Of every session.
Sessions == \A s \in AttemptIds : Session(s)

\* The inductive invariant.
ResumeInv == DiskTypes /\ AttemptTypes /\ Serial /\ KeptIsTrue /\ Sessions

-----------------------------------------------------------------------------
(* Lemmas about the sequences of units and the helpers.                    *)

\* The least of three numbers is one of them and below each.
LEMMA MinOfThree ==
    ASSUME NEW a \in Nat, NEW b \in Nat, NEW c \in Nat
    PROVE  LET m == Min({a, b, c})
           IN  m \in Nat /\ m <= a /\ m <= b /\ m <= c /\ m \in {a, b, c}
<1>1. \E x \in {a, b, c} : \A y \in {a, b, c} : x <= y
    OBVIOUS
<1> QED BY <1>1 DEF Min

\* The least of two.
LEMMA MinOfTwo ==
    ASSUME NEW a \in Nat, NEW b \in Nat
    PROVE  LET m == Min({a, b}) IN m \in {a, b} /\ m <= a /\ m <= b
<1>1. \E x \in {a, b} : \A y \in {a, b} : x <= y
    OBVIOUS
<1> QED BY <1>1 DEF Min

\* The greatest of two.
LEMMA MaxOfTwo ==
    ASSUME NEW a \in Nat, NEW b \in Nat, a <= b
    PROVE  Max({a, b}) = b
<1>1. \E x \in {a, b} : \A y \in {a, b} : x >= y
    OBVIOUS
<1>2. Max({a, b}) \in {a, b} /\ \A y \in {a, b} : Max({a, b}) >= y
    BY <1>1 DEF Max
<1> QED BY <1>2

\* A set of path numbers that is not empty has a least member.
LEMMA MinIsMember ==
    ASSUME NEW n \in Nat, NEW S \in SUBSET (1 .. n), S # {}
    PROVE  Min(S) \in S
<1> DEFINE T == {1 .. i : i \in S}
           R == StrictSubsetOrdering(1 .. n)
<1>1. IsWellFoundedOn(R, SUBSET (1 .. n))
    <2>1. IsFiniteSet(1 .. n)
        BY FS_Interval
    <2>2. FiniteSubsetsOf(1 .. n) = SUBSET (1 .. n)
        BY <2>1, FS_FiniteSubsetsOfFinite
    <2>3. IsWellFoundedOn(R, FiniteSubsetsOf(1 .. n))
        BY FS_StrictSubsetOrderingWellFounded
    <2> QED BY <2>2, <2>3
<1>2. T \subseteq SUBSET (1 .. n) /\ T # {}
    <2>1. \A i \in S : 1 .. i \in SUBSET (1 .. n)
        OBVIOUS
    <2> QED BY <2>1
<1>3. PICK x \in T : \A y \in T : <<y, x>> \notin R
    <2> HIDE DEF T, R
    <2> QED BY <1>1, <1>2, WFMin
<1>4. PICK i \in S : x = 1 .. i
    OBVIOUS
<1>5. ASSUME NEW j \in S
      PROVE  i <= j
    <2>1. CASE j < i
        <3>1. 1 .. j \in T /\ (1 .. j) \subseteq (1 .. i) /\ i \in 1 .. i /\ i \notin 1 .. j
            BY <2>1
        <3>2. <<1 .. j, 1 .. i>> \in R
            BY <3>1, <1>4, <1>2 DEF StrictSubsetOrdering
        <3> QED BY <3>1, <3>2, <1>3, <1>4
    <2> QED BY <2>1
<1> QED BY <1>5 DEF Min

\* _align_down goes down, and not below zero.
LEMMA Aligned ==
    ASSUME NEW n \in Nat
    PROVE  AlignDown(n) \in 0 .. n
<1>1. n % Payload \in 0 .. (Payload - 1) /\ n % Payload <= n
    BY SizeAssumption
<1> QED BY <1>1, SizeAssumption DEF AlignDown

\* What a prefix is as a sequence.
LEMMA FirstUnitsAre ==
    ASSUME NEW f, NEW n \in Nat
    PROVE  /\ FirstUnits(f, n) \in Seq({f} \X Nat) /\ Len(FirstUnits(f, n)) = n
           /\ \A i \in 1 .. n : FirstUnits(f, n)[i] = <<f, i>>
<1>1. FirstUnits(f, n) \in Seq({f} \X Nat)
    BY IsASeq DEF FirstUnits
<1> QED BY <1>1, LenProperties DEF FirstUnits

\* What a range of units is as a sequence.
LEMMA UnitsBetweenAre ==
    ASSUME NEW f, NEW m \in Nat, NEW n \in Nat, m <= n
    PROVE  /\ UnitsBetween(f, m, n) \in Seq({f} \X Nat)
           /\ Len(UnitsBetween(f, m, n)) = n - m
           /\ \A i \in 1 .. n - m : UnitsBetween(f, m, n)[i] = <<f, m + i>>
<1>1. n - m \in Nat /\ \A i \in 1 .. n - m : <<f, m + i>> \in {f} \X Nat
    OBVIOUS
<1>2. UnitsBetween(f, m, n) \in Seq({f} \X Nat)
    BY <1>1, IsASeq DEF UnitsBetween
<1> QED BY <1>1, <1>2, LenProperties DEF UnitsBetween

\* A write at the end of a prefix makes the longer prefix.
LEMMA WriteGoesOn ==
    ASSUME NEW f, NEW m \in Nat, NEW n \in Nat, m <= n
    PROVE  WriteAt(FirstUnits(f, m), m, UnitsBetween(f, m, n)) = FirstUnits(f, n)
<1>1. Len(FirstUnits(f, m)) = m /\ Len(UnitsBetween(f, m, n)) = n - m
    BY FirstUnitsAre, UnitsBetweenAre
<1>2. m + (n - m) = n /\ Max({m, n}) = n
    BY MaxOfTwo
<1>3. \A i \in 1 .. n : i > m => i - m \in 1 .. n - m /\ m + (i - m) = i
    OBVIOUS
<1>4. \A i \in 1 .. n :
          (IF i > m /\ i <= n THEN UnitsBetween(f, m, n)[i - m]
           ELSE IF i <= m THEN FirstUnits(f, m)[i] ELSE Hole) = <<f, i>>
    <2>1. TAKE i \in 1 .. n
    <2>2. CASE i > m
        <3>1. UnitsBetween(f, m, n)[i - m] = <<f, m + (i - m)>>
            BY <1>3, <2>2, UnitsBetweenAre
        <3> QED BY <1>3, <2>2, <3>1
    <2>3. CASE i <= m
        <3>1. i \in 1 .. m
            BY <2>3
        <3>2. FirstUnits(f, m)[i] = <<f, i>>
            BY <3>1, FirstUnitsAre
        <3> QED BY <2>3, <3>2
    <2> QED BY <2>2, <2>3
<1> QED BY <1>1, <1>2, <1>4 DEF WriteAt, FirstUnits

\* The beginning of a prefix is the shorter prefix.
LEMMA CutSeq ==
    ASSUME NEW f, NEW m \in Nat, NEW n \in Nat, n <= m
    PROVE  SubSeq(FirstUnits(f, m), 1, n) = FirstUnits(f, n)
<1>1. \A i \in 1 .. n : i \in 1 .. m /\ FirstUnits(f, m)[i] \in {f} \X Nat
                        /\ FirstUnits(f, m)[i] = <<f, i>>
    <2>1. \A i \in 1 .. m : FirstUnits(f, m)[i] = <<f, i>>
        BY FirstUnitsAre
    <2>2. \A i \in 1 .. n : i \in 1 .. m /\ i \in Nat
        OBVIOUS
    <2> QED BY <2>1, <2>2
<1>2. /\ SubSeq(FirstUnits(f, m), 1, n) \in Seq({f} \X Nat)
      /\ Len(SubSeq(FirstUnits(f, m), 1, n)) = n
      /\ \A i \in 1 .. n : SubSeq(FirstUnits(f, m), 1, n)[i] = <<f, i>>
    BY <1>1, SubSeqProperties
<1>3. /\ FirstUnits(f, n) \in Seq({f} \X Nat) /\ Len(FirstUnits(f, n)) = n
      /\ \A i \in 1 .. n : FirstUnits(f, n)[i] = <<f, i>>
    BY FirstUnitsAre
<1> QED BY <1>2, <1>3, SeqEqual

\* truncate to less than there is makes the shorter prefix.
LEMMA Cut ==
    ASSUME NEW f, NEW m \in Nat, NEW n \in Nat, n <= m
    PROVE  Truncated(FirstUnits(f, m), n) = FirstUnits(f, n)
<1>1. /\ FirstUnits(f, m) \in Seq({f} \X Nat) /\ Len(FirstUnits(f, m)) = m
      /\ \A i \in 1 .. m : FirstUnits(f, m)[i] = <<f, i>>
    BY FirstUnitsAre
<1>2. WriteAt(FirstUnits(f, m), n, <<>>) = FirstUnits(f, m)
    <2>1. Len(<<>>) = 0 /\ n + 0 = n /\ Max({n, m}) = m /\ {n, m} = {m, n}
        BY MaxOfTwo
    <2>2. \A i \in 1 .. m :
              (IF i > n /\ i <= n THEN <<>>[i - n]
               ELSE IF i <= m THEN FirstUnits(f, m)[i] ELSE Hole) = <<f, i>>
        BY <1>1
    <2> QED BY <1>1, <2>1, <2>2 DEF WriteAt, FirstUnits
<1>3. SubSeq(FirstUnits(f, m), 1, n) = FirstUnits(f, n)
    BY CutSeq
<1> QED BY <1>2, <1>3 DEF Truncated

\* What is buffered and the next packet are what comes after the flushed prefix.
LEMMA PiecesJoin ==
    ASSUME NEW f, NEW k \in Nat, NEW r \in Nat, NEW n \in 0 .. FileSize, k <= r, r <= n
    PROVE  UnitsBetween(f, k, r) \o SubSeq(Content(f), r + 1, n) = UnitsBetween(f, k, n)
<1> USE SizeAssumption
<1>1. Content(f) = FirstUnits(f, FileSize)
    BY DEF Content, FirstUnits
<1>2. Content(f) \in Seq({f} \X Nat) /\ Len(Content(f)) = FileSize
    BY <1>1, FirstUnitsAre, SizeAssumption
<1> DEFINE a == UnitsBetween(f, k, r)
           b == SubSeq(Content(f), r + 1, n)
<1>3. /\ a \in Seq({f} \X Nat) /\ Len(a) = r - k
      /\ \A i \in 1 .. r - k : a[i] = <<f, k + i>>
    BY UnitsBetweenAre
<1>4. /\ b \in Seq({f} \X Nat) /\ Len(b) = n - r
      /\ \A i \in 1 .. n - r : b[i] = <<f, r + i>>
    <2>1. /\ b \in Seq({f} \X Nat)
          /\ Len(b) = IF r + 1 <= n THEN n - (r + 1) + 1 ELSE 0
          /\ \A i \in 1 .. n - (r + 1) + 1 : b[i] = Content(f)[r + 1 + i - 1]
        <3>1. r + 1 \in Int /\ n \in Int
              /\ \A i \in r + 1 .. n : Content(f)[i] \in {f} \X Nat
            BY DEF Content
        <3> QED BY <3>1, SubSeqProperties
    <2>2. n - (r + 1) + 1 = n - r /\ (~(r + 1 <= n) => n - r = 0)
        OBVIOUS
    <2>3. \A i \in 1 .. n - r : r + 1 + i - 1 = r + i /\ r + i \in 1 .. FileSize
        OBVIOUS
    <2> QED BY <2>1, <2>2, <2>3 DEF Content
<1> HIDE DEF a, b
<1>5. /\ a \o b \in Seq({f} \X Nat) /\ Len(a \o b) = (r - k) + (n - r)
      /\ \A i \in 1 .. (r - k) + (n - r) :
            (a \o b)[i] = IF i <= r - k THEN a[i] ELSE b[i - (r - k)]
    <2>1. /\ a \o b \in Seq({f} \X Nat)
          /\ Len(a \o b) = Len(a) + Len(b)
          /\ \A i \in 1 .. Len(a) + Len(b) :
                (a \o b)[i] = IF i <= Len(a) THEN a[i] ELSE b[i - Len(a)]
        BY <1>3, <1>4, ConcatProperties
    <2> QED BY <1>3, <1>4, <2>1
<1>6. (r - k) + (n - r) = n - k
    OBVIOUS
<1>7. \A i \in 1 .. n - k : (a \o b)[i] = <<f, k + i>>
    <2>1. ASSUME NEW i \in 1 .. n - k, i <= r - k
          PROVE  (a \o b)[i] = <<f, k + i>>
        BY <1>3, <1>5, <1>6, <2>1
    <2>2. ASSUME NEW i \in 1 .. n - k, i > r - k
          PROVE  (a \o b)[i] = <<f, k + i>>
        <3>1. i - (r - k) \in 1 .. n - r /\ r + (i - (r - k)) = k + i
            BY <2>2
        <3>2. (a \o b)[i] = b[i - (r - k)]
            BY <1>5, <1>6, <2>2
        <3>3. b[i - (r - k)] = <<f, r + (i - (r - k))>>
            BY <1>4, <3>1
        <3> QED BY <3>1, <3>2, <3>3
    <2>3. \A i \in 1 .. n - k : i <= r - k \/ i > r - k
        OBVIOUS
    <2> QED BY ONLY <2>1, <2>2, <2>3, Zenon
<1>8. a \o b = UnitsBetween(f, k, n)
    <2>1. /\ UnitsBetween(f, k, n) \in Seq({f} \X Nat) /\ Len(UnitsBetween(f, k, n)) = n - k
          /\ \A i \in 1 .. n - k : UnitsBetween(f, k, n)[i] = <<f, k + i>>
        <3>1. k <= n
            OBVIOUS
        <3>2. n \in Nat
            OBVIOUS
        <3> HIDE DEF UnitsBetween
        <3> QED BY ONLY <3>1, <3>2, k \in Nat, UnitsBetweenAre
    <2>2. Len(a \o b) = Len(UnitsBetween(f, k, n))
        BY <1>5, <1>6, <2>1
    <2>3. \A i \in 1 .. Len(a \o b) : (a \o b)[i] = UnitsBetween(f, k, n)[i]
        BY <1>5, <1>6, <1>7, <2>1
    <2>4. a \o b \in Seq({f} \X Nat) /\ UnitsBetween(f, k, n) \in Seq({f} \X Nat)
        BY <1>5, <2>1
    <2> QED BY <2>2, <2>3, <2>4, SeqEqual
<1> QED BY <1>8 DEF a, b

\* Two prefixes with something in them are equal only if they are of one file.
LEMMA UnitsTell ==
    ASSUME NEW f, NEW g, NEW m \in Nat, NEW n \in Nat, FirstUnits(f, m) = FirstUnits(g, n)
    PROVE  m = n /\ (m > 0 => f = g)
<1>1. m = n
    BY FirstUnitsAre
<1>2. m > 0 => FirstUnits(f, m)[1] = <<f, 1>> /\ FirstUnits(g, n)[1] = <<g, 1>>
    BY <1>1 DEF FirstUnits
<1> QED BY <1>1, <1>2

\* A prefix is a content, so not the absence of one.
LEMMA UnitsExist ==
    ASSUME NEW f \in Files, NEW n \in 0 .. FileSize
    PROVE  FirstUnits(f, n) # NoFile /\ FirstUnits(f, n) \in [1 .. n -> Files \X (1 .. FileSize)]
BY NoFileAssumption, SizeAssumption DEF FirstUnits

\* Nothing is buffered where the flushed prefix ends.
LEMMA NothingBetween ==
    ASSUME NEW f, NEW n \in Nat
    PROVE  UnitsBetween(f, n, n) = <<>> /\ FirstUnits(f, 0) = <<>>
           /\ SubSeq(Content(f), n + 1, n) = <<>>
<1>1. Len(UnitsBetween(f, n, n)) = 0 /\ UnitsBetween(f, n, n) \in Seq({f} \X Nat)
    <2>1. n - n = 0 /\ n <= n
        OBVIOUS
    <2> QED BY <2>1, UnitsBetweenAre
<1>2. Len(FirstUnits(f, 0)) = 0 /\ FirstUnits(f, 0) \in Seq({f} \X Nat)
    BY FirstUnitsAre
<1>3. SubSeq(Content(f), n + 1, n) = <<>>
    BY SubSeqEmpty
<1> QED BY <1>1, <1>2, <1>3, EmptySeq

\* A file is its own longest prefix.
LEMMA ContentIsAll ==
    ASSUME NEW f \in Files
    PROVE  Content(f) = FirstUnits(f, FileSize)
BY DEF Content, FirstUnits

\* What a .part file and its meta file may be.
LEMMA PartsAre ==
    ASSUME DiskTypes, NEW p \in 1 .. Paths
    PROVE  /\ Exists(p) => \E g \in Files, n \in 0 .. FileSize : part[p] = FirstUnits(g, n)
           /\ meta[p].file \in Files \cup {NoFile} /\ meta[p].received \in 0 .. FileSize
BY DEF DiskTypes, Beginnings, Exists

\* resume_candidate_info offers only the beginning of the same file: the .part file is
\* no shorter than the offer, and it is of the file that meta names.
LEMMA OfferIsResumable ==
    ASSUME DiskTypes, KeptIsTrue, NEW f \in Files
    PROVE  /\ ResumeOffer(f) \in 0 .. FileSize - 1
           /\ ResumeOffer(f) > 0 => Resumable(f, ResumeOffer(f))
<1> USE SizeAssumption, PathsAssumption
<1>1. CASE ~Exists(1) \/ meta[1].file # f
    BY <1>1 DEF ResumeOffer
<1>2. CASE Exists(1) /\ meta[1].file = f
    <2>1. PICK g \in Files, m \in 0 .. FileSize : part[1] = FirstUnits(g, m)
        BY <1>2, PartsAre
    <2>2. Len(part[1]) = m
        <3>1. m \in Nat
            OBVIOUS
        <3> QED BY <2>1, <3>1, FirstUnitsAre
    <2> DEFINE b == Min({m, meta[1].received, FileSize})
               n == AlignDown(b)
    <2>3. b \in Nat /\ b <= m /\ b <= meta[1].received /\ b <= FileSize
        BY PartsAre, MinOfThree
    <2>4. n \in 0 .. b
        BY <2>3, Aligned
    <2>5. ResumeOffer(f) = IF n < FileSize THEN n ELSE 0
        BY <1>2, <2>2 DEF ResumeOffer
    <2> HIDE DEF b, n
    <2>6. ASSUME n > 0 PROVE g = f
        <3>1. m \in 1 .. FileSize /\ meta[1].received > 0
            BY <2>3, <2>4, <2>6, PartsAre
        <3>2. meta[1].file \in {g, NoFile}
            BY <2>1, <3>1 DEF KeptIsTrue
        <3> QED BY <1>2, <3>2, NoFileAssumption
    <2>7. n > 0 => Resumable(f, n)
        <3>1. n > 0 => m \in n .. FileSize
            BY <2>3, <2>4
        <3> QED BY <1>2, <2>1, <2>6, <3>1 DEF Resumable
    <2> QED BY <2>3, <2>4, <2>5, <2>7
<1> QED BY <1>1, <1>2

\* unique_path finds a free path when there is one.
LEMMA UniquePathIsFree ==
    ASSUME NEW p \in 1 .. Paths, ~PathTaken(p)
    PROVE  UniquePath \in 1 .. Paths /\ ~PathTaken(UniquePath)
<1> DEFINE free == {q \in 1 .. Paths : ~PathTaken(q)}
<1>1. free \in SUBSET (1 .. Paths) /\ free # {} /\ Paths \in Nat
    BY PathsAssumption
<1> HIDE DEF free
<1>2. Min(free) \in free
    BY <1>1, MinIsMember
<1> QED BY <1>2 DEF free, UniquePath

\* A flush after the packets up to n leaves the first n units in the .part file, with
\* either way of writing.
LEMMA Flushing ==
    ASSUME DiskTypes, AttemptTypes, NEW s \in AttemptIds, Writing(s),
           NEW k \in offset[s] .. received[s], FlushedUpTo(s, k),
           NEW n \in received[s] .. FileSize
    PROVE  LET more == SubSeq(Content(file[s]), received[s] + 1, n) IN
           /\ buffer[s] \o more = UnitsBetween(file[s], k, n)
           /\ Len(buffer[s] \o more) = n - k
           /\ Flushed(s, more) = [part EXCEPT ![path[s]] = FirstUnits(file[s], n)]
<1> USE SizeAssumption
<1> DEFINE more == SubSeq(Content(file[s]), received[s] + 1, n)
<1>1. k \in Nat /\ received[s] \in Nat /\ n \in 0 .. FileSize /\ k <= received[s] /\ k <= n
      /\ received[s] <= n /\ n \in Nat
    BY DEF AttemptTypes
<1>2. buffer[s] \o more = UnitsBetween(file[s], k, n)
    <2>1. UnitsBetween(file[s], k, received[s]) \o more = UnitsBetween(file[s], k, n)
        BY <1>1, PiecesJoin
    <2> QED BY <2>1 DEF FlushedUpTo
<1>3. Len(buffer[s] \o more) = n - k
    <2>1. Len(UnitsBetween(file[s], k, n)) = n - k
        BY <1>1, UnitsBetweenAre
    <2> QED BY <1>2, <2>1
<1>4. Len(part[path[s]]) = k
    <2>1. Len(FirstUnits(file[s], k)) = k
        BY <1>1, FirstUnitsAre
    <2> QED BY <2>1 DEF FlushedUpTo
<1>5. (IF handle[s] = "append" THEN Len(part[path[s]]) ELSE written[s]) = k
    <2>1. CASE handle[s] = "append"
        BY <1>4, <2>1
    <2>2. CASE handle[s] = "write"
        BY <1>1, <2>2 DEF FlushedUpTo
    <2> QED BY <2>1, <2>2 DEF Writing, AttemptTypes
<1>6. WriteAt(part[path[s]], k, buffer[s] \o more) = FirstUnits(file[s], n)
    <2>1. WriteAt(FirstUnits(file[s], k), k, UnitsBetween(file[s], k, n))
              = FirstUnits(file[s], n)
        BY <1>1, WriteGoesOn
    <2> QED BY <1>2, <2>1 DEF FlushedUpTo
<1>7. path[s] \in 1 .. Paths
    BY DEF Writing
<1>8. Flushed(s, more) = [part EXCEPT ![path[s]] = WriteAt(part[path[s]], k, buffer[s] \o more)]
    BY <1>5, <1>7 DEF Flushed, DiskTypes
<1> QED BY <1>2, <1>3, <1>6, <1>8

\* When one attempt is served the others have not begun or are over.
LEMMA Alone ==
    ASSUME Serial, NEW s \in AttemptIds, pc[s] \notin {"new", "end"}
    PROVE  \A t \in AttemptIds \ {s} : pc[t] \in {"new", "end"}
<1>1. TAKE t \in AttemptIds \ {s}
<1>2. t < s \/ s < t
    BY AttemptsAssumption DEF AttemptIds
<1> QED BY <1>2 DEF Serial

\* Only the attempt s takes part in a step.
OthersRest(s) ==
    \A t \in AttemptIds \ {s} :
        /\ pc[t] \in {"new", "end"} /\ pc'[t] = pc[t]
        /\ file'[t] = file[t] /\ path'[t] = path[t]
        /\ offer'[t] = offer[t] /\ offset'[t] = offset[t] /\ received'[t] = received[t]
        /\ handle'[t] = handle[t] /\ written'[t] = written[t] /\ buffer'[t] = buffer[t]

\* A step of one attempt leaves what holds of the others.
LEMMA SessionsKept ==
    ASSUME Sessions, NEW s \in AttemptIds, OthersRest(s), Session(s)'
    PROVE  Sessions'
<1>1. ASSUME NEW t \in AttemptIds \ {s}
      PROVE  Session(t)'
    <2>1. pc'[t] \in {"new", "end"} /\ AtRest(t)
        BY DEF OthersRest, Sessions, Session
    <2>2. AtRest(t)'
        BY <2>1 DEF OthersRest, AtRest, Idle
    <2> QED BY <2>1, <2>2 DEF Session
<1> QED BY <1>1 DEF Sessions

\* A step of the attempt that is served keeps the attempts one after another.
LEMMA SerialKept ==
    ASSUME Serial, NEW s \in AttemptIds, pc[s] \notin {"new", "end"}, OthersRest(s)
    PROVE  Serial'
BY DEF Serial, OthersRest

\* No .part file is open when the attempt that is served has none open.
LEMMA NobodyHolds ==
    ASSUME Sessions, NEW s \in AttemptIds, handle[s] = "closed",
           \A t \in AttemptIds \ {s} : pc[t] \in {"new", "end"}
    PROVE  \A p \in 1 .. Paths : ~Open(p)
BY DEF Open, Sessions, Session, AtRest, Idle

\* The header: what is offered is the beginning of this very file.
LEMMA HeaderStep ==
    ASSUME ResumeInv, ~Overlap, NEW s \in AttemptIds, HandleHeader(s)
    PROVE  ResumeInv'
<1> USE DEF ResumeInv
<1>1. \A t \in AttemptIds \ {s} : pc[t] \in {"new", "end"} /\ (t < s => pc[t] = "end")
    <2>1. TAKE t \in AttemptIds \ {s}
    <2>2. t < s => pc[t] = "end"
        BY DEF HandleHeader, AttemptIds
    <2>3. s < t => pc[t] = "new"
        BY DEF HandleHeader, Serial
    <2>4. t < s \/ s < t
        BY AttemptsAssumption DEF AttemptIds
    <2> QED BY <2>2, <2>3, <2>4
<1>2. PICK f \in Files : /\ file' = [file EXCEPT ![s] = f]
                         /\ offer' = [offer EXCEPT ![s] = ResumeOffer(f)]
    BY DEF HandleHeader
<1>3. PICK n \in 0 .. FileSize - 1 : n = ResumeOffer(f) /\ (n > 0 => Resumable(f, n))
    BY OfferIsResumable
<1>4. DiskTypes' /\ KeptIsTrue'
    BY DEF HandleHeader, DiskTypes, KeptIsTrue, disk
<1>5. AttemptTypes'
    BY <1>2, <1>3 DEF HandleHeader, AttemptTypes, Goes, Places, Outcomes
<1>6. OthersRest(s)
    BY <1>1, <1>2 DEF OthersRest, HandleHeader, AttemptTypes, Goes
<1>7. Serial'
    <2>1. pc' = [pc EXCEPT ![s] = "approval"] /\ pc[s] = "new"
        BY DEF HandleHeader, Goes
    <2>2. \A t \in AttemptIds \ {s} : pc'[t] = pc[t]
        BY <2>1 DEF AttemptTypes
    <2>3. \A t \in AttemptIds : t < s => t # s
        BY DEF AttemptIds
    <2>4. ASSUME NEW a \in AttemptIds, NEW b \in AttemptIds, a < b, pc'[b] # "new"
          PROVE  pc'[a] = "end"
        <3>1. CASE b = s
            BY <1>1, <2>2, <2>3, <2>4, <3>1
        <3>2. CASE b # s
            <4>1. pc[a] = "end"
                BY <2>2, <2>4, <3>2 DEF Serial
            <4> QED BY <2>1, <2>2, <4>1
        <3> QED BY <3>1, <3>2
    <2> QED BY <2>4 DEF Serial
<1>8. Session(s)'
    <2>1. AtRest(s)
        BY DEF Sessions, Session, HandleHeader
    <2>2. /\ handle'[s] = handle[s] /\ received'[s] = received[s] /\ written'[s] = written[s]
          /\ buffer'[s] = buffer[s] /\ offset'[s] = offset[s]
          /\ file'[s] = f /\ offer'[s] = n /\ pc'[s] = "approval"
        BY <1>2, <1>3 DEF HandleHeader, AttemptTypes, Goes
    <2>3. n > 0 => (meta'[1].file = f /\ \E m \in n .. FileSize : part'[1] = FirstUnits(f, m))
        BY <1>3 DEF HandleHeader, Resumable, disk
    <2>4. AtApproval(s)'
        <3>1. Idle(s)' /\ offset'[s] = 0
            BY <2>1, <2>2 DEF AtRest, Idle
        <3> QED BY <2>2, <2>3, <3>1 DEF AtApproval, Resumable
    <2> QED BY <2>2, <2>4 DEF Session
<1>9. Sessions'
    BY <1>6, <1>8, SessionsKept
<1> QED BY <1>4, <1>5, <1>7, <1>9

\* The decision: resumption is chosen only when it is offered.
LEMMA DecisionStep ==
    ASSUME ResumeInv, NEW s \in AttemptIds, DecideConflict(s)
    PROVE  ResumeInv'
<1> USE DEF ResumeInv
<1>1. pc[s] = "approval" /\ AtApproval(s)
    BY DEF DecideConflict, Sessions, Session
<1>2. \A t \in AttemptIds \ {s} : pc[t] \in {"new", "end"}
    BY <1>1, Alone
<1>3. PICK choice \in PolicyChoices(s) :
          /\ choice = "rename" => \E p \in 1 .. Paths : ~PathTaken(p)
          /\ policy' = [policy EXCEPT ![s] = choice]
          /\ path' = [path EXCEPT ![s] = IF choice = "rename" THEN UniquePath ELSE 1]
          /\ offset' = [offset EXCEPT ![s] = IF choice = "resume" THEN offer[s] ELSE 0]
    BY DEF DecideConflict
<1>4. choice \in Policies /\ (choice = "resume" => offer[s] > 0)
    BY <1>3 DEF PolicyChoices, Policies
<1>5. (IF choice = "rename" THEN UniquePath ELSE 1) \in 1 .. Paths
    BY <1>3, UniquePathIsFree, PathsAssumption
<1>6. DiskTypes' /\ KeptIsTrue'
    BY DEF DecideConflict, DiskTypes, KeptIsTrue, disk
<1>7. /\ file' = file /\ offer' = offer /\ received' = received /\ handle' = handle
      /\ written' = written /\ buffer' = buffer /\ disk' = disk
    BY DEF DecideConflict
<1>8. \/ pc' = [pc EXCEPT ![s] = "open"] /\ exitReason' = exitReason
      \/ pc' = [pc EXCEPT ![s] = "leave"]
             /\ exitReason' = [exitReason EXCEPT ![s] = "rejected"]
    BY DEF DecideConflict, Goes, AttemptEnds
<1>9. AttemptTypes'
    <2>1. 0 \in 0 .. FileSize - 1 /\ 1 .. Paths \subseteq 0 .. Paths
        BY SizeAssumption, PathsAssumption
    <2> QED BY <1>3, <1>4, <1>5, <1>7, <1>8, <2>1 DEF AttemptTypes, Places, Outcomes
<1>10. OthersRest(s)
    BY <1>2, <1>3, <1>7, <1>8 DEF OthersRest, AttemptTypes
<1>11. Serial'
    BY <1>1, <1>10, SerialKept
<1>12. /\ policy'[s] = choice /\ path'[s] \in 1 .. Paths
       /\ choice # "rename" => path'[s] = 1
       /\ offset'[s] = IF choice = "resume" THEN offer[s] ELSE 0
    BY <1>3, <1>5 DEF AttemptTypes
<1>13. Idle(s)' /\ file'[s] \in Files
    BY <1>1, <1>7 DEF AtApproval, Idle
<1>14. ASSUME pc' = [pc EXCEPT ![s] = "open"]
       PROVE  Session(s)'
    <2>1. choice = "resume" => Resumable(file[s], offer[s])
        BY <1>1, <1>4 DEF AtApproval
    <2>2. choice = "resume" => Resumable(file[s], offset[s])'
        BY <1>7, <1>12, <2>1 DEF Resumable, disk
    <2>3. AtOpen(s)'
        BY <1>12, <1>13, <2>2 DEF AtOpen
    <2> QED BY <1>14, <2>3 DEF Session, AttemptTypes
<1>15. ASSUME pc' = [pc EXCEPT ![s] = "leave"],
              exitReason' = [exitReason EXCEPT ![s] = "rejected"]
       PROVE  Session(s)'
    <2>1. pc'[s] = "leave" /\ exitReason'[s] = "rejected"
        BY <1>15 DEF AttemptTypes
    <2>2. AtLeave(s)'
        BY <1>12, <1>13, <2>1 DEF AtLeave, Idle
    <2> QED BY <2>1, <2>2 DEF Session
<1>16. Sessions'
    BY <1>8, <1>10, <1>14, <1>15, SessionsKept
<1> QED BY <1>6, <1>9, <1>11, <1>16

\* A range of units of a file is a sequence of units.
LEMMA UnitsTyped ==
    ASSUME NEW f \in Files, NEW m \in Nat, NEW n \in Nat, m <= n
    PROVE  UnitsBetween(f, m, n) \in Seq(Files \X Nat)
<1>1. n - m \in Nat /\ \A i \in 1 .. n - m : <<f, m + i>> \in Files \X Nat
    OBVIOUS
<1> QED BY <1>1, IsASeq DEF UnitsBetween

-----------------------------------------------------------------------------
(* One lemma for each step of an attempt.                                  *)

\* The prefixes are contents.
LEMMA PrefixesAre ==
    ASSUME NEW f \in Files, NEW n \in 0 .. FileSize
    PROVE  FirstUnits(f, n) \in Beginnings /\ FirstUnits(f, n) # NoFile
BY UnitsExist DEF Beginnings

\* What meta says stays true when one path changes and is true there.
LEMMA KeptOnOthers ==
    ASSUME KeptIsTrue, NEW q \in 1 .. Paths,
           \A p \in 1 .. Paths \ {q} : part'[p] = part[p] /\ meta'[p] = meta[p],
           \A g \in Files, n \in 1 .. FileSize :
               part'[q] = FirstUnits(g, n) /\ meta'[q].received > 0 => meta'[q].file \in {g, NoFile}
    PROVE  KeptIsTrue'
BY DEF KeptIsTrue

\* It is true of a path that holds the beginning of the file its meta names.
LEMMA KeptOwn ==
    ASSUME KeptIsTrue, NEW q \in 1 .. Paths, NEW f \in Files, NEW k \in 0 .. FileSize,
           \A p \in 1 .. Paths \ {q} : part'[p] = part[p] /\ meta'[p] = meta[p],
           part'[q] = FirstUnits(f, k),
           k = 0 \/ meta'[q].file = f \/ meta'[q].received = 0
    PROVE  KeptIsTrue'
<1>1. ASSUME NEW g \in Files, NEW n \in 1 .. FileSize, part'[q] = FirstUnits(g, n),
             meta'[q].received > 0
      PROVE  meta'[q].file \in {g, NoFile}
    <2>1. k \in Nat /\ n \in Nat /\ n > 0
        BY SizeAssumption
    <2>2. FirstUnits(f, k) = FirstUnits(g, n)
        BY <1>1
    <2>3. k = n /\ f = g
        BY <2>1, <2>2, UnitsTell
    <2> QED BY <1>1, <2>1, <2>3
<1> QED BY <1>1, KeptOnOthers

\* The first open cuts the .part file to the offset, which it has: it is there and long
\* enough, so this check refuses nobody.
LEMMA TruncateStep ==
    ASSUME ResumeInv, NEW s \in AttemptIds, OpenTruncates(s)
    PROVE  ResumeInv'
<1> USE DEF ResumeInv
<1>1. pc[s] = "open" /\ AtOpen(s) /\ policy[s] = "resume"
    BY DEF OpenTruncates, Sessions, Session
<1>2. \A t \in AttemptIds \ {s} : pc[t] \in {"new", "end"}
    BY <1>1, Alone
<1>3. /\ path[s] = 1 /\ file[s] \in Files /\ meta[1].file = file[s] /\ 1 \in 1 .. Paths
      /\ offset[s] \in 0 .. FileSize - 1 /\ offset[s] \in 0 .. FileSize
    BY <1>1, PathsAssumption, SizeAssumption DEF AtOpen, Resumable, AttemptTypes
<1>4. PICK m \in offset[s] .. FileSize : part[1] = FirstUnits(file[s], m)
    BY <1>1 DEF AtOpen, Resumable
<1>5. m \in Nat /\ offset[s] \in Nat /\ offset[s] <= m /\ m \in 0 .. FileSize
    BY <1>3, SizeAssumption
<1>6. Exists(1)
    BY <1>3, <1>4, <1>5, PrefixesAre DEF Exists
<1>7. Truncated(part[1], offset[s]) = FirstUnits(file[s], offset[s])
    BY <1>4, <1>5, Cut
<1>8. /\ part' = [part EXCEPT ![1] = FirstUnits(file[s], offset[s])]
      /\ pc' = [pc EXCEPT ![s] = "append"] /\ exitReason' = exitReason
      /\ meta' = meta /\ out' = out /\ local' = local
    BY <1>6, <1>7 DEF OpenTruncates, Goes
<1>9. part'[1] = FirstUnits(file[s], offset[s]) /\ pc'[s] = "append"
    BY <1>3, <1>8 DEF DiskTypes, AttemptTypes
<1>10. DiskTypes'
    <2>1. FirstUnits(file[s], offset[s]) \in Beginnings
        BY <1>3, PrefixesAre
    <2> QED BY <1>8, <2>1 DEF DiskTypes
<1>11. AttemptTypes'
    BY <1>8 DEF AttemptTypes, Places, Outcomes, local
<1>12. KeptIsTrue'
    <2>1. \A p \in 1 .. Paths \ {1} : part'[p] = part[p] /\ meta'[p] = meta[p]
        BY <1>8 DEF DiskTypes
    <2>2. meta'[1].file = file[s]
        BY <1>3, <1>8
    <2> QED BY <1>3, <1>9, <2>1, <2>2, KeptOwn
<1>13. OthersRest(s)
    BY <1>2, <1>8 DEF OthersRest, AttemptTypes, local
<1>14. Serial'
    BY <1>1, <1>13, SerialKept
<1>15. Session(s)'
    <2>1. AtAppend(s)'
        BY <1>1, <1>3, <1>8, <1>9 DEF AtOpen, AtAppend, Idle, local
    <2> QED BY <1>9, <2>1 DEF Session
<1>16. Sessions'
    BY <1>13, <1>15, SessionsKept
<1> QED BY <1>10, <1>11, <1>12, <1>14, <1>16

\* The second open appends to the prefix that was cut.
LEMMA AppendStep ==
    ASSUME ResumeInv, NEW s \in AttemptIds, OpenAppends(s)
    PROVE  ResumeInv'
<1> USE DEF ResumeInv
<1>1. pc[s] = "append" /\ AtAppend(s)
    BY DEF OpenAppends, Sessions, Session
<1>2. \A t \in AttemptIds \ {s} : pc[t] \in {"new", "end"}
    BY <1>1, Alone
<1>3. /\ path[s] = 1 /\ file[s] \in Files /\ meta[1].file = file[s] /\ 1 \in 1 .. Paths
      /\ offset[s] \in 0 .. FileSize /\ offset[s] \in Nat
      /\ part[1] = FirstUnits(file[s], offset[s]) /\ buffer[s] = <<>>
      /\ written[s] = 0 /\ offset[s] - offset[s] = 0
    BY <1>1, PathsAssumption, SizeAssumption DEF AtAppend, Idle, AttemptTypes
<1>4. Exists(1)
    BY <1>3, PrefixesAre DEF Exists
<1>5. /\ part' = part /\ meta' = meta /\ out' = out
      /\ handle' = [handle EXCEPT ![s] = "append"]
      /\ received' = [received EXCEPT ![s] = offset[s]]
      /\ pc' = [pc EXCEPT ![s] = "meta"] /\ exitReason' = exitReason
      /\ file' = file /\ path' = path /\ policy' = policy /\ conflict' = conflict
      /\ offer' = offer /\ offset' = offset /\ written' = written /\ buffer' = buffer
    BY <1>4 DEF OpenAppends, Goes
<1>6. pc'[s] = "meta" /\ handle'[s] = "append" /\ received'[s] = offset[s]
    BY <1>5 DEF AttemptTypes
<1>7. DiskTypes' /\ KeptIsTrue'
    BY <1>5 DEF DiskTypes, KeptIsTrue
<1>8. AttemptTypes'
    BY <1>3, <1>5 DEF AttemptTypes, Places, Outcomes
<1>9. OthersRest(s)
    BY <1>2, <1>5 DEF OthersRest, AttemptTypes
<1>10. Serial'
    BY <1>1, <1>9, SerialKept
<1>11. Session(s)'
    <2>1. UnitsBetween(file[s], offset[s], offset[s]) = <<>>
        BY <1>3, NothingBetween
    <2>2. FlushedUpTo(s, offset[s])'
        BY <1>3, <1>5, <1>6, <2>1 DEF FlushedUpTo
    <2>3. offset[s] \in offset'[s] .. received'[s]
        BY <1>3, <1>5, <1>6
    <2>4. Writing(s)'
        BY <1>3, <1>5, <1>6, <2>2, <2>3 DEF Writing
    <2> QED BY <1>5, <1>6, <2>4 DEF Session
<1>12. Sessions'
    BY <1>9, <1>11, SessionsKept
<1> QED BY <1>7, <1>8, <1>10, <1>12

\* An old .part file is removed: nobody has it open.
LEMMA RemoveStep ==
    ASSUME ResumeInv, NEW s \in AttemptIds, OpenRemoves(s)
    PROVE  ResumeInv'
<1> USE DEF ResumeInv
<1>1. pc[s] = "open" /\ AtOpen(s) /\ policy[s] # "resume"
    BY DEF OpenRemoves, Sessions, Session
<1>2. \A t \in AttemptIds \ {s} : pc[t] \in {"new", "end"}
    BY <1>1, Alone
<1>3. path[s] \in 1 .. Paths /\ file[s] \in Files /\ handle[s] = "closed" /\ offset[s] = 0
    BY <1>1 DEF AtOpen, Idle
<1>4. ~Open(path[s])
    BY <1>2, <1>3, NobodyHolds
<1>5. /\ \/ /\ part' = [part EXCEPT ![path[s]] = NoFile]
            /\ meta' = [meta EXCEPT ![path[s]] = NoMeta]
         \/ ~Exists(path[s]) /\ part' = part /\ meta' = meta
      /\ pc' = [pc EXCEPT ![s] = "create"] /\ exitReason' = exitReason
      /\ out' = out /\ local' = local
    BY <1>4 DEF OpenRemoves, Goes
<1>6. part'[path[s]] = NoFile /\ pc'[s] = "create"
    BY <1>3, <1>5 DEF DiskTypes, AttemptTypes, Exists
<1>7. DiskTypes'
    <2>1. NoMeta \in [file : Files \cup {NoFile}, received : 0 .. FileSize]
        BY SizeAssumption DEF NoMeta
    <2> QED BY <1>5, <2>1 DEF DiskTypes, Beginnings
<1>8. AttemptTypes'
    BY <1>5 DEF AttemptTypes, Places, Outcomes, local
<1>9. KeptIsTrue'
    <2>1. \A p \in 1 .. Paths \ {path[s]} : part'[p] = part[p] /\ meta'[p] = meta[p]
        BY <1>5 DEF DiskTypes
    <2>2. \A g \in Files, n \in 1 .. FileSize : part'[path[s]] # FirstUnits(g, n)
        BY <1>6, PrefixesAre, SizeAssumption
    <2> QED BY <1>3, <2>1, <2>2, KeptOnOthers
<1>10. OthersRest(s)
    BY <1>2, <1>5 DEF OthersRest, AttemptTypes, local
<1>11. Serial'
    BY <1>1, <1>10, SerialKept
<1>12. Session(s)'
    <2>1. AtCreate(s)'
        BY <1>1, <1>3, <1>5, <1>6 DEF AtOpen, AtCreate, Idle, local
    <2> QED BY <1>6, <2>1 DEF Session
<1>13. Sessions'
    BY <1>10, <1>12, SessionsKept
<1> QED BY <1>7, <1>8, <1>9, <1>11, <1>13

\* A new .part file is empty.
LEMMA CreateStep ==
    ASSUME ResumeInv, NEW s \in AttemptIds, OpenCreates(s)
    PROVE  ResumeInv'
<1> USE DEF ResumeInv
<1>1. pc[s] = "create" /\ AtCreate(s)
    BY DEF OpenCreates, Sessions, Session
<1>2. \A t \in AttemptIds \ {s} : pc[t] \in {"new", "end"}
    BY <1>1, Alone
<1>3. /\ path[s] \in 1 .. Paths /\ file[s] \in Files /\ offset[s] = 0 /\ received[s] = 0
      /\ written[s] = 0 /\ buffer[s] = <<>> /\ 0 \in 0 .. FileSize /\ 0 \in Nat
    BY <1>1, SizeAssumption DEF AtCreate, Idle
<1>4. FirstUnits(file[s], 0) = <<>> /\ UnitsBetween(file[s], 0, 0) = <<>>
    BY <1>3, NothingBetween
<1>5. /\ part' = [part EXCEPT ![path[s]] = FirstUnits(file[s], 0)]
      /\ meta' = meta /\ out' = out
      /\ handle' = [handle EXCEPT ![s] = "write"]
      /\ pc' = [pc EXCEPT ![s] = "meta"] /\ exitReason' = exitReason
      /\ file' = file /\ path' = path /\ policy' = policy /\ conflict' = conflict
      /\ offer' = offer /\ offset' = offset /\ received' = received
      /\ written' = written /\ buffer' = buffer
    BY <1>4 DEF OpenCreates, Goes
<1>6. pc'[s] = "meta" /\ handle'[s] = "write" /\ part'[path[s]] = FirstUnits(file[s], 0)
    BY <1>3, <1>5 DEF AttemptTypes, DiskTypes
<1>7. DiskTypes'
    <2>1. FirstUnits(file[s], 0) \in Beginnings
        BY <1>3, PrefixesAre
    <2> QED BY <1>5, <2>1 DEF DiskTypes
<1>8. KeptIsTrue'
    <2>1. \A p \in 1 .. Paths \ {path[s]} : part'[p] = part[p] /\ meta'[p] = meta[p]
        BY <1>5 DEF DiskTypes
    <2> QED BY <1>3, <1>6, <2>1, KeptOwn
<1>9. AttemptTypes'
    BY <1>5 DEF AttemptTypes, Places, Outcomes
<1>10. OthersRest(s)
    BY <1>2, <1>5 DEF OthersRest, AttemptTypes
<1>11. Serial'
    BY <1>1, <1>10, SerialKept
<1>12. Session(s)'
    <2>1. FlushedUpTo(s, 0)'
        BY <1>3, <1>4, <1>5, <1>6 DEF FlushedUpTo
    <2>2. 0 \in offset'[s] .. received'[s]
        BY <1>3, <1>5
    <2>3. Writing(s)'
        BY <1>3, <1>5, <1>6, <2>1, <2>2 DEF Writing
    <2> QED BY <1>3, <1>5, <1>6, <2>3 DEF Session
<1>13. Sessions'
    BY <1>10, <1>12, SessionsKept
<1> QED BY <1>7, <1>8, <1>9, <1>11, <1>13

\* The meta file names the file whose beginning is there.
LEMMA MetaStep ==
    ASSUME ResumeInv, NEW s \in AttemptIds, WriteMeta(s)
    PROVE  ResumeInv'
<1> USE DEF ResumeInv
<1>1. pc[s] = "meta" /\ Writing(s)
    BY DEF WriteMeta, Sessions, Session
<1>2. \A t \in AttemptIds \ {s} : pc[t] \in {"new", "end"}
    BY <1>1, Alone
<1>3. path[s] \in 1 .. Paths /\ file[s] \in Files /\ received[s] \in 0 .. FileSize
    BY <1>1 DEF Writing, AttemptTypes
<1>4. PICK k \in offset[s] .. received[s] : FlushedUpTo(s, k)
    BY <1>1 DEF Writing
<1>5. k \in 0 .. FileSize
    BY <1>3, <1>4, SizeAssumption DEF AttemptTypes
<1>6. /\ meta' = [meta EXCEPT ![path[s]] = [file |-> file[s], received |-> received[s]]]
      /\ part' = part /\ out' = out /\ local' = local
      /\ pc' = [pc EXCEPT ![s] = "receive"] /\ exitReason' = exitReason
    BY DEF WriteMeta, MetaOf, Goes
<1>7. pc'[s] = "receive" /\ meta'[path[s]] = [file |-> file[s], received |-> received[s]]
    BY <1>3, <1>6 DEF AttemptTypes, DiskTypes
<1>8. DiskTypes'
    BY <1>3, <1>6 DEF DiskTypes
<1>9. KeptIsTrue'
    <2>1. \A p \in 1 .. Paths \ {path[s]} : part'[p] = part[p] /\ meta'[p] = meta[p]
        BY <1>6 DEF DiskTypes
    <2>2. part'[path[s]] = FirstUnits(file[s], k) /\ meta'[path[s]].file = file[s]
        BY <1>4, <1>6, <1>7 DEF FlushedUpTo
    <2> QED BY <1>3, <1>5, <2>1, <2>2, KeptOwn
<1>10. AttemptTypes'
    BY <1>6 DEF AttemptTypes, Places, Outcomes, local
<1>11. OthersRest(s)
    BY <1>2, <1>6 DEF OthersRest, AttemptTypes, local
<1>12. Serial'
    BY <1>1, <1>11, SerialKept
<1>13. Session(s)'
    <2>1. Writing(s)'
        BY <1>1, <1>6 DEF Writing, FlushedUpTo, local
    <2>2. AtReceive(s)'
        BY <1>6, <1>7, <2>1 DEF AtReceive, local
    <2> QED BY <1>7, <2>2 DEF Session
<1>14. Sessions'
    BY <1>11, <1>13, SessionsKept
<1> QED BY <1>8, <1>9, <1>10, <1>12, <1>14

\* A packet ends within the file and not before it begins.
LEMMA PacketEnds ==
    ASSUME NEW n \in 0 .. FileSize
    PROVE  PacketEnd(n) \in n .. FileSize
<1>1. n \in Nat /\ FileSize \in Nat /\ Payload \in Nat /\ n + Payload \in Nat
    BY SizeAssumption
<1>2. PacketEnd(n) \in {n + Payload, FileSize} /\ PacketEnd(n) <= FileSize
    BY <1>1, MinOfTwo DEF PacketEnd
<1> QED BY <1>1, <1>2

\* A packet extends the buffer, or the .part file: both together stay a prefix.
LEMMA ReceiveStep ==
    ASSUME ResumeInv, NEW s \in AttemptIds, Receive(s)
    PROVE  ResumeInv'
<1> USE DEF ResumeInv
<1>1. pc[s] = "receive" /\ AtReceive(s) /\ Writing(s)
    BY DEF Receive, Sessions, Session, AtReceive
<1>2. \A t \in AttemptIds \ {s} : pc[t] \in {"new", "end"}
    BY <1>1, Alone
<1>3. /\ path[s] \in 1 .. Paths /\ file[s] \in Files /\ received[s] \in 0 .. FileSize
      /\ meta[path[s]].file = file[s] /\ handle[s] # "closed" /\ offset[s] \in 0 .. FileSize - 1
      /\ FileSize \in Nat
    BY <1>1, SizeAssumption DEF AtReceive, Writing, AttemptTypes
<1>4. PICK k \in offset[s] .. received[s] : FlushedUpTo(s, k)
    BY <1>1 DEF Writing
<1>5. PICK n \in received[s] .. FileSize : n = PacketEnd(received[s])
    BY <1>3, PacketEnds
<1>6. k \in 0 .. FileSize /\ n \in 0 .. FileSize /\ k \in offset[s] .. n
      /\ n \in offset[s] .. n /\ k \in Nat /\ n \in Nat /\ k <= n
    BY <1>3, <1>4, <1>5
<1> DEFINE data == SubSeq(Content(file[s]), received[s] + 1, n)
<1>7. /\ buffer[s] \o data = UnitsBetween(file[s], k, n)
      /\ Len(buffer[s] \o data) = n - k
      /\ Flushed(s, data) = [part EXCEPT ![path[s]] = FirstUnits(file[s], n)]
    BY <1>1, <1>4, <1>5, Flushing
<1>8. /\ received' = [received EXCEPT ![s] = n]
      /\ \/ /\ buffer' = [buffer EXCEPT ![s] = UnitsBetween(file[s], k, n)]
            /\ part' = part /\ written' = written
         \/ /\ part' = [part EXCEPT ![path[s]] = FirstUnits(file[s], n)]
            /\ written' = [written EXCEPT ![s] = written[s] + (n - k)]
            /\ buffer' = [buffer EXCEPT ![s] = <<>>]
      /\ meta' = meta \/ meta' = [meta EXCEPT ![path[s]] = [file |-> file[s], received |-> n]]
    <2> HIDE DEF data
    <2>1. Receive(s) => 
          /\ received' = [received EXCEPT ![s] = n]
          /\ \/ /\ buffer' = [buffer EXCEPT ![s] = buffer[s] \o data]
                /\ part' = part /\ written' = written
             \/ /\ part' = Flushed(s, data)
                /\ written' = [written EXCEPT ![s] = written[s] + Len(buffer[s] \o data)]
                /\ buffer' = [buffer EXCEPT ![s] = <<>>]
          /\ meta' = meta \/ meta' = MetaOf(s, n)
        BY <1>5 DEF Receive, AttemptTypes, data
    <2> QED BY <1>7, <2>1 DEF MetaOf
<1>9. /\ out' = out /\ pc' = pc /\ file' = file /\ path' = path /\ policy' = policy
      /\ conflict' = conflict /\ offer' = offer /\ offset' = offset /\ handle' = handle
      /\ exitReason' = exitReason
    BY DEF Receive
<1>10. PICK j \in offset[s] .. n :
          /\ part'[path[s]] = FirstUnits(file[s], j)
          /\ buffer'[s] = UnitsBetween(file[s], j, n)
          /\ written'[s] = j - offset[s] /\ buffer'[s] \in Seq(Files \X Nat)
          /\ part' = [part EXCEPT ![path[s]] = FirstUnits(file[s], j)]
    <2>1. CASE /\ buffer' = [buffer EXCEPT ![s] = UnitsBetween(file[s], k, n)]
               /\ part' = part /\ written' = written
        <3>1. k \in offset[s] .. n
            BY <1>6
        <3>2. buffer'[s] = UnitsBetween(file[s], k, n) /\ written'[s] = k - offset[s]
            BY <1>4, <2>1 DEF AttemptTypes, FlushedUpTo
        <3>3. part'[path[s]] = FirstUnits(file[s], k)
            BY <1>4, <2>1 DEF FlushedUpTo
        <3>4. part' = [part EXCEPT ![path[s]] = FirstUnits(file[s], k)]
            BY <1>3, <2>1, <3>3 DEF DiskTypes
        <3>5. buffer'[s] \in Seq(Files \X Nat)
            BY <1>3, <1>6, <3>2, UnitsTyped
        <3> QED BY <3>1, <3>2, <3>3, <3>4, <3>5
    <2>2. CASE /\ part' = [part EXCEPT ![path[s]] = FirstUnits(file[s], n)]
               /\ written' = [written EXCEPT ![s] = written[s] + (n - k)]
               /\ buffer' = [buffer EXCEPT ![s] = <<>>]
        <3>1. n \in offset[s] .. n
            BY <1>6
        <3>2. buffer'[s] = <<>> /\ UnitsBetween(file[s], n, n) = <<>>
            BY <1>6, <2>2, NothingBetween DEF AttemptTypes
        <3>3. written'[s] = n - offset[s]
            <4>1. written[s] = k - offset[s] /\ written'[s] = written[s] + (n - k)
                BY <1>4, <2>2 DEF AttemptTypes, FlushedUpTo
            <4> QED BY <1>3, <1>6, <4>1
        <3>4. part'[path[s]] = FirstUnits(file[s], n)
            BY <1>3, <2>2 DEF DiskTypes
        <3>5. buffer'[s] \in Seq(Files \X Nat)
            BY <3>2
        <3> QED BY <2>2, <3>1, <3>2, <3>3, <3>4, <3>5
    <2> QED BY <1>8, <2>1, <2>2
<1>11. j \in 0 .. FileSize /\ j - offset[s] \in 0 .. FileSize /\ j \in offset[s] .. n
    BY <1>3, <1>6, <1>10
<1>12. received'[s] = n /\ (meta'[path[s]] = meta[path[s]]
                             \/ meta'[path[s]] = [file |-> file[s], received |-> n])
    BY <1>3, <1>8 DEF AttemptTypes, DiskTypes
<1>13. DiskTypes'
    <2>1. FirstUnits(file[s], j) \in Beginnings
        BY <1>3, <1>11, PrefixesAre
    <2>2. part' \in [1 .. Paths -> {NoFile} \cup Beginnings]
        BY <1>10, <2>1 DEF DiskTypes
    <2>3. meta' \in [1 .. Paths -> [file : Files \cup {NoFile}, received : 0 .. FileSize]]
        BY <1>3, <1>6, <1>8 DEF DiskTypes
    <2> QED BY <1>9, <2>2, <2>3 DEF DiskTypes
<1>14. AttemptTypes'
    <2>1. received' \in [AttemptIds -> 0 .. FileSize]
        BY <1>6, <1>8 DEF AttemptTypes
    <2>2. \E b : buffer' = [buffer EXCEPT ![s] = b]
        BY <1>8
    <2>3. buffer' \in [AttemptIds -> Seq(Files \X Nat)]
        BY <1>10, <2>2 DEF AttemptTypes
    <2>4. \E w : written' = [written EXCEPT ![s] = w]
        <3>1. written = [written EXCEPT ![s] = written[s]]
            BY DEF AttemptTypes
        <3> QED BY <1>8, <3>1
    <2>5. written' \in [AttemptIds -> 0 .. FileSize]
        BY <1>10, <1>11, <2>4 DEF AttemptTypes
    <2> QED BY <1>9, <2>1, <2>3, <2>5 DEF AttemptTypes
<1>15. KeptIsTrue'
    <2>1. \A p \in 1 .. Paths \ {path[s]} : part'[p] = part[p] /\ meta'[p] = meta[p]
        BY <1>8 DEF DiskTypes
    <2>2. meta'[path[s]].file = file[s]
        BY <1>3, <1>12
    <2> QED BY <1>3, <1>10, <1>11, <2>1, <2>2, KeptOwn
<1>16. OthersRest(s)
    BY <1>2, <1>8, <1>9 DEF OthersRest, AttemptTypes
<1>17. Serial'
    BY <1>1, <1>16, SerialKept
<1>18. Session(s)'
    <2>1. handle[s] = "write" => offset[s] = 0
        BY <1>4 DEF FlushedUpTo
    <2>2. FlushedUpTo(s, j)'
        BY <1>9, <1>10, <1>12, <2>1 DEF FlushedUpTo
    <2>3. Writing(s)'
        BY <1>3, <1>9, <1>11, <1>12, <2>2 DEF Writing
    <2>4. meta'[path[s]].file = file[s]
        BY <1>3, <1>12
    <2>5. AtReceive(s)'
        BY <1>9, <2>3, <2>4 DEF AtReceive
    <2> QED BY <1>1, <1>9, <2>5 DEF Session
<1>19. Sessions'
    BY <1>16, <1>18, SessionsKept
<1> QED BY <1>13, <1>14, <1>15, <1>17, <1>19

\* After the last flush the .part file is the file.
LEMMA EofStep ==
    ASSUME ResumeInv, NEW s \in AttemptIds, HandleEof(s)
    PROVE  ResumeInv'
<1> USE DEF ResumeInv
<1>1. pc[s] = "receive" /\ AtReceive(s) /\ Writing(s) /\ received[s] = FileSize
    BY DEF HandleEof, Sessions, Session, AtReceive
<1>2. \A t \in AttemptIds \ {s} : pc[t] \in {"new", "end"}
    BY <1>1, Alone
<1>3. /\ path[s] \in 1 .. Paths /\ file[s] \in Files /\ meta[path[s]].file = file[s]
      /\ FileSize \in 0 .. FileSize /\ FileSize \in Nat /\ FileSize \in received[s] .. FileSize
    BY <1>1, SizeAssumption DEF AtReceive, Writing
<1>4. PICK k \in offset[s] .. received[s] : FlushedUpTo(s, k)
    BY <1>1 DEF Writing
<1>5. Flushed(s, <<>>) = [part EXCEPT ![path[s]] = FirstUnits(file[s], FileSize)]
    <2>1. SubSeq(Content(file[s]), received[s] + 1, FileSize) = <<>>
        BY <1>1, <1>3, NothingBetween
    <2>2. Flushed(s, SubSeq(Content(file[s]), received[s] + 1, FileSize))
              = [part EXCEPT ![path[s]] = FirstUnits(file[s], FileSize)]
        BY <1>1, <1>3, <1>4, Flushing
    <2> QED BY <2>1, <2>2
<1>6. /\ part' = [part EXCEPT ![path[s]] = FirstUnits(file[s], FileSize)]
      /\ handle' = [handle EXCEPT ![s] = "closed"]
      /\ buffer' = [buffer EXCEPT ![s] = <<>>]
      /\ pc' = [pc EXCEPT ![s] = "verify"]
      /\ meta' = meta /\ out' = out /\ file' = file /\ path' = path /\ policy' = policy
      /\ conflict' = conflict /\ offer' = offer /\ offset' = offset
      /\ received' = received /\ written' = written /\ exitReason' = exitReason
    BY <1>5 DEF HandleEof, Goes
<1>7. /\ part'[path[s]] = FirstUnits(file[s], FileSize) /\ pc'[s] = "verify"
      /\ handle'[s] = "closed" /\ buffer'[s] = <<>>
    BY <1>3, <1>6 DEF DiskTypes, AttemptTypes
<1>8. DiskTypes'
    <2>1. FirstUnits(file[s], FileSize) \in Beginnings
        BY <1>3, PrefixesAre
    <2> QED BY <1>6, <2>1 DEF DiskTypes
<1>9. KeptIsTrue'
    <2>1. \A p \in 1 .. Paths \ {path[s]} : part'[p] = part[p] /\ meta'[p] = meta[p]
        BY <1>6 DEF DiskTypes
    <2>2. meta'[path[s]].file = file[s]
        BY <1>3, <1>6
    <2> QED BY <1>3, <1>7, <2>1, <2>2, KeptOwn
<1>10. AttemptTypes'
    <2>1. <<>> \in Seq(Files \X Nat)
        OBVIOUS
    <2> QED BY <1>6, <2>1 DEF AttemptTypes, Places, Outcomes
<1>11. OthersRest(s)
    BY <1>2, <1>6 DEF OthersRest, AttemptTypes
<1>12. Serial'
    BY <1>1, <1>11, SerialKept
<1>13. Session(s)'
    <2>1. AtVerify(s)'
        BY <1>1, <1>3, <1>6, <1>7, ContentIsAll DEF AtVerify
    <2> QED BY <1>7, <2>1 DEF Session
<1>14. Sessions'
    BY <1>11, <1>13, SessionsKept
<1> QED BY <1>8, <1>9, <1>10, <1>12, <1>14

\* The hash matches.
LEMMA VerifyStep ==
    ASSUME ResumeInv, NEW s \in AttemptIds, Verify(s)
    PROVE  ResumeInv'
<1> USE DEF ResumeInv
<1>1. pc[s] = "verify" /\ AtVerify(s)
    BY DEF Verify, Sessions, Session
<1>2. \A t \in AttemptIds \ {s} : pc[t] \in {"new", "end"}
    BY <1>1, Alone
<1>3. HashMatches(s)
    <2>1. Content(file[s]) # NoFile
        BY <1>1, ContentIsAll, PrefixesAre, SizeAssumption DEF AtVerify
    <2> QED BY <1>1, <2>1 DEF AtVerify, HashMatches, Exists
<1>4. /\ pc' = [pc EXCEPT ![s] = "replace"] /\ exitReason' = exitReason
      /\ disk' = disk /\ local' = local
    BY <1>3 DEF Verify, Goes
<1>5. DiskTypes' /\ KeptIsTrue'
    BY <1>4 DEF DiskTypes, KeptIsTrue, disk
<1>6. AttemptTypes'
    BY <1>4 DEF AttemptTypes, Places, Outcomes, local
<1>7. OthersRest(s)
    BY <1>2, <1>4 DEF OthersRest, AttemptTypes, local
<1>8. Serial'
    BY <1>1, <1>7, SerialKept
<1>9. Session(s)'
    <2>1. pc'[s] = "replace"
        BY <1>4 DEF AttemptTypes
    <2>2. AtVerify(s)'
        BY <1>1, <1>4 DEF AtVerify, local, disk
    <2> QED BY <2>1, <2>2 DEF Session
<1>10. Sessions'
    BY <1>7, <1>9, SessionsKept
<1> QED BY <1>5, <1>6, <1>8, <1>10

\* The rename finds the .part file, closed.
LEMMA ReplaceStep ==
    ASSUME ResumeInv, NEW s \in AttemptIds, Replace(s)
    PROVE  ResumeInv'
<1> USE DEF ResumeInv
<1>1. pc[s] = "replace" /\ AtVerify(s)
    BY DEF Replace, Sessions, Session
<1>2. \A t \in AttemptIds \ {s} : pc[t] \in {"new", "end"}
    BY <1>1, Alone
<1>3. path[s] \in 1 .. Paths /\ file[s] \in Files /\ handle[s] = "closed"
      /\ part[path[s]] = Content(file[s])
    BY <1>1 DEF AtVerify
<1>4. Exists(path[s]) /\ ~Open(path[s])
    <2>1. Content(file[s]) # NoFile
        BY <1>3, ContentIsAll, PrefixesAre, SizeAssumption
    <2> QED BY <1>2, <1>3, <2>1, NobodyHolds DEF Exists
<1>5. /\ part' = [part EXCEPT ![path[s]] = NoFile]
      /\ out' = [out EXCEPT ![path[s]] = Content(file[s])]
      /\ pc' = [pc EXCEPT ![s] = "unmeta"] /\ exitReason' = exitReason
      /\ meta' = meta /\ local' = local
    BY <1>3, <1>4 DEF Replace, Goes
<1>6. part'[path[s]] = NoFile /\ pc'[s] = "unmeta"
    BY <1>3, <1>5 DEF DiskTypes, AttemptTypes
<1>7. DiskTypes'
    BY <1>3, <1>5 DEF DiskTypes
<1>8. KeptIsTrue'
    <2>1. \A p \in 1 .. Paths \ {path[s]} : part'[p] = part[p] /\ meta'[p] = meta[p]
        BY <1>5 DEF DiskTypes
    <2>2. \A g \in Files, n \in 1 .. FileSize : part'[path[s]] # FirstUnits(g, n)
        BY <1>6, PrefixesAre, SizeAssumption
    <2> QED BY <1>3, <2>1, <2>2, KeptOnOthers
<1>9. AttemptTypes'
    BY <1>5 DEF AttemptTypes, Places, Outcomes, local
<1>10. OthersRest(s)
    BY <1>2, <1>5 DEF OthersRest, AttemptTypes, local
<1>11. Serial'
    BY <1>1, <1>10, SerialKept
<1>12. Session(s)'
    <2>1. AtCommit(s)'
        BY <1>1, <1>5, <1>6 DEF AtVerify, AtCommit, local
    <2> QED BY <1>6, <2>1 DEF Session
<1>13. Sessions'
    BY <1>10, <1>12, SessionsKept
<1> QED BY <1>7, <1>8, <1>9, <1>11, <1>13

\* The meta file goes after the .part file.
LEMMA RemoveMetaStep ==
    ASSUME ResumeInv, NEW s \in AttemptIds, RemoveMeta(s)
    PROVE  ResumeInv'
<1> USE DEF ResumeInv
<1>1. pc[s] = "unmeta" /\ AtCommit(s)
    BY DEF RemoveMeta, Sessions, Session
<1>2. \A t \in AttemptIds \ {s} : pc[t] \in {"new", "end"}
    BY <1>1, Alone
<1>3. path[s] \in 1 .. Paths /\ part[path[s]] = NoFile
    BY <1>1 DEF AtCommit
<1>4. /\ meta' = [meta EXCEPT ![path[s]] = NoMeta]
      /\ pc' = [pc EXCEPT ![s] = "commit"]
      /\ part' = part /\ out' = out /\ exitReason' = exitReason /\ local' = local
    BY DEF RemoveMeta, Goes
<1>5. DiskTypes'
    <2>1. NoMeta \in [file : Files \cup {NoFile}, received : 0 .. FileSize]
        BY SizeAssumption DEF NoMeta
    <2> QED BY <1>4, <2>1 DEF DiskTypes
<1>6. KeptIsTrue'
    <2>1. \A p \in 1 .. Paths \ {path[s]} : part'[p] = part[p] /\ meta'[p] = meta[p]
        BY <1>4 DEF DiskTypes
    <2>2. \A g \in Files, n \in 1 .. FileSize : part'[path[s]] # FirstUnits(g, n)
        BY <1>3, <1>4, PrefixesAre, SizeAssumption
    <2> QED BY <1>3, <2>1, <2>2, KeptOnOthers
<1>7. AttemptTypes'
    BY <1>4 DEF AttemptTypes, Places, Outcomes, local
<1>8. OthersRest(s)
    BY <1>2, <1>4 DEF OthersRest, AttemptTypes, local
<1>9. Serial'
    BY <1>1, <1>8, SerialKept
<1>10. Session(s)'
    <2>1. pc'[s] = "commit"
        BY <1>4 DEF AttemptTypes
    <2>2. AtCommit(s)'
        BY <1>1, <1>4 DEF AtCommit, local
    <2> QED BY <2>1, <2>2 DEF Session
<1>11. Sessions'
    BY <1>8, <1>10, SessionsKept
<1> QED BY <1>5, <1>6, <1>7, <1>9, <1>11

\* COMPLETE changes nothing on the disk.
LEMMA CommitStep ==
    ASSUME ResumeInv, NEW s \in AttemptIds, Commit(s)
    PROVE  ResumeInv'
<1> USE DEF ResumeInv
<1>1. pc[s] = "commit" /\ AtCommit(s)
    BY DEF Commit, Sessions, Session
<1>2. \A t \in AttemptIds \ {s} : pc[t] \in {"new", "end"}
    BY <1>1, Alone
<1>3. PICK why \in {"complete", "complete_ack_timeout"} :
          /\ pc' = [pc EXCEPT ![s] = "leave"]
          /\ exitReason' = [exitReason EXCEPT ![s] = why]
    BY DEF Commit, AttemptEnds, Goes
<1>4. disk' = disk /\ local' = local
    BY DEF Commit
<1>5. DiskTypes' /\ KeptIsTrue'
    BY <1>4 DEF DiskTypes, KeptIsTrue, disk
<1>6. AttemptTypes'
    BY <1>3, <1>4 DEF AttemptTypes, Places, Outcomes, local
<1>7. OthersRest(s)
    BY <1>2, <1>3, <1>4 DEF OthersRest, AttemptTypes, local
<1>8. Serial'
    BY <1>1, <1>7, SerialKept
<1>9. Session(s)'
    <2>1. pc'[s] = "leave" /\ exitReason'[s] # "session_failed"
        BY <1>3 DEF AttemptTypes
    <2>2. AtLeave(s)'
        BY <1>1, <1>4, <2>1 DEF AtCommit, AtLeave, local, disk
    <2> QED BY <2>1, <2>2 DEF Session
<1>10. Sessions'
    BY <1>7, <1>9, SessionsKept
<1> QED BY <1>5, <1>6, <1>8, <1>10

\* A failure leaves the handle to the finally block.
LEMMA FailStep ==
    ASSUME ResumeInv, NEW s \in AttemptIds, Fail(s)
    PROVE  ResumeInv'
<1> USE DEF ResumeInv
<1>1. pc[s] = "receive" /\ Writing(s)
    BY DEF Fail, Sessions, Session, AtReceive
<1>2. \A t \in AttemptIds \ {s} : pc[t] \in {"new", "end"}
    BY <1>1, Alone
<1>3. /\ pc' = [pc EXCEPT ![s] = "leave"]
      /\ exitReason' = [exitReason EXCEPT ![s] = "session_failed"]
      /\ disk' = disk /\ local' = local
    BY DEF Fail, AttemptEnds, Goes
<1>4. DiskTypes' /\ KeptIsTrue'
    BY <1>3 DEF DiskTypes, KeptIsTrue, disk
<1>5. AttemptTypes'
    BY <1>3 DEF AttemptTypes, Places, Outcomes, local
<1>6. OthersRest(s)
    BY <1>2, <1>3 DEF OthersRest, AttemptTypes, local
<1>7. Serial'
    BY <1>1, <1>6, SerialKept
<1>8. Session(s)'
    <2>1. pc'[s] = "leave" /\ exitReason'[s] = "session_failed"
        BY <1>3 DEF AttemptTypes
    <2>2. Writing(s)'
        BY <1>1, <1>3 DEF Writing, FlushedUpTo, local, disk
    <2>3. AtLeave(s)'
        BY <2>1, <2>2 DEF AtLeave, Writing
    <2> QED BY <2>1, <2>3 DEF Session
<1>9. Sessions'
    BY <1>6, <1>8, SessionsKept
<1> QED BY <1>4, <1>5, <1>7, <1>9

\* The locals of the sessions that end are gone, those of the others stay.
LEMMA Dropped ==
    ASSUME NEW E \in SUBSET AttemptIds, Drop(E), AttemptTypes
    PROVE  /\ \A s \in E : AtRest(s)'
           /\ \A s \in AttemptIds \ E :
                  /\ file'[s] = file[s] /\ path'[s] = path[s]
                  /\ offer'[s] = offer[s] /\ offset'[s] = offset[s] /\ received'[s] = received[s]
                  /\ handle'[s] = handle[s] /\ written'[s] = written[s] /\ buffer'[s] = buffer[s]
           /\ file' \in [AttemptIds -> Files \cup {NoFile}]
           /\ path' \in [AttemptIds -> 0 .. Paths]
           /\ policy' \in [AttemptIds -> Policies \cup {"none"}]
           /\ offer' \in [AttemptIds -> 0 .. FileSize - 1]
           /\ offset' \in [AttemptIds -> 0 .. FileSize - 1]
           /\ received' \in [AttemptIds -> 0 .. FileSize]
           /\ handle' \in [AttemptIds -> {"closed", "append", "write"}]
           /\ written' \in [AttemptIds -> 0 .. FileSize]
           /\ buffer' \in [AttemptIds -> Seq(Files \X Nat)]
<1> USE SizeAssumption, PathsAssumption
<1>1. /\ file' = [s \in AttemptIds |-> IF s \in E THEN NoFile ELSE file[s]]
      /\ path' = [s \in AttemptIds |-> IF s \in E THEN 0 ELSE path[s]]
      /\ policy' = [s \in AttemptIds |-> IF s \in E THEN "none" ELSE policy[s]]
      /\ offer' = [s \in AttemptIds |-> IF s \in E THEN 0 ELSE offer[s]]
      /\ offset' = [s \in AttemptIds |-> IF s \in E THEN 0 ELSE offset[s]]
      /\ received' = [s \in AttemptIds |-> IF s \in E THEN 0 ELSE received[s]]
      /\ handle' = [s \in AttemptIds |-> IF s \in E THEN "closed" ELSE handle[s]]
      /\ written' = [s \in AttemptIds |-> IF s \in E THEN 0 ELSE written[s]]
      /\ buffer' = [s \in AttemptIds |-> IF s \in E THEN <<>> ELSE buffer[s]]
    BY DEF Drop
<1>2. \A s \in E : AtRest(s)'
    BY <1>1 DEF AtRest, Idle
<1>3. \A s \in AttemptIds \ E :
          /\ file'[s] = file[s] /\ path'[s] = path[s]
          /\ offer'[s] = offer[s] /\ offset'[s] = offset[s] /\ received'[s] = received[s]
          /\ handle'[s] = handle[s] /\ written'[s] = written[s] /\ buffer'[s] = buffer[s]
    BY <1>1
<1>4. /\ file' \in [AttemptIds -> Files \cup {NoFile}]
      /\ path' \in [AttemptIds -> 0 .. Paths]
      /\ policy' \in [AttemptIds -> Policies \cup {"none"}]
      /\ handle' \in [AttemptIds -> {"closed", "append", "write"}]
    BY <1>1 DEF AttemptTypes
<1>5. /\ offer' \in [AttemptIds -> 0 .. FileSize - 1]
      /\ offset' \in [AttemptIds -> 0 .. FileSize - 1]
      /\ received' \in [AttemptIds -> 0 .. FileSize]
      /\ written' \in [AttemptIds -> 0 .. FileSize]
    BY <1>1 DEF AttemptTypes
<1>6. buffer' \in [AttemptIds -> Seq(Files \X Nat)]
    <2>1. <<>> \in Seq(Files \X Nat)
        OBVIOUS
    <2> QED BY <1>1, <2>1 DEF AttemptTypes
<1> QED BY <1>2, <1>3, <1>4, <1>5, <1>6

\* A handle still open in the finally block is that of a failed session, and closing it
\* flushes all that was received.
LEMMA LeaveFlushes ==
    ASSUME ResumeInv, NEW s \in AttemptIds, pc[s] = "leave", handle[s] # "closed"
    PROVE  /\ Flushed(s, <<>>) = [part EXCEPT ![path[s]] = FirstUnits(file[s], received[s])]
           /\ exitReason[s] = "session_failed"
<1> USE DEF ResumeInv
<1>1. AtLeave(s)
    BY DEF Sessions, Session
<1>2. Writing(s) /\ exitReason[s] = "session_failed"
    BY <1>1 DEF AtLeave
<1>3. PICK k \in offset[s] .. received[s] : FlushedUpTo(s, k)
    BY <1>2 DEF Writing
<1>4. received[s] \in Nat /\ received[s] \in received[s] .. FileSize
    BY SizeAssumption DEF AttemptTypes
<1>5. SubSeq(Content(file[s]), received[s] + 1, received[s]) = <<>>
    BY <1>4, NothingBetween
<1>6. Flushed(s, SubSeq(Content(file[s]), received[s] + 1, received[s]))
          = [part EXCEPT ![path[s]] = FirstUnits(file[s], received[s])]
    BY <1>2, <1>3, <1>4, Flushing
<1> QED BY <1>2, <1>5, <1>6

\* The finally block: the meta file it writes names the file whose beginning is there, or
\* says that nothing was received.
LEMMA LeaveStep ==
    ASSUME ResumeInv, NEW s \in AttemptIds, Leave(s)
    PROVE  ResumeInv'
<1> USE DEF ResumeInv
<1>1. pc[s] = "leave" /\ AtLeave(s)
    BY DEF Leave, Sessions, Session
<1>2. \A t \in AttemptIds \ {s} : pc[t] \in {"new", "end"}
    BY <1>1, Alone
<1>3. /\ path[s] \in 1 .. Paths /\ file[s] \in Files
      /\ received[s] \in 0 .. FileSize
    BY <1>1 DEF AtLeave, AttemptTypes
<1>4. Drop({s}) /\ out' = out /\ exitReason' = exitReason /\ pc' = [pc EXCEPT ![s] = "end"]
    BY DEF Leave, Goes
<1>5. pc'[s] = "end"
    BY <1>4 DEF AttemptTypes
<1>6. PICK kept : /\ kept = IF handle[s] = "closed" THEN part ELSE Flushed(s, <<>>)
                  /\ part' = kept
                  /\ meta' = IF exitReason[s] # "complete" /\ kept[path[s]] # NoFile
                             THEN MetaOf(s, KeptBytes(s)) ELSE meta
    BY DEF Leave
<1>7. MetaOf(s, KeptBytes(s))
          = [meta EXCEPT ![path[s]] = [file |-> file[s], received |-> received[s]]]
    BY DEF MetaOf, KeptBytes
<1>8. DiskTypes' /\ KeptIsTrue'
    <2>1. CASE handle[s] = "closed"
        <3>1. part' = part
            BY <1>6, <2>1
        <3>2. \/ meta' = meta
              \/ /\ meta' = [meta EXCEPT ![path[s]] = [file |-> file[s], received |-> received[s]]]
                 /\ received[s] = 0
            BY <1>1, <1>6, <1>7, <2>1, <3>1 DEF AtLeave, Writing, AttemptTypes
        <3>3. DiskTypes'
            BY <1>3, <1>4, <3>1, <3>2 DEF DiskTypes
        <3>4. KeptIsTrue'
            <4>1. CASE meta' = meta
                BY <3>1, <4>1 DEF KeptIsTrue
            <4>2. CASE /\ meta' = [meta EXCEPT ![path[s]] = [file |-> file[s], received |-> received[s]]]
                       /\ received[s] = 0
                <5>1. meta'[path[s]].received = 0
                    BY <1>3, <4>2 DEF DiskTypes
                <5>2. \A p \in 1 .. Paths \ {path[s]} : part'[p] = part[p] /\ meta'[p] = meta[p]
                    BY <3>1, <4>2 DEF DiskTypes
                <5> QED BY <1>3, <5>1, <5>2, KeptOnOthers
            <4> QED BY <3>2, <4>1, <4>2
        <3> QED BY <3>3, <3>4
    <2>2. CASE handle[s] # "closed"
        <3>1. part' = [part EXCEPT ![path[s]] = FirstUnits(file[s], received[s])]
              /\ exitReason[s] = "session_failed"
            BY <1>1, <1>6, <2>2, LeaveFlushes
        <3>2. FirstUnits(file[s], received[s]) \in Beginnings
              /\ FirstUnits(file[s], received[s]) # NoFile
            BY <1>3, PrefixesAre
        <3>3. part'[path[s]] = FirstUnits(file[s], received[s])
            BY <1>3, <3>1 DEF DiskTypes
        <3>4. meta' = [meta EXCEPT ![path[s]] = [file |-> file[s], received |-> received[s]]]
            BY <1>6, <1>7, <3>1, <3>2, <3>3
        <3>5. DiskTypes'
            BY <1>3, <1>4, <3>1, <3>2, <3>4 DEF DiskTypes
        <3>6. \A p \in 1 .. Paths \ {path[s]} : part'[p] = part[p] /\ meta'[p] = meta[p]
            BY <3>1, <3>4 DEF DiskTypes
        <3>7. meta'[path[s]].file = file[s]
            BY <1>3, <3>4 DEF DiskTypes
        <3>8. KeptIsTrue'
            BY <1>3, <3>3, <3>6, <3>7, KeptOwn
        <3> QED BY <3>5, <3>8
    <2> QED BY <2>1, <2>2
<1>9. AttemptTypes'
    <2>1. {s} \in SUBSET AttemptIds
        OBVIOUS
    <2>2. pc' \in [AttemptIds -> Places] /\ exitReason' = exitReason
        BY <1>4 DEF AttemptTypes, Places, Outcomes
    <2> QED BY <1>4, <2>1, <2>2, Dropped DEF AttemptTypes
<1>10. AtRest(s)' /\ OthersRest(s)
    <2>1. {s} \in SUBSET AttemptIds
        OBVIOUS
    <2>2. \A t \in AttemptIds \ {s} : pc'[t] = pc[t]
        BY <1>4 DEF AttemptTypes
    <2> QED BY <1>2, <1>4, <2>1, <2>2, Dropped DEF OthersRest
<1>11. Serial'
    BY <1>1, <1>10, SerialKept
<1>12. Session(s)'
    BY <1>5, <1>10 DEF Session
<1>13. Sessions'
    BY <1>10, <1>12, SessionsKept
<1> QED BY <1>8, <1>9, <1>11, <1>13

\* The end of the process loses buffers, never the truth of what is on the disk.
LEMMA CrashStep ==
    ASSUME ResumeInv, Crash
    PROVE  ResumeInv'
<1> USE DEF ResumeInv
<1> DEFINE live == {s \in AttemptIds : pc[s] \notin {"new", "end"}}
<1>1. /\ pc' = [s \in AttemptIds |-> IF s \in live THEN "end" ELSE pc[s]]
      /\ exitReason' = [s \in AttemptIds |-> IF s \in live THEN "crash" ELSE exitReason[s]]
      /\ Drop(live) /\ disk' = disk /\ live \in SUBSET AttemptIds
    BY DEF Crash
<1>2. DiskTypes' /\ KeptIsTrue'
    BY <1>1 DEF DiskTypes, KeptIsTrue, disk
<1>3. AttemptTypes'
    <2>1. pc' \in [AttemptIds -> Places]
        BY <1>1 DEF AttemptTypes, Places, Outcomes
    <2>2. exitReason' \in [AttemptIds -> Outcomes]
        BY <1>1 DEF AttemptTypes, Outcomes
    <2> HIDE DEF live
    <2> QED BY <1>1, <2>1, <2>2, Dropped DEF AttemptTypes
<1>4. \A s \in AttemptIds : pc'[s] = IF pc[s] = "new" THEN "new" ELSE "end"
    BY <1>1
<1>5. Serial'
    BY <1>4 DEF Serial
<1>6. Sessions'
    <2>1. ASSUME NEW s \in AttemptIds
          PROVE  AtRest(s)'
        <3>1. CASE s \in live
            <4> HIDE DEF live
            <4> QED BY <1>1, <3>1, Dropped
        <3>2. CASE s \notin live
            <4>1. AtRest(s)
                BY <3>2 DEF Sessions, Session
            <4> HIDE DEF live
            <4>2. s \in AttemptIds \ live
                BY <3>2
            <4>3. /\ file'[s] = file[s] /\ path'[s] = path[s]
                  /\ offer'[s] = offer[s] /\ offset'[s] = offset[s]
                  /\ received'[s] = received[s]
                  /\ handle'[s] = handle[s] /\ written'[s] = written[s]
                  /\ buffer'[s] = buffer[s]
                BY <1>1, <4>2, Dropped
            <4> QED BY <4>1, <4>3 DEF AtRest, Idle
        <3> QED BY <3>1, <3>2
    <2> QED BY <1>4, <2>1 DEF Sessions, Session
<1> QED BY <1>2, <1>3, <1>5, <1>6

-----------------------------------------------------------------------------
(* The invariant and what follows.                                         *)

\* The empty directory.
LEMMA ResumeInvInit == ResumeInit => ResumeInv
<1> SUFFICES ASSUME ResumeInit PROVE ResumeInv
    OBVIOUS
<1> USE SizeAssumption, PathsAssumption DEF ResumeInit
<1>1. DiskTypes
    BY DEF DiskTypes, NoMeta
<1>2. AttemptTypes
    BY DEF AttemptTypes, Places, Outcomes
<1>3. Serial
    BY DEF Serial
<1>4. KeptIsTrue
    <2>1. \A p \in 1 .. Paths : part[p] = NoFile
        OBVIOUS
    <2>2. \A g \in Files, n \in 1 .. FileSize : NoFile # FirstUnits(g, n)
        BY PrefixesAre
    <2> QED BY <2>1, <2>2 DEF KeptIsTrue
<1>5. Sessions
    BY DEF Sessions, Session, AtRest, Idle
<1> QED BY <1>1, <1>2, <1>3, <1>4, <1>5 DEF ResumeInv

\* Every step keeps the invariant, if attempts do not overlap.
LEMMA ResumeInvStep ==
    ASSUME ResumeInv, ~Overlap, [ResumeNext]_resumeVars
    PROVE  ResumeInv'
<1>1. ASSUME NEW s \in AttemptIds,
             \/ HandleHeader(s) \/ DecideConflict(s)
             \/ OpenTruncates(s) \/ OpenAppends(s) \/ OpenRemoves(s) \/ OpenCreates(s)
             \/ WriteMeta(s) \/ Receive(s) \/ HandleEof(s)
             \/ Verify(s) \/ Replace(s) \/ RemoveMeta(s) \/ Commit(s)
             \/ Fail(s) \/ Leave(s)
      PROVE  ResumeInv'
    BY <1>1, HeaderStep, DecisionStep, TruncateStep, AppendStep, RemoveStep, CreateStep,
       MetaStep, ReceiveStep, EofStep, VerifyStep, ReplaceStep, RemoveMetaStep, CommitStep,
       FailStep, LeaveStep
<1>2. CASE UNCHANGED resumeVars
    BY <1>2 DEF ResumeInv, DiskTypes, AttemptTypes, Serial, KeptIsTrue, Sessions, Session,
       AtRest, Idle, AtApproval, AtOpen, AtAppend, AtCreate, Writing, FlushedUpTo, AtReceive,
       AtVerify, AtCommit, AtLeave, Resumable, resumeVars, disk, local
<1> QED BY <1>1, <1>2, CrashStep DEF ResumeNext

\* The inductive invariant.
LEMMA ResumeInvHolds ==
    ASSUME ~Overlap
    PROVE  ResumeSpec => []ResumeInv
BY ResumeInvInit, ResumeInvStep, PTL DEF ResumeSpec

\* What has its final name is a whole file.
LEMMA VerifiedFollows == ResumeInv => SavedIsVerified
BY DEF ResumeInv, DiskTypes, SavedIsVerified

\* A handle that appends is at the end of a prefix of its own file.
LEMMA SafetyFollows == ResumeInv => ResumeSafety
<1> SUFFICES ASSUME ResumeInv PROVE ResumeSafety
    OBVIOUS
<1> USE DEF ResumeInv
<1>1. ASSUME NEW s \in AttemptIds, handle[s] = "append"
      PROVE  /\ Len(part[path[s]]) >= offset[s]
             /\ SubSeq(part[path[s]], 1, offset[s]) = SubSeq(Content(file[s]), 1, offset[s])
    <2>1. Session(s) /\ pc[s] \in Places
        BY DEF Sessions, AttemptTypes
    <2>2. Writing(s)
        BY <1>1, <2>1 DEF Session, Places, AtRest, Idle, AtApproval, AtOpen, AtAppend, AtCreate,
           AtReceive, AtVerify, AtCommit, AtLeave
    <2>3. PICK k \in offset[s] .. received[s] : part[path[s]] = FirstUnits(file[s], k)
        BY <2>2 DEF Writing, FlushedUpTo
    <2>4. /\ k \in Nat /\ offset[s] \in Nat /\ offset[s] <= k /\ offset[s] <= FileSize
          /\ FileSize \in Nat /\ file[s] \in Files
        BY <2>2, <2>3, SizeAssumption DEF Writing, AttemptTypes
    <2>5. Len(part[path[s]]) = k
        BY <2>3, <2>4, FirstUnitsAre
    <2>6. SubSeq(FirstUnits(file[s], k), 1, offset[s]) = FirstUnits(file[s], offset[s])
        BY <2>4, CutSeq
    <2>7. SubSeq(FirstUnits(file[s], FileSize), 1, offset[s]) = FirstUnits(file[s], offset[s])
        BY <2>4, CutSeq
    <2>8. Content(file[s]) = FirstUnits(file[s], FileSize)
        BY <2>4, ContentIsAll
    <2> QED BY <2>3, <2>4, <2>5, <2>6, <2>7, <2>8
<1>2. NeverRefusedByDisk
    BY DEF NeverRefusedByDisk, AttemptTypes, Outcomes
<1> QED BY <1>1, <1>2, VerifiedFollows DEF ResumeSafety, ResumeIsSound

\* For any number of attempts, files, paths and crashes, any size of file and of packet:
\* if attempts do not overlap, what is appended to is the beginning of the same file, no
\* attempt is refused for what earlier ones left, and what has its final name is a whole
\* file (server.py _app_handler, file_transfer_common.py resume_candidate_info).  With overlap it is false: the run
\* resume_overlap.
THEOREM ResumeIsSafe ==
    ASSUME ~Overlap
    PROVE  ResumeSpec => []ResumeSafety
BY ResumeInvHolds, SafetyFollows, PTL

\* The count of crashes.
CrashesTyped == crashes \in Nat

\* The number of crashes is a number.
LEMMA CrashesCounted == ResumeSpec => []CrashesTyped
<1> USE DEF CrashesTyped
<1>1. ResumeInit => CrashesTyped
    BY DEF ResumeInit
<1>2. ASSUME CrashesTyped, [ResumeNext]_resumeVars
      PROVE  CrashesTyped'
    <2>1. crashes' = crashes \/ crashes' = crashes + 1
        BY <1>2 DEF ResumeNext, resumeVars, HandleHeader, DecideConflict, OpenTruncates,
           OpenAppends, OpenRemoves, OpenCreates, WriteMeta, Receive, HandleEof, Verify,
           Replace, RemoveMeta, Commit, Fail, Leave, Crash
    <2> QED BY <1>2, <2>1
<1> HIDE DEF CrashesTyped
<1> QED BY <1>1, <1>2, PTL DEF ResumeSpec

\* The finally block of a failed session.
LEMMA ProgressStep ==
    ASSUME ResumeInv, CrashesTyped, [ResumeNext]_resumeVars, NEW s \in AttemptIds,
           pc[s] = "leave", pc'[s] = "end", crashes' = crashes,
           exitReason[s] = "session_failed", path[s] = 1, received[s] < FileSize
    PROVE  \A f \in {file[s]} : ResumeOffer(f)' = AlignDown(received[s])
<1> USE DEF ResumeInv
<1>1. Leave(s)
    <2>1. ~Crash
        BY DEF Crash, CrashesTyped
    <2>2. ~(UNCHANGED resumeVars)
        BY DEF resumeVars
    <2>3. PICK t \in AttemptIds :
              \/ HandleHeader(t) \/ DecideConflict(t)
              \/ OpenTruncates(t) \/ OpenAppends(t) \/ OpenRemoves(t) \/ OpenCreates(t)
              \/ WriteMeta(t) \/ Receive(t) \/ HandleEof(t)
              \/ Verify(t) \/ Replace(t) \/ RemoveMeta(t) \/ Commit(t)
              \/ Fail(t) \/ Leave(t)
        BY <2>1, <2>2 DEF ResumeNext
    <2>4. pc \in [AttemptIds -> Places]
        BY DEF AttemptTypes
    <2>5. pc' # pc
        OBVIOUS
    <2>6. Leave(t)
        BY <2>3, <2>4, <2>5 DEF HandleHeader, DecideConflict, OpenTruncates, OpenAppends,
           OpenRemoves, OpenCreates, WriteMeta, Receive, HandleEof, Verify, Replace, RemoveMeta,
           Commit, Fail, Goes, AttemptEnds
    <2>7. t = s
        BY <2>4, <2>6 DEF Leave, Goes
    <2> QED BY <2>6, <2>7
<1>2. AtLeave(s) /\ Writing(s)
    BY DEF Sessions, Session, AtLeave
<1>3. /\ handle[s] # "closed" /\ file[s] \in Files /\ 1 \in 1 .. Paths
      /\ received[s] \in Nat /\ received[s] \in 0 .. FileSize /\ FileSize \in Nat
    BY <1>2, PathsAssumption, SizeAssumption DEF Writing, AttemptTypes
<1>4. part' = [part EXCEPT ![1] = FirstUnits(file[s], received[s])]
    BY <1>1, <1>3, LeaveFlushes DEF Leave
<1>5. part'[1] = FirstUnits(file[s], received[s]) /\ part'[1] # NoFile
    BY <1>3, <1>4, PrefixesAre DEF DiskTypes
<1>6. meta' = MetaOf(s, KeptBytes(s))
    BY <1>1, <1>3, <1>5 DEF Leave
<1>7. meta'[1] = [file |-> file[s], received |-> received[s]]
    BY <1>3, <1>6 DEF MetaOf, KeptBytes, DiskTypes
<1>8. Len(part'[1]) = received[s]
    <2>1. Len(FirstUnits(file[s], received[s])) = received[s]
        BY <1>3, FirstUnitsAre
    <2> QED BY <1>5, <2>1
<1>9. Min({received[s], received[s], FileSize}) = received[s]
    BY <1>3, MinOfThree
<1>10. AlignDown(received[s]) < FileSize
    BY <1>3, Aligned
<1>11. TAKE f \in {file[s]}
<1> QED BY <1>5, <1>7, <1>8, <1>9, <1>10 DEF ResumeOffer, Exists

\* A failed attempt keeps what it received, buffered or not: the next attempt for the
\* file is offered all whole packets of it (write_resume_meta in the finally block).
THEOREM ProgressKept ==
    ASSUME ~Overlap
    PROVE  ResumeSpec => ProgressIsKept
<1>1. ResumeInv /\ CrashesTyped /\ [ResumeNext]_resumeVars =>
          \A s \in AttemptIds :
              /\ pc[s] = "leave" /\ pc'[s] = "end" /\ crashes' = crashes
              /\ exitReason[s] = "session_failed" /\ path[s] = 1 /\ received[s] < FileSize
              => \A f \in {file[s]} : ResumeOffer(f)' = AlignDown(received[s])
    BY ProgressStep
<1> QED BY <1>1, ResumeInvHolds, CrashesCounted, PTL DEF ResumeSpec, ProgressIsKept

-----------------------------------------------------------------------------
(* FileResume again, with attempts that overlap.  What is on the disk may  *)
(* then be anything that sessions have written into each other's files,    *)
(* but it is a sequence of units, and what a session has in memory is      *)
(* still its own.                                                          *)

\* The disk.
DiskShape ==
    /\ part \in [1 .. Paths -> Contents] /\ out \in [1 .. Paths -> Contents]
    /\ meta \in [1 .. Paths -> [file : Files \cup {NoFile}, received : 0 .. FileSize]]

\* The memory of the sessions.
AttemptShape ==
    /\ pc \in [AttemptIds -> Places]
    /\ file \in [AttemptIds -> Files \cup {NoFile}]
    /\ path \in [AttemptIds -> 0 .. Paths]
    /\ policy \in [AttemptIds -> Policies \cup {"none"}]
    /\ offer \in [AttemptIds -> 0 .. FileSize - 1]
    /\ offset \in [AttemptIds -> 0 .. FileSize - 1]
    /\ received \in [AttemptIds -> 0 .. FileSize]
    /\ handle \in [AttemptIds -> {"closed", "append", "write"}]
    /\ written \in [AttemptIds -> Nat]
    /\ buffer \in [AttemptIds -> Seq(Units)]

\* A handle is open on a .part file that is there, and what is buffered is less than what
\* was received since the offset.
HandleShape(s) ==
    /\ received[s] = 0 \/ offset[s] <= received[s]
    /\ handle[s] = "closed" => buffer[s] = <<>>
    /\ handle[s] # "closed" =>
           /\ path[s] \in 1 .. Paths /\ part[path[s]] \in Seq(Units)
           /\ offset[s] + Len(buffer[s]) <= received[s]

\* A session's place tells what it has settled: file, path, offset and handle.
PlaceShape(s) ==
    /\ pc[s] \notin {"new", "end"} => file[s] \in Files
    /\ pc[s] \notin {"new", "end", "approval"} => path[s] \in 1 .. Paths
    /\ pc[s] = "append" \/ (pc[s] = "open" /\ policy[s] = "resume") => path[s] = 1
    /\ pc[s] = "create" \/ (pc[s] = "open" /\ policy[s] # "resume") => offset[s] = 0
    /\ pc[s] \in {"new", "approval", "open", "append", "create", "end"} =>
           handle[s] = "closed" /\ received[s] = 0
    /\ pc[s] \in {"meta", "receive"} => handle[s] # "closed"

\* The inductive invariant when attempts may overlap.
ResumeShape ==
    /\ DiskShape /\ AttemptShape
    /\ \A s \in AttemptIds : HandleShape(s) /\ PlaceShape(s)

\* The greater of two numbers.
LEMMA GreaterOfTwo ==
    ASSUME NEW a \in Nat, NEW b \in Nat
    PROVE  Max({a, b}) \in Nat /\ a <= Max({a, b}) /\ b <= Max({a, b})
<1>1. CASE a <= b
    BY <1>1, MaxOfTwo
<1>2. CASE b <= a
    <2>1. {a, b} = {b, a}
        OBVIOUS
    <2> QED BY <1>2, <2>1, MaxOfTwo
<1> QED BY <1>1, <1>2

\* Writing at any place into a sequence of units makes one, at least as long as the place.
LEMMA WriteAtShape ==
    ASSUME NEW c \in Seq(Units), NEW at \in Nat, NEW d \in Seq(Units)
    PROVE  /\ WriteAt(c, at, d) \in Seq(Units)
           /\ at + Len(d) <= Len(WriteAt(c, at, d))
<1> DEFINE n == Max({Len(c), at + Len(d)})
           e(i) == IF i > at /\ i <= at + Len(d) THEN d[i - at]
                   ELSE IF i <= Len(c) THEN c[i] ELSE Hole
<1>1. Len(c) \in Nat /\ Len(d) \in Nat
    OBVIOUS
<1>2. n \in Nat /\ at + Len(d) <= n
    BY <1>1, GreaterOfTwo
<1> HIDE DEF n
<1>3. ASSUME NEW i \in 1 .. n
      PROVE  e(i) \in Units
    <2>1. CASE i > at /\ i <= at + Len(d)
        <3>1. i - at \in 1 .. Len(d)
            BY <1>1, <2>1
        <3>2. d[i - at] \in Units
            BY <3>1, ElementOfSeq
        <3> QED BY <2>1, <3>2
    <2>2. CASE ~(i > at /\ i <= at + Len(d)) /\ i <= Len(c)
        <3>1. i \in 1 .. Len(c)
            BY <1>1, <1>2, <2>2
        <3>2. c[i] \in Units
            BY <3>1, ElementOfSeq
        <3> QED BY <2>2, <3>2
    <2>3. CASE ~(i > at /\ i <= at + Len(d)) /\ ~(i <= Len(c))
        BY <2>3 DEF Units
    <2> QED BY <2>1, <2>2, <2>3
<1>4. WriteAt(c, at, d) = [i \in 1 .. n |-> e(i)]
    BY DEF WriteAt, n
<1> HIDE DEF e
<1>5. WriteAt(c, at, d) \in [1 .. n -> Units]
    BY <1>3, <1>4
<1>6. WriteAt(c, at, d) \in Seq(Units) /\ Len(WriteAt(c, at, d)) = n
    BY <1>2, <1>5
<1> QED BY <1>2, <1>6

\* truncate leaves a sequence of units.
LEMMA TruncatedShape ==
    ASSUME NEW c \in Seq(Units), NEW n \in Nat
    PROVE  Truncated(c, n) \in Seq(Units)
<1> DEFINE w == WriteAt(c, n, <<>>)
<1>1. w \in Seq(Units) /\ n <= Len(w)
    <2>1. <<>> \in Seq(Units) /\ Len(<<>>) = 0
        BY EmptySeq
    <2>2. w \in Seq(Units) /\ n + Len(<<>>) <= Len(w)
        BY <2>1, WriteAtShape
    <2> HIDE DEF w
    <2> QED BY <2>1, <2>2
<1> HIDE DEF w
<1>2. \A i \in 1 .. n : w[i] \in Units
    <2>1. TAKE i \in 1 .. n
    <2>2. i \in 1 .. Len(w)
        BY <1>1
    <2> QED BY <1>1, <2>2, ElementOfSeq
<1>3. SubSeq(w, 1, n) \in Seq(Units)
    BY <1>2, SubSeqProperties
<1> QED BY <1>3 DEF Truncated, w

\* A packet is as many units of a file as the count of what was received rises by.
LEMMA PacketShape ==
    ASSUME NEW f \in Files, NEW r \in Nat, NEW n \in 0 .. FileSize, r <= n
    PROVE  /\ SubSeq(Content(f), r + 1, n) \in Seq(Units)
           /\ Len(SubSeq(Content(f), r + 1, n)) = n - r
<1> USE SizeAssumption
<1>1. \A i \in r + 1 .. n : Content(f)[i] \in Units
    BY DEF Content, Units
<1>2. r + 1 \in Int /\ n \in Int
    OBVIOUS
<1>3. /\ SubSeq(Content(f), r + 1, n) \in Seq(Units)
      /\ Len(SubSeq(Content(f), r + 1, n)) = IF r + 1 <= n THEN n - (r + 1) + 1 ELSE 0
    BY <1>1, <1>2, SubSeqProperties
<1>4. (IF r + 1 <= n THEN n - (r + 1) + 1 ELSE 0) = n - r
    OBVIOUS
<1> QED BY <1>3, <1>4

\* A flush through an open handle changes one .part file, to a sequence of units.
LEMMA FlushShape ==
    ASSUME ResumeShape, NEW s \in AttemptIds, handle[s] # "closed", NEW more \in Seq(Units)
    PROVE  \E c \in Seq(Units) : Flushed(s, more) = [part EXCEPT ![path[s]] = c]
<1> DEFINE at == IF handle[s] = "append" THEN Len(part[path[s]]) ELSE written[s]
           c  == WriteAt(part[path[s]], at, buffer[s] \o more)
<1>1. path[s] \in 1 .. Paths /\ part[path[s]] \in Seq(Units)
    BY DEF ResumeShape, HandleShape
<1>2. at \in Nat /\ buffer[s] \o more \in Seq(Units)
    BY <1>1 DEF ResumeShape, AttemptShape
<1>3. c \in Seq(Units)
    BY <1>1, <1>2, WriteAtShape
<1>4. Flushed(s, more) = [part EXCEPT ![path[s]] = c]
    BY <1>1 DEF Flushed, ResumeShape, DiskShape
<1> HIDE DEF c
<1> QED BY <1>3, <1>4

\* The offer is the beginning of a .part file, rounded down, and less than the file.
LEMMA OfferShape ==
    ASSUME DiskShape, NEW f \in Files
    PROVE  ResumeOffer(f) \in 0 .. FileSize - 1
<1> USE SizeAssumption, PathsAssumption
<1>1. CASE ~Exists(1) \/ meta[1].file # f
    BY <1>1 DEF ResumeOffer
<1>2. CASE Exists(1) /\ meta[1].file = f
    <2>1. Len(part[1]) \in Nat /\ meta[1].received \in Nat
        <3>1. 1 \in 1 .. Paths
            OBVIOUS
        <3>2. part[1] \in Seq(Units)
            BY <1>2, <3>1 DEF DiskShape, Contents, Exists
        <3>3. meta[1].received \in 0 .. FileSize
            BY <3>1 DEF DiskShape
        <3> QED BY <3>2, <3>3
    <2> DEFINE b == Min({Len(part[1]), meta[1].received, FileSize})
    <2>2. b \in Nat
        BY <2>1, MinOfThree
    <2> HIDE DEF b
    <2>3. AlignDown(b) \in 0 .. b
        BY <2>2, Aligned
    <2>4. ResumeOffer(f) = IF AlignDown(b) < FileSize THEN AlignDown(b) ELSE 0
        BY <1>2 DEF ResumeOffer, b
    <2> QED BY <2>2, <2>3, <2>4
<1> QED BY <1>1, <1>2

\* A step of one session leaves the memory of the others.
OnlyMoves(s) ==
    \A t \in AttemptIds \ {s} :
        /\ pc'[t] = pc[t] /\ file'[t] = file[t] /\ path'[t] = path[t]
        /\ policy'[t] = policy[t] /\ offset'[t] = offset[t] /\ received'[t] = received[t]
        /\ handle'[t] = handle[t] /\ buffer'[t] = buffer[t]

\* No .part file is taken away from a handle that another session has open.
HandlesKept(s) ==
    \A t \in AttemptIds \ {s} :
        handle[t] # "closed" => part'[path[t]] \in {part[path[t]]} \cup Seq(Units)

\* A sequence of units in the place of a .part file, or nothing new, keeps every handle.
LEMMA PartsShape ==
    ASSUME ResumeShape, NEW s \in AttemptIds, NEW p,
           part' = part \/ \E c \in Seq(Units) : part' = [part EXCEPT ![p] = c]
    PROVE  part' \in [1 .. Paths -> Contents] /\ HandlesKept(s)
<1>1. part \in [1 .. Paths -> Contents]
    BY DEF ResumeShape, DiskShape
<1>2. \A t \in AttemptIds : handle[t] # "closed" => path[t] \in 1 .. Paths
    BY DEF ResumeShape, HandleShape
<1>3. CASE part' = part
    BY <1>1, <1>3 DEF HandlesKept
<1>4. CASE \E c \in Seq(Units) : part' = [part EXCEPT ![p] = c]
    <2>1. PICK c \in Seq(Units) : part' = [part EXCEPT ![p] = c]
        BY <1>4
    <2>2. c \in Contents
        BY DEF Contents
    <2>3. part' \in [1 .. Paths -> Contents]
        BY <1>1, <2>1, <2>2
    <2>4. \A q \in 1 .. Paths : part'[q] \in {part[q]} \cup Seq(Units)
        BY <1>1, <2>1
    <2> QED BY <1>2, <2>3, <2>4 DEF HandlesKept
<1> QED BY <1>3, <1>4

\* A step of one session keeps the shape of the others.
LEMMA ShapeKept ==
    ASSUME ResumeShape, NEW s \in AttemptIds, OnlyMoves(s), HandlesKept(s),
           DiskShape', AttemptShape', HandleShape(s)', PlaceShape(s)'
    PROVE  ResumeShape'
<1>1. ASSUME NEW t \in AttemptIds \ {s}
      PROVE  HandleShape(t)' /\ PlaceShape(t)'
    <2>1. HandleShape(t) /\ PlaceShape(t)
        BY DEF ResumeShape
    <2>2. handle[t] # "closed" => part'[path[t]] \in Seq(Units)
        BY <2>1 DEF HandlesKept, HandleShape
    <2>3. HandleShape(t)'
        BY <2>1, <2>2 DEF OnlyMoves, HandleShape
    <2>4. PlaceShape(t)'
        BY <2>1 DEF OnlyMoves, PlaceShape
    <2> QED BY <2>3, <2>4
<1> QED BY <1>1 DEF ResumeShape

\* The header, and the offer made of what is on the disk.
LEMMA HeaderShape ==
    ASSUME ResumeShape, NEW s \in AttemptIds, HandleHeader(s)
    PROVE  ResumeShape'
<1> USE DEF HandleHeader, Goes, disk
<1>1. PICK f \in Files : /\ file' = [file EXCEPT ![s] = f]
                         /\ offer' = [offer EXCEPT ![s] = ResumeOffer(f)]
    OBVIOUS
<1>2. DiskShape'
    BY DEF ResumeShape, DiskShape
<1>3. ResumeOffer(f) \in 0 .. FileSize - 1
    BY OfferShape DEF ResumeShape
<1>4. AttemptShape'
    BY <1>1, <1>3 DEF ResumeShape, AttemptShape, Places
<1>5. OnlyMoves(s) /\ HandlesKept(s)
    BY <1>1 DEF ResumeShape, AttemptShape, OnlyMoves, HandlesKept
<1>6. HandleShape(s)' /\ PlaceShape(s)'
    BY <1>1 DEF ResumeShape, AttemptShape, HandleShape, PlaceShape
<1> QED BY <1>2, <1>4, <1>5, <1>6, ShapeKept

\* The decision, which settles path and offset.
LEMMA DecisionShape ==
    ASSUME ResumeShape, NEW s \in AttemptIds, DecideConflict(s)
    PROVE  ResumeShape'
<1>1. PICK choice \in PolicyChoices(s) :
          /\ choice = "rename" => \E p \in 1 .. Paths : ~PathTaken(p)
          /\ policy' = [policy EXCEPT ![s] = choice]
          /\ path' = [path EXCEPT ![s] = IF choice = "rename" THEN UniquePath ELSE 1]
          /\ offset' = [offset EXCEPT ![s] = IF choice = "resume" THEN offer[s] ELSE 0]
    BY DEF DecideConflict
<1>2. choice \in Policies
    BY DEF PolicyChoices, Policies
<1>3. (IF choice = "rename" THEN UniquePath ELSE 1) \in 1 .. Paths
    BY <1>1, UniquePathIsFree, PathsAssumption
<1>4. PICK at \in {"open", "leave"} : pc' = [pc EXCEPT ![s] = at]
    BY DEF DecideConflict, Goes, AttemptEnds
<1>5. /\ pc[s] = "approval" /\ disk' = disk /\ file' = file /\ offer' = offer
      /\ received' = received /\ handle' = handle /\ written' = written /\ buffer' = buffer
    BY DEF DecideConflict
<1>6. DiskShape'
    BY <1>5 DEF ResumeShape, DiskShape, disk
<1>7. AttemptShape'
    <2>1. 0 \in 0 .. FileSize - 1 /\ 1 .. Paths \subseteq 0 .. Paths
        BY SizeAssumption, PathsAssumption
    <2> QED BY <1>1, <1>2, <1>3, <1>4, <1>5, <2>1 DEF ResumeShape, AttemptShape, Places
<1>8. OnlyMoves(s) /\ HandlesKept(s)
    BY <1>1, <1>4, <1>5 DEF ResumeShape, AttemptShape, OnlyMoves, HandlesKept, disk
<1>9. /\ pc'[s] \in {"open", "leave"} /\ policy'[s] = choice /\ path'[s] \in 1 .. Paths
      /\ choice # "rename" => path'[s] = 1
      /\ choice # "resume" => offset'[s] = 0
    BY <1>1, <1>3, <1>4 DEF ResumeShape, AttemptShape
<1>10. HandleShape(s)' /\ PlaceShape(s)'
    BY <1>5, <1>9 DEF ResumeShape, HandleShape, PlaceShape
<1> QED BY <1>6, <1>7, <1>8, <1>10, ShapeKept

\* Opening to resume cuts the .part file, whoever else has it open.
LEMMA TruncateShape ==
    ASSUME ResumeShape, NEW s \in AttemptIds, OpenTruncates(s)
    PROVE  ResumeShape'
<1>1. /\ pc[s] = "open" /\ policy[s] = "resume" /\ local' = local /\ meta' = meta /\ out' = out
    BY DEF OpenTruncates
<1>2. PICK at \in {"append", "leave"} : pc' = [pc EXCEPT ![s] = at]
    BY DEF OpenTruncates, Goes, AttemptEnds
<1>3. \/ part' = part
      \/ \E c \in Seq(Units) : part' = [part EXCEPT ![1] = c]
    <2>1. CASE Exists(1)
        <3>1. part[1] \in Seq(Units) /\ offset[s] \in Nat
            BY <2>1, PathsAssumption, SizeAssumption
               DEF Exists, ResumeShape, DiskShape, AttemptShape, Contents
        <3>2. Truncated(part[1], offset[s]) \in Seq(Units)
            BY <3>1, TruncatedShape
        <3>3. part' = [part EXCEPT ![1] = Truncated(part[1], offset[s])]
            BY <2>1, PathsAssumption DEF OpenTruncates, ResumeShape, DiskShape
        <3> QED BY <3>2, <3>3
    <2> QED BY <2>1 DEF OpenTruncates
<1>4. DiskShape' /\ HandlesKept(s)
    BY <1>1, <1>3, PartsShape DEF ResumeShape, DiskShape
<1>5. AttemptShape'
    BY <1>1, <1>2 DEF ResumeShape, AttemptShape, Places, local
<1>6. OnlyMoves(s)
    BY <1>1, <1>2 DEF ResumeShape, AttemptShape, OnlyMoves, local
<1>7. HandleShape(s)' /\ PlaceShape(s)'
    BY <1>1, <1>2 DEF ResumeShape, AttemptShape, HandleShape, PlaceShape, local
<1> QED BY <1>4, <1>5, <1>6, <1>7, ShapeKept

\* A .part file that is there, or an empty one, is opened to append.
LEMMA AppendShape ==
    ASSUME ResumeShape, NEW s \in AttemptIds, OpenAppends(s)
    PROVE  ResumeShape'
<1>1. /\ pc[s] = "append" /\ path[s] = 1 /\ handle[s] = "closed" /\ buffer[s] = <<>>
      /\ file[s] \in Files /\ 1 \in 1 .. Paths
    BY PathsAssumption DEF OpenAppends, ResumeShape, PlaceShape, HandleShape
<1>2. PICK c \in Seq(Units) : part' = [part EXCEPT ![1] = c]
    <2>1. CASE Exists(1)
        <3>1. part[1] \in Seq(Units) /\ part' = [part EXCEPT ![1] = part[1]]
            BY <1>1, <2>1 DEF OpenAppends, Exists, ResumeShape, DiskShape, Contents
        <3> QED BY <3>1
    <2>2. CASE ~Exists(1)
        <3>1. <<>> \in Seq(Units)
            BY EmptySeq
        <3> QED BY <2>2, <3>1 DEF OpenAppends
    <2> QED BY <2>1, <2>2
<1>3. DiskShape' /\ HandlesKept(s)
    BY <1>2, PartsShape DEF OpenAppends, ResumeShape, DiskShape
<1>4. AttemptShape'
    <2>1. offset[s] \in 0 .. FileSize
        BY SizeAssumption DEF ResumeShape, AttemptShape
    <2> QED BY <2>1 DEF OpenAppends, ResumeShape, AttemptShape, Places, Goes
<1>5. OnlyMoves(s)
    BY DEF OpenAppends, ResumeShape, AttemptShape, OnlyMoves, Goes
<1>6. HandleShape(s)' /\ PlaceShape(s)'
    <2>1. /\ pc'[s] = "meta" /\ handle'[s] = "append" /\ received'[s] = offset[s]
          /\ offset' = offset /\ path' = path /\ file' = file /\ buffer' = buffer
        BY DEF OpenAppends, ResumeShape, AttemptShape, Goes
    <2>2. offset[s] + Len(buffer[s]) <= offset[s] /\ offset[s] <= offset[s]
        <3>1. Len(<<>>) = 0 /\ offset[s] \in Nat
            BY EmptySeq, SizeAssumption DEF ResumeShape, AttemptShape
        <3> QED BY <1>1, <3>1
    <2>3. part'[1] \in Seq(Units)
        BY <1>1, <1>2 DEF ResumeShape, DiskShape
    <2>4. HandleShape(s)'
        BY <1>1, <2>1, <2>2, <2>3 DEF HandleShape
    <2> QED BY <1>1, <2>1, <2>4 DEF PlaceShape
<1> QED BY <1>3, <1>4, <1>5, <1>6, ShapeKept

\* An old .part file is removed only if nobody has it open.
LEMMA RemoveShape ==
    ASSUME ResumeShape, NEW s \in AttemptIds, OpenRemoves(s)
    PROVE  ResumeShape'
<1>1. /\ pc[s] = "open" /\ policy[s] # "resume" /\ local' = local /\ out' = out
      /\ pc' = [pc EXCEPT ![s] = "create"]
    BY DEF OpenRemoves, Goes
<1>2. DiskShape'
    <2>1. NoFile \in Contents /\ NoMeta \in [file : Files \cup {NoFile}, received : 0 .. FileSize]
        BY SizeAssumption DEF Contents, NoMeta
    <2> QED BY <2>1 DEF OpenRemoves, ResumeShape, DiskShape
<1>3. HandlesKept(s)
    <2>1. \A t \in AttemptIds : handle[t] # "closed" => path[t] \in 1 .. Paths
        BY DEF ResumeShape, HandleShape
    <2> QED BY <2>1 DEF OpenRemoves, Open, ResumeShape, DiskShape, HandlesKept
<1>4. AttemptShape'
    BY <1>1 DEF ResumeShape, AttemptShape, Places, local
<1>5. OnlyMoves(s)
    BY <1>1 DEF ResumeShape, AttemptShape, OnlyMoves, local
<1>6. HandleShape(s)' /\ PlaceShape(s)'
    BY <1>1 DEF ResumeShape, AttemptShape, HandleShape, PlaceShape, local
<1> QED BY <1>2, <1>3, <1>4, <1>5, <1>6, ShapeKept

\* An empty .part file is made, in the place of one that another session may have open.
LEMMA CreateShape ==
    ASSUME ResumeShape, NEW s \in AttemptIds, OpenCreates(s)
    PROVE  ResumeShape'
<1>1. /\ pc[s] = "create" /\ path[s] \in 1 .. Paths /\ handle[s] = "closed"
      /\ buffer[s] = <<>> /\ file[s] \in Files /\ offset[s] = 0 /\ received[s] = 0
    BY DEF OpenCreates, ResumeShape, PlaceShape, HandleShape
<1>2. <<>> \in Seq(Units) /\ <<>> \in Contents /\ Len(<<>>) = 0
    BY EmptySeq DEF Contents
<1>3. DiskShape' /\ HandlesKept(s)
    BY <1>2, PartsShape DEF OpenCreates, ResumeShape, DiskShape
<1>4. AttemptShape'
    BY DEF OpenCreates, ResumeShape, AttemptShape, Places, Goes
<1>5. OnlyMoves(s)
    BY DEF OpenCreates, ResumeShape, AttemptShape, OnlyMoves, Goes
<1>6. HandleShape(s)' /\ PlaceShape(s)'
    <2>1. /\ pc'[s] = "meta" /\ handle'[s] = "write" /\ received' = received
          /\ offset' = offset /\ path' = path /\ file' = file /\ buffer' = buffer
          /\ part'[path[s]] = <<>>
        BY <1>1 DEF OpenCreates, ResumeShape, AttemptShape, DiskShape, Goes
    <2> QED BY <1>1, <1>2, <2>1 DEF HandleShape, PlaceShape
<1> QED BY <1>3, <1>4, <1>5, <1>6, ShapeKept

\* The meta file of a session is of a file and of a number of its units.
LEMMA MetaShape ==
    ASSUME ResumeShape, NEW s \in AttemptIds, path[s] \in 1 .. Paths, file[s] \in Files,
           NEW n \in 0 .. FileSize
    PROVE  MetaOf(s, n) \in [1 .. Paths -> [file : Files \cup {NoFile}, received : 0 .. FileSize]]
BY DEF MetaOf, ResumeShape, DiskShape

\* Steps that change neither .part files nor what a session has settled.
LEMMA QuietShape ==
    ASSUME ResumeShape, NEW s \in AttemptIds,
           \/ WriteMeta(s) \/ Verify(s) \/ RemoveMeta(s) \/ Commit(s) \/ Fail(s)
    PROVE  ResumeShape'
<1>1. /\ pc[s] \in {"meta", "verify", "unmeta", "commit", "receive"}
      /\ part' = part /\ out' = out /\ local' = local
    BY DEF WriteMeta, Verify, RemoveMeta, Commit, Fail, disk
<1>2. PICK at \in {"receive", "replace", "commit", "leave"} :
          pc' = [pc EXCEPT ![s] = at] /\ (at = "receive" => pc[s] = "meta")
    BY DEF WriteMeta, Verify, RemoveMeta, Commit, Fail, Goes, AttemptEnds
<1>3. path[s] \in 1 .. Paths /\ file[s] \in Files
    BY <1>1 DEF ResumeShape, PlaceShape
<1>4. meta' \in [1 .. Paths -> [file : Files \cup {NoFile}, received : 0 .. FileSize]]
    <2>1. CASE meta' = meta
        BY <2>1 DEF ResumeShape, DiskShape
    <2>2. CASE WriteMeta(s)
        <3>1. received[s] \in 0 .. FileSize
            BY DEF ResumeShape, AttemptShape
        <3> QED BY <1>3, <2>2, <3>1, MetaShape DEF WriteMeta
    <2>3. CASE RemoveMeta(s)
        <3>1. NoMeta \in [file : Files \cup {NoFile}, received : 0 .. FileSize]
            BY SizeAssumption DEF NoMeta
        <3> QED BY <1>3, <2>3, <3>1 DEF RemoveMeta, ResumeShape, DiskShape
    <2> QED BY <2>1, <2>2, <2>3 DEF Verify, Commit, Fail, disk
<1>5. DiskShape' /\ HandlesKept(s)
    BY <1>1, <1>4 DEF ResumeShape, DiskShape, HandlesKept
<1>6. AttemptShape'
    BY <1>1, <1>2 DEF ResumeShape, AttemptShape, Places, local
<1>7. OnlyMoves(s)
    BY <1>1, <1>2 DEF ResumeShape, AttemptShape, OnlyMoves, local
<1>8. HandleShape(s)' /\ PlaceShape(s)'
    BY <1>1, <1>2 DEF ResumeShape, AttemptShape, HandleShape, PlaceShape, local
<1> QED BY <1>5, <1>6, <1>7, <1>8, ShapeKept

\* A packet is counted, and is in the buffer or in the .part file.
LEMMA ReceiveShape ==
    ASSUME ResumeShape, NEW s \in AttemptIds, Receive(s)
    PROVE  ResumeShape'
<1> DEFINE n    == PacketEnd(received[s])
           data == SubSeq(Content(file[s]), received[s] + 1, n)
<1>1. /\ pc[s] = "receive" /\ handle[s] # "closed" /\ file[s] \in Files
      /\ path[s] \in 1 .. Paths /\ received[s] \in 0 .. FileSize - 1 /\ received[s] \in Nat
      /\ offset[s] + Len(buffer[s]) <= received[s] /\ buffer[s] \in Seq(Units)
      /\ offset[s] \in Nat /\ written[s] \in Nat /\ Len(buffer[s]) \in Nat
    BY SizeAssumption DEF Receive, ResumeShape, PlaceShape, HandleShape, AttemptShape
<1>2. n \in 0 .. FileSize /\ received[s] <= n
    <2>1. received[s] + Payload \in Nat /\ FileSize \in Nat
        BY <1>1, SizeAssumption
    <2>2. n \in {received[s] + Payload, FileSize} /\ n <= FileSize
        BY <2>1, MinOfTwo DEF PacketEnd
    <2>3. received[s] <= received[s] + Payload
        BY <1>1, SizeAssumption
    <2> HIDE DEF n
    <2> QED BY <1>1, <2>1, <2>2, <2>3
<1>3. data \in Seq(Units) /\ Len(data) = n - received[s]
    BY <1>1, <1>2, PacketShape
<1>4. /\ received' = [received EXCEPT ![s] = n]
      /\ \/ /\ buffer' = [buffer EXCEPT ![s] = buffer[s] \o data]
            /\ part' = part /\ written' = written
         \/ /\ part' = Flushed(s, data)
            /\ written' = [written EXCEPT ![s] = written[s] + Len(buffer[s] \o data)]
            /\ buffer' = [buffer EXCEPT ![s] = <<>>]
      /\ meta' \in {meta, MetaOf(s, n)}
      /\ out' = out /\ pc' = pc /\ file' = file /\ path' = path /\ policy' = policy
      /\ offer' = offer /\ offset' = offset /\ handle' = handle
    BY DEF Receive, ResumeShape, AttemptShape
<1> HIDE DEF n, data
<1>5. /\ buffer[s] \o data \in Seq(Units)
      /\ Len(buffer[s] \o data) = Len(buffer[s]) + (n - received[s])
      /\ <<>> \in Seq(Units) /\ Len(<<>>) = 0
    <2>1. /\ buffer[s] \o data \in Seq(Units)
          /\ Len(buffer[s] \o data) = Len(buffer[s]) + Len(data)
        BY <1>1, <1>3, ConcatProperties
    <2>2. <<>> \in Seq(Units) /\ Len(<<>>) = 0
        BY EmptySeq
    <2> QED BY <1>3, <2>1, <2>2
<1>6. part' = part \/ \E c \in Seq(Units) : part' = [part EXCEPT ![path[s]] = c]
    <2>1. \E c \in Seq(Units) : Flushed(s, data) = [part EXCEPT ![path[s]] = c]
        BY <1>1, <1>3, FlushShape
    <2> QED BY <1>4, <2>1
<1>7. DiskShape' /\ HandlesKept(s)
    <2>1. meta' \in [1 .. Paths -> [file : Files \cup {NoFile}, received : 0 .. FileSize]]
        BY <1>1, <1>2, <1>4, MetaShape DEF ResumeShape, DiskShape
    <2> QED BY <1>4, <1>6, <2>1, PartsShape DEF ResumeShape, DiskShape
<1>8. written' \in [AttemptIds -> Nat]
    <2>1. Len(buffer[s] \o data) \in Nat /\ written[s] \in Nat
        BY <1>1, <1>5, LenProperties
    <2>2. written[s] + Len(buffer[s] \o data) \in Nat
        BY <2>1
    <2> QED BY <1>4, <2>2 DEF ResumeShape, AttemptShape
<1>9. AttemptShape'
    <2>1. received' \in [AttemptIds -> 0 .. FileSize]
        BY <1>2, <1>4 DEF ResumeShape, AttemptShape
    <2>2. buffer' \in [AttemptIds -> Seq(Units)]
        BY <1>4, <1>5 DEF ResumeShape, AttemptShape
    <2> QED BY <1>4, <1>8, <2>1, <2>2 DEF ResumeShape, AttemptShape
<1>10. OnlyMoves(s)
    BY <1>4 DEF ResumeShape, AttemptShape, OnlyMoves
<1>11. HandleShape(s)'
    <2>1. received'[s] = n /\ offset[s] <= n
        <3>1. offset[s] <= received[s]
            BY <1>1, LenProperties
        <3> QED BY <1>1, <1>2, <1>4, <3>1 DEF ResumeShape, AttemptShape
    <2>2. buffer'[s] \in {<<>>, buffer[s] \o data}
        BY <1>4 DEF ResumeShape, AttemptShape
    <2>3. offset[s] + Len(buffer'[s]) <= n
        <3>1. offset[s] + Len(buffer[s] \o data) <= n
            <4> DEFINE k == Len(buffer[s])
                       l == Len(buffer[s] \o data)
            <4>1. l = k + (n - received[s])
                BY <1>5
            <4>2. /\ offset[s] + k <= received[s] /\ k \in Nat /\ n \in Int
                  /\ offset[s] \in Int /\ received[s] \in Int
                BY <1>1, <1>2, SizeAssumption
            <4> HIDE DEF k, l
            <4>3. offset[s] + l <= n
                BY ONLY <4>1, <4>2
            <4> QED BY <4>3 DEF l
        <3>2. offset[s] + Len(<<>>) <= n
            BY <1>1, <1>5, <2>1
        <3> QED BY <2>2, <3>1, <3>2
    <2>4. part'[path[s]] \in Seq(Units)
        BY <1>1, <1>6 DEF ResumeShape, DiskShape, HandleShape
    <2> QED BY <1>1, <1>4, <2>1, <2>3, <2>4 DEF HandleShape
<1>12. PlaceShape(s)'
    BY <1>1, <1>4 DEF PlaceShape
<1> QED BY <1>7, <1>9, <1>10, <1>11, <1>12, ShapeKept

\* EOF flushes and closes.
LEMMA EofShape ==
    ASSUME ResumeShape, NEW s \in AttemptIds, HandleEof(s)
    PROVE  ResumeShape'
<1>1. /\ pc[s] = "receive" /\ handle[s] # "closed" /\ file[s] \in Files
      /\ path[s] \in 1 .. Paths /\ (received[s] = 0 \/ offset[s] <= received[s])
    BY DEF HandleEof, ResumeShape, PlaceShape, HandleShape
<1>2. <<>> \in Seq(Units)
    BY EmptySeq
<1>3. PICK c \in Seq(Units) : part' = [part EXCEPT ![path[s]] = c]
    BY <1>1, <1>2, FlushShape DEF HandleEof
<1>4. DiskShape' /\ HandlesKept(s)
    BY <1>3, PartsShape DEF HandleEof, ResumeShape, DiskShape
<1>5. AttemptShape'
    BY <1>2 DEF HandleEof, ResumeShape, AttemptShape, Places, Goes
<1>6. OnlyMoves(s)
    BY DEF HandleEof, ResumeShape, AttemptShape, OnlyMoves, Goes
<1>7. HandleShape(s)' /\ PlaceShape(s)'
    <2>1. /\ pc'[s] = "verify" /\ handle'[s] = "closed" /\ buffer'[s] = <<>>
          /\ received' = received /\ offset' = offset /\ path' = path /\ file' = file
        BY DEF HandleEof, ResumeShape, AttemptShape, Goes
    <2> QED BY <1>1, <2>1 DEF HandleShape, PlaceShape
<1> QED BY <1>4, <1>5, <1>6, <1>7, ShapeKept

\* os.replace moves a .part file that nobody has open.
LEMMA ReplaceShape ==
    ASSUME ResumeShape, NEW s \in AttemptIds, Replace(s)
    PROVE  ResumeShape'
<1>1. /\ pc[s] = "replace" /\ path[s] \in 1 .. Paths /\ meta' = meta /\ local' = local
    BY DEF Replace, ResumeShape, PlaceShape
<1>2. PICK at \in {"unmeta", "leave"} : pc' = [pc EXCEPT ![s] = at]
    BY DEF Replace, Goes, AttemptEnds
<1>3. DiskShape'
    <2>1. NoFile \in Contents /\ part[path[s]] \in Contents
        BY <1>1 DEF Contents, ResumeShape, DiskShape
    <2> QED BY <1>1, <2>1 DEF Replace, ResumeShape, DiskShape
<1>4. HandlesKept(s)
    <2>1. \A t \in AttemptIds : handle[t] # "closed" => path[t] \in 1 .. Paths
        BY DEF ResumeShape, HandleShape
    <2> QED BY <2>1 DEF Replace, Open, ResumeShape, DiskShape, HandlesKept
<1>5. AttemptShape'
    BY <1>1, <1>2 DEF ResumeShape, AttemptShape, Places, local
<1>6. OnlyMoves(s)
    BY <1>1, <1>2 DEF ResumeShape, AttemptShape, OnlyMoves, local
<1>7. HandleShape(s)' /\ PlaceShape(s)'
    <2>1. pc'[s] \in {"unmeta", "leave"}
        BY <1>2 DEF ResumeShape, AttemptShape
    <2>2. handle[s] # "closed" => part' = part
        BY <1>1 DEF Replace, Open
    <2> QED BY <1>1, <2>1, <2>2 DEF ResumeShape, HandleShape, PlaceShape, local
<1> QED BY <1>3, <1>4, <1>5, <1>6, <1>7, ShapeKept

\* The memory of sessions that are over is cleared, that of the others is not touched.
LEMMA DroppedShape ==
    ASSUME NEW E \in SUBSET AttemptIds, Drop(E), AttemptShape, pc' \in [AttemptIds -> Places]
    PROVE  /\ AttemptShape'
           /\ \A s \in E : handle'[s] = "closed" /\ received'[s] = 0 /\ buffer'[s] = <<>>
           /\ \A s \in AttemptIds \ E :
                  /\ file'[s] = file[s] /\ path'[s] = path[s] /\ policy'[s] = policy[s]
                  /\ offset'[s] = offset[s] /\ received'[s] = received[s]
                  /\ handle'[s] = handle[s] /\ buffer'[s] = buffer[s]
<1> USE SizeAssumption, PathsAssumption DEF Drop
<1>1. <<>> \in Seq(Units)
    BY EmptySeq
<1>2. /\ file' \in [AttemptIds -> Files \cup {NoFile}]
      /\ path' \in [AttemptIds -> 0 .. Paths]
      /\ policy' \in [AttemptIds -> Policies \cup {"none"}]
      /\ handle' \in [AttemptIds -> {"closed", "append", "write"}]
      /\ written' \in [AttemptIds -> Nat]
    BY DEF AttemptShape
<1>3. /\ offer' \in [AttemptIds -> 0 .. FileSize - 1]
      /\ offset' \in [AttemptIds -> 0 .. FileSize - 1]
      /\ received' \in [AttemptIds -> 0 .. FileSize]
    BY DEF AttemptShape
<1>4. buffer' \in [AttemptIds -> Seq(Units)]
    BY <1>1 DEF AttemptShape
<1>5. AttemptShape'
    BY <1>2, <1>3, <1>4 DEF AttemptShape
<1>6. \A s \in E : handle'[s] = "closed" /\ received'[s] = 0 /\ buffer'[s] = <<>>
    OBVIOUS
<1>7. \A s \in AttemptIds \ E :
          /\ file'[s] = file[s] /\ path'[s] = path[s] /\ policy'[s] = policy[s]
          /\ offset'[s] = offset[s] /\ received'[s] = received[s]
          /\ handle'[s] = handle[s] /\ buffer'[s] = buffer[s]
    OBVIOUS
<1> QED BY <1>5, <1>6, <1>7

\* The finally block flushes, and writes the meta file.
LEMMA LeaveShape ==
    ASSUME ResumeShape, NEW s \in AttemptIds, Leave(s)
    PROVE  ResumeShape'
<1>1. /\ pc[s] = "leave" /\ path[s] \in 1 .. Paths /\ file[s] \in Files
      /\ pc' = [pc EXCEPT ![s] = "end"] /\ Drop({s}) /\ out' = out
      /\ received[s] \in 0 .. FileSize
    BY DEF Leave, Goes, ResumeShape, PlaceShape, AttemptShape
<1>2. part' = part \/ \E c \in Seq(Units) : part' = [part EXCEPT ![path[s]] = c]
    <2>1. <<>> \in Seq(Units)
        BY EmptySeq
    <2>2. handle[s] # "closed" =>
              \E c \in Seq(Units) : Flushed(s, <<>>) = [part EXCEPT ![path[s]] = c]
        BY <2>1, FlushShape
    <2> QED BY <2>2 DEF Leave
<1>3. meta' \in [1 .. Paths -> [file : Files \cup {NoFile}, received : 0 .. FileSize]]
    <2>1. MetaOf(s, received[s])
              \in [1 .. Paths -> [file : Files \cup {NoFile}, received : 0 .. FileSize]]
        BY <1>1, MetaShape
    <2>2. meta' \in {meta, MetaOf(s, received[s])}
        BY DEF Leave, KeptBytes
    <2> QED BY <2>1, <2>2 DEF ResumeShape, DiskShape
<1>4. DiskShape' /\ HandlesKept(s)
    BY <1>1, <1>2, <1>3, PartsShape DEF ResumeShape, DiskShape
<1>5. pc' \in [AttemptIds -> Places]
    BY <1>1 DEF ResumeShape, AttemptShape, Places
<1>6. AttemptShape
    BY DEF ResumeShape
<1>7. /\ AttemptShape' /\ handle'[s] = "closed" /\ received'[s] = 0 /\ buffer'[s] = <<>>
      /\ \A t \in AttemptIds \ {s} :
            /\ file'[t] = file[t] /\ path'[t] = path[t] /\ policy'[t] = policy[t]
            /\ offset'[t] = offset[t] /\ received'[t] = received[t]
            /\ handle'[t] = handle[t] /\ buffer'[t] = buffer[t]
    <2>1. {s} \in SUBSET AttemptIds /\ s \in {s}
        OBVIOUS
    <2> QED BY <1>1, <1>5, <1>6, <2>1, DroppedShape
<1>8. OnlyMoves(s)
    BY <1>1, <1>6, <1>7 DEF OnlyMoves, AttemptShape
<1>9. HandleShape(s)' /\ PlaceShape(s)'
    <2>1. pc'[s] = "end"
        BY <1>1, <1>6 DEF AttemptShape
    <2> QED BY <1>7, <2>1 DEF HandleShape, PlaceShape
<1> QED BY <1>4, <1>7, <1>8, <1>9, ShapeKept

\* The end of the process ends every session that has begun.
LEMMA CrashShape ==
    ASSUME ResumeShape, Crash
    PROVE  ResumeShape'
<1> DEFINE live == {s \in AttemptIds : pc[s] \notin {"new", "end"}}
<1>1. /\ pc' = [s \in AttemptIds |-> IF s \in live THEN "end" ELSE pc[s]]
      /\ Drop(live) /\ disk' = disk /\ live \in SUBSET AttemptIds
    BY DEF Crash
<1>2. DiskShape'
    BY <1>1 DEF ResumeShape, DiskShape, disk
<1>3. pc' \in [AttemptIds -> Places]
    BY <1>1 DEF ResumeShape, AttemptShape, Places
<1>4. AttemptShape
    BY DEF ResumeShape
<1>5. \A s \in AttemptIds : pc'[s] \in {"new", "end"}
    BY <1>1
<1>6. \A s \in AttemptIds \ live : handle[s] = "closed" /\ received[s] = 0 /\ buffer[s] = <<>>
    BY DEF ResumeShape, PlaceShape, HandleShape
<1> HIDE DEF live
<1>7. /\ AttemptShape'
      /\ \A s \in AttemptIds : handle'[s] = "closed" /\ received'[s] = 0 /\ buffer'[s] = <<>>
    BY <1>1, <1>3, <1>4, <1>6, DroppedShape
<1>8. \A s \in AttemptIds : HandleShape(s)' /\ PlaceShape(s)'
    BY <1>5, <1>7 DEF HandleShape, PlaceShape
<1> QED BY <1>2, <1>7, <1>8 DEF ResumeShape

\* The empty directory and the sessions before they begin.
LEMMA ShapeInit == ResumeInit => ResumeShape
<1> SUFFICES ASSUME ResumeInit PROVE ResumeShape
    OBVIOUS
<1> USE SizeAssumption, PathsAssumption DEF ResumeInit
<1>1. DiskShape
    BY DEF DiskShape, Contents, NoMeta
<1>2. <<>> \in Seq(Units)
    BY EmptySeq
<1>3. AttemptShape
    BY <1>2 DEF AttemptShape, Places, Policies
<1>4. \A s \in AttemptIds : HandleShape(s) /\ PlaceShape(s)
    BY DEF HandleShape, PlaceShape
<1> QED BY <1>1, <1>3, <1>4 DEF ResumeShape

\* Every step keeps the shape, whether attempts overlap or not.
LEMMA ShapeStep ==
    ASSUME ResumeShape, [ResumeNext]_resumeVars
    PROVE  ResumeShape'
<1>1. ASSUME NEW s \in AttemptIds,
             \/ HandleHeader(s) \/ DecideConflict(s)
             \/ OpenTruncates(s) \/ OpenAppends(s) \/ OpenRemoves(s) \/ OpenCreates(s)
             \/ WriteMeta(s) \/ Receive(s) \/ HandleEof(s)
             \/ Verify(s) \/ Replace(s) \/ RemoveMeta(s) \/ Commit(s)
             \/ Fail(s) \/ Leave(s)
      PROVE  ResumeShape'
    BY <1>1, HeaderShape, DecisionShape, TruncateShape, AppendShape, RemoveShape, CreateShape,
       QuietShape, ReceiveShape, EofShape, ReplaceShape, LeaveShape
<1>2. CASE UNCHANGED resumeVars
    BY <1>2 DEF ResumeShape, DiskShape, AttemptShape, HandleShape, PlaceShape, resumeVars, disk,
       local
<1> QED BY <1>1, <1>2, CrashShape DEF ResumeNext

\* No .part file is longer than the file.
PartsFit == \A p \in 1 .. Paths : Exists(p) => Len(part[p]) <= FileSize

\* One attempt after another leaves the beginnings of files only.
LEMMA BeginningsFit == ResumeInv => PartsFit
<1> SUFFICES ASSUME ResumeInv, NEW p \in 1 .. Paths, Exists(p)
             PROVE  Len(part[p]) <= FileSize
    BY DEF PartsFit
<1>1. PICK g \in Files, n \in 0 .. FileSize : part[p] = FirstUnits(g, n)
    BY PartsAre DEF ResumeInv
<1>2. Len(FirstUnits(g, n)) = n
    <2>1. n \in Nat
        BY SizeAssumption
    <2> QED BY <2>1, FirstUnitsAre
<1> QED BY <1>1, <1>2, SizeAssumption

\* What the types say beyond the length of the .part files.
LEMMA ShapeImplies == ResumeShape /\ (~Overlap => PartsFit) => ResumeTypeOK
<1> SUFFICES ASSUME ResumeShape, ~Overlap => PartsFit PROVE ResumeTypeOK
    OBVIOUS
<1>1. \A p \in 1 .. Paths : {part[p], out[p]} \subseteq Contents
    BY DEF ResumeShape, DiskShape
<1>2. \A p \in 1 .. Paths : meta[p].received \in 0 .. FileSize
    BY DEF ResumeShape, DiskShape
<1>3. ASSUME NEW s \in AttemptIds
      PROVE  /\ path[s] \in 0 .. Paths /\ {offer[s], offset[s]} \subseteq 0 .. FileSize - 1
             /\ handle[s] \in {"closed", "append", "write"}
    BY DEF ResumeShape, AttemptShape
<1>4. ASSUME NEW s \in AttemptIds
      PROVE  /\ received[s] \in offset[s] .. FileSize \cup {0}
             /\ buffer[s] # <<>> => offset[s] + Len(buffer[s]) <= received[s]
             /\ handle[s] # "closed" => path[s] > 0 /\ part[path[s]] \in Seq(Units)
    <2>1. offset[s] \in 0 .. FileSize - 1 /\ received[s] \in 0 .. FileSize
        BY DEF ResumeShape, AttemptShape
    <2>2. HandleShape(s)
        BY DEF ResumeShape
    <2> QED BY <2>1, <2>2, SizeAssumption DEF HandleShape
<1> QED BY <1>1, <1>2, <1>3, <1>4 DEF ResumeTypeOK, PartsFit

\* For any number of attempts, files, paths and crashes, whether attempts overlap or not:
\* the disk and every session stay in their types, a buffer holds no more than its session
\* received, and an open handle does not lose its file (server.py _app_handler).  That a .part file is no longer than the
\* file is claimed, and true, only where attempts do not overlap.
THEOREM ResumeTypes == ResumeSpec => []ResumeTypeOK
<1>1. ResumeSpec => []ResumeShape
    BY ShapeInit, ShapeStep, PTL DEF ResumeSpec
<1>2. CASE ~Overlap
    <2>1. ResumeSpec => []ResumeInv
        BY <1>2, ResumeInvHolds
    <2>2. ResumeInv /\ ResumeShape => ResumeTypeOK
        BY BeginningsFit, ShapeImplies
    <2> QED BY <1>1, <2>1, <2>2, PTL
<1>3. CASE Overlap
    <2>1. ResumeShape => ResumeTypeOK
        BY <1>3, ShapeImplies
    <2> QED BY <1>1, <2>1, PTL
<1> QED BY <1>2, <1>3

-----------------------------------------------------------------------------
(* ScreenRuntime.  Where start(), the stops and the lock are; and, as long *)
(* as no thread has crossed another without the lock, what is held by each *)
(* of them: the process that lives is the one that is held, is being given *)
(* or is being stopped.                                                    *)

\* Where each part of the runtime is, the flags aside.
RunPlaces ==
    /\ screenState \in {"idle", "sharing", "error"} \cup StopStates
    /\ process \in {NoProcess} \cup Processes /\ started \in {0} \cup Processes
    /\ listed \subseteq Processes /\ readersOn \subseteq Processes
    /\ faults \subseteq Processes /\ checks \subseteq Processes
    /\ native \in [Processes -> {"none", "alive", "clean", "failed"}]
    /\ starter \in {"rest", "allowed", "refreshed", "free", "created", "listed", "assigned"}
    /\ stopper \in [StopThreads -> {"rest", "waiting", "early", "cleared", "requested", "asked",
                                    "terminated", "killed", "joining"}]
    /\ target \in [StopThreads -> {NoProcess} \cup Processes]
    /\ joining \in [StopThreads -> SUBSET Processes]
    /\ locked \subseteq StopThreads

RunFlags == stopInProgress \in BOOLEAN /\ crossed \in BOOLEAN

\* A start that has begun has a process left to create, or has created one that no other
\* thread knows of yet.
StartHas ==
    /\ starter \in {"allowed", "refreshed", "free"} => started < MaxStarts
    /\ starter \in {"created", "listed", "assigned"} => started \in Processes
    /\ process <= started /\ \A p \in checks : p <= started
    /\ starter \in {"created", "listed"} => process < started
    /\ starter \in {"created", "listed", "assigned"} => \A p \in checks : p < started

\* A process that runs is read.
LiveIsRead == \A p \in Processes : native[p] = "alive" => p \in readersOn

\* One stop at most has a process for its target, and then one is said to be in progress.
AtTarget == {"requested", "asked", "terminated", "killed", "joining"}
Early    == {"early", "cleared"}
StopHas ==
    /\ \A s \in StopThreads : target[s] # NoProcess <=> stopper[s] \in AtTarget
    /\ \A s, t \in StopThreads : target[s] # NoProcess /\ target[t] # NoProcess => s = t
    /\ stopInProgress <=> \E s \in StopThreads : target[s] # NoProcess
    /\ ~stopInProgress => screenState \notin StopStates
    /\ \A s \in StopThreads : stopper[s] # "joining" => joining[s] = {}

\* The lock between the steps of an early path is that of one stop, and keeps others out.
LockHas ==
    /\ \A s \in StopThreads : s \in locked <=> stopper[s] \in Early
    /\ \A s, t \in StopThreads : s \in locked /\ t \in locked => s = t
    /\ locked # {} => ~stopInProgress

\* What is listed, or taken from the list to be joined.
Reading(p) == p \in listed \/ \E s \in StopThreads : p \in joining[s]

\* What the application holds while no thread has crossed a start.  A stop and a start are
\* not under way together; a stop is about the process that is held; while a stop is in its
\* early path nothing runs; and where the start is says what may run, and who reads it.
Quiet == \A p \in Processes : native[p] # "alive"
HeldApart   == starter # "rest" => ~stopInProgress /\ locked = {}
HeldTarget  == \A s \in StopThreads : target[s] # NoProcess => process = target[s]
HeldEarly   == locked # {} => Quiet /\ screenState # "sharing"
HeldRuns    == starter \in {"rest", "allowed", "refreshed", "assigned"} =>
                   \A p \in Processes : native[p] = "alive" => process = p
HeldFree    == starter = "free" => Quiet
HeldCreated == starter \in {"created", "listed"} =>
                   \A p \in Processes : native[p] = "alive" => p = started
HeldListed  == starter \in {"listed", "assigned"} => started \in listed \/ native[started] # "alive"
HeldGiven   == starter = "assigned" => process = started
HeldRead    == starter \in {"rest", "allowed", "refreshed"} => (Alive(process) => Reading(process))
HeldState   == starter \in {"rest", "allowed", "refreshed"} =>
                   /\ screenState = "idle" => Quiet
                   /\ screenState = "sharing" => process # NoProcess
HeldHas ==
    /\ HeldApart /\ HeldTarget /\ HeldEarly /\ HeldRuns /\ HeldFree
    /\ HeldCreated /\ HeldListed /\ HeldGiven /\ HeldRead /\ HeldState

RunInv ==
    /\ RunPlaces /\ RunFlags /\ StartHas /\ LiveIsRead /\ StopHas /\ LockHas
    /\ ~crossed => HeldHas

\* What the invariant says.
LEMMA RunImplies == RunInv => RuntimeTypeOK /\ RuntimeSafety
<1>. SUFFICES ASSUME RunInv PROVE RuntimeTypeOK /\ RuntimeSafety
  OBVIOUS
<1>. USE DEF RunInv
<1>1. RuntimeTypeOK
  BY DEF RunPlaces, RunFlags, RuntimeTypeOK
<1>2. OneStop
  <2>. DEFINE T == {s \in StopThreads : target[s] # NoProcess}
  <2>1. ASSUME stopInProgress PROVE Cardinality(T) = 1
    <3>1. PICK s \in StopThreads : target[s] # NoProcess
      BY <2>1 DEF StopHas
    <3>2. T = {s}
      BY <3>1 DEF StopHas
    <3>. QED  BY <3>2, FS_Singleton
  <2>2. ASSUME ~stopInProgress PROVE Cardinality(T) # 1
    <3>1. T = {}
      BY <2>2 DEF StopHas
    <3>. QED  BY <3>1, FS_EmptySet
  <2>3. ~stopInProgress => screenState \notin StopStates
    BY DEF StopHas
  <2>. QED  BY <2>1, <2>2, <2>3 DEF OneStop
<1>3. ASSUME ~crossed PROVE HeldHas
  BY <1>3
<1>4. NoneRunsUnheld
  <2>. SUFFICES ASSUME ~crossed, NEW p \in Processes, native[p] = "alive"
       PROVE process = p \/ (started = p /\ starter \in {"created", "listed"})
    BY DEF NoneRunsUnheld
  <2>1. starter \in {"rest", "allowed", "refreshed", "free", "created", "listed", "assigned"}
    BY DEF RunPlaces
  <2>. QED  BY <1>3, <2>1 DEF HeldHas, HeldRuns, HeldFree, HeldCreated, Quiet
<1>5. IdleIsOver
  <2>. SUFFICES ASSUME ~crossed, starter = "rest"
       PROVE  /\ screenState = "idle" => \A p \in Processes : native[p] # "alive"
              /\ screenState = "sharing" => process # NoProcess
              /\ Alive(process) => \/ process \in listed
                                   \/ \E s \in StopThreads : process \in joining[s]
    BY DEF IdleIsOver
  <2>. QED  BY <1>3 DEF HeldHas, HeldState, HeldRead, Quiet, Reading
<1>. QED  BY <1>1, <1>2, <1>4, <1>5 DEF RuntimeSafety

\* The application begins so.
LEMMA RunInitially == RuntimeInit => RunInv
<1>. SUFFICES ASSUME RuntimeInit PROVE RunInv
  OBVIOUS
<1>. USE DEF RuntimeInit
<1>1. RunPlaces
  BY DEF RunPlaces, NoProcess
<1>2. RunFlags
  BY DEF RunFlags
<1>3. StartHas /\ LiveIsRead
  BY DEF StartHas, LiveIsRead, NoProcess
<1>4. StopHas /\ LockHas
  BY DEF StopHas, LockHas, AtTarget, Early, StopStates, NoProcess
<1>5. HeldHas
  BY DEF HeldHas, HeldApart, HeldTarget, HeldEarly, HeldRuns, HeldFree, HeldCreated, HeldListed,
     HeldGiven, HeldRead, HeldState, Quiet, Alive, NoProcess
<1>. QED  BY <1>1, <1>2, <1>3, <1>4, <1>5 DEF RunInv

\* What a look at the process does: nothing, or it lets go of one that has exited.
LetsGo ==
    /\ Exited(process) /\ ~stopInProgress
    /\ process' = NoProcess /\ listed' = listed \cap readersOn
    /\ screenState' \in {"idle", "error"}
Settles == UNCHANGED <<process, listed, screenState>> \/ LetsGo

\* A refresh lets go of a process that ended, or leaves everything.
LEMMA RefreshIs == Refresh => Settles
BY DEF Refresh, Settles, LetsGo, LetGo, Unjoined

\* The types after it.
LEMMA SettlesPlaces ==
  ASSUME RunPlaces, Settles
  PROVE  /\ screenState' \in {"idle", "sharing", "error"} \cup StopStates
         /\ process' \in {NoProcess} \cup Processes /\ listed' \subseteq Processes
BY DEF RunPlaces, Settles, LetsGo

\* What a look at the process leaves of what the start and the stops have.
LEMMA SettlesKeeps ==
  ASSUME RunPlaces, StartHas, StopHas, Settles
  PROVE  /\ process' <= started /\ (process < started => process' < started)
         /\ ~stopInProgress => screenState' \notin StopStates
<1>1. process' <= started /\ (process < started => process' < started)
  BY MaxStartsAssumption DEF RunPlaces, StartHas, Settles, LetsGo, NoProcess, Processes
<1>2. ~stopInProgress => screenState' \notin StopStates
  BY DEF StopHas, Settles, LetsGo, StopStates
<1>. QED  BY <1>1, <1>2

\* And of what the application holds, unless the start has just made the process its own.
LEMMA SettlesHeld ==
  ASSUME RunPlaces, LiveIsRead, StopHas, HeldHas, Settles,
         UNCHANGED <<stopInProgress, native, readersOn, started, target, joining>>,
         starter' = starter \/ (starter = "allowed" /\ starter' = "refreshed"),
         locked' # {} => Quiet /\ screenState' # "sharing" /\ starter = "rest",
         starter = "assigned" => process' = process
  PROVE  HeldHas'
<1>. USE DEF HeldHas
<1>1. HeldApart'
  BY DEF HeldApart
<1>2. HeldTarget'
  BY DEF HeldTarget, StopHas, Settles, LetsGo
<1>3. HeldEarly'
  BY DEF HeldEarly, Quiet
<1>4. ASSUME NEW p \in Processes, native[p] = "alive", process = p PROVE process' = p
  BY <1>4 DEF Settles, LetsGo, Exited
<1>5. HeldRuns'
  BY <1>4 DEF HeldRuns
<1>6. HeldFree' /\ HeldCreated'
  BY DEF HeldFree, HeldCreated, Quiet
<1>7. ASSUME NEW p \in Processes, native[p] = "alive", p \in listed PROVE p \in listed'
  BY <1>7 DEF Settles, LetsGo, LiveIsRead
<1>8. HeldListed'
  <2>. SUFFICES ASSUME starter \in {"listed", "assigned"}, native[started] = "alive"
       PROVE  started \in listed'
    BY DEF HeldListed
  <2>1. started \in listed
    BY DEF HeldListed
  <2>2. started \in Processes
    BY <2>1 DEF RunPlaces
  <2>. QED  BY <1>7, <2>1, <2>2
<1>9. HeldGiven'
  BY DEF HeldGiven
<1>10. HeldRead'
  <2>. SUFFICES ASSUME starter \in {"rest", "allowed", "refreshed"}, Alive(process)'
       PROVE  Reading(process)'
    BY DEF HeldRead
  <2>1. process' = process /\ Alive(process) /\ native[process] = "alive"
    BY DEF Settles, LetsGo, Alive
  <2>2. Reading(process) /\ process \in Processes
    BY <2>1 DEF HeldRead, Alive, RunPlaces
  <2>. QED  BY <1>7, <2>1, <2>2 DEF Reading
<1>11. HeldState'
  <2>1. CASE UNCHANGED <<process, listed, screenState>>
    BY <2>1 DEF HeldState, Quiet
  <2>2. CASE LetsGo
    <3>1. starter \in {"rest", "allowed", "refreshed"} => Quiet
      BY <2>2 DEF HeldRuns, Quiet, LetsGo, Exited
    <3>. QED  BY <2>2, <3>1 DEF HeldState, Quiet, LetsGo
  <2>. QED  BY <2>1, <2>2 DEF Settles
<1>. QED  BY <1>1, <1>2, <1>3, <1>5, <1>6, <1>8, <1>9, <1>10, <1>11

\* A look from outside a start.
LEMMA GetStateKeeps == ASSUME RunInv, GetState PROVE RunInv'
<1>. USE DEF GetState, RunInv, nativeVars, startVars, stopVars, Crosses
<1>1. Settles
  BY RefreshIs
<1>2. RunPlaces'
  BY <1>1, SettlesPlaces DEF RunPlaces
<1>3. RunFlags'
  BY Zenon DEF RunFlags
<1>4. /\ process' <= started /\ (process < started => process' < started)
      /\ ~stopInProgress => screenState' \notin StopStates
  BY <1>1, SettlesKeeps
<1>5. StartHas' /\ LiveIsRead' /\ LockHas'
  BY <1>1, <1>4 DEF StartHas, LiveIsRead, LockHas
<1>6. StopHas'
  BY <1>1, <1>4 DEF StopHas
<1>7. ASSUME ~crossed' PROVE HeldHas'
  <2>1. ~crossed /\ starter = "rest" /\ HeldHas /\ locked = {}
    BY <1>7 DEF LockFree
  <2>. QED  BY <1>1, <2>1, SettlesHeld
<1>. QED  BY <1>2, <1>3, <1>5, <1>6, <1>7

\* The check a second after a start, of a process that is not the one a start under way
\* has just made its own.
LEMMA StartupExitCheckKeeps ==
  ASSUME RunInv, NEW p \in Processes, StartupExitCheck(p) PROVE RunInv'
<1>. USE DEF StartupExitCheck, RunInv, nativeVars, stopVars
<1>1. Settles
  BY DEF Settles, LetsGo, LetGo, Unjoined
<1>2. RunPlaces'
  BY <1>1, SettlesPlaces DEF RunPlaces
<1>3. RunFlags'
  BY Zenon DEF RunFlags
<1>4. /\ process' <= started /\ (process < started => process' < started)
      /\ ~stopInProgress => screenState' \notin StopStates
  BY <1>1, SettlesKeeps
<1>5. StartHas' /\ LiveIsRead' /\ LockHas'
  BY <1>1, <1>4 DEF StartHas, LiveIsRead, LockHas
<1>6. StopHas'
  BY <1>1, <1>4 DEF StopHas
<1>7. ASSUME ~crossed' PROVE HeldHas'
  <2>1. ~crossed /\ HeldHas /\ locked = {}
    BY <1>7 DEF LockFree
  <2>2. ASSUME starter = "assigned" PROVE process' = process
    <3>1. p < started /\ process = started
      BY <2>1, <2>2 DEF StartHas, HeldHas, HeldGiven
    <3>2. started \in Nat
      BY DEF RunPlaces, Processes
    <3>. QED  BY <3>1, <3>2 DEF Processes
  <2>. QED  BY <1>1, <2>1, <2>2, SettlesHeld
<1>. QED  BY <1>2, <1>3, <1>5, <1>6, <1>7

\* A start begins while no stop is under way.
LEMMA StartChecksKeeps == ASSUME RunInv, StartChecks PROVE RunInv'
<1>. USE DEF StartChecks, RunInv, sharedVars, nativeVars, stopVars
<1>1. RunPlaces'
  BY DEF RunPlaces
<1>2. RunFlags'
  BY Zenon DEF RunFlags
<1>3. StartHas' /\ LiveIsRead' /\ LockHas' /\ StopHas'
  BY DEF StartHas, LiveIsRead, LockHas, StopHas
<1>4. ASSUME ~crossed' PROVE HeldHas'
  <2>1. ~crossed /\ HeldHas /\ locked = {}
    BY <1>4 DEF LockFree
  <2>. QED  BY <2>1 DEF HeldHas, HeldApart, HeldTarget, HeldEarly, HeldRuns, HeldFree,
               HeldCreated, HeldListed, HeldGiven, HeldRead, HeldState, Quiet, Alive, Reading
<1>. QED  BY <1>1, <1>2, <1>3, <1>4

\* A start that has the state refreshed.
LEMMA StartRefreshesKeeps == ASSUME RunInv, StartRefreshes PROVE RunInv'
<1>. USE DEF StartRefreshes, RunInv, nativeVars, stopVars
<1>1. Settles
  BY RefreshIs
<1>2. RunPlaces'
  BY <1>1, SettlesPlaces DEF RunPlaces
<1>3. RunFlags'
  BY Zenon DEF RunFlags
<1>4. /\ process' <= started /\ (process < started => process' < started)
      /\ ~stopInProgress => screenState' \notin StopStates
  BY <1>1, SettlesKeeps
<1>5. StartHas' /\ LiveIsRead' /\ LockHas'
  BY <1>1, <1>4 DEF StartHas, LiveIsRead, LockHas
<1>6. StopHas'
  BY <1>1, <1>4 DEF StopHas
<1>7. ASSUME ~crossed' PROVE HeldHas'
  <2>1. ~crossed /\ starter = "allowed" /\ HeldHas /\ locked = {}
    BY <1>7 DEF LockFree
  <2>. QED  BY <1>1, <2>1, SettlesHeld
<1>. QED  BY <1>2, <1>3, <1>5, <1>6, <1>7

\* When the process that is held does not run, none does.
LEMMA StartPollsKeeps == ASSUME RunInv, StartPolls PROVE RunInv'
<1>. USE DEF StartPolls, RunInv, sharedVars, nativeVars, stopVars
<1>1. RunPlaces'
  BY DEF RunPlaces
<1>2. RunFlags'
  BY Zenon DEF RunFlags
<1>3. StartHas' /\ LiveIsRead' /\ LockHas' /\ StopHas'
  BY DEF StartHas, LiveIsRead, LockHas, StopHas
<1>4. ASSUME ~crossed' PROVE HeldHas'
  <2>1. ~crossed /\ HeldHas
    BY <1>4
  <2>2. CASE Alive(process)
    BY <2>1, <2>2 DEF HeldHas, HeldApart, HeldTarget, HeldEarly, HeldRuns, HeldFree, HeldCreated,
       HeldListed, HeldGiven, HeldRead, HeldState, Quiet, Alive, Reading
  <2>3. CASE ~Alive(process)
    <3>1. Quiet
      BY <2>1, <2>3 DEF HeldHas, HeldRuns, Quiet, Alive, Processes, NoProcess
    <3>. QED  BY <2>1, <2>3, <3>1 DEF HeldHas, HeldApart, HeldTarget, HeldEarly, HeldRuns,
                 HeldFree, HeldCreated, HeldListed, HeldGiven, HeldRead, HeldState, Quiet
  <2>. QED  BY <2>2, <2>3
<1>. QED  BY <1>1, <1>2, <1>3, <1>4

\* A start that is refused.
LEMMA StartRefusedKeeps == ASSUME RunInv, StartRefused PROVE RunInv'
<1>. USE DEF StartRefused, RunInv, nativeVars, stopVars
<1>1. RunPlaces'
  BY DEF RunPlaces
<1>2. RunFlags'
  BY Zenon DEF RunFlags
<1>3. StartHas' /\ LiveIsRead' /\ LockHas'
  BY DEF StartHas, LiveIsRead, LockHas
<1>4. StopHas'
  BY DEF StopHas, StopStates
<1>5. ASSUME ~crossed' PROVE HeldHas'
  <2>1. ~crossed /\ HeldHas /\ Quiet
    BY <1>5 DEF HeldHas, HeldFree
  <2>2. ~Alive(process)
    BY <2>1 DEF Quiet, Alive, RunPlaces
  <2>. QED  BY <2>1, <2>2 DEF HeldHas, HeldApart, HeldTarget, HeldEarly, HeldRuns, HeldFree,
               HeldCreated, HeldListed, HeldGiven, HeldRead, HeldState, Quiet, Alive
<1>. QED  BY <1>1, <1>2, <1>3, <1>4, <1>5

\* A start whose process is created.
LEMMA StartCreatesKeeps == ASSUME RunInv, StartCreates PROVE RunInv'
<1>. USE DEF StartCreates, RunInv, sharedVars, stopVars
<1>1. started < MaxStarts /\ started' \in Processes /\ started < started'
  BY MaxStartsAssumption DEF StartHas, RunPlaces, Processes
<1>2. \A p \in Processes : native'[p] = IF p = started' THEN "alive" ELSE native[p]
  BY <1>1 DEF RunPlaces
<1>3. RunPlaces'
  BY <1>1 DEF RunPlaces
<1>4. RunFlags'
  BY Zenon DEF RunFlags
<1>5. StartHas'
  BY <1>1 DEF StartHas, RunPlaces, Processes, NoProcess
<1>6. LiveIsRead' /\ LockHas' /\ StopHas'
  BY <1>1, <1>2 DEF LiveIsRead, LockHas, StopHas
<1>7. ASSUME ~crossed' PROVE HeldHas'
  <2>1. ~crossed /\ HeldHas
    BY <1>7
  <2>2. HeldCreated'
    BY <1>1, <1>2, <2>1 DEF HeldHas, HeldFree, HeldCreated, Quiet
  <2>3. HeldApart' /\ HeldTarget' /\ HeldEarly'
    BY <2>1 DEF HeldHas, HeldApart, HeldTarget, HeldEarly
  <2>. QED  BY <2>2, <2>3 DEF HeldHas, HeldApart, HeldTarget, HeldEarly, HeldRuns, HeldFree,
               HeldCreated, HeldListed, HeldGiven, HeldRead, HeldState
<1>. QED  BY <1>3, <1>4, <1>5, <1>6, <1>7

\* A start that enters its process among those to be watched.
LEMMA StartListsKeeps == ASSUME RunInv, StartLists PROVE RunInv'
<1>. USE DEF StartLists, RunInv, nativeVars, stopVars
<1>1. RunPlaces'
  BY DEF RunPlaces, StartHas
<1>2. RunFlags'
  BY Zenon DEF RunFlags
<1>3. StartHas' /\ LiveIsRead' /\ LockHas' /\ StopHas'
  BY DEF StartHas, LiveIsRead, LockHas, StopHas
<1>4. ASSUME ~crossed' PROVE HeldHas'
  <2>1. ~crossed /\ HeldHas
    BY <1>4
  <2>. QED  BY <2>1 DEF HeldHas, HeldApart, HeldTarget, HeldEarly, HeldRuns, HeldFree,
               HeldCreated, HeldListed, HeldGiven, HeldRead, HeldState, Quiet
<1>. QED  BY <1>1, <1>2, <1>3, <1>4

\* A start that makes its process the one that is held.
LEMMA StartAssignsKeeps == ASSUME RunInv, StartAssigns PROVE RunInv'
<1>. USE DEF StartAssigns, RunInv, nativeVars, stopVars
<1>1. RunPlaces'
  BY DEF RunPlaces, StartHas
<1>2. RunFlags'
  BY Zenon DEF RunFlags
<1>3. StartHas'
  BY DEF StartHas, Processes
<1>4. LiveIsRead' /\ LockHas' /\ StopHas'
  BY DEF LiveIsRead, LockHas, StopHas
<1>5. ASSUME ~crossed' PROVE HeldHas'
  <2>1. ~crossed /\ HeldHas
    BY <1>5
  <2>2. HeldTarget' /\ HeldApart' /\ HeldEarly'
    BY <2>1 DEF HeldHas, HeldApart, HeldTarget, HeldEarly, StopHas
  <2>3. HeldRuns' /\ HeldListed' /\ HeldGiven'
    BY <2>1 DEF HeldHas, HeldCreated, HeldRuns, HeldListed, HeldGiven
  <2>. QED  BY <2>2, <2>3 DEF HeldHas, HeldApart, HeldTarget, HeldEarly, HeldRuns, HeldFree,
               HeldCreated, HeldListed, HeldGiven, HeldRead, HeldState
<1>. QED  BY <1>1, <1>2, <1>3, <1>4, <1>5

\* A start that ends, its readers running.
LEMMA StartEndsKeeps == ASSUME RunInv, StartEnds PROVE RunInv'
<1>. USE DEF StartEnds, RunInv, nativeVars, stopVars
<1>1. RunPlaces'
  BY DEF RunPlaces
<1>2. RunFlags'
  BY Zenon DEF RunFlags
<1>3. StartHas'
  BY DEF StartHas
<1>4. LiveIsRead' /\ LockHas'
  BY DEF LiveIsRead, LockHas
<1>5. StopHas'
  <2>1. screenState' \notin StopStates
    BY DEF StopStates
  <2>. QED  BY <2>1 DEF StopHas
<1>6. ASSUME ~crossed' PROVE HeldHas'
  <2>1. ~crossed /\ HeldHas /\ process = started /\ started \in Processes
    BY <1>6 DEF HeldHas, HeldGiven, StartHas
  <2>2. HeldApart' /\ HeldTarget' /\ HeldEarly' /\ HeldRuns'
    BY <2>1 DEF HeldHas, HeldApart, HeldTarget, HeldEarly, HeldRuns
  <2>3. HeldRead'
    BY <2>1 DEF HeldHas, HeldListed, HeldRead, Alive, Reading
  <2>4. HeldState'
    BY <2>1 DEF HeldState, Processes, NoProcess
  <2>. QED  BY <2>2, <2>3, <2>4 DEF HeldHas, HeldApart, HeldTarget, HeldEarly, HeldRuns, HeldFree,
               HeldCreated, HeldListed, HeldGiven, HeldRead, HeldState
<1>. QED  BY <1>1, <1>2, <1>3, <1>4, <1>5, <1>6

\* Every step of a start keeps it.
LEMMA StartKeeps == ASSUME RunInv, StartStep PROVE RunInv'
BY StartChecksKeeps, StartRefreshesKeeps, StartPollsKeeps, StartRefusedKeeps, StartCreatesKeeps,
   StartListsKeeps, StartAssignsKeeps, StartEndsKeeps DEF StartStep

\* The call of a stop, of each of its three outcomes.
LEMMA StopCalledKeeps ==
  ASSUME RunInv, NEW s \in StopThreads, StopCalled(s) PROVE RunInv'
<1>. USE DEF RunInv
<1>1. /\ locked = {} /\ stopper[s] = "rest"
      /\ UNCHANGED <<native, readersOn, faults, starter, started, checks, joining>>
      /\ crossed' = (crossed \/ starter # "rest")
  BY DEF StopCalled, LockFree, nativeVars, startVars, Crosses
<1>2. RunFlags'
  <2>1. stopInProgress' \in BOOLEAN
    BY Zenon DEF StopCalled, sharedVars, RunFlags
  <2>2. crossed' \in BOOLEAN
    BY <1>1, Zenon DEF RunFlags
  <2>. QED  BY <2>1, <2>2, Zenon DEF RunFlags
<1>3. ~crossed' => ~crossed /\ starter = "rest"
  BY <1>1
<1>4. target[s] = NoProcess
  BY <1>1 DEF StopHas, AtTarget
<1>5. CASE stopInProgress /\ GoesTo(s, "waiting") /\ UNCHANGED <<sharedVars, target, locked>>
  <2>. USE <1>5 DEF GoesTo, sharedVars
  <2>0. \A t \in StopThreads : stopper'[t] = IF t = s THEN "waiting" ELSE stopper[t]
    BY DEF RunPlaces
  <2>1. RunPlaces'
    BY <1>1 DEF RunPlaces
  <2>2. StartHas' /\ LiveIsRead' /\ LockHas' /\ StopHas'
    BY <1>1, <1>4, <2>0 DEF StartHas, LiveIsRead, LockHas, StopHas, AtTarget, Early
  <2>3. ASSUME ~crossed' PROVE HeldHas'
    BY <1>1, <1>3, <2>3 DEF HeldHas, HeldApart, HeldTarget, HeldEarly, HeldRuns, HeldFree,
       HeldCreated, HeldListed, HeldGiven, HeldRead, HeldState, Quiet, Alive, Reading
  <2>. QED  BY <1>2, <2>1, <2>2, <2>3
<1>6. CASE /\ ~stopInProgress /\ ~Alive(process) /\ Refresh /\ GoesTo(s, "early")
           /\ locked' = {s} /\ UNCHANGED <<stopInProgress, target>>
  <2>. USE <1>6 DEF GoesTo
  <2>0. \A t \in StopThreads : stopper'[t] = IF t = s THEN "early" ELSE stopper[t]
    BY DEF RunPlaces
  <2>1. Settles
    BY RefreshIs
  <2>2. RunPlaces'
    BY <1>1, <2>1, SettlesPlaces DEF RunPlaces
  <2>3. /\ process' <= started /\ (process < started => process' < started)
        /\ ~stopInProgress => screenState' \notin StopStates
    BY <2>1, SettlesKeeps
  <2>4. StartHas' /\ LiveIsRead'
    BY <1>1, <2>3 DEF StartHas, LiveIsRead
  <2>5. LockHas' /\ StopHas'
    BY <1>1, <1>4, <2>0, <2>3 DEF LockHas, StopHas, AtTarget, Early
  <2>6. ASSUME ~crossed' PROVE HeldHas'
    <3>1. HeldHas /\ starter = "rest"
      BY <1>3, <2>6
    <3>2. Quiet
      BY <3>1 DEF HeldHas, HeldRuns, Quiet, Alive, Processes, NoProcess
    <3>3. screenState' # "sharing"
      <4>1. CASE Exited(process)
        BY <4>1 DEF Refresh, LetGo
      <4>2. CASE ~Exited(process)
        BY <3>1, <4>2 DEF Refresh, HeldHas, HeldState, Exited, Alive
      <4>. QED  BY <4>1, <4>2
    <3>. QED  BY <1>1, <2>1, <3>1, <3>2, <3>3, SettlesHeld
  <2>. QED  BY <1>2, <2>2, <2>4, <2>5, <2>6
<1>7. CASE /\ ~stopInProgress /\ Alive(process) /\ stopInProgress' = TRUE
           /\ screenState' = "stop_requested" /\ target' = [target EXCEPT ![s] = process]
           /\ GoesTo(s, "requested") /\ UNCHANGED <<process, listed, locked>>
  <2>. USE <1>7 DEF GoesTo
  <2>00. stopper' = [stopper EXCEPT ![s] = "requested"] /\ target' = [target EXCEPT ![s] = process]
    OBVIOUS
  <2>01. /\ stopper \in [StopThreads -> {"rest", "waiting", "early", "cleared", "requested", "asked",
                                          "terminated", "killed", "joining"}]
         /\ target \in [StopThreads -> {NoProcess} \cup Processes]
    BY DEF RunPlaces
  <2>02. \A t \in StopThreads : stopper'[t] = IF t = s THEN "requested" ELSE stopper[t]
    BY <2>00, <2>01
  <2>03. \A t \in StopThreads : target'[t] = IF t = s THEN process ELSE target[t]
    BY <2>00, <2>01
  <2>0. \A t \in StopThreads : /\ stopper'[t] = IF t = s THEN "requested" ELSE stopper[t]
                               /\ target'[t] = IF t = s THEN process ELSE target[t]
    BY <2>02, <2>03
  <2>1. process \in Processes /\ process # NoProcess
    BY DEF Alive, RunPlaces
  <2>2. RunPlaces'
    BY <1>1, <2>1 DEF RunPlaces, StopStates
  <2>3. StartHas' /\ LiveIsRead'
    BY <1>1 DEF StartHas, LiveIsRead
  <2>4. \A t \in StopThreads : target[t] = NoProcess
    BY DEF StopHas
  <2>5. LockHas' /\ StopHas'
    BY <1>1, <2>0, <2>1, <2>4 DEF LockHas, StopHas, AtTarget, Early
  <2>6. ASSUME ~crossed' PROVE HeldHas'
    <3>1. HeldHas /\ starter = "rest"
      BY <1>3, <2>6
    <3>. QED  BY <1>1, <2>0, <2>4, <3>1 DEF HeldHas, HeldApart, HeldTarget, HeldEarly, HeldRuns,
                 HeldFree, HeldCreated, HeldListed, HeldGiven, HeldRead, HeldState, Quiet, Alive,
                 Reading
  <2>. QED  BY <1>2, <2>2, <2>3, <2>5, <2>6
<1>. QED  BY <1>5, <1>6, <1>7 DEF StopCalled

\* The early path lets go of the process, which does not run.
LEMMA EarlyClearsKeeps ==
  ASSUME RunInv, NEW s \in StopThreads, EarlyClears(s) PROVE RunInv'
<1>. USE DEF RunInv, EarlyClears, GoesTo, nativeVars, startVars
<1>0. \A t \in StopThreads : stopper'[t] = IF t = s THEN "cleared" ELSE stopper[t]
  BY DEF RunPlaces
<1>1. RunPlaces'
  BY DEF RunPlaces
<1>2. RunFlags'
  BY Zenon DEF RunFlags
<1>3. StartHas'
  BY MaxStartsAssumption DEF StartHas, RunPlaces, Processes, NoProcess
<1>4. LiveIsRead' /\ LockHas' /\ StopHas'
  BY <1>0 DEF LiveIsRead, LockHas, StopHas, AtTarget, Early
<1>5. ASSUME ~crossed' PROVE HeldHas'
  <2>1. HeldHas /\ locked # {} /\ ~stopInProgress
    BY <1>5 DEF LockHas, Early
  <2>2. starter = "rest" /\ Quiet /\ screenState # "sharing"
    BY <2>1 DEF HeldHas, HeldApart, HeldEarly
  <2>. QED  BY <2>1, <2>2 DEF HeldHas, HeldApart, HeldTarget, HeldEarly, HeldRuns, HeldFree,
               HeldCreated, HeldListed, HeldGiven, HeldRead, HeldState, StopHas, Quiet, Alive
<1>. QED  BY <1>1, <1>2, <1>3, <1>4, <1>5

\* A stop with nothing to stop sets the state to idle.
LEMMA EarlyIdlesKeeps ==
  ASSUME RunInv, NEW s \in StopThreads, EarlyIdles(s) PROVE RunInv'
<1>. USE DEF RunInv, EarlyIdles, GoesTo, nativeVars, startVars
<1>0. \A t \in StopThreads : stopper'[t] = IF t = s THEN "rest" ELSE stopper[t]
  BY DEF RunPlaces
<1>1. RunPlaces'
  BY DEF RunPlaces, Unjoined
<1>2. RunFlags'
  BY Zenon DEF RunFlags
<1>3. StartHas' /\ LiveIsRead'
  BY DEF StartHas, LiveIsRead
<1>4. locked = {s} /\ ~stopInProgress
  BY DEF LockHas, Early, RunPlaces
<1>5. LockHas'
  BY <1>0, <1>4 DEF LockHas, Early
<1>6. StopHas'
  BY <1>0 DEF StopHas, AtTarget, StopStates
<1>7. ASSUME ~crossed' PROVE HeldHas'
  <2>1. HeldHas
    BY <1>7
  <2>2. starter = "rest" /\ Quiet
    BY <1>4, <2>1 DEF HeldHas, HeldApart, HeldEarly
  <2>3. ~Alive(process)
    BY <2>2 DEF Alive, Quiet, RunPlaces
  <2>. QED  BY <1>4, <2>1, <2>2, <2>3 DEF HeldHas, HeldApart, HeldTarget, HeldEarly, HeldRuns,
               HeldFree, HeldCreated, HeldListed, HeldGiven, HeldRead, HeldState, StopHas, Quiet,
               Alive
<1>. QED  BY <1>1, <1>2, <1>3, <1>5, <1>6, <1>7

\* A stop that returns, since another one runs.
LEMMA StopReturnsKeeps ==
  ASSUME RunInv, NEW s \in StopThreads, StopReturns(s) PROVE RunInv'
<1>. USE DEF RunInv, StopReturns, GoesTo, nativeVars, startVars, Crosses
<1>0. \A t \in StopThreads : stopper'[t] = IF t = s THEN "rest" ELSE stopper[t]
  BY DEF RunPlaces
<1>1. Settles
  BY RefreshIs
<1>2. RunPlaces'
  BY <1>1, SettlesPlaces DEF RunPlaces
<1>3. RunFlags'
  BY Zenon DEF RunFlags
<1>4. /\ process' <= started /\ (process < started => process' < started)
      /\ ~stopInProgress => screenState' \notin StopStates
  BY <1>1, SettlesKeeps
<1>5. StartHas' /\ LiveIsRead'
  BY <1>4 DEF StartHas, LiveIsRead
<1>6. LockHas' /\ StopHas'
  BY <1>0, <1>4 DEF LockHas, StopHas, AtTarget, Early
<1>7. ASSUME ~crossed' PROVE HeldHas'
  <2>1. ~crossed /\ starter = "rest" /\ HeldHas /\ locked = {}
    BY <1>7 DEF LockFree
  <2>. QED  BY <1>1, <2>1, SettlesHeld
<1>. QED  BY <1>2, <1>3, <1>5, <1>6, <1>7

\* What a stop does with the process, of which it is the only one.
LEMMA StopAsksKeeps ==
  ASSUME RunInv, NEW s \in StopThreads, StopAsks(s) PROVE RunInv'
<1>. USE DEF RunInv, StopAsks, GoesTo, nativeVars, startVars
<1>0. \A t \in StopThreads : stopper'[t] = IF t = s THEN "asked" ELSE stopper[t]
  BY DEF RunPlaces
<1>1. RunPlaces'
  BY DEF RunPlaces, StopStates
<1>2. RunFlags'
  BY Zenon DEF RunFlags
<1>3. StartHas' /\ LiveIsRead' /\ LockHas'
  BY <1>0 DEF StartHas, LiveIsRead, LockHas, Early
<1>4. stopInProgress
  BY DEF StopHas, AtTarget
<1>5. StopHas'
  BY <1>0, <1>4 DEF StopHas, AtTarget
<1>6. ASSUME ~crossed' PROVE HeldHas'
  BY <1>6 DEF HeldHas, HeldApart, HeldTarget, HeldEarly, HeldRuns, HeldFree, HeldCreated,
     HeldListed, HeldGiven, HeldRead, HeldState, Quiet, Alive, Reading
<1>. QED  BY <1>1, <1>2, <1>3, <1>5, <1>6

\* A stop that goes from asking to terminating to killing.
LEMMA StopEscalatesKeeps ==
  ASSUME RunInv, NEW s \in StopThreads, StopEscalates(s) PROVE RunInv'
<1>. USE DEF RunInv, StopEscalates, GoesTo, nativeVars, startVars, sharedVars
<1>0. PICK where \in {"terminated", "killed"} :
        /\ stopper[s] \in {"asked", "terminated"}
        /\ stopper' = [stopper EXCEPT ![s] = where]
  BY Zenon
<1>1. \A t \in StopThreads : stopper'[t] = IF t = s THEN where ELSE stopper[t]
  BY <1>0 DEF RunPlaces
<1>2. RunPlaces'
  BY <1>0 DEF RunPlaces
<1>3. RunFlags'
  BY Zenon DEF RunFlags
<1>4. StartHas' /\ LiveIsRead' /\ LockHas' /\ StopHas'
  BY <1>0, <1>1 DEF StartHas, LiveIsRead, LockHas, Early, StopHas, AtTarget
<1>5. ASSUME ~crossed' PROVE HeldHas'
  BY <1>5 DEF HeldHas, HeldApart, HeldTarget, HeldEarly, HeldRuns, HeldFree, HeldCreated,
     HeldListed, HeldGiven, HeldRead, HeldState, Quiet, Alive, Reading
<1>. QED  BY <1>2, <1>3, <1>4, <1>5

\* A stop that takes the readers it will join.
LEMMA StopTakesReadersKeeps ==
  ASSUME RunInv, NEW s \in StopThreads, StopTakesReaders(s) PROVE RunInv'
<1>. USE DEF RunInv, GoesTo, nativeVars, startVars
<1>0. /\ locked = {} /\ stopper[s] \in {"asked", "terminated", "killed"}
      /\ stopper' = [stopper EXCEPT ![s] = "joining"]
      /\ joining' = [joining EXCEPT ![s] = listed] /\ listed' = {}
      /\ UNCHANGED <<screenState, process, stopInProgress, native, readersOn, faults, starter,
                     started, checks, target, locked, crossed>>
  BY DEF StopTakesReaders, LockFree
<1>. USE <1>0
<1>01. \A t \in StopThreads : stopper'[t] = IF t = s THEN "joining" ELSE stopper[t]
  BY DEF RunPlaces
<1>02. \A t \in StopThreads : joining'[t] = IF t = s THEN listed ELSE joining[t]
  BY DEF RunPlaces
<1>1. \A t \in StopThreads : /\ stopper'[t] = IF t = s THEN "joining" ELSE stopper[t]
                             /\ joining'[t] = IF t = s THEN listed ELSE joining[t]
  BY <1>01, <1>02
<1>2. RunPlaces'
  BY DEF RunPlaces
<1>3. RunFlags'
  BY Zenon DEF RunFlags
<1>4. StartHas' /\ LiveIsRead' /\ LockHas' /\ StopHas'
  BY <1>1 DEF StartHas, LiveIsRead, LockHas, Early, StopHas, AtTarget
<1>5. ASSUME ~crossed' PROVE HeldHas'
  <2>1. HeldHas /\ starter = "rest"
    BY <1>5 DEF HeldHas, HeldApart, StopHas, AtTarget
  <2>2. joining[s] = {}
    BY DEF StopHas
  <2>3. \A p : Reading(p) => Reading(p)'
    BY <1>1, <2>2 DEF Reading
  <2>. QED  BY <2>1, <2>3 DEF HeldHas, HeldApart, HeldTarget, HeldEarly, HeldRuns, HeldFree,
               HeldCreated, HeldListed, HeldGiven, HeldRead, HeldState, Quiet, Alive
<1>. QED  BY <1>2, <1>3, <1>4, <1>5

\* A stop that ends.
LEMMA StopEndsKeeps ==
  ASSUME RunInv, NEW s \in StopThreads, StopEnds(s) PROVE RunInv'
<1>. USE DEF RunInv
<1>0. /\ locked = {} /\ stopper[s] = "joining"
      /\ listed' = listed \cup Unjoined(joining[s])
      /\ joining' = [joining EXCEPT ![s] = {}]
      /\ process' = IF process = target[s] /\ Exited(process) THEN NoProcess ELSE process
      /\ screenState' = IF Exited(target[s]) THEN "idle" ELSE "error"
      /\ target' = [target EXCEPT ![s] = NoProcess]
      /\ stopper' = [stopper EXCEPT ![s] = "rest"]
      /\ UNCHANGED <<native, readersOn, faults, starter, started, checks, locked, crossed>>
  BY DEF StopEnds, LockFree, GoesTo, nativeVars, startVars
<1>00. stopInProgress' = FALSE
  BY DEF StopEnds
<1>. USE <1>0
<1>01. \A t \in StopThreads : stopper'[t] = IF t = s THEN "rest" ELSE stopper[t]
  BY DEF RunPlaces
<1>02. \A t \in StopThreads : joining'[t] = IF t = s THEN {} ELSE joining[t]
  BY DEF RunPlaces
<1>03. \A t \in StopThreads : target'[t] = IF t = s THEN NoProcess ELSE target[t]
  BY DEF RunPlaces
<1>1. \A t \in StopThreads : /\ stopper'[t] = IF t = s THEN "rest" ELSE stopper[t]
                             /\ joining'[t] = IF t = s THEN {} ELSE joining[t]
                             /\ target'[t] = IF t = s THEN NoProcess ELSE target[t]
  BY <1>01, <1>02, <1>03
<1>2. RunPlaces'
  BY DEF RunPlaces, Unjoined
<1>3. RunFlags'
  BY <1>00, Zenon DEF RunFlags
<1>4. process' \in {process, NoProcess} /\ process' <= process
  BY DEF RunPlaces, Processes, NoProcess
<1>5. StartHas'
  BY <1>4 DEF StartHas, RunPlaces, Processes, NoProcess
<1>6. LiveIsRead' /\ LockHas'
  BY <1>1, <1>00 DEF LiveIsRead, LockHas, Early
<1>7. target[s] # NoProcess
  BY DEF StopHas, AtTarget
<1>8. \A t \in StopThreads : target'[t] = NoProcess
  BY <1>1, <1>7 DEF StopHas
<1>9. StopHas'
  BY <1>00, <1>1, <1>8 DEF StopHas, StopStates, AtTarget
<1>10. ASSUME ~crossed' PROVE HeldHas'
  <2>1. HeldHas /\ starter = "rest" /\ process = target[s]
    BY <1>7, <1>10 DEF HeldHas, HeldApart, HeldTarget, StopHas
  <2>2. HeldApart' /\ HeldTarget' /\ HeldEarly' /\ HeldFree' /\ HeldCreated' /\ HeldListed' /\ HeldGiven'
    BY <1>8, <2>1 DEF HeldApart, HeldTarget, HeldEarly, HeldRuns, HeldFree, HeldCreated,
       HeldListed, HeldGiven, HeldRead, HeldState
  <2>3. HeldRuns'
    BY <2>1 DEF HeldHas, HeldRuns, Exited
  <2>4. HeldRead'
    <3>1. ASSUME Alive(process)' PROVE Reading(process)'
      <4>1. process' = process /\ process \in Processes /\ native[process] = "alive"
        BY <3>1 DEF Alive, RunPlaces
      <4>2. process \in readersOn
        BY <4>1 DEF LiveIsRead
      <4>3. Reading(process)
        BY <2>1, <4>1, <1>7 DEF HeldHas, HeldRead, Alive
      <4>. QED  BY <1>1, <4>1, <4>2, <4>3 DEF Reading, Unjoined
    <3>. QED  BY <3>1 DEF HeldRead
  <2>5. HeldState'
    BY <2>1 DEF HeldState, HeldHas, HeldRuns, Quiet, Exited
  <2>. QED  BY <2>2, <2>3, <2>4, <2>5 DEF HeldHas
<1>. QED  BY <1>2, <1>3, <1>5, <1>6, <1>9, <1>10

\* The process and its readers, on their own.
LEMMA NativeExitsKeeps ==
  ASSUME RunInv, NEW p \in Processes, NativeExits(p) PROVE RunInv'
<1>. USE DEF RunInv, sharedVars, startVars, stopVars
<1>0. PICK code \in {"clean", "failed"} : native' = [native EXCEPT ![p] = code]
  BY DEF NativeExits
<1>1. UNCHANGED <<sharedVars, readersOn, faults, startVars, stopVars, crossed>>
  BY DEF NativeExits
<1>2. \A q \in Processes : native'[q] = IF q = p THEN code ELSE native[q]
  BY <1>0 DEF RunPlaces
<1>3. RunPlaces'
  BY <1>0, <1>1 DEF RunPlaces
<1>4. RunFlags'
  BY <1>1, Zenon DEF RunFlags
<1>5. StartHas' /\ LiveIsRead' /\ LockHas' /\ StopHas'
  BY <1>0, <1>1, <1>2 DEF StartHas, LiveIsRead, LockHas, StopHas
<1>6. ASSUME ~crossed' PROVE HeldHas'
  <2>1. HeldHas
    BY <1>1, <1>6
  <2>2. \A q \in Processes : native'[q] = "alive" => native[q] = "alive"
    BY <1>0, <1>2
  <2>3. Quiet => Quiet'
    BY <2>2 DEF Quiet
  <2>4. Alive(process)' => Alive(process)
    BY <1>1, <2>2 DEF Alive, RunPlaces
  <2>5. starter \in {"listed", "assigned"} => (native'[started] = "alive" => native[started] = "alive")
    BY <2>2 DEF StartHas
  <2>6. HeldApart' /\ HeldTarget' /\ HeldEarly' /\ HeldFree' /\ HeldGiven' /\ HeldState'
    BY <1>1, <2>1, <2>3 DEF HeldHas, HeldApart, HeldTarget, HeldEarly, HeldFree, HeldGiven,
       HeldState
  <2>7. HeldRuns' /\ HeldCreated' /\ HeldListed'
    BY <1>1, <2>1, <2>2, <2>5 DEF HeldHas, HeldRuns, HeldCreated, HeldListed
  <2>8. HeldRead'
    BY <1>1, <2>1, <2>4 DEF HeldHas, HeldRead, Reading
  <2>. QED  BY <2>6, <2>7, <2>8 DEF HeldHas
<1>. QED  BY <1>3, <1>4, <1>5, <1>6

\* A reader that delivers, fails or ends.
LEMMA ReaderKeeps ==
  ASSUME RunInv, NEW p \in Processes, NativeReportsError(p) \/ ErrorIsRead(p) \/ ReaderEnds(p)
  PROVE  RunInv'
<1>. USE DEF RunInv, sharedVars, startVars, stopVars
<1>0. /\ UNCHANGED <<process, stopInProgress, listed, native, startVars, stopVars, crossed>>
      /\ screenState' \in {screenState, "error"}
      /\ readersOn' \in SUBSET readersOn /\ faults' \subseteq Processes
      /\ \A q \in readersOn \ readersOn' : native[q] # "alive"
  BY DEF NativeReportsError, ErrorIsRead, ReaderEnds, RunPlaces
<1>1. RunPlaces'
  BY <1>0 DEF RunPlaces
<1>2. RunFlags'
  BY <1>0, Zenon DEF RunFlags
<1>3. StartHas' /\ LiveIsRead' /\ LockHas'
  BY <1>0 DEF StartHas, LiveIsRead, LockHas
<1>4. StopHas'
  BY <1>0 DEF StopHas, StopStates
<1>5. ASSUME ~crossed' PROVE HeldHas'
  BY <1>0, <1>5 DEF HeldHas, HeldApart, HeldTarget, HeldEarly, HeldRuns, HeldFree, HeldCreated,
     HeldListed, HeldGiven, HeldRead, HeldState, Quiet, Alive, Reading
<1>. QED  BY <1>1, <1>2, <1>3, <1>4, <1>5

\* Every step keeps it, and so does a step of another part.
LEMMA RunKeeps == RunInv /\ [RuntimeNext]_runtimeVars => RunInv'
<1>. SUFFICES ASSUME RunInv, [RuntimeNext]_runtimeVars PROVE RunInv'
  OBVIOUS
<1>1. CASE GetState \/ StartStep
  BY <1>1, GetStateKeeps, StartKeeps
<1>2. ASSUME NEW s \in StopThreads, StopCalled(s) \/ StopReturns(s) \/ StopSteps(s) PROVE RunInv'
  BY <1>2, StopCalledKeeps, StopReturnsKeeps, EarlyClearsKeeps, EarlyIdlesKeeps, StopAsksKeeps,
     StopEscalatesKeeps, StopTakesReadersKeeps, StopEndsKeeps DEF StopSteps
<1>3. ASSUME NEW p \in Processes, \/ StartupExitCheck(p) \/ NativeExits(p)
                                  \/ NativeReportsError(p) \/ ErrorIsRead(p) \/ ReaderEnds(p)
      PROVE  RunInv'
  BY <1>3, StartupExitCheckKeeps, NativeExitsKeeps, ReaderKeeps
<1>4. CASE UNCHANGED runtimeVars
  <2>. USE <1>4 DEF runtimeVars, sharedVars, nativeVars, startVars, stopVars, RunInv
  <2>1. RunPlaces' /\ StartHas' /\ LiveIsRead' /\ StopHas' /\ LockHas'
    BY DEF RunPlaces, StartHas, LiveIsRead, StopHas, LockHas
  <2>2. RunFlags'
    BY Zenon DEF RunFlags
  <2>3. ASSUME ~crossed' PROVE HeldHas'
    BY <2>3 DEF HeldHas, HeldApart, HeldTarget, HeldEarly, HeldRuns, HeldFree, HeldCreated,
       HeldListed, HeldGiven, HeldRead, HeldState, Quiet, Alive, Reading
  <2>. QED  BY <2>1, <2>2, <2>3
<1>. QED  BY <1>1, <1>2, <1>3, <1>4 DEF RuntimeNext

-----------------------------------------------------------------------------
(* AvSync.  A frame is held no longer than its epoch has been open, which  *)
(* is short of MaxHold when the thread has asked; and what is left of a    *)
(* bypass and the age of the release make up the whole of it.              *)

\* The scheduler's values.
SyncStates  == {"waiting_for_renderer", "waiting_for_audio_anchor", "temporarily_bypassed", "active"}
SyncReasons == Obstacles \cup {"clock_jump", "hold_deadline_exceeded"}
Epochs    == NotSet..MaxHold
Bypasses  == 0..ForcedBypass
SyncType  == [state : SyncStates, reason : SyncReasons, epoch : Epochs,
              counted : BOOLEAN, forced : Bypasses]
ClockType == [held : NotSet..(MaxHold + 1), forced : 0..ForcedBypass, polled : BOOLEAN]

\* An epoch is counted exactly while it is open.
Counts(s) == s.counted <=> (s.epoch # NotSet)

SyncTypes ==
    /\ newest \in 0..SyncFrames /\ slot \in 0..SyncFrames /\ taken \in 0..SyncFrames
    /\ sync \in SyncType /\ Counts(sync) /\ clock \in ClockType
    /\ (sync.epoch # NotSet) <=> (verdict.what = "hold")

\* What is left of the bypass and the age of the release that asked for it make up the
\* whole bypass; and a frame is held for no longer than the epoch has been open, which is
\* short of the bound whenever the thread has just asked.
SyncAges ==
    /\ sync.forced + clock.forced = ForcedBypass
    /\ clock.held # NotSet =>
          /\ sync.epoch # NotSet /\ clock.held <= sync.epoch
          /\ clock.polled => sync.epoch < MaxHold
    /\ verdict.what \in {"hold", "drop"} => clock.forced = ForcedBypass

SyncInv == SyncTypes /\ SyncAges

\* What the invariant says.
LEMMA SyncImplies == SyncInv => AvSyncTypeOK /\ HoldIsBounded /\ ReleaseIsLasting
<1>. SUFFICES ASSUME SyncInv PROVE AvSyncTypeOK /\ HoldIsBounded /\ ReleaseIsLasting
  OBVIOUS
<1>1. sync.epoch \in NotSet..MaxHold /\ sync.forced \in 0..ForcedBypass /\ clock.held \in Int
  BY SyncAssumption DEF SyncInv, SyncTypes, SyncType, Epochs, Bypasses, ClockType, NotSet
<1>2. AvSyncTypeOK
  BY <1>1 DEF SyncInv, SyncTypes, Counts, AvSyncTypeOK
<1>3. HoldIsBounded
  BY <1>1, SyncAssumption DEF SyncInv, SyncAges, HoldIsBounded, NotSet
<1>4. ReleaseIsLasting
  BY DEF SyncInv, SyncAges, ReleaseIsLasting
<1>. QED  BY <1>2, <1>3, <1>4

\* Nothing is held when the render worker starts.
LEMMA SyncInitially == AvSyncInit => SyncInv
BY SyncAssumption DEF AvSyncInit, SyncInv, SyncTypes, SyncAges, SyncType, Epochs, Bypasses,
   ClockType, SyncStates,
   SyncReasons, Obstacles, Counts, NotSet

\* What a bypass sets, and that an epoch it closes is no longer counted.
LEMMA BypassIs ==
  ASSUME NEW s \in SyncType, NEW state \in SyncStates, NEW why \in SyncReasons, NotSet \in Epochs
  PROVE  LET b == Bypass(s, state, why)
         IN  /\ b.s \in SyncType /\ Counts(b.s) /\ b.s.epoch = NotSet /\ b.s.forced = s.forced
             /\ b.what = "bypass"
<1>. DEFINE c == ClearEpoch(s)
            r == [c EXCEPT !.state = state, !.reason = why]
<1>1. c \in SyncType /\ c.epoch = NotSet /\ c.forced = s.forced /\ c.counted = FALSE
  BY DEF ClearEpoch, SyncType
<1>2. Bypass(s, state, why) = [s |-> r, what |-> "bypass"]
  BY DEF Bypass
<1>. HIDE DEF c
<1>3. r \in SyncType /\ r.epoch = NotSet /\ r.forced = s.forced /\ r.counted = FALSE
  BY <1>1 DEF SyncType
<1>. HIDE DEF r
<1>4. Counts(r)
  BY <1>3 DEF Counts
<1>. QED  BY <1>2, <1>3, <1>4

\* A decision: what it makes of the epoch and of the bypass.
LEMMA DecideIs ==
  ASSUME NEW s \in SyncType, Counts(s), NEW obstacle \in Obstacles, NEW jump \in BOOLEAN,
         NEW delta \in Deltas
  PROVE  LET d == Decide(s, obstacle, jump, delta)
         IN  /\ d.s \in SyncType /\ Counts(d.s)
             /\ (d.s.epoch # NotSet) <=> (d.what = "hold")
             /\ d.what = "hold" => /\ s.epoch < MaxHold
                                   /\ d.s.epoch = IF s.epoch = NotSet THEN 0 ELSE s.epoch
             /\ d.what \in {"hold", "drop"} => s.forced = 0
             /\ d.s.forced = IF d.what = "forced" THEN ForcedBypass ELSE s.forced
             /\ d.what = "forced" => s.forced = 0
<1>. DEFINE d == Decide(s, obstacle, jump, delta)
            active == [s EXCEPT !.forced = 0, !.state = "active", !.reason = "none"]
<1>0. /\ NotSet \in Epochs /\ 0 \in Epochs /\ 0 \in Bypasses /\ ForcedBypass \in Bypasses
      /\ 0 # NotSet
  BY SyncAssumption DEF Epochs, Bypasses, NotSet
<1>1. \A state \in SyncStates, why \in SyncReasons :
        LET b == Bypass(s, state, why)
        IN  b.s \in SyncType /\ Counts(b.s) /\ b.s.epoch = NotSet /\ b.s.forced = s.forced /\ b.what = "bypass"
  BY <1>0, BypassIs
<1>2. StateFor(obstacle) \in SyncStates /\ obstacle \in SyncReasons
  BY DEF StateFor, SyncStates, SyncReasons, Obstacles, EarlyObstacles, LateObstacles
<1>3. /\ "temporarily_bypassed" \in SyncStates /\ "active" \in SyncStates /\ "none" \in SyncReasons
      /\ "clock_jump" \in SyncReasons /\ "hold_deadline_exceeded" \in SyncReasons
  BY DEF SyncStates, SyncReasons, Obstacles
<1>4. /\ active \in SyncType /\ active.epoch = s.epoch /\ active.forced = 0
  BY <1>0, <1>3 DEF SyncType
<1>5. CASE obstacle \in EarlyObstacles \/ jump \/ obstacle \in LateObstacles \/ s.forced > 0
  <2>1. \E state \in SyncStates, why \in SyncReasons : d = Bypass(s, state, why)
    BY <1>2, <1>3, <1>5 DEF Decide
  <2>. HIDE DEF d
  <2>2. PICK state \in SyncStates, why \in SyncReasons : d = Bypass(s, state, why)
    BY <2>1
  <2>3. d.s \in SyncType /\ Counts(d.s) /\ d.s.epoch = NotSet /\ d.s.forced = s.forced /\ d.what = "bypass"
    BY <1>1, <2>2
  <2>. QED  BY <2>3 DEF d
<1>6. ASSUME ~(obstacle \in EarlyObstacles \/ jump \/ obstacle \in LateObstacles \/ s.forced > 0)
      PROVE  s.forced = 0
  <2>1. s.forced \in Nat
    BY SyncAssumption DEF SyncType, Bypasses
  <2>. QED  BY <1>6, <2>1
<1>7. CASE /\ ~(obstacle \in EarlyObstacles \/ jump \/ obstacle \in LateObstacles \/ s.forced > 0)
           /\ delta > Tolerance
  <2>1. d = HoldEarly(active) /\ s.forced = 0
    BY <1>6, <1>7 DEF Decide
  <2>. HIDE DEF d, active
  <2>2. CASE active.epoch < MaxHold
    <3>. DEFINE v == IF active.epoch = NotSet THEN 0 ELSE active.epoch
                r == [active EXCEPT !.epoch = v, !.counted = TRUE]
    <3>1. HoldEarly(active) = [s |-> r, what |-> "hold"]
      BY <2>2 DEF HoldEarly
    <3>01. v \in Epochs /\ v # NotSet
      BY <1>0, <1>4 DEF SyncType
    <3>. HIDE DEF v
    <3>02. r \in SyncType /\ r.epoch = v /\ r.forced = 0 /\ r.counted = TRUE
      BY <1>4, <3>01 DEF SyncType
    <3>. HIDE DEF r
    <3>03. Counts(r)
      BY <3>01, <3>02 DEF Counts
    <3>2. /\ d.s \in SyncType /\ Counts(d.s) /\ d.what = "hold" /\ d.s.forced = 0 /\ d.s.epoch # NotSet
          /\ d.s.epoch = IF active.epoch = NotSet THEN 0 ELSE active.epoch
      BY <2>1, <3>1, <3>01, <3>02, <3>03 DEF v
    <3>3. d.what # "forced" /\ d.what # "drop"
      BY <3>2
    <3>. QED  BY <1>4, <2>1, <2>2, <3>2, <3>3 DEF d
  <2>3. CASE ~(active.epoch < MaxHold)
    <3>. DEFINE c == ClearEpoch(active)
                r == [c EXCEPT !.forced = ForcedBypass, !.reason = "hold_deadline_exceeded",
                               !.state = "temporarily_bypassed"]
    <3>1. HoldEarly(active) = [s |-> r, what |-> "forced"]
      BY <2>3 DEF HoldEarly
    <3>01. c \in SyncType /\ c.epoch = NotSet /\ c.counted = FALSE
      BY <1>0, <1>4 DEF ClearEpoch, SyncType
    <3>. HIDE DEF c
    <3>02. r \in SyncType /\ r.epoch = NotSet /\ r.forced = ForcedBypass /\ r.counted = FALSE
      BY <1>0, <1>3, <3>01 DEF SyncType
    <3>. HIDE DEF r
    <3>03. Counts(r)
      BY <3>02 DEF Counts
    <3>2. /\ d.s \in SyncType /\ Counts(d.s) /\ d.what = "forced" /\ d.s.forced = ForcedBypass
          /\ d.s.epoch = NotSet
      BY <2>1, <3>1, <3>02, <3>03
    <3>3. d.what # "hold" /\ d.what # "drop"
      BY <3>2
    <3>. QED  BY <2>1, <3>2, <3>3 DEF d
  <2>. QED  BY <2>2, <2>3
<1>8. CASE /\ ~(obstacle \in EarlyObstacles \/ jump \/ obstacle \in LateObstacles \/ s.forced > 0)
           /\ ~(delta > Tolerance)
  <2>1. /\ d = [s |-> ClearEpoch(active), what |-> IF delta < -LateDrop THEN "drop" ELSE "render"]
        /\ s.forced = 0
    BY <1>6, <1>8 DEF Decide
  <2>. HIDE DEF d, active
  <2>2. d.s = ClearEpoch(active) /\ d.what \in {"drop", "render"}
    BY <2>1
  <2>3. d.s \in SyncType /\ Counts(d.s) /\ d.s.forced = 0 /\ d.s.epoch = NotSet
    BY <1>0, <1>4, <2>2 DEF ClearEpoch, SyncType, Counts
  <2>4. d.what # "hold" /\ d.what # "forced"
    BY <2>2
  <2>. QED  BY <2>1, <2>3, <2>4 DEF d
<1>. QED  BY <1>5, <1>7, <1>8

\* Every step keeps it, a pass of the render thread by its decision.
LEMMA SyncKeeps == SyncInv /\ [AvSyncNext]_syncVars => SyncInv'
<1>. SUFFICES ASSUME SyncInv, [AvSyncNext]_syncVars PROVE SyncInv'
  OBVIOUS
<1>. USE DEF SyncInv
<1>1. CASE SubmitFrame
  BY <1>1, SyncAssumption DEF SubmitFrame, SyncTypes, SyncAges
<1>2. CASE TakeFrame
  <2>1. PICK age \in {clock.held, NotSet} : clock' = [clock EXCEPT !.held = age]
    BY <1>2 DEF TakeFrame
  <2>2. /\ clock' \in ClockType /\ clock'.held \in {clock.held, NotSet}
        /\ clock'.forced = clock.forced /\ clock'.polled = clock.polled
    BY <2>1, SyncAssumption DEF SyncTypes, ClockType, NotSet
  <2>. QED  BY <1>2, <2>2 DEF TakeFrame, SyncTypes, SyncAges
<1>3. CASE RenderPass
  <2>1. PICK obstacle \in Obstacles, delta \in Deltas : \E playhead \in Playhead(obstacle) :
          LET d == Decide(sync, obstacle, Jumped(playhead), delta)
          IN  /\ sync' = d.s
              /\ verdict' = [what |-> d.what, frame |-> taken]
              /\ slot' = IF d.what = "hold" THEN taken ELSE slot
              /\ clock' = [held   |-> IF d.what # "hold" THEN NotSet
                                      ELSE IF clock.held = NotSet THEN 0 ELSE clock.held,
                           forced |-> IF d.what = "forced" THEN 0 ELSE clock.forced,
                           polled |-> TRUE]
    BY <1>3 DEF RenderPass
  <2>2. PICK playhead \in Playhead(obstacle) :
          LET d == Decide(sync, obstacle, Jumped(playhead), delta)
          IN  /\ sync' = d.s
              /\ verdict' = [what |-> d.what, frame |-> taken]
              /\ slot' = IF d.what = "hold" THEN taken ELSE slot
              /\ clock' = [held   |-> IF d.what # "hold" THEN NotSet
                                      ELSE IF clock.held = NotSet THEN 0 ELSE clock.held,
                           forced |-> IF d.what = "forced" THEN 0 ELSE clock.forced,
                           polled |-> TRUE]
    BY <2>1
  <2>. DEFINE d == Decide(sync, obstacle, Jumped(playhead), delta)
  <2>3. Jumped(playhead) \in BOOLEAN
    BY DEF Jumped, Playhead
  <2>4. /\ d.s \in SyncType /\ Counts(d.s)
        /\ (d.s.epoch # NotSet) <=> (d.what = "hold")
        /\ d.what = "hold" => /\ sync.epoch < MaxHold
                              /\ d.s.epoch = IF sync.epoch = NotSet THEN 0 ELSE sync.epoch
        /\ d.what \in {"hold", "drop"} => sync.forced = 0
        /\ d.s.forced = IF d.what = "forced" THEN ForcedBypass ELSE sync.forced
        /\ d.what = "forced" => sync.forced = 0
    BY <2>3, DecideIs DEF SyncTypes
  <2>5. /\ sync' = d.s /\ verdict'.what = d.what
        /\ slot' = IF d.what = "hold" THEN taken ELSE slot
        /\ clock' = [held   |-> IF d.what # "hold" THEN NotSet
                                ELSE IF clock.held = NotSet THEN 0 ELSE clock.held,
                     forced |-> IF d.what = "forced" THEN 0 ELSE clock.forced,
                     polled |-> TRUE]
    BY <2>2
  <2>. HIDE DEF d
  <2>6. newest' = newest /\ taken' = 0
    BY <1>3 DEF RenderPass
  <2>7. clock' \in ClockType
    BY <2>5, SyncAssumption DEF ClockType, SyncTypes, NotSet
  <2>8. SyncTypes'
    BY <2>4, <2>5, <2>6, <2>7, SyncAssumption DEF SyncTypes
  <2>9. /\ sync.epoch \in Int /\ sync.forced \in Nat /\ clock.held \in Int /\ clock.forced \in Nat
        /\ clock'.held = (IF d.what # "hold" THEN NotSet ELSE IF clock.held = NotSet THEN 0 ELSE clock.held)
        /\ clock'.forced = IF d.what = "forced" THEN 0 ELSE clock.forced
    BY <2>5, SyncAssumption DEF SyncTypes, SyncType, Epochs, Bypasses, ClockType, NotSet
  <2>10. (sync.forced + clock.forced = ForcedBypass)' /\ (verdict'.what \in {"hold", "drop"} => clock'.forced = ForcedBypass)
    BY <2>4, <2>5, <2>9, SyncAssumption DEF SyncAges
  <2>11. ASSUME clock'.held # NotSet
         PROVE  sync'.epoch # NotSet /\ clock'.held <= sync'.epoch /\ sync'.epoch < MaxHold
    <3>1. d.what = "hold" /\ sync'.epoch = (IF sync.epoch = NotSet THEN 0 ELSE sync.epoch) /\ sync.epoch < MaxHold
      BY <2>4, <2>5, <2>9, <2>11
    <3>2. clock'.held = IF clock.held = NotSet THEN 0 ELSE clock.held
      BY <2>9, <3>1
    <3>3. sync.epoch \in NotSet..MaxHold /\ clock.held \in NotSet..(MaxHold + 1)
      BY DEF SyncTypes, SyncType, Epochs, ClockType
    <3>. QED  BY <3>1, <3>2, <3>3, SyncAssumption DEF SyncAges, NotSet
  <2>12. SyncAges'
    BY <2>10, <2>11 DEF SyncAges
  <2>. QED  BY <2>8, <2>12
<1>4. CASE SyncTick
  <2>. DEFINE e == IF sync.epoch \in {NotSet, MaxHold} THEN sync.epoch ELSE sync.epoch + 1
              o == IF sync.forced = 0 THEN 0 ELSE sync.forced - 1
              h == IF clock.held \in {NotSet, MaxHold + 1} THEN clock.held ELSE clock.held + 1
              g == IF clock.forced = ForcedBypass THEN ForcedBypass ELSE clock.forced + 1
  <2>1. /\ sync' = [sync EXCEPT !.epoch = e, !.forced = o]
        /\ clock' = [held |-> h, forced |-> g, polled |-> FALSE]
        /\ clock.held # NotSet => clock.polled
        /\ UNCHANGED <<newest, slot, taken, verdict>>
    BY <1>4 DEF SyncTick
  <2>2. /\ sync.epoch \in NotSet..MaxHold /\ sync.forced \in 0..ForcedBypass
        /\ clock.held \in NotSet..(MaxHold + 1) /\ clock.forced \in 0..ForcedBypass
    BY DEF SyncTypes, SyncType, Epochs, Bypasses, ClockType
  <2>3. /\ e \in NotSet..MaxHold /\ o \in 0..ForcedBypass /\ (e = NotSet <=> sync.epoch = NotSet)
        /\ h \in NotSet..(MaxHold + 1) /\ g \in 0..ForcedBypass
    BY <2>2, SyncAssumption DEF NotSet
  <2>4. o + g = ForcedBypass /\ (clock.forced = ForcedBypass => g = ForcedBypass)
    BY <2>2, SyncAssumption DEF SyncAges
  <2>5. h # NotSet => e # NotSet /\ h <= e
    BY <2>1, <2>2, SyncAssumption DEF SyncAges, NotSet
  <2>. HIDE DEF e, o, h, g
  <2>6. /\ sync' \in SyncType /\ Counts(sync') /\ clock' \in ClockType
        /\ sync'.epoch = e /\ sync'.forced = o /\ clock'.held = h /\ clock'.forced = g
        /\ clock'.polled = FALSE
    BY <2>1, <2>3 DEF SyncTypes, SyncType, Epochs, Bypasses, ClockType, Counts
  <2>7. SyncTypes'
    BY <2>1, <2>3, <2>6 DEF SyncTypes
  <2>8. SyncAges'
    BY <2>1, <2>4, <2>5, <2>6 DEF SyncAges
  <2>. QED  BY <2>7, <2>8
<1>5. CASE UNCHANGED syncVars
  BY <1>5 DEF syncVars, SyncTypes, SyncAges
<1>. QED  BY <1>1, <1>2, <1>3, <1>4, <1>5 DEF AvSyncNext

-----------------------------------------------------------------------------
(* AudioPlayout.  What is pending rises from the last unit played to the   *)
(* next one expected; every packet that waits is expected or later, each   *)
(* number once; and there is no more of it than target and margin allow.   *)
(* The loops of the code are folds, followed step by step with FoldLemmas. *)

\* The five loops of the playout, one step of each.
YoungStep(none, q, e)  == Unexpired(q, e)
HandStep(s, q, e)      == HandOver(s, q, e)
SkipStep(none, b, i)   == SkipOldest(b)
PrimeStep(none, b, i)  == PrimeNext(b)
PlayStep(none, f, i)   == PlayUnit(f)
YL == INSTANCE FoldLemmas WITH Op <- YoungStep
HL == INSTANCE FoldLemmas WITH Op <- HandStep
SL == INSTANCE FoldLemmas WITH Op <- SkipStep
PL == INSTANCE FoldLemmas WITH Op <- PrimeStep
FL == INSTANCE FoldLemmas WITH Op <- PlayStep

\* What the loops make of where they start.
YoungOnes(q)         == FoldLeft(Unexpired, <<>>, q)
HandedOver(s, c, q)  == FoldLeft(LAMBDA queue, e : HandOver(s, queue, e), c, q)
Skipped(c, l)        == FoldLeft(LAMBDA b, i : SkipOldest(b), c, [i \in 1..l |-> i])
Primed(c, l)         == FoldLeft(LAMBDA b, i : PrimeNext(b), c, [i \in 1..l |-> i])
Played(c, l)         == FoldLeft(LAMBDA a, i : PlayUnit(a), c, [i \in 1..l |-> i])

\* Such a loop, step by step, from c to z.
YoungRun(g, z, q)     == /\ z = g[Len(q)] /\ g[0] = <<>>
                         /\ \A m \in 1..Len(q) : g[m] = Unexpired(g[m - 1], q[m])
HandRun(g, z, s, c, q) == /\ z = g[Len(q)] /\ g[0] = c
                         /\ \A m \in 1..Len(q) : g[m] = HandOver(s, g[m - 1], q[m])
SkipRun(g, z, c, l)   == z = g[l] /\ g[0] = c /\ \A m \in 1..l : g[m] = SkipOldest(g[m - 1])
PrimeRun(g, z, c, l)  == z = g[l] /\ g[0] = c /\ \A m \in 1..l : g[m] = PrimeNext(g[m - 1])
PlayRun(g, z, c, l)   == z = g[l] /\ g[0] = c /\ \A m \in 1..l : g[m] = PlayUnit(g[m - 1])

\* The packets that wait, one after the other.
LEMMA YoungSteps ==
  ASSUME NEW D, NEW q \in Seq(D)
  PROVE  \E g : YoungRun(g, YoungOnes(q), q)
<1>. DEFINE IsIt(f) == f = [s \in SUBSET DOMAIN q |->
                              IF s = {} THEN <<>> ELSE LET x == Max(s) IN Unexpired(f[s \ {x}], q[x])]
            h == CHOOSE f : IsIt(f)
            n == Len(q)
<1>1. YoungOnes(q) = h[DOMAIN q]
  BY DEF YoungOnes, FoldLeft, MapThenFoldSet
<1>2. n \in Nat /\ DOMAIN q = 1..n
  BY LenProperties
<1>3. ASSUME NEW f PROVE YL!IsFold(f, 0, <<>>, q, n) <=> IsIt(f)
  BY <1>2 DEF YL!IsFold, YL!Top, Max, YoungStep
<1>4. \E f : IsIt(f)
  BY <1>2, <1>3, YL!FoldExists
<1>5. IsIt(h)
  BY <1>4
<1>. HIDE DEF IsIt, h, n
<1>6. YL!IsFold(h, 0, <<>>, q, n)
  BY <1>3, <1>5
<1>7. \E g : YL!IsRun(g, h, 0, <<>>, q, n)
  BY <1>2, <1>6, YL!FoldRuns
<1>. QED  BY <1>1, <1>2, <1>7 DEF n, YoungStep, YL!IsRun, YoungRun

\* The packets that are handed over, one after the other.
LEMMA HandSteps ==
  ASSUME NEW s0, NEW c, NEW D, NEW q \in Seq(D)
  PROVE  \E g : HandRun(g, HandedOver(s0, c, q), s0, c, q)
<1>. DEFINE IsIt(f) == f = [s \in SUBSET DOMAIN q |->
                              IF s = {} THEN c ELSE LET x == Max(s) IN HandOver(s0, f[s \ {x}], q[x])]
            h == CHOOSE f : IsIt(f)
            n == Len(q)
<1>1. HandedOver(s0, c, q) = h[DOMAIN q]
  BY DEF HandedOver, FoldLeft, MapThenFoldSet
<1>2. n \in Nat /\ DOMAIN q = 1..n
  BY LenProperties
<1>3. ASSUME NEW f PROVE HL!IsFold(f, s0, c, q, n) <=> IsIt(f)
  BY <1>2 DEF HL!IsFold, HL!Top, Max, HandStep
<1>4. \E f : IsIt(f)
  BY <1>2, <1>3, HL!FoldExists
<1>5. IsIt(h)
  BY <1>4
<1>. HIDE DEF IsIt, h, n
<1>6. HL!IsFold(h, s0, c, q, n)
  BY <1>3, <1>5
<1>7. \E g : HL!IsRun(g, h, s0, c, q, n)
  BY <1>2, <1>6, HL!FoldRuns
<1>. QED  BY <1>1, <1>2, <1>7 DEF n, HandStep, HL!IsRun, HandRun

\* The packets that are dropped, one after the other.
LEMMA SkipSteps ==
  ASSUME NEW c, NEW l \in Nat
  PROVE  \E g : SkipRun(g, Skipped(c, l), c, l)
<1>. DEFINE t == [i \in 1..l |-> i]
            IsIt(f) == f = [s \in SUBSET DOMAIN t |->
                              IF s = {} THEN c ELSE LET x == Max(s) IN SkipOldest(f[s \ {x}])]
            h == CHOOSE f : IsIt(f)
            n == l
<1>1. Skipped(c, l) = h[DOMAIN t]
  BY DEF Skipped, FoldLeft, MapThenFoldSet
<1>2. n \in Nat /\ DOMAIN t = 1..n
  OBVIOUS
<1>3. ASSUME NEW f PROVE SL!IsFold(f, 0, c, t, n) <=> IsIt(f)
  BY <1>2 DEF SL!IsFold, SL!Top, Max, SkipStep
<1>4. \E f : IsIt(f)
  BY <1>2, <1>3, SL!FoldExists
<1>5. IsIt(h)
  BY <1>4
<1>. HIDE DEF IsIt, h, n, t
<1>6. SL!IsFold(h, 0, c, t, n)
  BY <1>3, <1>5
<1>7. \E g : SL!IsRun(g, h, 0, c, t, n)
  BY <1>2, <1>6, SL!FoldRuns
<1>. QED  BY <1>1, <1>2, <1>7 DEF n, t, SkipStep, SL!IsRun, SkipRun

\* The packets that are loaded before the start, one after the other.
LEMMA PrimeSteps ==
  ASSUME NEW c, NEW l \in Nat
  PROVE  \E g : PrimeRun(g, Primed(c, l), c, l)
<1>. DEFINE t == [i \in 1..l |-> i]
            IsIt(f) == f = [s \in SUBSET DOMAIN t |->
                              IF s = {} THEN c ELSE LET x == Max(s) IN PrimeNext(f[s \ {x}])]
            h == CHOOSE f : IsIt(f)
            n == l
<1>1. Primed(c, l) = h[DOMAIN t]
  BY DEF Primed, FoldLeft, MapThenFoldSet
<1>2. n \in Nat /\ DOMAIN t = 1..n
  OBVIOUS
<1>3. ASSUME NEW f PROVE PL!IsFold(f, 0, c, t, n) <=> IsIt(f)
  BY <1>2 DEF PL!IsFold, PL!Top, Max, PrimeStep
<1>4. \E f : IsIt(f)
  BY <1>2, <1>3, PL!FoldExists
<1>5. IsIt(h)
  BY <1>4
<1>. HIDE DEF IsIt, h, n, t
<1>6. PL!IsFold(h, 0, c, t, n)
  BY <1>3, <1>5
<1>7. \E g : PL!IsRun(g, h, 0, c, t, n)
  BY <1>2, <1>6, PL!FoldRuns
<1>. QED  BY <1>1, <1>2, <1>7 DEF n, t, PrimeStep, PL!IsRun, PrimeRun

\* The units that are played, one after the other.
LEMMA PlaySteps ==
  ASSUME NEW c, NEW l \in Nat
  PROVE  \E g : PlayRun(g, Played(c, l), c, l)
<1>. DEFINE t == [i \in 1..l |-> i]
            IsIt(f) == f = [s \in SUBSET DOMAIN t |->
                              IF s = {} THEN c ELSE LET x == Max(s) IN PlayUnit(f[s \ {x}])]
            h == CHOOSE f : IsIt(f)
            n == l
<1>1. Played(c, l) = h[DOMAIN t]
  BY DEF Played, FoldLeft, MapThenFoldSet
<1>2. n \in Nat /\ DOMAIN t = 1..n
  OBVIOUS
<1>3. ASSUME NEW f PROVE FL!IsFold(f, 0, c, t, n) <=> IsIt(f)
  BY <1>2 DEF FL!IsFold, FL!Top, Max, PlayStep
<1>4. \E f : IsIt(f)
  BY <1>2, <1>3, FL!FoldExists
<1>5. IsIt(h)
  BY <1>4
<1>. HIDE DEF IsIt, h, n, t
<1>6. FL!IsFold(h, 0, c, t, n)
  BY <1>3, <1>5
<1>7. \E g : FL!IsRun(g, h, 0, c, t, n)
  BY <1>2, <1>6, FL!FoldRuns
<1>. QED  BY <1>1, <1>2, <1>7 DEF n, t, PlayStep, FL!IsRun, PlayRun

\* A unit of sound that came in a packet.
Sounds == [session : 1..AudioSessions, seq : Nat, time : Nat]

\* Sounds in the order of their numbers, and between two of them.
Ascending(q)          == \A i, k \in 1..Len(q) : i < k => q[i].seq < q[k].seq
Between(q, low, high) == \A i \in 1..Len(q) : low < q[i].seq /\ q[i].seq < high

\* The packets P and the pending sounds q of a buffer that expects the number x, when the
\* last sound played had the number low: everything is there once and in its order.
Steady(P, q, x, low) ==
    /\ P \in SUBSET Sounds /\ IsFiniteSet(P) /\ x \in Int /\ low \in Int /\ low >= -1
    /\ \A a, b \in P : a.seq = b.seq => a = b
    /\ \A a \in P : a.seq >= x
    /\ q \in Seq(Sounds) /\ Ascending(q) /\ Between(q, low, x)
    /\ low < x \/ (x = None /\ low = None /\ P = {} /\ q = <<>>)

\* How much that is.
Much(P, q) == Cardinality(P) + Len(q)

\* A sound has a number.
LEMMA SoundIs ==
  ASSUME NEW p \in Sounds
  PROVE  p.seq \in Nat /\ p # Silence
  BY DEF Sounds, Silence

\* There is a first one among numbers.
LEMMA FirstOf ==
  ASSUME NEW S \in SUBSET Nat, S # {}
  PROVE  \E m \in S : \A k \in S : m <= k
<1>1. IsWellFoundedOn(OpToRel(<, Nat), Nat)
  BY NatLessThanWellFounded
<1>2. \E m \in S : \A k \in S : ~(<<k, m>> \in OpToRel(<, Nat))
  BY <1>1, WFMin
<1>3. PICK m \in S : \A k \in S : ~(<<k, m>> \in OpToRel(<, Nat))
  BY <1>2
<1>4. \A k \in S : ~(k < m)
  BY <1>3 DEF OpToRel
<1>. QED  BY <1>4

\* The oldest packet of a buffer.
LEMMA OldestIs ==
  ASSUME NEW j, j.packets \in SUBSET Sounds, j.packets # {}
  PROVE  Oldest(j) \in j.packets /\ \A r \in j.packets : Oldest(j).seq <= r.seq
<1>. DEFINE P == j.packets  S == {p.seq : p \in P}
<1>1. S \in SUBSET Nat /\ S # {}
  BY SoundIs
<1>2. PICK m \in S : \A k \in S : m <= k
  BY <1>1, FirstOf
<1>3. PICK p \in P : p.seq = m
  BY <1>2
<1>4. \A r \in P : p.seq <= r.seq
  BY <1>2, <1>3
<1>. QED  BY <1>3, <1>4 DEF Oldest

\* The oldest packet becomes the last of the pending sounds.
LEMMA AppendKeeps ==
  ASSUME NEW P, NEW q, NEW x, NEW low, Steady(P, q, x, low),
         NEW p \in P, \A r \in P : p.seq <= r.seq
  PROVE  /\ Steady(P \ {p}, Append(q, p), p.seq + 1, low)
         /\ Much(P \ {p}, Append(q, p)) = Much(P, q) /\ Much(P, q) \in Nat
<1>. DEFINE n == Len(q)  a == Append(q, p)
<1>1. /\ P \in SUBSET Sounds /\ IsFiniteSet(P) /\ q \in Seq(Sounds) /\ p \in Sounds /\ p.seq \in Nat
      /\ x \in Int /\ low \in Int /\ p.seq >= x
  BY SoundIs DEF Steady
<1>2. /\ a \in Seq(Sounds) /\ Len(a) = n + 1 /\ n \in Nat
      /\ \A i \in 1..n : a[i] = q[i] /\ a[n + 1] = p
  BY <1>1
<1>3. \A i \in 1..n : q[i] \in Sounds /\ q[i].seq \in Nat
  BY <1>1, ElementOfSeq, SoundIs
<1>4. /\ \A i, k \in 1..n : i < k => q[i].seq < q[k].seq
      /\ \A i \in 1..n : low < q[i].seq /\ q[i].seq < x
  BY DEF Steady, Ascending, Between
<1>5. low < p.seq
  BY <1>1 DEF Steady
<1>6. a[n + 1] = p
  BY <1>1
<1>. HIDE DEF a, n
<1>7. Between(a, low, p.seq + 1)
  <2>. SUFFICES ASSUME NEW i \in 1..(n + 1) PROVE low < a[i].seq /\ a[i].seq < p.seq + 1
    BY <1>2 DEF Between
  <2>1. CASE i = n + 1
    BY <1>1, <1>5, <1>6, <2>1
  <2>2. CASE i # n + 1
    <3>1. i \in 1..n
      BY <1>2, <2>2
    <3>. QED  BY <1>1, <1>2, <1>3, <1>4, <3>1
  <2>. QED  BY <2>1, <2>2
<1>8. Ascending(a)
  <2>. SUFFICES ASSUME NEW i \in 1..(n + 1), NEW k \in 1..(n + 1), i < k PROVE a[i].seq < a[k].seq
    BY <1>2 DEF Ascending
  <2>1. i \in 1..n
    BY <1>2
  <2>2. CASE k = n + 1
    BY <1>1, <1>2, <1>3, <1>4, <1>6, <2>1, <2>2
  <2>3. CASE k # n + 1
    <3>1. k \in 1..n
      BY <1>2, <2>3
    <3>. QED  BY <1>2, <1>4, <2>1, <3>1
  <2>. QED  BY <2>2, <2>3
<1>9. /\ P \ {p} \in SUBSET Sounds /\ \A r, s \in P \ {p} : r.seq = s.seq => r = s
      /\ \A r \in P \ {p} : r.seq >= p.seq + 1
  <2>1. ASSUME NEW r \in P \ {p} PROVE r.seq >= p.seq + 1
    <3>1. r.seq \in Nat /\ p.seq <= r.seq /\ r.seq # p.seq
      BY <1>1, SoundIs DEF Steady
    <3>. QED  BY <1>1, <3>1
  <2>. QED  BY <1>1, <2>1 DEF Steady
<1>10. IsFiniteSet(P \ {p}) /\ Cardinality(P \ {p}) = Cardinality(P) - 1 /\ Cardinality(P) \in Nat
  BY <1>1, FS_RemoveElement, FS_CardinalityType
<1>11. Much(P \ {p}, a) = Much(P, q) /\ Much(P, q) \in Nat
  <2>. DEFINE c == Cardinality(P)
  <2>1. Cardinality(P \ {p}) = c - 1 /\ c \in Nat
    BY <1>10
  <2>2. Len(a) = n + 1 /\ n \in Nat
    BY <1>2
  <2>. HIDE DEF c
  <2>3. (c - 1) + (n + 1) = c + n /\ c + n \in Nat
    BY <2>1, <2>2
  <2>. QED  BY <2>1, <2>2, <2>3 DEF Much, c, n
<1>12. p.seq + 1 \in Int /\ low < p.seq + 1
  BY <1>1, <1>5
<1>. QED  BY <1>1, <1>2, <1>7, <1>8, <1>9, <1>10, <1>11, <1>12 DEF Steady, a

\* The oldest packet is dropped.
LEMMA SkipKeeps ==
  ASSUME NEW P, NEW q, NEW x, NEW low, Steady(P, q, x, low),
         NEW p \in P, \A r \in P : p.seq <= r.seq
  PROVE  /\ Steady(P \ {p}, q, p.seq + 1, low)
         /\ Cardinality(P \ {p}) = Cardinality(P) - 1 /\ Cardinality(P) \in Nat
<1>1. /\ P \in SUBSET Sounds /\ IsFiniteSet(P) /\ q \in Seq(Sounds) /\ p \in Sounds /\ p.seq \in Nat
      /\ x \in Int /\ low \in Int /\ p.seq >= x
  BY SoundIs DEF Steady
<1>2. \A i \in 1..Len(q) : q[i] \in Sounds /\ q[i].seq \in Nat
  BY <1>1, ElementOfSeq, SoundIs
<1>3. Between(q, low, p.seq + 1)
  <2>. SUFFICES ASSUME NEW i \in 1..Len(q) PROVE low < q[i].seq /\ q[i].seq < p.seq + 1
    BY DEF Between
  <2>1. low < q[i].seq /\ q[i].seq < x
    BY DEF Steady, Between
  <2>. QED  BY <1>1, <1>2, <2>1
<1>4. /\ P \ {p} \in SUBSET Sounds /\ \A r, s \in P \ {p} : r.seq = s.seq => r = s
      /\ \A r \in P \ {p} : r.seq >= p.seq + 1
  <2>1. ASSUME NEW r \in P \ {p} PROVE r.seq >= p.seq + 1
    <3>1. r.seq \in Nat /\ p.seq <= r.seq /\ r.seq # p.seq
      BY <1>1, SoundIs DEF Steady
    <3>. QED  BY <1>1, <3>1
  <2>. QED  BY <1>1, <2>1 DEF Steady
<1>5. IsFiniteSet(P \ {p}) /\ Cardinality(P \ {p}) = Cardinality(P) - 1 /\ Cardinality(P) \in Nat
  BY <1>1, FS_RemoveElement, FS_CardinalityType
<1>6. p.seq + 1 \in Int /\ low < p.seq + 1
  BY <1>1 DEF Steady
<1>7. Ascending(q)
  BY DEF Steady
<1>. QED  BY <1>1, <1>3, <1>4, <1>5, <1>6, <1>7 DEF Steady

\* The first k of the pending sounds are dropped or played.
LEMMA CutKeeps ==
  ASSUME NEW P, NEW q, NEW x, NEW low, Steady(P, q, x, low), NEW k \in 0..Len(q)
  PROVE  LET r == SubSeq(q, k + 1, Len(q))
         IN  /\ Steady(P, r, x, low) /\ Len(r) = Len(q) - k /\ Len(q) \in Nat
             /\ k > 0 => Steady(P, r, x, q[k].seq) /\ low < q[k].seq /\ q[k] \in Sounds
<1>. DEFINE n == Len(q)  r == SubSeq(q, k + 1, n)
<1>1. /\ q \in Seq(Sounds) /\ n \in Nat /\ k \in Nat /\ k <= n /\ x \in Int /\ low \in Int
      /\ \A i \in 1..n : q[i] \in Sounds /\ q[i].seq \in Nat
  <2>1. q \in Seq(Sounds)
    BY DEF Steady
  <2>2. \A i \in 1..Len(q) : q[i] \in Sounds /\ q[i].seq \in Nat
    BY <2>1, ElementOfSeq, SoundIs
  <2>. QED  BY <2>1, <2>2 DEF Steady
<1>2. /\ \A i, m \in 1..n : i < m => q[i].seq < q[m].seq
      /\ \A i \in 1..n : low < q[i].seq /\ q[i].seq < x
  BY DEF Steady, Ascending, Between
<1>3. r \in Seq(Sounds) /\ Len(r) = n - k /\ \A i \in 1..(n - k) : r[i] = q[k + i]
  <2>1. \A i \in (k + 1)..n : q[i] \in Sounds
    BY <1>1
  <2>2. k + 1 \in Int /\ n \in Int
    BY <1>1
  <2>3. /\ SubSeq(q, k + 1, n) \in Seq(Sounds)
        /\ Len(SubSeq(q, k + 1, n)) = IF k + 1 <= n THEN n - (k + 1) + 1 ELSE 0
        /\ \A i \in 1..(n - (k + 1) + 1) : SubSeq(q, k + 1, n)[i] = q[(k + 1) + i - 1]
    <3>. HIDE DEF n
    <3>. QED  BY <2>1, <2>2, SubSeqProperties
  <2>. HIDE DEF n
  <2>4. r \in Seq(Sounds) /\ Len(r) = n - k
    BY <1>1, <2>3
  <2>5. ASSUME NEW i \in 1..(n - k) PROVE r[i] = q[k + i]
    <3>1. i \in 1..(n - (k + 1) + 1) /\ (k + 1) + i - 1 = k + i
      BY <1>1
    <3>2. SubSeq(q, k + 1, n)[i] = q[(k + 1) + i - 1]
      BY <2>3, <3>1
    <3>. QED  BY <3>1, <3>2
  <2>. QED  BY <2>4, <2>5
<1>. HIDE DEF r, n
<1>4. Ascending(r)
  <2>. SUFFICES ASSUME NEW i \in 1..(n - k), NEW m \in 1..(n - k), i < m PROVE r[i].seq < r[m].seq
    BY <1>3 DEF Ascending
  <2>1. k + i \in 1..n /\ k + m \in 1..n /\ k + i < k + m
    BY <1>1
  <2>. QED  BY <1>2, <1>3, <2>1
<1>5. Between(r, low, x)
  <2>. SUFFICES ASSUME NEW i \in 1..(n - k) PROVE low < r[i].seq /\ r[i].seq < x
    BY <1>3 DEF Between
  <2>1. k + i \in 1..n
    BY <1>1
  <2>. QED  BY <1>2, <1>3, <2>1
<1>6. q = <<>> => r = <<>>
  <2>. SUFFICES ASSUME q = <<>> PROVE r = <<>>
    OBVIOUS
  <2>1. n = 0
    BY DEF n
  <2>2. Len(r) = 0
    BY <1>1, <1>3, <2>1
  <2>. QED  BY <1>3, <2>2, EmptySeq
<1>7. Steady(P, r, x, low)
  BY <1>3, <1>4, <1>5, <1>6 DEF Steady
<1>8. ASSUME k > 0 PROVE Steady(P, r, x, q[k].seq) /\ low < q[k].seq /\ q[k] \in Sounds
  <2>1. k \in 1..n /\ q[k].seq \in Nat /\ low < q[k].seq /\ q[k].seq < x /\ q[k] \in Sounds
    <3>1. k \in 1..n
      BY <1>1, <1>8
    <3>. QED  BY <1>1, <1>2, <3>1
  <2>2. Between(r, q[k].seq, x)
    <3>. SUFFICES ASSUME NEW i \in 1..(n - k) PROVE q[k].seq < r[i].seq /\ r[i].seq < x
      BY <1>3 DEF Between
    <3>1. k + i \in 1..n /\ k < k + i
      BY <1>1
    <3>. QED  BY <1>2, <1>3, <2>1, <3>1
  <2>. QED  BY <1>3, <1>4, <2>1, <2>2 DEF Steady
<1>. QED  BY <1>1, <1>3, <1>7, <1>8 DEF r, n

\* A packet that is not there yet, and not behind, is buffered.
LEMMA AddKeeps ==
  ASSUME NEW P, NEW q, NEW x, NEW low, Steady(P, q, x, low), low < x,
         NEW p \in Sounds, p.seq >= x, \A r \in P : r.seq # p.seq
  PROVE  /\ Steady(P \cup {p}, q, x, low)
         /\ Cardinality(P \cup {p}) = Cardinality(P) + 1 /\ Cardinality(P) \in Nat
<1>1. IsFiniteSet(P) /\ p \notin P
  BY DEF Steady
<1>2. IsFiniteSet(P \cup {p}) /\ Cardinality(P \cup {p}) = Cardinality(P) + 1 /\ Cardinality(P) \in Nat
  BY <1>1, FS_AddElement, FS_CardinalityType
<1>3. /\ P \cup {p} \in SUBSET Sounds
      /\ \A a, b \in P \cup {p} : a.seq = b.seq => a = b
      /\ \A a \in P \cup {p} : a.seq >= x
  BY DEF Steady
<1>. QED  BY <1>2, <1>3 DEF Steady

\* The first packet says which number is expected.
LEMMA FirstSets ==
  ASSUME NEW P, NEW q, NEW low, Steady(P, q, None, low), NEW s \in Nat
  PROVE  Steady(P, q, s, low) /\ low < s
<1>1. low \in Int /\ None = -1
  BY DEF Steady, None
<1>2. P = {} /\ q = <<>> /\ low < s
  <2>1. ~(low < None)
    BY <1>1 DEF Steady
  <2>. QED  BY <1>1, <2>1 DEF Steady
<1>. QED  BY <1>2 DEF Steady, Ascending, Between

\* A number that is not there is passed over.
LEMMA GapKeeps ==
  ASSUME NEW P, NEW x, NEW low, Steady(P, <<>>, x, low), P # {}, \A r \in P : r.seq # x
  PROVE  Steady(P, <<>>, x + 1, low)
<1>1. x \in Int /\ low \in Int /\ low < x /\ P \in SUBSET Sounds
  BY DEF Steady
<1>2. \A a \in P : a.seq >= x + 1
  <2>. SUFFICES ASSUME NEW a \in P PROVE a.seq >= x + 1
    OBVIOUS
  <2>1. a.seq \in Nat /\ a.seq >= x /\ a.seq # x
    BY <1>1, SoundIs DEF Steady
  <2>. QED  BY <1>1, <2>1
<1>3. Between(<<>>, low, x + 1) /\ Len(<<>>) = 0
  BY DEF Between
<1>4. low < x + 1 /\ x + 1 \in Int
  BY <1>1
<1>. QED  BY <1>1, <1>2, <1>3, <1>4 DEF Steady

\* The record of the jitter buffer.
Shape(j) ==
    \E a, b, c, d, e, f, g, h, i :
       j = [packets |-> a, pending |-> b, pendingTime |-> c, playhead |-> d, expected |-> e,
            started |-> f, waited |-> g, quiet |-> h, jumped |-> i]

\* A buffer, when the last sound played had the number low.
Buffer(j, low) == Shape(j) /\ Steady(j.packets, j.pending, j.expected, low)

\* Such a record has the shape.
LEMMA ShapeIs ==
  ASSUME NEW a, NEW b, NEW c, NEW d, NEW e, NEW f, NEW g, NEW h, NEW i
  PROVE  Shape([packets |-> a, pending |-> b, pendingTime |-> c, playhead |-> d, expected |-> e,
                started |-> f, waited |-> g, quiet |-> h, jumped |-> i])
  BY Zenon DEF Shape

\* A packet becomes pending: the fields that are left and those that are set.
LEMMA AppendFields ==
  ASSUME NEW j, Shape(j), NEW p
  PROVE  LET k == AppendPacket(j, p)
         IN  /\ Shape(k) /\ k.packets = j.packets \ {p} /\ k.expected = p.seq + 1
             /\ k.pending = Append(j.pending, p)
<1>. DEFINE jump == j.started /\ j.playhead # None /\ p.time > j.playhead + JumpTolerance
            time == IF j.pending = <<>> THEN p.time ELSE j.pendingTime
            head == IF jump THEN p.time ELSE j.playhead
            flag == IF jump THEN TRUE ELSE j.jumped
            P == j.packets \ {p}
            q == Append(j.pending, p)
            x == p.seq + 1
<1>1. PICK a, b, c, d, e, f, g, h, i :
         j = [packets |-> a, pending |-> b, pendingTime |-> c, playhead |-> d, expected |-> e,
              started |-> f, waited |-> g, quiet |-> h, jumped |-> i]
  BY Zenon DEF Shape
<1>2. AppendPacket(j, p) =
        [j EXCEPT !.packets = P, !.expected = x, !.pendingTime = time, !.playhead = head,
                  !.jumped = flag, !.pending = q]
  BY Zenon DEF AppendPacket
<1>. HIDE DEF jump, time, head, flag, P, q, x
<1>3. AppendPacket(j, p) =
        [packets |-> P, pending |-> q, pendingTime |-> time, playhead |-> head,
         expected |-> x, started |-> f, waited |-> g, quiet |-> h, jumped |-> flag]
  BY <1>1, <1>2
<1>4. Shape(AppendPacket(j, p))
  BY <1>3, ShapeIs
<1>. QED  BY <1>3, <1>4 DEF P, q, x

\* Changes to the rest of the buffer leave its contents alone.
Same(k, j) ==
    Shape(k) /\ k.packets = j.packets /\ k.pending = j.pending /\ k.expected = j.expected

\* A buffer in which only the playhead, the times and the flags change holds the same.
LEMMA SideFields ==
  ASSUME NEW j, Shape(j), NEW v, NEW w, NEW s, NEW z, NEW u
  PROVE  /\ Same([j EXCEPT !.jumped = u, !.playhead = v], j)
         /\ Same([j EXCEPT !.started = s, !.playhead = v], j)
         /\ Same([j EXCEPT !.waited = w, !.quiet = z], j)
         /\ Same([j EXCEPT !.playhead = v], j)
         /\ Same([j EXCEPT !.jumped = u], j)
<1>1. PICK a, b, c, d, e, f, g, h, i :
         j = [packets |-> a, pending |-> b, pendingTime |-> c, playhead |-> d, expected |-> e,
              started |-> f, waited |-> g, quiet |-> h, jumped |-> i]
  BY Zenon DEF Shape
<1>. DEFINE R(c1, d1, f1, g1, h1, i1) ==
       [packets |-> a, pending |-> b, pendingTime |-> c1, playhead |-> d1, expected |-> e,
        started |-> f1, waited |-> g1, quiet |-> h1, jumped |-> i1]
<1>2. \A c1, d1, f1, g1, h1, i1 : Same(R(c1, d1, f1, g1, h1, i1), j)
  <2>1. \A c1, d1, f1, g1, h1, i1 : Shape(R(c1, d1, f1, g1, h1, i1))
    BY ShapeIs
  <2>2. \A c1, d1, f1, g1, h1, i1 :
           /\ R(c1, d1, f1, g1, h1, i1).packets = j.packets
           /\ R(c1, d1, f1, g1, h1, i1).pending = j.pending
           /\ R(c1, d1, f1, g1, h1, i1).expected = j.expected
    BY <1>1
  <2>. HIDE DEF R
  <2>. QED  BY <2>1, <2>2 DEF Same
<1>3. /\ [j EXCEPT !.jumped = u, !.playhead = v] = R(c, v, f, g, h, u)
      /\ [j EXCEPT !.started = s, !.playhead = v] = R(c, v, s, g, h, i)
      /\ [j EXCEPT !.waited = w, !.quiet = z] = R(c, d, f, w, z, i)
      /\ [j EXCEPT !.playhead = v] = R(c, v, f, g, h, i)
      /\ [j EXCEPT !.jumped = u] = R(c, d, f, g, h, u)
  <2>1. [j EXCEPT !.jumped = u, !.playhead = v] = R(c, v, f, g, h, u)
    <3>. SUFFICES ASSUME NEW k, k = [j EXCEPT !.jumped = u, !.playhead = v] PROVE k = R(c, v, f, g, h, u)
      OBVIOUS
    <3>. QED  BY <1>1
  <2>2. [j EXCEPT !.started = s, !.playhead = v] = R(c, v, s, g, h, i)
    <3>. SUFFICES ASSUME NEW k, k = [j EXCEPT !.started = s, !.playhead = v] PROVE k = R(c, v, s, g, h, i)
      OBVIOUS
    <3>. QED  BY <1>1
  <2>3. [j EXCEPT !.waited = w, !.quiet = z] = R(c, d, f, w, z, i)
    <3>. SUFFICES ASSUME NEW k, k = [j EXCEPT !.waited = w, !.quiet = z] PROVE k = R(c, d, f, w, z, i)
      OBVIOUS
    <3>. QED  BY <1>1
  <2>4. [j EXCEPT !.playhead = v] = R(c, v, f, g, h, i)
    BY <1>1
  <2>5. [j EXCEPT !.jumped = u] = R(c, d, f, g, h, u)
    BY <1>1
  <2>. HIDE DEF R
  <2>. QED  BY <2>1, <2>2, <2>3, <2>4, <2>5
<1>. HIDE DEF R
<1>. QED  BY <1>2, <1>3

\* Changes to its contents.
Holds(k, P, q, x) == Shape(k) /\ k.packets = P /\ k.pending = q /\ k.expected = x

\* What a buffer holds when its packets, what is pending or the expected number change.
LEMMA MainFields ==
  ASSUME NEW j, Shape(j), NEW P, NEW q, NEW x, NEW t, NEW v, NEW w, NEW z
  PROVE  /\ Holds([j EXCEPT !.packets = P, !.expected = x], P, j.pending, x)
         /\ Holds([j EXCEPT !.pending = q, !.pendingTime = t], j.packets, q, j.expected)
         /\ Holds([j EXCEPT !.waited = w, !.expected = x], j.packets, j.pending, x)
         /\ Holds([j EXCEPT !.quiet = z, !.packets = P], P, j.pending, j.expected)
         /\ Holds([j EXCEPT !.expected = x, !.pending = q, !.pendingTime = t], j.packets, q, x)
         /\ Holds([j EXCEPT !.pending = q, !.pendingTime = t, !.playhead = v],
                  j.packets, q, j.expected)
<1>1. PICK a, b, c, d, e, f, g, h, i :
         j = [packets |-> a, pending |-> b, pendingTime |-> c, playhead |-> d, expected |-> e,
              started |-> f, waited |-> g, quiet |-> h, jumped |-> i]
  BY Zenon DEF Shape
<1>. DEFINE R(a1, b1, c1, d1, e1, g1, h1) ==
       [packets |-> a1, pending |-> b1, pendingTime |-> c1, playhead |-> d1, expected |-> e1,
        started |-> f, waited |-> g1, quiet |-> h1, jumped |-> i]
<1>2. \A a1, b1, c1, d1, e1, g1, h1 : Holds(R(a1, b1, c1, d1, e1, g1, h1), a1, b1, e1)
  <2>1. \A a1, b1, c1, d1, e1, g1, h1 : Shape(R(a1, b1, c1, d1, e1, g1, h1))
    BY ShapeIs
  <2>2. \A a1, b1, c1, d1, e1, g1, h1 :
           /\ R(a1, b1, c1, d1, e1, g1, h1).packets = a1
           /\ R(a1, b1, c1, d1, e1, g1, h1).pending = b1
           /\ R(a1, b1, c1, d1, e1, g1, h1).expected = e1
    OBVIOUS
  <2>. HIDE DEF R
  <2>. QED  BY <2>1, <2>2 DEF Holds
<1>3. /\ [j EXCEPT !.packets = P, !.expected = x] = R(P, b, c, d, x, g, h)
      /\ [j EXCEPT !.pending = q, !.pendingTime = t] = R(a, q, t, d, e, g, h)
      /\ [j EXCEPT !.waited = w, !.expected = x] = R(a, b, c, d, x, w, h)
      /\ [j EXCEPT !.quiet = z, !.packets = P] = R(P, b, c, d, e, g, z)
      /\ [j EXCEPT !.expected = x, !.pending = q, !.pendingTime = t] = R(a, q, t, d, x, g, h)
      /\ [j EXCEPT !.pending = q, !.pendingTime = t, !.playhead = v] = R(a, q, t, v, e, g, h)
  <2>1. [j EXCEPT !.packets = P, !.expected = x] = R(P, b, c, d, x, g, h)
    <3>. SUFFICES ASSUME NEW k, k = [j EXCEPT !.packets = P, !.expected = x] PROVE k = R(P, b, c, d, x, g, h)
      OBVIOUS
    <3>. QED  BY <1>1
  <2>2. [j EXCEPT !.pending = q, !.pendingTime = t] = R(a, q, t, d, e, g, h)
    <3>. SUFFICES ASSUME NEW k, k = [j EXCEPT !.pending = q, !.pendingTime = t] PROVE k = R(a, q, t, d, e, g, h)
      OBVIOUS
    <3>. QED  BY <1>1
  <2>3. [j EXCEPT !.waited = w, !.expected = x] = R(a, b, c, d, x, w, h)
    <3>. SUFFICES ASSUME NEW k, k = [j EXCEPT !.waited = w, !.expected = x] PROVE k = R(a, b, c, d, x, w, h)
      OBVIOUS
    <3>. QED  BY <1>1
  <2>4. [j EXCEPT !.quiet = z, !.packets = P] = R(P, b, c, d, e, g, z)
    <3>. SUFFICES ASSUME NEW k, k = [j EXCEPT !.quiet = z, !.packets = P] PROVE k = R(P, b, c, d, e, g, z)
      OBVIOUS
    <3>. QED  BY <1>1
  <2>5. [j EXCEPT !.expected = x, !.pending = q, !.pendingTime = t] = R(a, q, t, d, x, g, h)
    <3>. SUFFICES ASSUME NEW k, k = [j EXCEPT !.expected = x, !.pending = q, !.pendingTime = t] PROVE k = R(a, q, t, d, x, g, h)
      OBVIOUS
    <3>. QED  BY <1>1
  <2>6. [j EXCEPT !.pending = q, !.pendingTime = t, !.playhead = v] = R(a, q, t, v, e, g, h)
    <3>. SUFFICES ASSUME NEW k, k = [j EXCEPT !.pending = q, !.pendingTime = t, !.playhead = v] PROVE k = R(a, q, t, v, e, g, h)
      OBVIOUS
    <3>. QED  BY <1>1
  <2>. HIDE DEF R
  <2>. QED  BY <2>1, <2>2, <2>3, <2>4, <2>5, <2>6
<1>4. j.packets = a /\ j.pending = b /\ j.expected = e
  BY <1>1
<1>. HIDE DEF R
<1>. QED  BY <1>2, <1>3, <1>4

\* What is buffered is what there is.
LEMMA BufferedIs ==
  ASSUME NEW j, NEW low, Buffer(j, low)
  PROVE  /\ Buffered(j) = Much(j.packets, j.pending)
         /\ Cardinality(j.packets) \in Nat /\ Len(j.pending) \in Nat /\ Buffered(j) \in Nat
         /\ j.packets \in SUBSET Sounds /\ j.pending \in Seq(Sounds)
<1>1. j.pending \in Seq(Sounds) /\ IsFiniteSet(j.packets) /\ j.packets \in SUBSET Sounds
  BY DEF Buffer, Steady
<1>2. Len(j.pending) \in Nat /\ Cardinality(j.packets) \in Nat
  BY <1>1, FS_CardinalityType
<1>. QED  BY <1>1, <1>2 DEF Buffered, Much

\* The oldest packet becomes pending.
LEMMA AppendIs ==
  ASSUME NEW j, NEW low, Buffer(j, low), j.packets # {}
  PROVE  LET k == AppendPacket(j, Oldest(j))
         IN  /\ Buffer(k, low) /\ Buffered(k) = Buffered(j)
             /\ k.pending = Append(j.pending, Oldest(j))
<1>. DEFINE p == Oldest(j)  k == AppendPacket(j, p)
<1>1. /\ Shape(j) /\ Steady(j.packets, j.pending, j.expected, low)
      /\ j.packets \in SUBSET Sounds
  BY BufferedIs DEF Buffer
<1>2. p \in j.packets /\ \A r \in j.packets : p.seq <= r.seq
  BY <1>1, OldestIs
<1>. HIDE DEF p
<1>3. /\ Shape(k) /\ k.packets = j.packets \ {p} /\ k.expected = p.seq + 1
      /\ k.pending = Append(j.pending, p)
  BY <1>1, AppendFields
<1>4. /\ Steady(j.packets \ {p}, Append(j.pending, p), p.seq + 1, low)
      /\ Much(j.packets \ {p}, Append(j.pending, p)) = Much(j.packets, j.pending)
  BY <1>1, <1>2, AppendKeeps
<1>. HIDE DEF k
<1>5. Buffer(k, low)
  BY <1>3, <1>4 DEF Buffer
<1>6. Buffered(k) = Buffered(j)
  BY <1>3, <1>4, <1>5, BufferedIs
<1>. QED  BY <1>3, <1>5, <1>6 DEF k, p

\* The oldest packet is dropped.
LEMMA SkipIs ==
  ASSUME NEW j, NEW low, Buffer(j, low), j.packets # {}
  PROVE  LET k == SkipOldest(j)
         IN  /\ Buffer(k, low) /\ k.pending = j.pending
             /\ Cardinality(k.packets) = Cardinality(j.packets) - 1
<1>. DEFINE p == Oldest(j)  k == SkipOldest(j)
<1>1. /\ Shape(j) /\ Steady(j.packets, j.pending, j.expected, low)
      /\ j.packets \in SUBSET Sounds
  BY BufferedIs DEF Buffer
<1>2. p \in j.packets /\ \A r \in j.packets : p.seq <= r.seq
  BY <1>1, OldestIs
<1>3. k = [j EXCEPT !.packets = j.packets \ {p}, !.expected = p.seq + 1]
  BY Zenon DEF SkipOldest
<1>. HIDE DEF p, k
<1>4. Holds(k, j.packets \ {p}, j.pending, p.seq + 1)
  BY <1>1, <1>3, MainFields
<1>5. /\ Steady(j.packets \ {p}, j.pending, p.seq + 1, low)
      /\ Cardinality(j.packets \ {p}) = Cardinality(j.packets) - 1
  BY <1>1, <1>2, SkipKeeps
<1>. QED  BY <1>4, <1>5 DEF Buffer, Holds, k

\* What is dropped for latency is what there is too much of, the oldest first.
LEMMA DropIs ==
  ASSUME NEW j, NEW low, Buffer(j, low), NEW n \in 0..Buffered(j)
  PROVE  Buffer(DropOldest(j, n), low) /\ Buffered(DropOldest(j, n)) = Buffered(j) - n
<1>. DEFINE l == Len(j.pending)  c == Cardinality(j.packets)
            k == IF n < l THEN n ELSE l
            m == IF n - k < c THEN n - k ELSE c
            q == SubSeq(j.pending, k + 1, Len(j.pending))
            t == IF j.pendingTime = None THEN None ELSE j.pendingTime + k
            cut == [j EXCEPT !.pending = q, !.pendingTime = t]
<1>1. l \in Nat /\ c \in Nat /\ Buffered(j) = c + l /\ n \in Nat /\ n <= c + l
  <2>1. l \in Nat /\ c \in Nat /\ Buffered(j) = c + l
    BY BufferedIs DEF Much
  <2>. HIDE DEF c, l
  <2>. QED  BY <2>1
<1>2. DropOldest(j, n) = Skipped(cut, m)
  BY Zenon DEF DropOldest, Skipped
<1>3. k \in 0..l /\ m \in Nat /\ m = n - k /\ m <= c
  <2>. HIDE DEF l, c
  <2>1. k \in 0..l /\ n - k \in Nat /\ n - k <= c
    BY <1>1
  <2>. HIDE DEF k
  <2>. QED  BY <1>1, <2>1
<1>4. Shape(j) /\ Steady(j.packets, j.pending, j.expected, low)
  BY DEF Buffer
<1>5. Steady(j.packets, q, j.expected, low) /\ Len(q) = l - k
  BY <1>3, <1>4, CutKeeps
<1>. HIDE DEF q, t, k, l, m
<1>6. Holds(cut, j.packets, q, j.expected)
  BY <1>4, MainFields
<1>. HIDE DEF cut
<1>7. Buffer(cut, low) /\ cut.pending = q /\ Cardinality(cut.packets) = c
  BY <1>5, <1>6 DEF Holds, Buffer
<1>8. PICK g : /\ Skipped(cut, m) = g[m]
               /\ g[0] = cut
               /\ \A i \in 1..m : g[i] = SkipOldest(g[i - 1])
  <2>1. m \in Nat
    BY <1>3
  <2>2. PICK g : SkipRun(g, Skipped(cut, m), cut, m)
    BY <2>1, SkipSteps
  <2>. QED  BY <2>2, Zenon DEF SkipRun
<1>. DEFINE Good(i) == Buffer(g[i], low) /\ g[i].pending = q /\ Cardinality(g[i].packets) = c - i
            G == {i \in 0..m : Good(i)}
<1>. HIDE DEF c
<1>9. ASSUME NEW i \in 1..m, Good(i - 1) PROVE Good(i)
  <2>1. i \in Nat /\ i >= 1 /\ i <= c /\ Cardinality(g[i - 1].packets) = c - (i - 1)
    BY <1>1, <1>3, <1>9
  <2>2. g[i - 1].packets # {}
    <3>. SUFFICES ASSUME g[i - 1].packets = {} PROVE FALSE
      OBVIOUS
    <3>1. Cardinality(g[i - 1].packets) = 0
      BY FS_EmptySet
    <3>. QED  BY <1>1, <2>1, <3>1
  <2>. DEFINE b == g[i - 1]
  <2>3. g[i] = SkipOldest(b) /\ Buffer(b, low) /\ b.pending = q /\ b.packets # {}
    BY <1>8, <1>9, <2>2
  <2>4. Cardinality(b.packets) = c - (i - 1)
    BY <2>1
  <2>. HIDE DEF b
  <2>5. /\ Buffer(g[i], low) /\ g[i].pending = q
        /\ Cardinality(g[i].packets) = Cardinality(b.packets) - 1
    BY <2>3, SkipIs
  <2>6. (c - (i - 1)) - 1 = c - i
    BY <1>1, <2>1
  <2>. QED  BY <2>4, <2>5, <2>6
<1>10. Good(0)
  <2>1. c - 0 = c
    BY <1>1
  <2>. QED  BY <1>7, <1>8, <2>1
<1>. HIDE DEF Good
<1>11. 0 \in G /\ \A i \in 1..m : i - 1 \in G => i \in G
  <2>1. 0 \in G
    BY <1>3, <1>10
  <2>2. ASSUME NEW i \in 1..m, i - 1 \in G PROVE i \in G
    BY <1>9, <2>2
  <2>. QED  BY <2>1, <2>2
<1>12. m \in G
  <2>. HIDE DEF G
  <2>1. \A i \in 0..m : i \in G
    BY <1>3, <1>11, SL!SegmentInduction
  <2>. QED  BY <1>3, <2>1
<1>13. Good(m)
  BY <1>12
<1>. DEFINE d == DropOldest(j, n)
<1>14. Buffer(d, low) /\ d.pending = q /\ Cardinality(d.packets) = c - m
  BY <1>2, <1>8, <1>13 DEF Good
<1>. HIDE DEF d
<1>15. Buffered(d) = (c - m) + (l - k)
  BY <1>5, <1>14, BufferedIs DEF Much
<1>16. (c - m) + (l - k) = (c + l) - n
  BY <1>1, <1>3
<1>. QED  BY <1>1, <1>14, <1>15, <1>16 DEF d

\* What may be buffered at most.
MostSound == JitterTarget + TrimMargin

\* Too much latency is trimmed.
LEMMA TrimIs ==
  ASSUME NEW j, NEW low, Buffer(j, low)
  PROVE  Buffer(Trim(j), low) /\ Buffered(Trim(j)) <= MostSound
<1>1. JitterTarget \in Nat /\ TrimMargin \in Nat /\ Buffered(j) \in Nat
  BY AudioAssumption, BufferedIs
<1>2. CASE Buffered(j) <= JitterTarget + TrimMargin
  <2>1. Trim(j) = j
    BY <1>2, Zenon DEF Trim
  <2>. QED  BY <1>2, <2>1 DEF MostSound
<1>3. CASE ~(Buffered(j) <= JitterTarget + TrimMargin)
  <2>. DEFINE n == Buffered(j) - JitterTarget  d == DropOldest(j, n)  v == d.pendingTime
  <2>1. Trim(j) = [d EXCEPT !.jumped = TRUE, !.playhead = v]
    BY <1>3, Zenon DEF Trim
  <2>2. n \in 0..Buffered(j) /\ Buffered(j) - n = JitterTarget
    BY <1>1, <1>3
  <2>. HIDE DEF n
  <2>3. Buffer(d, low) /\ Buffered(d) = JitterTarget
    BY <2>2, DropIs
  <2>. HIDE DEF d, v
  <2>4. Same(Trim(j), d)
    <3>1. Shape(d)
      BY <2>3 DEF Buffer
    <3>2. Same([d EXCEPT !.jumped = TRUE, !.playhead = v], d)
      BY <3>1, SideFields
    <3>. QED  BY <2>1, <3>2, Zenon
  <2>5. Buffer(Trim(j), low) /\ Buffered(Trim(j)) = Buffered(d)
    BY <2>3, <2>4 DEF Same, Buffer, Buffered
  <2>6. JitterTarget <= MostSound
    BY <1>1 DEF MostSound
  <2>. QED  BY <2>3, <2>5, <2>6
<1>. QED  BY <1>2, <1>3

\* A packet is put into the buffer.
LEMMA InsertIs ==
  ASSUME NEW j, NEW low, Buffer(j, low), Buffered(j) <= MostSound, NEW p \in Sounds
  PROVE  Buffer(Insert(j, p), low) /\ Buffered(Insert(j, p)) <= MostSound
<1>. DEFINE w == IF j.waited = None THEN 0 ELSE j.waited
            x == IF j.expected = None THEN p.seq ELSE j.expected
            first == [j EXCEPT !.waited = w, !.expected = x]
            P == IF At(j, p.seq) = {} THEN j.packets \cup {p} ELSE j.packets
            more == [first EXCEPT !.quiet = 0, !.packets = P]
<1>1. Insert(j, p) = IF p.seq < first.expected THEN first ELSE Trim(more)
  BY Zenon DEF Insert
<1>2. Shape(j) /\ Steady(j.packets, j.pending, j.expected, low) /\ p.seq \in Nat
  BY SoundIs DEF Buffer
<1>3. Steady(j.packets, j.pending, x, low) /\ low < x
  <2>1. CASE j.expected = None
    <3>1. Steady(j.packets, j.pending, p.seq, low) /\ low < p.seq
      BY <1>2, <2>1, FirstSets
    <3>. QED  BY <2>1, <3>1
  <2>2. CASE j.expected # None
    <3>1. low < j.expected
      BY <1>2, <2>2 DEF Steady
    <3>. QED  BY <1>2, <2>2, <3>1
  <2>. QED  BY <2>1, <2>2
<1>4. (~(p.seq < x)) => Steady(P, j.pending, x, low)
  <2>. SUFFICES ASSUME ~(p.seq < x) PROVE Steady(P, j.pending, x, low)
    OBVIOUS
  <2>1. x \in Int /\ p.seq >= x
    <3>1. x \in Int
      BY <1>3 DEF Steady
    <3>. HIDE DEF x
    <3>. QED  BY <1>2, <3>1
  <2>2. CASE At(j, p.seq) = {}
    <3>1. \A r \in j.packets : r.seq # p.seq
      BY <2>2 DEF At
    <3>. HIDE DEF x
    <3>2. Steady(j.packets \cup {p}, j.pending, x, low)
      BY <1>3, <2>1, <3>1, AddKeeps
    <3>. QED  BY <2>2, <3>2
  <2>3. CASE At(j, p.seq) # {}
    BY <1>3, <2>3
  <2>. QED  BY <2>2, <2>3
<1>. HIDE DEF w, x, P
<1>5. Holds(first, j.packets, j.pending, x)
  BY <1>2, MainFields
<1>. HIDE DEF first
<1>6. Buffer(first, low) /\ Buffered(first) = Buffered(j) /\ first.expected = x /\ Shape(first)
  BY <1>3, <1>5 DEF Holds, Buffer, Buffered
<1>7. CASE p.seq < x
  <2>1. Insert(j, p) = first
    BY <1>1, <1>6, <1>7, Zenon
  <2>. QED  BY <1>6, <2>1
<1>8. CASE ~(p.seq < x)
  <2>1. Insert(j, p) = Trim(more)
    BY <1>1, <1>6, <1>8, Zenon
  <2>2. Holds(more, P, first.pending, first.expected)
    BY <1>6, MainFields
  <2>. HIDE DEF more
  <2>3. Buffer(more, low)
    BY <1>4, <1>5, <1>6, <1>8, <2>2 DEF Holds, Buffer
  <2>. QED  BY <2>1, <2>3, TrimIs
<1>. QED  BY <1>7, <1>8

\* The packets that follow each other become pending: nothing is gained or lost.
LEMMA PrimeIs ==
  ASSUME NEW j, NEW low, Buffer(j, low)
  PROVE  Buffer(Prime(j), low) /\ Buffered(Prime(j)) = Buffered(j)
<1>. DEFINE m == Cardinality(j.packets)
<1>1. Prime(j) = IF Buffered(j) >= JitterTarget THEN j ELSE Primed(j, m)
  BY Zenon DEF Prime, Primed
<1>2. m \in Nat
  BY BufferedIs
<1>. HIDE DEF m
<1>3. PICK g : /\ Primed(j, m) = g[m]
               /\ g[0] = j
               /\ \A i \in 1..m : g[i] = PrimeNext(g[i - 1])
  <2>1. PICK g : PrimeRun(g, Primed(j, m), j, m)
    BY <1>2, PrimeSteps
  <2>. QED  BY <2>1, Zenon DEF PrimeRun
<1>. DEFINE Good(i) == Buffer(g[i], low) /\ Buffered(g[i]) = Buffered(j)
            G == {i \in 0..m : Good(i)}
<1>4. ASSUME NEW i \in 1..m, Good(i - 1) PROVE Good(i)
  <2>. DEFINE b == g[i - 1]
  <2>1. g[i] = PrimeNext(b) /\ Buffer(b, low) /\ Buffered(b) = Buffered(j)
    BY <1>3, <1>4
  <2>. HIDE DEF b
  <2>2. CASE At(b, b.expected) = {}
    <3>1. PrimeNext(b) = b
      BY <2>2, Zenon DEF PrimeNext
    <3>. QED  BY <2>1, <3>1
  <2>3. CASE At(b, b.expected) # {}
    <3>1. PrimeNext(b) = AppendPacket(b, Oldest(b)) /\ b.packets # {}
      BY <2>3, Zenon DEF PrimeNext, At
    <3>2. Buffer(g[i], low) /\ Buffered(g[i]) = Buffered(b)
      BY <2>1, <3>1, AppendIs
    <3>. QED  BY <2>1, <3>2
  <2>. QED  BY <2>2, <2>3
<1>5. Good(0)
  BY <1>3
<1>. HIDE DEF Good
<1>6. 0 \in G /\ \A i \in 1..m : i - 1 \in G => i \in G
  <2>1. 0 \in G
    BY <1>2, <1>5
  <2>2. ASSUME NEW i \in 1..m, i - 1 \in G PROVE i \in G
    BY <1>4, <2>2
  <2>. QED  BY <2>1, <2>2
<1>7. m \in G
  <2>. HIDE DEF G
  <2>1. \A i \in 0..m : i \in G
    BY <1>2, <1>6, PL!SegmentInduction
  <2>. QED  BY <1>2, <2>1
<1>8. Buffer(Primed(j, m), low) /\ Buffered(Primed(j, m)) = Buffered(j)
  BY <1>3, <1>7 DEF Good
<1>. QED  BY <1>1, <1>8

\* The playback starts.
LEMMA MaybeStartIs ==
  ASSUME NEW j, NEW low, Buffer(j, low)
  PROVE  Buffer(MaybeStart(j), low) /\ Buffered(MaybeStart(j)) = Buffered(j)
<1>. DEFINE b == Prime(j)  v == b.pendingTime
            k == [b EXCEPT !.started = TRUE, !.playhead = v]
<1>1. MaybeStart(j) \in {j, b, k}
  <2>1. MaybeStart(j) = IF j.started THEN j
                        ELSE IF b.waited >= JitterTarget /\ Buffered(b) >= JitterTarget THEN k ELSE b
    BY Zenon DEF MaybeStart
  <2>. HIDE DEF b, k
  <2>. QED  BY <2>1
<1>2. Buffer(b, low) /\ Buffered(b) = Buffered(j)
  BY PrimeIs
<1>. HIDE DEF b, v
<1>3. Same(k, b)
  <2>1. Shape(b)
    BY <1>2 DEF Buffer
  <2>. QED  BY <2>1, SideFields
<1>. HIDE DEF k
<1>4. Buffer(k, low) /\ Buffered(k) = Buffered(b)
  BY <1>2, <1>3 DEF Same, Buffer, Buffered
<1>. QED  BY <1>1, <1>2, <1>4

\* A number that is passed over: a silent unit becomes pending.
Gap(k, low) == Shape(k) /\ k.pending = <<Silence>> /\ Steady(k.packets, <<>>, k.expected, low)

\* The next packet becomes pending, or a silent unit for one that is missing.
LEMMA LoadIs ==
  ASSUME NEW j, NEW low, Buffer(j, low), j.pending = <<>>
  PROVE  \/ Buffer(Load(j), low) /\ Buffered(Load(j)) = Buffered(j)
         \/ Gap(Load(j), low) /\ Load(j).packets = j.packets
<1>. DEFINE k == Load(j)  x == j.expected + 1
            t == IF j.pendingTime # None THEN j.pendingTime + 1
                 ELSE IF j.playhead # None THEN j.playhead + 1 ELSE None
            gap == [j EXCEPT !.expected = x, !.pending = <<Silence>>, !.pendingTime = t]
<1>1. \/ k = j
      \/ j.packets # {} /\ k = AppendPacket(j, Oldest(j))
      \/ j.packets # {} /\ At(j, j.expected) = {} /\ k = gap
  BY Zenon DEF Load
<1>. HIDE DEF t
<1>2. CASE k = j
  BY <1>2
<1>3. CASE j.packets # {} /\ k = AppendPacket(j, Oldest(j))
  BY <1>3, AppendIs
<1>4. CASE j.packets # {} /\ At(j, j.expected) = {} /\ k = gap
  <2>1. Shape(j) /\ Steady(j.packets, <<>>, j.expected, low)
    BY DEF Buffer
  <2>2. Steady(j.packets, <<>>, x, low)
    <3>1. \A r \in j.packets : r.seq # j.expected
      BY <1>4 DEF At
    <3>. QED  BY <1>4, <2>1, <3>1, GapKeeps
  <2>. HIDE DEF x
  <2>3. Holds(gap, j.packets, <<Silence>>, x)
    BY <2>1, MainFields
  <2>. HIDE DEF gap, k
  <2>4. Gap(k, low) /\ k.packets = j.packets
    BY <1>4, <2>2, <2>3 DEF Holds, Gap
  <2>. QED  BY <2>4 DEF k
<1>. QED  BY <1>1, <1>2, <1>3, <1>4

\* What is being played: the buffer after it, and the sounds that came from packets.
Playing(f) == \E a, b, c, d : f = [jitter |-> a, played |-> b, real |-> c, starved |-> d]

\* The number of the last sound, when low was that of the one before.
LowAfter(real, low) == IF real = <<>> THEN low ELSE real[Len(real)].seq

Sounding(f, low, most) ==
    /\ Playing(f)
    /\ f.real \in Seq(Sounds) /\ Ascending(f.real) /\ \A i \in 1..Len(f.real) : low < f.real[i].seq
    /\ LowAfter(f.real, low) \in Int /\ low <= LowAfter(f.real, low)
    /\ Buffer(f.jitter, LowAfter(f.real, low))
    /\ Buffered(f.jitter) <= most

\* Another sound is played.
LEMMA MoreSounds ==
  ASSUME NEW q \in Seq(Sounds), NEW low \in Int, Ascending(q), \A i \in 1..Len(q) : low < q[i].seq,
         low <= LowAfter(q, low), NEW p \in Sounds, LowAfter(q, low) < p.seq
  PROVE  LET a == Append(q, p)
         IN  /\ a \in Seq(Sounds) /\ Ascending(a) /\ \A i \in 1..Len(a) : low < a[i].seq
             /\ LowAfter(a, low) = p.seq
<1>. DEFINE n == Len(q)  a == Append(q, p)
<1>1. /\ a \in Seq(Sounds) /\ Len(a) = n + 1 /\ n \in Nat
      /\ \A i \in 1..n : a[i] = q[i] /\ q[i].seq \in Nat
      /\ a[n + 1] = p /\ p.seq \in Nat
  <2>1. \A i \in 1..Len(q) : q[i] \in Sounds
    BY ElementOfSeq
  <2>. QED  BY <2>1, SoundIs
<1>2. n > 0 => LowAfter(q, low) = q[n].seq
  <2>1. n > 0 => q # <<>>
    OBVIOUS
  <2>. QED  BY <2>1 DEF LowAfter
<1>3. \A i, k \in 1..n : i < k => q[i].seq < q[k].seq
  BY DEF Ascending
<1>4. n = 0 => LowAfter(q, low) = low
  <2>1. n = 0 => q = <<>>
    BY EmptySeq
  <2>. QED  BY <2>1 DEF LowAfter
<1>. HIDE DEF a, n
<1>5. a # <<>>
  BY <1>1
<1>6. \A i \in 1..n : q[i].seq < p.seq
  <2>. SUFFICES ASSUME NEW i \in 1..n PROVE q[i].seq < p.seq
    OBVIOUS
  <2>1. n > 0 /\ n \in 1..n /\ LowAfter(q, low) = q[n].seq
    BY <1>1, <1>2
  <2>2. CASE i = n
    BY <2>1, <2>2
  <2>3. CASE i # n
    <3>1. i < n
      BY <1>1, <2>3
    <3>2. q[i].seq < q[n].seq
      BY <1>3, <2>1, <3>1
    <3>3. q[i].seq \in Nat /\ q[n].seq \in Nat
      BY <1>1, <2>1
    <3>. QED  BY <1>1, <2>1, <3>2, <3>3
  <2>. QED  BY <2>2, <2>3
<1>7. Ascending(a)
  <2>. SUFFICES ASSUME NEW i \in 1..(n + 1), NEW k \in 1..(n + 1), i < k PROVE a[i].seq < a[k].seq
    BY <1>1 DEF Ascending
  <2>1. i \in 1..n
    BY <1>1
  <2>2. CASE k = n + 1
    BY <1>1, <1>6, <2>1, <2>2
  <2>3. CASE k # n + 1
    <3>1. k \in 1..n
      BY <1>1, <2>3
    <3>. QED  BY <1>1, <1>3, <2>1, <3>1
  <2>. QED  BY <2>2, <2>3
<1>8. ASSUME NEW i \in 1..(n + 1) PROVE low < a[i].seq
  <2>1. CASE i = n + 1
    <3>1. LowAfter(q, low) \in Int
      <4>1. CASE n > 0
        <5>1. n \in 1..n
          BY <1>1, <4>1
        <5>. QED  BY <1>1, <1>2, <4>1, <5>1
      <4>2. CASE n = 0
        BY <1>4, <4>2
      <4>. QED  BY <1>1, <4>1, <4>2
    <3>. QED  BY <1>1, <2>1, <3>1
  <2>2. CASE i # n + 1
    <3>1. i \in 1..n
      BY <1>1, <2>2
    <3>2. low < q[i].seq
      BY <3>1 DEF n
    <3>. QED  BY <1>1, <3>1, <3>2
  <2>. QED  BY <2>1, <2>2
<1>9. LowAfter(a, low) = p.seq
  BY <1>1, <1>5 DEF LowAfter
<1>. QED  BY <1>1, <1>7, <1>8, <1>9 DEF a

\* The rest of a sequence.
LEMMA RestIs ==
  ASSUME NEW q \in Seq(Sounds), q # <<>>
  PROVE  /\ Tail(q) = SubSeq(q, 1 + 1, Len(q)) /\ Head(q) = q[1] /\ 1 \in 0..Len(q) /\ 1 \in 1..Len(q)
<1>. QED  BY HeadTailProperties

\* Playing a unit from a buffer that has one: the pending sounds lose their first.
LEMMA UnitFields ==
  ASSUME NEW j, Shape(j), NEW t, NEW v
  PROVE  Holds([j EXCEPT !.pending = Tail(j.pending), !.pendingTime = t, !.playhead = v],
               j.packets, Tail(j.pending), j.expected)
<1>. DEFINE q == Tail(j.pending)
<1>. HIDE DEF q
<1>1. Holds([j EXCEPT !.pending = q, !.pendingTime = t, !.playhead = v], j.packets, q, j.expected)
  BY MainFields
<1>. QED  BY <1>1 DEF q

\* One unit is played.
LEMMA PlayUnitIs ==
  ASSUME NEW f, NEW low \in Int, NEW most, Sounding(f, low, most), most \in Int
  PROVE  Sounding(PlayUnit(f), low, most)
<1>. DEFINE j == IF f.jitter.pending = <<>> THEN Load(f.jitter) ELSE f.jitter
            t == IF j.pendingTime = None THEN None ELSE j.pendingTime + 1
            v == IF j.playhead = None THEN t ELSE j.playhead
            k == [j EXCEPT !.pending = Tail(j.pending), !.pendingTime = t, !.playhead = v]
            y == LowAfter(f.real, low)
            p == Head(j.pending)
            r == IF p = Silence THEN f.real ELSE Append(f.real, p)
            s == Append(f.played, p)
<1>1. /\ j.pending = <<>> => PlayUnit(f) = [f EXCEPT !.jitter = j, !.starved = TRUE]
      /\ j.pending # <<>> =>
           PlayUnit(f) = [jitter |-> k, played |-> s, real |-> r, starved |-> FALSE]
  BY Zenon DEF PlayUnit
<1>2. \/ Buffer(j, y) /\ Buffered(j) = Buffered(f.jitter)
      \/ Gap(j, y) /\ j.packets = f.jitter.packets
  <2>. DEFINE i == f.jitter
  <2>1. Buffer(i, y)
    BY DEF Sounding
  <2>. HIDE DEF i, y
  <2>2. i.pending # <<>> => Buffer(i, y) /\ Buffered(i) = Buffered(i)
    BY <2>1
  <2>3. i.pending = <<>> => \/ Buffer(Load(i), y) /\ Buffered(Load(i)) = Buffered(i)
                            \/ Gap(Load(i), y) /\ Load(i).packets = i.packets
    BY <2>1, LoadIs
  <2>. QED  BY <2>2, <2>3, Zenon DEF i
<1>3. /\ f.real \in Seq(Sounds) /\ Ascending(f.real) /\ \A i \in 1..Len(f.real) : low < f.real[i].seq
      /\ y \in Int /\ low <= y /\ Buffered(f.jitter) <= most /\ Buffered(f.jitter) \in Int
      /\ Buffered(f.jitter) >= Cardinality(f.jitter.packets) /\ Cardinality(f.jitter.packets) \in Int
  <2>1. /\ Cardinality(f.jitter.packets) \in Nat /\ Len(f.jitter.pending) \in Nat
        /\ Buffered(f.jitter) = Cardinality(f.jitter.packets) + Len(f.jitter.pending)
    BY BufferedIs DEF Sounding, Buffered
  <2>2. Buffered(f.jitter) \in Int /\ Buffered(f.jitter) >= Cardinality(f.jitter.packets)
    BY <2>1
  <2>. QED  BY <2>1, <2>2 DEF Sounding
<1>4. PICK a, b, c, d : f = [jitter |-> a, played |-> b, real |-> c, starved |-> d]
  BY Zenon DEF Sounding, Playing
<1>. HIDE DEF j, t, v
<1>5. CASE j.pending = <<>>
  <2>1. Buffer(j, y) /\ Buffered(j) = Buffered(f.jitter)
    <3>1. ~Gap(j, y)
      <4>1. <<Silence>> # <<>>
        OBVIOUS
      <4>. QED  BY <1>5, <4>1, Zenon DEF Gap
    <3>. QED  BY <1>2, <3>1
  <2>2. PlayUnit(f) = [jitter |-> j, played |-> b, real |-> c, starved |-> TRUE]
    BY <1>1, <1>4, <1>5
  <2>3. f.real = c
    BY <1>4
  <2>4. Playing(PlayUnit(f)) /\ PlayUnit(f).jitter = j /\ PlayUnit(f).real = f.real
    <3>1. Playing(PlayUnit(f))
      BY <2>2, Zenon DEF Playing
    <3>. QED  BY <2>2, <2>3, <3>1
  <2>. QED  BY <1>3, <2>1, <2>4 DEF Sounding
<1>6. CASE j.pending # <<>>
  <2>1. /\ PlayUnit(f).jitter = k /\ PlayUnit(f).real = r /\ Playing(PlayUnit(f))
    <3>. HIDE DEF k, s, r
    <3>1. PlayUnit(f) = [jitter |-> k, played |-> s, real |-> r, starved |-> FALSE]
      BY <1>1, <1>6
    <3>2. Playing(PlayUnit(f))
      BY <3>1, Zenon DEF Playing
    <3>. QED  BY <3>1, <3>2
  <2>2. CASE Buffer(j, y) /\ Buffered(j) = Buffered(f.jitter)
    <3>1. Shape(j) /\ Steady(j.packets, j.pending, j.expected, y) /\ j.pending \in Seq(Sounds)
      BY <2>2 DEF Buffer, Steady
    <3>. DEFINE q == j.pending
    <3>2. Tail(q) = SubSeq(q, 1 + 1, Len(q)) /\ p = q[1] /\ 1 \in 0..Len(q)
      BY <1>6, <3>1, RestIs
    <3>3. /\ Steady(j.packets, SubSeq(q, 1 + 1, Len(q)), j.expected, q[1].seq)
          /\ Len(SubSeq(q, 1 + 1, Len(q))) = Len(q) - 1 /\ Len(q) \in Nat
          /\ y < q[1].seq /\ q[1] \in Sounds
      BY <3>1, <3>2, CutKeeps
    <3>4. /\ Steady(j.packets, Tail(q), j.expected, p.seq) /\ Len(Tail(q)) = Len(q) - 1
          /\ y < p.seq /\ p \in Sounds
      BY <3>2, <3>3
    <3>5. Holds(k, j.packets, Tail(q), j.expected)
      BY <3>1, UnitFields
    <3>. HIDE DEF k, p
    <3>6. Buffer(k, p.seq) /\ k.packets = j.packets /\ Len(k.pending) = Len(q) - 1
      BY <3>4, <3>5 DEF Buffer, Holds
    <3>7. Buffered(k) <= Buffered(j)
      <4>1. Cardinality(j.packets) \in Nat /\ Buffered(j) = Cardinality(j.packets) + Len(q)
        BY <2>2, BufferedIs DEF Buffered
      <4>2. Buffered(k) = Cardinality(j.packets) + (Len(q) - 1)
        BY <3>6 DEF Buffered
      <4>. QED  BY <3>3, <4>1, <4>2
    <3>8. Buffered(k) \in Int
      BY <3>6, BufferedIs
    <3>9. r = Append(f.real, p) /\ p.seq \in Nat
      BY <3>4, SoundIs
    <3>10. /\ r \in Seq(Sounds) /\ Ascending(r) /\ \A i \in 1..Len(r) : low < r[i].seq
           /\ LowAfter(r, low) = p.seq
      <4>. DEFINE w == f.real
      <4>1. /\ w \in Seq(Sounds) /\ Ascending(w) /\ \A i \in 1..Len(w) : low < w[i].seq
            /\ low <= LowAfter(w, low) /\ LowAfter(w, low) < p.seq
        BY <1>3, <3>4
      <4>. HIDE DEF w
      <4>2. /\ Append(w, p) \in Seq(Sounds) /\ Ascending(Append(w, p))
            /\ \A i \in 1..Len(Append(w, p)) : low < Append(w, p)[i].seq
            /\ LowAfter(Append(w, p), low) = p.seq
        BY <3>4, <4>1, MoreSounds
      <4>3. r = Append(w, p)
        BY <3>9 DEF w
      <4>. HIDE DEF r
      <4>. QED  BY <4>2, <4>3, Zenon
    <3>11. Buffered(k) <= most /\ low <= p.seq /\ p.seq \in Int
      BY <1>3, <2>2, <3>4, <3>7, <3>8, <3>9
    <3>. HIDE DEF r
    <3>. QED  BY <2>1, <3>6, <3>10, <3>11 DEF Sounding
  <2>3. CASE Gap(j, y) /\ j.packets = f.jitter.packets
    <3>1. Shape(j) /\ j.pending = <<Silence>> /\ Steady(j.packets, <<>>, j.expected, y)
      BY <2>3 DEF Gap
    <3>2. Head(<<Silence>>) = Silence /\ Tail(<<Silence>>) = <<>>
      OBVIOUS
    <3>3. p = Silence /\ r = f.real /\ Tail(j.pending) = <<>>
      BY <3>1, <3>2
    <3>4. Holds(k, j.packets, <<>>, j.expected)
      BY <3>1, <3>3, UnitFields
    <3>. HIDE DEF k, r, p
    <3>5. Buffer(k, y) /\ k.packets = f.jitter.packets /\ k.pending = <<>>
      BY <2>3, <3>1, <3>4 DEF Buffer, Holds
    <3>6. Buffered(k) = Cardinality(f.jitter.packets)
      <4>1. Len(<<>>) = 0 /\ Cardinality(f.jitter.packets) + 0 = Cardinality(f.jitter.packets)
        BY <1>3
      <4>. QED  BY <3>5, <4>1 DEF Buffered
    <3>7. Buffered(k) <= most
      BY <1>3, <3>6
    <3>. HIDE DEF y
    <3>8. y = LowAfter(f.real, low)
      BY DEF y
    <3>. QED  BY <1>3, <2>1, <3>3, <3>5, <3>7, <3>8 DEF Sounding
  <2>. QED  BY <1>2, <2>2, <2>3
<1>. QED  BY <1>5, <1>6

\* A write to the device: what is left, and what was played.
LEMMA FillIs ==
  ASSUME NEW j, NEW low \in Int, Buffer(j, low), NEW most \in Int, Buffered(j) <= most, NEW n \in Nat
  PROVE  Sounding(Fill(j, n), low, most)
<1>. DEFINE v == IF j.playhead = None THEN j.pendingTime ELSE j.playhead
            start == [j EXCEPT !.jumped = FALSE, !.playhead = v]
            first == [jitter |-> start, played |-> <<>>, real |-> <<>>, starved |-> FALSE]
            f == Played(first, n)
            head == f.jitter.playhead
            end == IF head = None THEN None ELSE head + Len(f.played)
            still == [j EXCEPT !.jumped = FALSE]
            none == [jitter |-> still, played |-> <<>>, real |-> <<>>, starved |-> FALSE]
            last == [f.jitter EXCEPT !.playhead = end]
<1>1. Fill(j, n) = IF ~j.started THEN none ELSE [f EXCEPT !.jitter = last]
  BY Zenon DEF Fill, Played
<1>2. Shape(j)
  BY DEF Buffer
<1>3. ASSUME NEW k, Same(k, j)
      PROVE  Sounding([jitter |-> k, played |-> <<>>, real |-> <<>>, starved |-> FALSE], low, most)
  <2>. DEFINE a == [jitter |-> k, played |-> <<>>, real |-> <<>>, starved |-> FALSE]
  <2>1. Buffer(k, low) /\ Buffered(k) = Buffered(j)
    BY <1>3 DEF Same, Buffer, Buffered
  <2>2. Playing(a)
    BY Zenon DEF Playing
  <2>3. a.jitter = k /\ a.real = <<>>
    OBVIOUS
  <2>4. <<>> \in Seq(Sounds) /\ Ascending(<<>>) /\ \A i \in 1..Len(<<>>) : low < <<>>[i].seq
    BY DEF Ascending
  <2>5. LowAfter(<<>>, low) = low
    BY DEF LowAfter
  <2>. HIDE DEF a
  <2>6. Sounding(a, low, most)
    BY <2>1, <2>2, <2>3, <2>4, <2>5 DEF Sounding
  <2>. QED  BY <2>6 DEF a
<1>. HIDE DEF v
<1>4. Same(start, j) /\ Same(still, j)
  BY <1>2, SideFields
<1>. HIDE DEF start, still
<1>5. Sounding(first, low, most) /\ Sounding(none, low, most)
  BY <1>3, <1>4
<1>. HIDE DEF first, none
<1>6. PICK g : /\ Played(first, n) = g[n]
               /\ g[0] = first
               /\ \A i \in 1..n : g[i] = PlayUnit(g[i - 1])
  <2>1. PICK g : PlayRun(g, Played(first, n), first, n)
    BY PlaySteps
  <2>. QED  BY <2>1, Zenon DEF PlayRun
<1>. DEFINE G == {i \in 0..n : Sounding(g[i], low, most)}
<1>7. 0 \in G /\ \A i \in 1..n : i - 1 \in G => i \in G
  <2>1. 0 \in G
    BY <1>5, <1>6
  <2>2. ASSUME NEW i \in 1..n, i - 1 \in G PROVE i \in G
    <3>1. Sounding(g[i - 1], low, most)
      BY <2>2
    <3>2. Sounding(PlayUnit(g[i - 1]), low, most)
      BY <3>1, PlayUnitIs
    <3>. QED  BY <1>6, <3>2
  <2>. QED  BY <2>1, <2>2
<1>8. n \in G
  <2>. HIDE DEF G
  <2>1. \A i \in 0..n : i \in G
    BY <1>7, FL!SegmentInduction
  <2>. QED  BY <2>1
<1>9. Sounding(f, low, most)
  BY <1>6, <1>8
<1>. HIDE DEF f, end
<1>10. Sounding([f EXCEPT !.jitter = last], low, most)
  <2>1. PICK a, b, c, d : f = [jitter |-> a, played |-> b, real |-> c, starved |-> d]
    BY <1>9, Zenon DEF Sounding, Playing
  <2>2. Same(last, f.jitter)
    <3>1. Shape(f.jitter)
      BY <1>9 DEF Sounding, Buffer
    <3>. QED  BY <3>1, SideFields
  <2>. HIDE DEF last
  <2>. DEFINE z == [jitter |-> last, played |-> b, real |-> c, starved |-> d]
  <2>3. [f EXCEPT !.jitter = last] = z
    BY <2>1
  <2>4. Playing(z)
    BY Zenon DEF Playing
  <2>5. z.jitter = last /\ z.real = f.real
    BY <2>1
  <2>. HIDE DEF z
  <2>6. /\ \A x : Buffer(f.jitter, x) => Buffer(last, x)
        /\ Buffered(last) = Buffered(f.jitter)
    BY <2>2 DEF Same, Buffer, Buffered
  <2>7. Sounding(z, low, most)
    BY <1>9, <2>4, <2>5, <2>6 DEF Sounding
  <2>. QED  BY <2>3, <2>7
<1>. QED  BY <1>1, <1>5, <1>10

\* A packet that waits for a session, and what a write may play again from before.
Waiters == [packet : Sounds, age : Int]
Heard == Sounds \cup {Silence}

\* The parts of the invariant.
SourceFits  == source \in [session : 1..AudioSessions, seq : Nat, time : Nat, skipped : Nat]
NetFits     == audioNet \in SUBSET Sounds /\ IsFiniteSet(audioNet) /\ Cardinality(audioNet) <= InFlight
IngressFits == /\ ingress \in [expected : Nat, startup : Seq(Waiters)]
               /\ Len(ingress.startup) <= StartupDepth
ChannelFits == channel \in Seq(Sounds) /\ Len(channel) <= ChannelDepth
JitterFits  == Buffer(jitter, Last(fill.played).seq) /\ Buffered(jitter) <= MostSound
Clock(m)    == \E a \in BOOLEAN, d \in 0..QuietAfter, f \in BOOLEAN : \E b, c, e :
                  m = [valid |-> a, submitted |-> b, audible |-> c, suspended |-> d, age |-> e,
                       matched |-> f]
Record(f)   == /\ \E a, b, c : f = [played |-> a, sessions |-> b, sounding |-> c]
               /\ f.played \in Seq(Heard) /\ f.played # <<>> /\ Ascending(f.played)

\* The invariant of the sound.
AudioInv ==
    /\ SourceFits /\ NetFits /\ IngressFits /\ ChannelFits /\ JitterFits
    /\ Clock(master) /\ Record(fill)

\* The last sound has a number.
LEMMA LastIs ==
  ASSUME NEW q \in Seq(Heard), q # <<>>
  PROVE  /\ Len(q) \in Nat \ {0} /\ Last(q) = q[Len(q)] /\ Last(q) \in Heard /\ Last(q).seq \in Int
         /\ Last(q).seq >= -1
<1>1. Len(q) \in Nat \ {0}
  BY EmptySeq
<1>2. Last(q) = q[Len(q)] /\ q[Len(q)] \in Heard
  BY <1>1, ElementOfSeq DEF Last
<1>3. \A p \in Heard : p.seq \in Int /\ p.seq >= -1
  BY SoundIs DEF Heard, Silence, None
<1>. QED  BY <1>1, <1>2, <1>3

\* The invariant has the type and the two properties of the playback.
LEMMA AudioImplies == AudioInv => AudioTypeOK /\ PlayedForward /\ NothingBehind
<1>. SUFFICES ASSUME AudioInv PROVE AudioTypeOK /\ PlayedForward /\ NothingBehind
  OBVIOUS
<1>1. SourceFits /\ NetFits /\ IngressFits /\ ChannelFits /\ JitterFits /\ Clock(master) /\ Record(fill)
  BY DEF AudioInv
<1>2. source.session \in 1..AudioSessions
  BY <1>1 DEF SourceFits
<1>3. Buffered(jitter) <= JitterTarget + TrimMargin
  BY <1>1 DEF JitterFits, MostSound
<1>4. master.valid \in BOOLEAN /\ master.matched \in BOOLEAN /\ master.suspended \in 0..QuietAfter
  <2>1. PICK a \in BOOLEAN, d \in 0..QuietAfter, f \in BOOLEAN : \E b, c, e :
           master = [valid |-> a, submitted |-> b, audible |-> c, suspended |-> d, age |-> e,
                     matched |-> f]
    BY <1>1, Zenon DEF Clock
  <2>2. master.valid = a /\ master.matched = f /\ master.suspended = d
    BY <2>1
  <2>. QED  BY <2>2, Zenon
<1>5. AudioTypeOK
  BY <1>1, <1>2, <1>3, <1>4, Zenon DEF AudioTypeOK, NetFits, IngressFits, ChannelFits
<1>6. PlayedForward
  <2>. DEFINE q == fill.played  n == Len(q)
  <2>1. q \in Seq(Heard) /\ Ascending(q) /\ n \in Nat
    BY <1>1 DEF Record
  <2>2. \A i \in 1..n, k \in 1..n : i < k => q[i].seq < q[k].seq
    BY <2>1 DEF Ascending
  <2>. HIDE DEF n
  <2>3. \A i \in 1..(n - 1) : i \in 1..n /\ i + 1 \in 1..n /\ i < i + 1
    BY <2>1
  <2>. HIDE DEF q
  <2>4. \A i \in 1..(n - 1) : q[i].seq < q[i + 1].seq
    BY <2>2, <2>3
  <2>. QED  BY <2>4, Zenon DEF PlayedForward, n, q
<1>7. NothingBehind
  BY <1>1 DEF JitterFits, Buffer, Steady, NothingBehind
<1>. QED  BY <1>5, <1>6, <1>7

\* A record of a clock.
LEMMA ClockMade ==
  ASSUME NEW a \in BOOLEAN, NEW b, NEW c, NEW d \in 0..QuietAfter, NEW e, NEW f \in BOOLEAN
  PROVE  Clock([valid |-> a, submitted |-> b, audible |-> c, suspended |-> d, age |-> e,
                matched |-> f])
<1>. QED  BY Zenon DEF Clock

\* It holds when the playback begins.
LEMMA AudioInitially == AudioInit => AudioInv
<1>. SUFFICES ASSUME AudioInit PROVE AudioInv
  OBVIOUS
<1>1. /\ 1 \in 1..AudioSessions /\ StartupDepth \in Nat /\ InFlight \in Nat /\ ChannelDepth \in Nat
      /\ QuietAfter \in Nat /\ 0 \in 0..QuietAfter /\ MostSound \in Nat
  <2>1. /\ AudioSessions \in Nat \ {0} /\ StartupDepth \in Nat /\ InFlight \in Nat
        /\ ChannelDepth \in Nat /\ QuietAfter \in Nat /\ JitterTarget \in Nat /\ TrimMargin \in Nat
    BY AudioAssumption
  <2>. QED  BY <2>1 DEF MostSound
<1>2. SourceFits
  BY <1>1 DEF AudioInit, SourceFits
<1>3. NetFits
  BY <1>1, FS_EmptySet DEF AudioInit, NetFits
<1>4. IngressFits /\ ChannelFits
  BY <1>1 DEF AudioInit, IngressFits, ChannelFits
<1>5. Clock(master)
  <2>1. FALSE \in BOOLEAN
    OBVIOUS
  <2>2. master = [valid |-> FALSE, submitted |-> 0, audible |-> 0, suspended |-> 0, age |-> None,
                  matched |-> FALSE]
    BY DEF AudioInit
  <2>3. Clock([valid |-> FALSE, submitted |-> 0, audible |-> 0, suspended |-> 0, age |-> None,
               matched |-> FALSE])
    BY <1>1, <2>1, ClockMade, Zenon
  <2>. QED  BY <2>2, <2>3, Zenon
<1>6. fill.played = <<Silence>> /\ Record(fill)
  <2>1. fill.played = <<Silence>>
    BY DEF AudioInit
  <2>2. <<Silence>> \in Seq(Heard) /\ <<Silence>> # <<>> /\ Ascending(<<Silence>>)
    BY DEF Heard, Ascending
  <2>3. \E a, b, c : fill = [played |-> a, sessions |-> b, sounding |-> c]
    BY Zenon DEF AudioInit
  <2>. QED  BY <2>1, <2>2, <2>3, Zenon DEF Record
<1>7. JitterFits
  <2>1. Last(fill.played).seq = None
    <3>1. Last(<<Silence>>) = Silence /\ Silence.seq = None
      BY DEF Last, Silence
    <3>. QED  BY <1>6, <3>1
  <2>2. Shape(jitter)
    BY Zenon DEF AudioInit, Shape
  <2>3. jitter.packets = {} /\ jitter.pending = <<>> /\ jitter.expected = None
    BY DEF AudioInit
  <2>4. Steady({}, <<>>, None, None)
    BY FS_EmptySet DEF Steady, None, Ascending, Between
  <2>5. Cardinality({}) + Len(<<>>) = 0
    BY FS_EmptySet
  <2>. QED  BY <1>1, <2>1, <2>2, <2>3, <2>4, <2>5 DEF JitterFits, Buffer, Buffered
<1>. QED  BY <1>2, <1>3, <1>4, <1>5, <1>6, <1>7 DEF AudioInv

\* The sender.
LEMMA SoundSentKeeps == AudioInv /\ (AudioSent \/ AudioSkipped \/ AudioRestarted) => AudioInv'
<1>. SUFFICES ASSUME AudioInv, AudioSent \/ AudioSkipped \/ AudioRestarted PROVE AudioInv'
  OBVIOUS
<1>1. SourceFits /\ NetFits /\ IngressFits /\ ChannelFits /\ JitterFits /\ Clock(master) /\ Record(fill)
  BY DEF AudioInv
<1>2. PICK a \in 1..AudioSessions, b \in Nat, c \in Nat, d \in Nat :
         source = [session |-> a, seq |-> b, time |-> c, skipped |-> d]
  BY <1>1 DEF SourceFits
<1>3. UNCHANGED <<ingress, channel, jitter, master, fill>>
  BY DEF AudioSent, AudioSkipped, AudioRestarted
<1>4. AudioSessions \in Nat /\ InFlight \in Nat
  BY AudioAssumption
<1>5. SourceFits'
  <2>1. CASE AudioSent
    <3>1. source' = [session |-> a, seq |-> b + 1, time |-> c + 1, skipped |-> d]
      BY <1>2, <2>1 DEF AudioSent
    <3>2. b + 1 \in Nat /\ c + 1 \in Nat
      OBVIOUS
    <3>. QED  BY <3>1, <3>2 DEF SourceFits
  <2>2. CASE AudioSkipped
    <3>1. source' = [session |-> a, seq |-> b, time |-> c + 1, skipped |-> d + 1]
      BY <1>2, <2>2 DEF AudioSkipped
    <3>2. d + 1 \in Nat /\ c + 1 \in Nat
      OBVIOUS
    <3>. QED  BY <3>1, <3>2 DEF SourceFits
  <2>3. CASE AudioRestarted
    <3>1. source' = [session |-> a + 1, seq |-> 0, time |-> c, skipped |-> d] /\ source.session = a
      BY <1>2, <2>3 DEF AudioRestarted
    <3>2. a < AudioSessions
      BY <2>3, <3>1 DEF AudioRestarted
    <3>3. a + 1 \in 1..AudioSessions
      BY <1>4, <3>2
    <3>. QED  BY <3>1, <3>3 DEF SourceFits
  <2>. QED  BY <2>1, <2>2, <2>3
<1>6. NetFits'
  <2>1. CASE AudioSent
    <3>. DEFINE p == [session |-> source.session, seq |-> source.seq, time |-> source.time]
    <3>1. p \in Sounds
      BY <1>2 DEF Sounds
    <3>. HIDE DEF p
    <3>2. audioNet' = audioNet \cup {p} /\ Cardinality(audioNet) < InFlight
      BY <2>1 DEF AudioSent, p
    <3>3. /\ IsFiniteSet(audioNet) /\ audioNet \in SUBSET Sounds
          /\ Cardinality(audioNet) \in Nat
      BY <1>1, FS_CardinalityType DEF NetFits
    <3>4. /\ IsFiniteSet(audioNet \cup {p})
          /\ Cardinality(audioNet \cup {p}) \in {Cardinality(audioNet), Cardinality(audioNet) + 1}
      BY <3>3, FS_AddElement
    <3>5. Cardinality(audioNet \cup {p}) <= InFlight
      BY <1>4, <3>2, <3>3, <3>4
    <3>. QED  BY <3>1, <3>2, <3>3, <3>4, <3>5 DEF NetFits
  <2>2. CASE AudioSkipped \/ AudioRestarted
    <3>1. audioNet' = audioNet
      BY <2>2 DEF AudioSkipped, AudioRestarted
    <3>. QED  BY <1>1, <3>1 DEF NetFits
  <2>. QED  BY <2>1, <2>2
<1>7. IngressFits' /\ ChannelFits' /\ JitterFits' /\ Clock(master)' /\ Record(fill)'
  BY <1>1, <1>3 DEF IngressFits, ChannelFits, JitterFits
<1>. QED  BY <1>5, <1>6, <1>7 DEF AudioInv

\* A packet is lost.
LEMMA SoundLostKeeps == AudioInv /\ AudioLost => AudioInv'
<1>. SUFFICES ASSUME AudioInv, AudioLost PROVE AudioInv'
  OBVIOUS
<1>1. SourceFits /\ NetFits /\ IngressFits /\ ChannelFits /\ JitterFits /\ Clock(master) /\ Record(fill)
  BY DEF AudioInv
<1>2. UNCHANGED <<source, ingress, channel, jitter, master, fill>> /\ \E p \in audioNet : audioNet' = audioNet \ {p}
  BY DEF AudioLost
<1>3. ASSUME NEW p \in audioNet
      PROVE  /\ audioNet \ {p} \in SUBSET Sounds /\ IsFiniteSet(audioNet \ {p})
             /\ Cardinality(audioNet \ {p}) <= InFlight
  <2>1. /\ IsFiniteSet(audioNet) /\ audioNet \in SUBSET Sounds /\ Cardinality(audioNet) <= InFlight
        /\ Cardinality(audioNet) \in Nat /\ InFlight \in Nat
    BY <1>1, FS_CardinalityType, AudioAssumption DEF NetFits
  <2>2. IsFiniteSet(audioNet \ {p}) /\ Cardinality(audioNet \ {p}) = Cardinality(audioNet) - 1
    BY <2>1, FS_RemoveElement
  <2>. QED  BY <2>1, <2>2
<1>4. NetFits'
  BY <1>2, <1>3 DEF NetFits
<1>5. SourceFits' /\ IngressFits' /\ ChannelFits' /\ JitterFits' /\ Clock(master)' /\ Record(fill)'
  BY <1>1, <1>2 DEF SourceFits, IngressFits, ChannelFits, JitterFits
<1>. QED  BY <1>4, <1>5 DEF AudioInv

\* A packet is handed to the worker when there is room.
LEMMA DispatchIs ==
  ASSUME NEW q \in Seq(Sounds), Len(q) <= ChannelDepth, NEW p \in Sounds
  PROVE  Dispatch(q, p) \in Seq(Sounds) /\ Len(Dispatch(q, p)) <= ChannelDepth
<1>1. ChannelDepth \in Nat /\ Len(q) \in Nat
  BY AudioAssumption
<1>2. Append(q, p) \in Seq(Sounds) /\ Len(Append(q, p)) = Len(q) + 1
  OBVIOUS
<1>. QED  BY <1>1, <1>2 DEF Dispatch

\* The packets that have waited too long are dropped.
LEMMA YoungIs ==
  ASSUME NEW q \in Seq(Waiters)
  PROVE  YoungOnes(q) \in Seq(Waiters) /\ Len(YoungOnes(q)) <= Len(q)
<1>. DEFINE n == Len(q)
<1>1. n \in Nat /\ \A i \in 1..n : q[i] \in Waiters
  BY ElementOfSeq
<1>2. PICK g : /\ YoungOnes(q) = g[n]
               /\ g[0] = <<>>
               /\ \A m \in 1..n : g[m] = Unexpired(g[m - 1], q[m])
  <2>1. PICK g : YoungRun(g, YoungOnes(q), q)
    BY YoungSteps
  <2>. QED  BY <2>1, Zenon DEF YoungRun
<1>. HIDE DEF n
<1>. DEFINE Good(i) == g[i] \in Seq(Waiters) /\ Len(g[i]) <= i
            G == {i \in 0..n : Good(i)}
<1>3. ASSUME NEW i \in 1..n, Good(i - 1) PROVE Good(i)
  <2>. DEFINE b == g[i - 1]  e == q[i]
  <2>1. g[i] = Unexpired(b, e) /\ b \in Seq(Waiters) /\ Len(b) <= i - 1 /\ e \in Waiters /\ i \in Int
    BY <1>1, <1>2, <1>3
  <2>. HIDE DEF b, e
  <2>2. Append(b, e) \in Seq(Waiters) /\ Len(Append(b, e)) = Len(b) + 1 /\ Len(b) \in Nat
    BY <2>1
  <2>3. g[i] = Append(b, e) \/ g[i] = b
    BY <2>1, Zenon DEF Unexpired
  <2>. QED  BY <2>1, <2>2, <2>3
<1>4. Good(0)
  BY <1>2
<1>. HIDE DEF Good
<1>5. 0 \in G /\ \A i \in 1..n : i - 1 \in G => i \in G
  <2>1. 0 \in G
    BY <1>1, <1>4
  <2>2. ASSUME NEW i \in 1..n, i - 1 \in G PROVE i \in G
    BY <1>3, <2>2
  <2>. QED  BY <2>1, <2>2
<1>6. n \in G
  <2>. HIDE DEF G
  <2>1. \A i \in 0..n : i \in G
    BY <1>1, <1>5, YL!SegmentInduction
  <2>. QED  BY <1>1, <2>1
<1>. QED  BY <1>2, <1>6 DEF Good, n

\* Those of a session are handed to the worker.
LEMMA HandedIs ==
  ASSUME NEW s, NEW c \in Seq(Sounds), Len(c) <= ChannelDepth, NEW q \in Seq(Waiters)
  PROVE  HandedOver(s, c, q) \in Seq(Sounds) /\ Len(HandedOver(s, c, q)) <= ChannelDepth
<1>. DEFINE n == Len(q)
<1>1. n \in Nat /\ \A i \in 1..n : q[i].packet \in Sounds
  <2>1. n \in Nat /\ \A i \in 1..n : q[i] \in Waiters
    BY ElementOfSeq
  <2>2. \A e \in Waiters : e.packet \in Sounds
    BY DEF Waiters
  <2>. QED  BY <2>1, <2>2
<1>2. PICK g : /\ HandedOver(s, c, q) = g[n]
               /\ g[0] = c
               /\ \A m \in 1..n : g[m] = HandOver(s, g[m - 1], q[m])
  <2>1. PICK g : HandRun(g, HandedOver(s, c, q), s, c, q)
    BY HandSteps
  <2>. QED  BY <2>1, Zenon DEF HandRun
<1>. HIDE DEF n
<1>. DEFINE Good(i) == g[i] \in Seq(Sounds) /\ Len(g[i]) <= ChannelDepth
            G == {i \in 0..n : Good(i)}
<1>3. ASSUME NEW i \in 1..n, Good(i - 1) PROVE Good(i)
  <2>. DEFINE b == g[i - 1]  e == q[i]
  <2>1. g[i] = HandOver(s, b, e) /\ b \in Seq(Sounds) /\ Len(b) <= ChannelDepth /\ e.packet \in Sounds
    BY <1>1, <1>2, <1>3
  <2>. HIDE DEF b, e
  <2>2. g[i] = Dispatch(b, e.packet) \/ g[i] = b
    BY <2>1, Zenon DEF HandOver
  <2>3. Dispatch(b, e.packet) \in Seq(Sounds) /\ Len(Dispatch(b, e.packet)) <= ChannelDepth
    BY <2>1, DispatchIs
  <2>. QED  BY <2>1, <2>2, <2>3
<1>4. Good(0)
  BY <1>2
<1>. HIDE DEF Good
<1>5. 0 \in G /\ \A i \in 1..n : i - 1 \in G => i \in G
  <2>1. 0 \in G
    BY <1>1, <1>4
  <2>2. ASSUME NEW i \in 1..n, i - 1 \in G PROVE i \in G
    BY <1>3, <2>2
  <2>. QED  BY <2>1, <2>2
<1>6. n \in G
  <2>. HIDE DEF G
  <2>1. \A i \in 0..n : i \in G
    BY <1>1, <1>5, HL!SegmentInduction
  <2>. QED  BY <1>1, <2>1
<1>. QED  BY <1>2, <1>6 DEF Good, n

\* A packet comes: it waits for a session, is handed over or is dropped.
LEMMA AcceptKeeps == AudioInv /\ AcceptDatagram => AudioInv'
<1>. SUFFICES ASSUME AudioInv, AcceptDatagram PROVE AudioInv'
  OBVIOUS
<1>1. SourceFits /\ NetFits /\ IngressFits /\ ChannelFits /\ JitterFits /\ Clock(master) /\ Record(fill)
  BY DEF AudioInv
<1>2. PICK p \in audioNet, again \in BOOLEAN :
         /\ audioNet' = IF again THEN audioNet ELSE audioNet \ {p}
         /\ IF ingress.expected = 0
              THEN LET young == FoldLeft(Unexpired, <<>>, ingress.startup)
                       room  == IF Len(young) >= StartupDepth THEN Tail(young) ELSE young
                   IN  /\ ingress' = [ingress EXCEPT
                                        !.startup = Append(room, [packet |-> p, age |-> 0])]
                       /\ UNCHANGED channel
              ELSE /\ channel' = IF p.session = ingress.expected THEN Dispatch(channel, p)
                                                                  ELSE channel
                   /\ UNCHANGED ingress
         /\ UNCHANGED <<source, jitter, master, fill>>
  BY Zenon DEF AcceptDatagram
<1>3. p \in Sounds
  BY <1>1 DEF NetFits
<1>4. NetFits'
  <2>1. /\ IsFiniteSet(audioNet) /\ audioNet \in SUBSET Sounds /\ Cardinality(audioNet) <= InFlight
        /\ Cardinality(audioNet) \in Nat /\ InFlight \in Nat
    BY <1>1, FS_CardinalityType, AudioAssumption DEF NetFits
  <2>2. IsFiniteSet(audioNet \ {p}) /\ Cardinality(audioNet \ {p}) = Cardinality(audioNet) - 1
    BY <2>1, FS_RemoveElement
  <2>3. audioNet' = audioNet \/ audioNet' = audioNet \ {p}
    BY <1>2
  <2>4. Cardinality(audioNet \ {p}) <= InFlight /\ audioNet \ {p} \in SUBSET Sounds
    BY <2>1, <2>2
  <2>5. CASE audioNet' = audioNet
    BY <2>1, <2>5 DEF NetFits
  <2>6. CASE audioNet' = audioNet \ {p}
    BY <2>2, <2>4, <2>6 DEF NetFits
  <2>. QED  BY <2>3, <2>5, <2>6
<1>5. PICK x \in Nat, q \in Seq(Waiters) : ingress = [expected |-> x, startup |-> q]
  BY <1>1 DEF IngressFits
<1>6. ingress.expected = x /\ ingress.startup = q /\ Len(q) <= StartupDepth
  BY <1>1, <1>5 DEF IngressFits
<1>7. IngressFits' /\ ChannelFits'
  <2>1. CASE ingress.expected = 0
    <3>. DEFINE young == YoungOnes(q)
                room == IF Len(young) >= StartupDepth THEN Tail(young) ELSE young
                e == [packet |-> p, age |-> 0]
    <3>1. ingress' = [ingress EXCEPT !.startup = Append(room, e)] /\ channel' = channel
      BY <1>2, <1>6, <2>1, Zenon DEF YoungOnes
    <3>2. young \in Seq(Waiters) /\ Len(young) <= StartupDepth /\ Len(young) \in Nat
      <4>1. young \in Seq(Waiters) /\ Len(young) <= Len(q)
        BY YoungIs
      <4>. HIDE DEF young
      <4>2. StartupDepth \in Nat /\ Len(q) \in Nat /\ Len(young) \in Nat
        BY <4>1, AudioAssumption
      <4>. QED  BY <1>6, <4>1, <4>2
    <3>. HIDE DEF young
    <3>3. room \in Seq(Waiters) /\ Len(room) + 1 <= StartupDepth /\ Len(room) \in Nat
      <4>1. StartupDepth \in Nat /\ StartupDepth >= 1
        BY AudioAssumption
      <4>2. CASE Len(young) >= StartupDepth
        <5>1. young # <<>>
          BY <3>2, <4>1, <4>2
        <5>2. Tail(young) \in Seq(Waiters) /\ Len(Tail(young)) = Len(young) - 1
          BY <3>2, <5>1, HeadTailProperties
        <5>3. room = Tail(young)
          BY <4>2
        <5>. HIDE DEF room
        <5>. QED  BY <3>2, <4>1, <4>2, <5>2, <5>3
      <4>3. CASE ~(Len(young) >= StartupDepth)
        <5>1. room = young
          BY <4>3
        <5>. HIDE DEF room
        <5>. QED  BY <3>2, <4>1, <4>3, <5>1
      <4>. QED  BY <4>2, <4>3
    <3>4. e \in Waiters
      BY <1>3 DEF Waiters
    <3>. HIDE DEF room, e
    <3>. DEFINE r == Append(room, e)
    <3>5. r \in Seq(Waiters) /\ Len(r) <= StartupDepth
      BY <3>3, <3>4
    <3>. HIDE DEF r
    <3>6. ingress' = [expected |-> x, startup |-> r]
      BY <1>5, <3>1 DEF r
    <3>7. IngressFits'
      BY <3>5, <3>6 DEF IngressFits
    <3>. QED  BY <1>1, <3>1, <3>7 DEF ChannelFits
  <2>2. CASE ingress.expected # 0
    <3>1. ingress' = ingress /\ (channel' = channel \/ channel' = Dispatch(channel, p))
      BY <1>2, <2>2, Zenon
    <3>2. IngressFits'
      BY <1>1, <3>1 DEF IngressFits
    <3>3. ChannelFits'
      BY <1>1, <1>3, <3>1, DispatchIs DEF ChannelFits
    <3>. QED  BY <3>2, <3>3
  <2>. QED  BY <2>1, <2>2
<1>8. SourceFits' /\ JitterFits' /\ Clock(master)' /\ Record(fill)'
  BY <1>1, <1>2 DEF SourceFits, JitterFits
<1>. QED  BY <1>4, <1>7, <1>8 DEF AudioInv

\* The session is bound: what waited for it is handed over.
LEMMA BindKeeps == AudioInv /\ BindSession => AudioInv'
<1>. SUFFICES ASSUME AudioInv, BindSession PROVE AudioInv'
  OBVIOUS
<1>1. SourceFits /\ NetFits /\ IngressFits /\ ChannelFits /\ JitterFits /\ Clock(master) /\ Record(fill)
  BY DEF AudioInv
<1>2. PICK x \in Nat, q \in Seq(Waiters) : ingress = [expected |-> x, startup |-> q]
  BY <1>1 DEF IngressFits
<1>3. ingress.expected = x /\ ingress.startup = q
  BY <1>2
<1>4. UNCHANGED <<source, audioNet, jitter, master, fill>>
  BY DEF BindSession
<1>5. PICK s \in (x + 1)..source.session :
         /\ channel' = HandedOver(s, channel, q)
         /\ ingress' = [expected |-> s, startup |-> <<>>]
  BY <1>3, Zenon DEF BindSession, HandedOver
<1>6. ChannelFits'
  BY <1>1, <1>5, HandedIs DEF ChannelFits
<1>7. IngressFits'
  <2>1. s \in Nat
    <3>1. source.session \in Nat
      <4>1. AudioSessions \in Nat
        BY AudioAssumption
      <4>. QED  BY <1>1, <4>1 DEF SourceFits
    <3>. QED  BY <3>1
  <2>2. StartupDepth \in Nat
    BY AudioAssumption
  <2>. QED  BY <1>5, <2>1, <2>2 DEF IngressFits
<1>8. SourceFits' /\ NetFits' /\ JitterFits' /\ Clock(master)' /\ Record(fill)'
  BY <1>1, <1>4 DEF SourceFits, NetFits, JitterFits
<1>. QED  BY <1>6, <1>7, <1>8 DEF AudioInv

\* The clock of the sound keeps its shape.
LEMMA ClockSteps ==
  ASSUME NEW m, Clock(m), NEW v, NEW u, NEW w, NEW z \in 0..QuietAfter, NEW x \in BOOLEAN
  PROVE  /\ Clock([m EXCEPT !.matched = x]) /\ Clock([m EXCEPT !.valid = x])
         /\ Clock([m EXCEPT !.valid = x, !.suspended = z])
         /\ Clock([m EXCEPT !.valid = x, !.submitted = v, !.audible = u, !.age = w])
         /\ Clock([m EXCEPT !.suspended = z, !.age = v])
<1>w. PICK a \in BOOLEAN, d \in 0..QuietAfter, f \in BOOLEAN : \E b, c, e :
         m = [valid |-> a, submitted |-> b, audible |-> c, suspended |-> d, age |-> e, matched |-> f]
  BY Zenon DEF Clock
<1>1. PICK b, c, e :
         m = [valid |-> a, submitted |-> b, audible |-> c, suspended |-> d, age |-> e, matched |-> f]
  BY <1>w, Zenon
<1>. DEFINE R(a1, b1, c1, d1, e1, f1) ==
       [valid |-> a1, submitted |-> b1, audible |-> c1, suspended |-> d1, age |-> e1, matched |-> f1]
<1>2. /\ Clock(R(a, b, c, d, e, x)) /\ Clock(R(x, b, c, d, e, f)) /\ Clock(R(x, b, c, z, e, f))
      /\ Clock(R(x, v, u, d, w, f)) /\ Clock(R(a, b, c, z, v, f))
  <2>1. Clock(R(a, b, c, d, e, x)) /\ Clock(R(x, b, c, d, e, f))
    BY ClockMade, Zenon
  <2>2. Clock(R(x, b, c, z, e, f)) /\ Clock(R(x, v, u, d, w, f))
    BY ClockMade, Zenon
  <2>3. Clock(R(a, b, c, z, v, f))
    BY ClockMade, Zenon
  <2>. QED  BY <2>1, <2>2, <2>3, Zenon
<1>3. [m EXCEPT !.matched = x] = R(a, b, c, d, e, x)
  <2>. SUFFICES ASSUME NEW k, k = [m EXCEPT !.matched = x] PROVE k = R(a, b, c, d, e, x)
    OBVIOUS
  <2>. QED  BY <1>1
<1>4. [m EXCEPT !.valid = x] = R(x, b, c, d, e, f)
  <2>. SUFFICES ASSUME NEW k, k = [m EXCEPT !.valid = x] PROVE k = R(x, b, c, d, e, f)
    OBVIOUS
  <2>. QED  BY <1>1
<1>5. [m EXCEPT !.valid = x, !.suspended = z] = R(x, b, c, z, e, f)
  <2>. SUFFICES ASSUME NEW k, k = [m EXCEPT !.valid = x, !.suspended = z] PROVE k = R(x, b, c, z, e, f)
    OBVIOUS
  <2>. QED  BY <1>1
<1>6. [m EXCEPT !.valid = x, !.submitted = v, !.audible = u, !.age = w] = R(x, v, u, d, w, f)
  <2>. SUFFICES ASSUME NEW k, k = [m EXCEPT !.valid = x, !.submitted = v, !.audible = u, !.age = w]
                PROVE k = R(x, v, u, d, w, f)
    OBVIOUS
  <2>. QED  BY <1>1
<1>7. [m EXCEPT !.suspended = z, !.age = v] = R(a, b, c, z, v, f)
  <2>. SUFFICES ASSUME NEW k, k = [m EXCEPT !.suspended = z, !.age = v] PROVE k = R(a, b, c, z, v, f)
    OBVIOUS
  <2>. QED  BY <1>1
<1>. HIDE DEF R
<1>. QED  BY <1>2, <1>3, <1>4, <1>5, <1>6, <1>7, Zenon

\* The clock of the sound keeps its types, whatever is submitted.
LEMMA ClockIs ==
  ASSUME NEW m, Clock(m), NEW v
  PROVE  /\ Clock([m EXCEPT !.matched = TRUE]) /\ Clock([m EXCEPT !.valid = FALSE])
         /\ Clock(Suspend(m)) /\ Clock(Submit(m, v))
         /\ Clock([m EXCEPT !.suspended = IF m.suspended = 0 THEN 0 ELSE m.suspended - 1,
                            !.age = v])
<1>. DEFINE z == IF m.suspended = 0 THEN 0 ELSE m.suspended - 1
            u == IF v > DevicePadding THEN v - DevicePadding ELSE 0
<1>1. z \in 0..QuietAfter /\ QuietAfter \in 0..QuietAfter
  <2>1. PICK a \in BOOLEAN, d \in 0..QuietAfter, f \in BOOLEAN : \E b, c, e :
           m = [valid |-> a, submitted |-> b, audible |-> c, suspended |-> d, age |-> e, matched |-> f]
    BY Zenon DEF Clock
  <2>2. m.suspended = d /\ QuietAfter \in Nat
    BY <2>1, AudioAssumption
  <2>. QED  BY <2>2
<1>. HIDE DEF z, u
<1>2. TRUE \in BOOLEAN /\ FALSE \in BOOLEAN
  OBVIOUS
<1>3. Clock([m EXCEPT !.matched = TRUE]) /\ Clock([m EXCEPT !.valid = FALSE])
  BY <1>1, <1>2, ClockSteps, Zenon
<1>4. Clock(Suspend(m))
  <2>1. Clock([m EXCEPT !.valid = FALSE, !.suspended = QuietAfter])
    BY <1>1, <1>2, ClockSteps, Zenon
  <2>. QED  BY <2>1, Zenon DEF Suspend
<1>5. Clock(Submit(m, v))
  <2>1. Clock([m EXCEPT !.valid = TRUE, !.submitted = v, !.audible = u, !.age = 0])
    BY <1>1, <1>2, ClockSteps, Zenon
  <2>. QED  BY <2>1, Zenon DEF Submit, u
<1>6. Clock([m EXCEPT !.suspended = z, !.age = v])
  BY <1>1, <1>2, ClockSteps, Zenon
<1>. QED  BY <1>3, <1>4, <1>5, <1>6, Zenon DEF z

\* The worker takes a packet from the channel.
LEMMA SoundReceivedKeeps == AudioInv /\ WorkerReceive => AudioInv'
<1>. SUFFICES ASSUME AudioInv, WorkerReceive PROVE AudioInv'
  OBVIOUS
<1>1. SourceFits /\ NetFits /\ IngressFits /\ ChannelFits /\ JitterFits /\ Clock(master) /\ Record(fill)
  BY DEF AudioInv
<1>. DEFINE z == fill.sessions \cup {p.session : p \in jitter'.packets}
<1>2. /\ channel # <<>> /\ channel' = Tail(channel) /\ jitter' = Insert(jitter, Head(channel))
      /\ master' = [master EXCEPT !.matched = TRUE] /\ fill' = [fill EXCEPT !.sessions = z]
      /\ UNCHANGED <<source, audioNet, ingress>>
  BY Zenon DEF WorkerReceive
<1>. HIDE DEF z
<1>3. ChannelFits' /\ Head(channel) \in Sounds
  <2>1. channel \in Seq(Sounds) /\ Len(channel) <= ChannelDepth /\ ChannelDepth \in Nat
    BY <1>1, AudioAssumption DEF ChannelFits
  <2>2. /\ Head(channel) \in Sounds /\ Tail(channel) \in Seq(Sounds)
        /\ Len(Tail(channel)) = Len(channel) - 1 /\ Len(channel) \in Nat
    BY <1>2, <2>1, HeadTailProperties
  <2>3. Len(channel) - 1 <= ChannelDepth
    BY <2>1, <2>2
  <2>. QED  BY <1>2, <2>2, <2>3 DEF ChannelFits
<1>4. fill'.played = fill.played /\ Record(fill')
  <2>1. PICK a, b, c : fill = [played |-> a, sessions |-> b, sounding |-> c]
    BY <1>1, Zenon DEF Record
  <2>2. fill' = [played |-> a, sessions |-> z, sounding |-> c]
    BY <1>2, <2>1
  <2>3. fill.played = a /\ fill'.played = a
    BY <2>1, <2>2
  <2>4. \E a1, b1, c1 : fill' = [played |-> a1, sessions |-> b1, sounding |-> c1]
    BY <2>2, Zenon
  <2>. QED  BY <1>1, <2>3, <2>4, Zenon DEF Record
<1>5. JitterFits'
  <2>. DEFINE p == Head(channel)  low == Last(fill.played).seq
  <2>1. Buffer(jitter, low) /\ Buffered(jitter) <= MostSound /\ p \in Sounds
    BY <1>1, <1>3 DEF JitterFits
  <2>. HIDE DEF p, low
  <2>2. Buffer(Insert(jitter, p), low) /\ Buffered(Insert(jitter, p)) <= MostSound
    BY <2>1, InsertIs
  <2>. QED  BY <1>2, <1>4, <2>2 DEF JitterFits, p, low, MostSound
<1>6. Clock(master)'
  BY <1>1, <1>2, ClockIs
<1>7. SourceFits' /\ NetFits' /\ IngressFits'
  BY <1>1, <1>2 DEF SourceFits, NetFits, IngressFits
<1>. QED  BY <1>3, <1>4, <1>5, <1>6, <1>7 DEF AudioInv

\* What was played is kept in order with the sound before it.
LEMMA PlayedKeeps ==
  ASSUME NEW q \in Seq(Heard), q # <<>>, NEW r \in Seq(Sounds), Ascending(r),
         \A i \in 1..Len(r) : Last(q).seq < r[i].seq
  PROVE  LET s == <<Last(q)>> \o r
         IN  /\ s \in Seq(Heard) /\ s # <<>> /\ Ascending(s)
             /\ Last(s).seq = LowAfter(r, Last(q).seq)
<1>. DEFINE n == Len(r)  a == Last(q)  s == <<a>> \o r
<1>1. a \in Heard /\ a.seq \in Int
  BY LastIs
<1>2. n \in Nat /\ \A i \in 1..n : r[i] \in Heard /\ r[i] \in Sounds /\ r[i].seq \in Nat
  <2>1. \A i \in 1..n : r[i] \in Sounds
    BY ElementOfSeq
  <2>. QED  BY <2>1, SoundIs DEF Heard
<1>3. \A i \in 1..n : a.seq < r[i].seq
  OBVIOUS
<1>4. \A i, k \in 1..n : i < k => r[i].seq < r[k].seq
  BY DEF Ascending
<1>. HIDE DEF a
<1>5. r \in Seq(Heard)
  BY <1>2 DEF Heard
<1>6. /\ s \in Seq(Heard) /\ Len(s) = n + 1 /\ s[1] = a
      /\ \A i \in 2..(n + 1) : s[i] = r[i - 1]
  <2>1. <<a>> \in Seq(Heard) /\ Len(<<a>>) = 1 /\ <<a>>[1] = a
    BY <1>1
  <2>. DEFINE t == <<a>>
  <2>. HIDE DEF t
  <2>2. /\ t \o r \in Seq(Heard) /\ Len(t \o r) = Len(t) + Len(r)
        /\ \A i \in 1..(Len(t) + Len(r)) : (t \o r)[i] = IF i <= Len(t) THEN t[i] ELSE r[i - Len(t)]
    BY <1>5, <2>1, ConcatProperties DEF t
  <2>3. Len(t) = 1 /\ t[1] = a /\ s = t \o r
    BY <2>1 DEF t
  <2>. HIDE DEF s, n
  <2>4. Len(s) = n + 1 /\ s \in Seq(Heard)
    BY <1>2, <2>2, <2>3 DEF n
  <2>5. s[1] = a
    <3>1. 1 \in 1..(Len(t) + Len(r)) /\ 1 <= Len(t)
      BY <1>2, <2>3 DEF n
    <3>. QED  BY <2>2, <2>3, <3>1
  <2>6. ASSUME NEW i \in 2..(n + 1) PROVE s[i] = r[i - 1]
    <3>1. i \in 1..(Len(t) + Len(r)) /\ ~(i <= Len(t)) /\ i - Len(t) = i - 1
      BY <1>2, <2>3 DEF n
    <3>. QED  BY <2>2, <2>3, <3>1
  <2>. QED  BY <2>4, <2>5, <2>6
<1>. HIDE DEF s, n
<1>7. s # <<>>
  BY <1>2, <1>6
<1>8. Ascending(s)
  <2>. SUFFICES ASSUME NEW i \in 1..(n + 1), NEW k \in 1..(n + 1), i < k PROVE s[i].seq < s[k].seq
    BY <1>6 DEF Ascending
  <2>1. k \in 2..(n + 1) /\ k - 1 \in 1..n /\ s[k] = r[k - 1]
    BY <1>2, <1>6
  <2>2. CASE i = 1
    BY <1>3, <1>6, <2>1, <2>2
  <2>3. CASE i # 1
    <3>1. i \in 2..(n + 1) /\ i - 1 \in 1..n /\ i - 1 < k - 1
      BY <1>2, <2>3
    <3>. QED  BY <1>4, <1>6, <2>1, <3>1
  <2>. QED  BY <2>2, <2>3
<1>9. Last(s).seq = LowAfter(r, a.seq)
  <2>1. Last(s) = s[n + 1]
    BY <1>6 DEF Last
  <2>2. CASE n = 0
    <3>1. r = <<>>
      BY <2>2, EmptySeq DEF n
    <3>2. s[n + 1] = a
      BY <1>6, <2>2
    <3>. QED  BY <2>1, <3>1, <3>2 DEF LowAfter
  <2>3. CASE n # 0
    <3>1. r # <<>> /\ n + 1 \in 2..(n + 1) /\ (n + 1) - 1 = n
      BY <1>2, <2>3 DEF n
    <3>2. s[n + 1] = r[n]
      BY <1>6, <3>1
    <3>. QED  BY <2>1, <3>1, <3>2 DEF LowAfter, n
  <2>. QED  BY <2>2, <2>3
<1>. QED  BY <1>6, <1>7, <1>8, <1>9 DEF s, a

\* The worker writes to the device.
LEMMA RenderKeeps == AudioInv /\ WorkerRender => AudioInv'
<1>. SUFFICES ASSUME AudioInv, WorkerRender PROVE AudioInv'
  OBVIOUS
<1>1. SourceFits /\ NetFits /\ IngressFits /\ ChannelFits /\ JitterFits /\ Clock(master) /\ Record(fill)
  BY DEF AudioInv
<1>. DEFINE begun == MaybeStart(jitter)
            post == jitter.quiet # None /\ jitter.quiet >= QuietAfter
            Wrote(f) ==
              /\ jitter' = f.jitter
              /\ master' = IF begun.jumped THEN Suspend(master)
                           ELSE IF f.played # <<>> /\ f.jitter.playhead # None
                             THEN Submit(master, f.jitter.playhead)
                           ELSE IF f.starved /\ post THEN [master EXCEPT !.valid = FALSE]
                           ELSE master
              /\ fill' = [fill EXCEPT !.played = <<Last(fill.played)>> \o f.real,
                                      !.sounding = f.played # <<>> /\ Last(f.played) # Silence]
<1>2. PICK n \in 1..MaxAvailable : \E f \in {Fill(begun, n)} : Wrote(f)
  BY Zenon DEF WorkerRender
<1>. DEFINE f == Fill(begun, n)
<1>w. Wrote(f)
  BY <1>2, Zenon
<1>3. UNCHANGED <<source, audioNet, ingress, channel>>
  BY Zenon DEF WorkerRender
<1>. DEFINE q == fill.played  low == Last(q).seq
<1>4. q \in Seq(Heard) /\ q # <<>> /\ Ascending(q) /\ low \in Int
  BY <1>1, LastIs DEF Record
<1>5. Sounding(f, low, MostSound)
  <2>1. Buffer(jitter, low) /\ Buffered(jitter) <= MostSound
    BY <1>1 DEF JitterFits
  <2>. HIDE DEF q, low
  <2>2. Buffer(begun, low) /\ Buffered(begun) = Buffered(jitter)
    BY <2>1, MaybeStartIs
  <2>3. n \in Nat /\ MostSound \in Int
    <3>1. JitterTarget \in Nat /\ TrimMargin \in Nat
      BY AudioAssumption
    <3>. QED  BY <3>1 DEF MostSound
  <2>. HIDE DEF begun
  <2>4. f = Fill(begun, n)
    BY Zenon
  <2>5. Buffered(begun) <= MostSound
    BY <2>1, <2>2
  <2>. QED  BY <1>4, <2>2, <2>3, <2>4, <2>5, FillIs
<1>. DEFINE s == <<Last(q)>> \o f.real
            u == f.played # <<>> /\ Last(f.played) # Silence
<1>6. s \in Seq(Heard) /\ s # <<>> /\ Ascending(s) /\ Last(s).seq = LowAfter(f.real, low)
  <2>1. f.real \in Seq(Sounds) /\ Ascending(f.real) /\ \A i \in 1..Len(f.real) : low < f.real[i].seq
    BY <1>5 DEF Sounding
  <2>. DEFINE r == f.real
  <2>. HIDE DEF r, q
  <2>. QED  BY <1>4, <2>1, PlayedKeeps DEF r
<1>7. fill' = [fill EXCEPT !.played = s, !.sounding = u]
  BY <1>w, Zenon
<1>8. Record(fill') /\ fill'.played = s
  <2>1. PICK a, b, c : fill = [played |-> a, sessions |-> b, sounding |-> c]
    BY <1>1, Zenon DEF Record
  <2>. HIDE DEF s, u, q
  <2>2. fill' = [played |-> s, sessions |-> b, sounding |-> u]
    BY <1>7, <2>1
  <2>3. fill'.played = s
    BY <2>2
  <2>4. \E a1, b1, c1 : fill' = [played |-> a1, sessions |-> b1, sounding |-> c1]
    BY <2>2, Zenon
  <2>. QED  BY <1>6, <2>3, <2>4, Zenon DEF Record
<1>9. JitterFits'
  <2>1. Buffer(f.jitter, LowAfter(f.real, low)) /\ Buffered(f.jitter) <= MostSound
    BY <1>5 DEF Sounding
  <2>. HIDE DEF s, q, low
  <2>2. Last(fill'.played).seq = LowAfter(f.real, low) /\ jitter' = f.jitter
    BY <1>w, <1>6, <1>8
  <2>. QED  BY <2>1, <2>2, Zenon DEF JitterFits, MostSound
<1>10. Clock(master)'
  <2>. DEFINE v == f.jitter.playhead
  <2>1. master' \in {Suspend(master), Submit(master, v), [master EXCEPT !.valid = FALSE], master}
    <3>. HIDE DEF begun, post
    <3>. QED  BY <1>2
  <2>2. /\ Clock(Suspend(master)) /\ Clock(Submit(master, v))
        /\ Clock([master EXCEPT !.valid = FALSE])
    BY <1>1, ClockIs
  <2>. QED  BY <1>1, <2>1, <2>2, Zenon
<1>11. SourceFits' /\ NetFits' /\ IngressFits' /\ ChannelFits'
  BY <1>1, <1>3 DEF SourceFits, NetFits, IngressFits, ChannelFits
<1>. QED  BY <1>8, <1>9, <1>10, <1>11 DEF AudioInv

\* The clock is read when it is stale.
LEMMA ReadKeeps == AudioInv /\ ReadMaster => AudioInv'
<1>. SUFFICES ASSUME AudioInv, ReadMaster PROVE AudioInv'
  OBVIOUS
<1>1. SourceFits /\ NetFits /\ IngressFits /\ ChannelFits /\ JitterFits /\ Clock(master) /\ Record(fill)
  BY DEF AudioInv
<1>2. /\ master' = [master EXCEPT !.valid = FALSE]
      /\ UNCHANGED <<source, audioNet, ingress, channel, jitter, fill>>
  BY DEF ReadMaster
<1>3. Clock(master)'
  BY <1>1, <1>2, ClockIs
<1>4. SourceFits' /\ NetFits' /\ IngressFits' /\ ChannelFits' /\ JitterFits' /\ Record(fill)'
  BY <1>1, <1>2 DEF SourceFits, NetFits, IngressFits, ChannelFits, JitterFits
<1>. QED  BY <1>3, <1>4 DEF AudioInv

\* Time passes.
LEMMA SoundTickKeeps == AudioInv /\ AudioTick => AudioInv'
<1>. SUFFICES ASSUME AudioInv, AudioTick PROVE AudioInv'
  OBVIOUS
<1>1. SourceFits /\ NetFits /\ IngressFits /\ ChannelFits /\ JitterFits /\ Clock(master) /\ Record(fill)
  BY DEF AudioInv
<1>. DEFINE w == Grow(jitter.waited, JitterTarget)  z == Grow(jitter.quiet, QuietAfter)
            v == Grow(master.age, QuietAfter + 1)
<1>2. /\ ingress' = [ingress EXCEPT !.startup =
                       [i \in DOMAIN ingress.startup |-> Older(ingress.startup[i])]]
      /\ jitter' = [jitter EXCEPT !.waited = w, !.quiet = z]
      /\ master' = [master EXCEPT !.suspended = IF master.suspended = 0 THEN 0
                                                ELSE master.suspended - 1,
                                  !.age = v]
      /\ UNCHANGED <<source, audioNet, channel, fill>>
  BY Zenon DEF AudioTick
<1>. HIDE DEF w, z, v
<1>3. IngressFits'
  <2>1. PICK x \in Nat, q \in Seq(Waiters) : ingress = [expected |-> x, startup |-> q]
    BY <1>1 DEF IngressFits
  <2>2. ingress.startup = q /\ Len(q) <= StartupDepth
    BY <1>1, <2>1 DEF IngressFits
  <2>3. \A e \in Waiters : Older(e) \in Waiters
    <3>. SUFFICES ASSUME NEW e \in Waiters PROVE Older(e) \in Waiters
      OBVIOUS
    <3>1. PICK p \in Sounds, a \in Int : e = [packet |-> p, age |-> a]
      BY DEF Waiters
    <3>2. e.age = a /\ StartupHold \in Nat
      BY <3>1, AudioAssumption
    <3>. DEFINE y == Grow(e.age, StartupHold + 1)
    <3>3. y \in Int
      BY <3>2 DEF Grow
    <3>4. Older(e) = [e EXCEPT !.age = y]
      BY Zenon DEF Older
    <3>. HIDE DEF y
    <3>5. Older(e) = [packet |-> p, age |-> y]
      BY <3>1, <3>4
    <3>. QED  BY <3>3, <3>5 DEF Waiters
  <2>. DEFINE r == [i \in DOMAIN q |-> Older(q[i])]
  <2>4. r \in Seq(Waiters) /\ Len(r) = Len(q)
    <3>1. Len(q) \in Nat /\ DOMAIN q = 1..Len(q) /\ \A i \in 1..Len(q) : q[i] \in Waiters
      BY LenProperties, ElementOfSeq
    <3>2. \A i \in 1..Len(q) : Older(q[i]) \in Waiters
      BY <2>3, <3>1
    <3>. DEFINE n == Len(q)  O(i) == Older(q[i])
    <3>3. r = [i \in 1..n |-> O(i)]
      BY <3>1
    <3>4. n \in Nat /\ \A i \in 1..n : O(i) \in Waiters
      BY <3>1, <3>2
    <3>. HIDE DEF r, n, O
    <3>5. r \in Seq(Waiters) /\ Len(r) = n
      BY <3>3, <3>4
    <3>. QED  BY <3>5 DEF n
  <2>5. ingress' = [ingress EXCEPT !.startup = r]
    BY <1>2, <2>2, Zenon
  <2>. HIDE DEF r
  <2>6. ingress' = [expected |-> x, startup |-> r]
    BY <2>1, <2>5
  <2>7. Len(r) <= StartupDepth
    BY <2>2, <2>4
  <2>. QED  BY <2>4, <2>6, <2>7 DEF IngressFits
<1>4. JitterFits'
  <2>1. Shape(jitter) /\ UNCHANGED fill
    BY <1>1, <1>2 DEF JitterFits, Buffer
  <2>2. Same(jitter', jitter)
    BY <1>2, <2>1, SideFields
  <2>. QED  BY <1>1, <2>1, <2>2 DEF JitterFits, Same, Buffer, Buffered, MostSound
<1>5. Clock(master)'
  BY <1>1, <1>2, ClockIs
<1>6. SourceFits' /\ NetFits' /\ ChannelFits' /\ Record(fill)'
  BY <1>1, <1>2 DEF SourceFits, NetFits, ChannelFits
<1>. QED  BY <1>3, <1>4, <1>5, <1>6 DEF AudioInv

\* Every step of the sound keeps the invariant.
LEMMA AudioKeeps == AudioInv /\ [AudioNext]_audioVars => AudioInv'
<1>1. AudioInv /\ UNCHANGED audioVars => AudioInv'
  BY DEF AudioInv, audioVars, SourceFits, NetFits, IngressFits, ChannelFits, JitterFits
<1>. QED  BY <1>1, SoundSentKeeps, SoundLostKeeps, AcceptKeeps, BindKeeps, SoundReceivedKeeps,
             RenderKeeps, ReadKeeps, SoundTickKeeps, Zenon DEF AudioNext

-----------------------------------------------------------------------------
(* FrameRecovery.  The shards of a frame are its bytes, cut; an assembly   *)
(* holds some of them in their places; and what the parity lacks of one    *)
(* piece, given the others, is that piece.                                 *)

\* The join of the pieces so far.
Join(p, a, b) == a \o b
RJ == INSTANCE FoldLemmas WITH Op <- Join

\* A quotient rounded up.
LEMMA CeilIs ==
  ASSUME NEW a \in Nat \ {0}, NEW b \in Nat \ {0}
  PROVE  /\ DivCeil(a, b) \in Nat \ {0}
         /\ (DivCeil(a, b) - 1) * b < a /\ a <= DivCeil(a, b) * b
<1>. DEFINE n == a + b - 1  q == n \div b  r == n % b
<1>1. n = b * q + r /\ r \in 0..(b - 1) /\ q \in Nat
  BY Z3
<1>2. n \in Nat /\ n >= b
  OBVIOUS
<1>3. DivCeil(a, b) = q
  BY DEF DivCeil
<1>. HIDE DEF q, r
<1>4. q # 0
  <2>. SUFFICES ASSUME q = 0 PROVE FALSE
    OBVIOUS
  <2>1. b * q = 0
    OBVIOUS
  <2>. QED  BY <1>1, <1>2, <2>1
<1>5. (q - 1) * b = b * q - b /\ q * b = b * q /\ b * q \in Nat
  BY <1>1
<1>6. n = a + b - 1
  OBVIOUS
<1>. HIDE DEF n
<1>7. (q - 1) * b < a /\ a <= q * b
  BY <1>1, <1>5, <1>6
<1>. QED  BY <1>1, <1>3, <1>4, <1>7

Bits == {0, 1}

\* Where the pieces of a frame end.
Count(bytes, size)  == IF bytes = <<>> THEN 1 ELSE DivCeil(Len(bytes), size)
End(bytes, size, k) == IF k * size < Len(bytes) THEN k * size ELSE Len(bytes)

\* A frame is cut into at least one piece, and no more than it needs.
LEMMA CountIs ==
  ASSUME NEW bytes \in Seq(Bits), NEW size \in Nat \ {0}
  PROVE  /\ Count(bytes, size) \in Nat \ {0}
         /\ Count(bytes, size) > 1 => (Count(bytes, size) - 1) * size < Len(bytes)
         /\ Len(bytes) <= Count(bytes, size) * size
<1>1. CASE bytes = <<>>
  <2>1. Count(bytes, size) = 1 /\ Len(bytes) = 0 /\ 1 * size = size
    BY <1>1 DEF Count
  <2>. QED  BY <2>1
<1>2. CASE bytes # <<>>
  <2>1. Len(bytes) \in Nat \ {0}
    BY <1>2, EmptySeq
  <2>2. Count(bytes, size) = DivCeil(Len(bytes), size)
    BY <1>2 DEF Count
  <2>. QED  BY <2>1, <2>2, CeilIs
<1>. QED  BY <1>1, <1>2

\* Where each piece of a frame ends: one size after the one before it, the last with the frame.
LEMMA EndIs ==
  ASSUME NEW bytes \in Seq(Bits), NEW size \in Nat \ {0}
  PROVE  LET n == Count(bytes, size)
         IN  /\ \A k \in 1..(n - 1) : End(bytes, size, k) = k * size
             /\ End(bytes, size, n) = Len(bytes)
             /\ End(bytes, size, 0) = 0
             /\ \A k \in 1..n : /\ (k - 1) * size = End(bytes, size, k - 1)
                                /\ End(bytes, size, k) \in 0..Len(bytes)
                                /\ End(bytes, size, k - 1) <= End(bytes, size, k)
                                /\ End(bytes, size, k) - End(bytes, size, k - 1) \in 0..size
<1>. DEFINE n == Count(bytes, size)  L == Len(bytes)
<1>1. n \in Nat \ {0} /\ (n > 1 => (n - 1) * size < L) /\ L <= n * size /\ L \in Nat
  BY CountIs
<1>. HIDE DEF n
<1>2. ASSUME NEW k \in 1..(n - 1) PROVE k * size < L
  <2>1. (n - 1) * size = k * size + (n - 1 - k) * size
    BY <1>1
  <2>2. (n - 1 - k) * size \in Nat /\ k * size \in Nat
    BY <1>1
  <2>3. n > 1
    BY <1>1
  <2>. QED  BY <1>1, <2>1, <2>2, <2>3
<1>3. \A k \in 1..(n - 1) : End(bytes, size, k) = k * size
  BY <1>2 DEF End
<1>4. End(bytes, size, n) = L
  <2>. DEFINE m == n * size
  <2>1. m \in Nat /\ L <= m
    BY <1>1
  <2>2. End(bytes, size, n) = IF m < L THEN m ELSE L
    BY DEF End
  <2>. HIDE DEF m
  <2>. QED  BY <1>1, <2>1, <2>2
<1>5. End(bytes, size, 0) = 0
  <2>1. 0 * size = 0
    OBVIOUS
  <2>. QED  BY <1>1, <2>1 DEF End
<1>6. ASSUME NEW k \in 1..n
      PROVE  /\ (k - 1) * size = End(bytes, size, k - 1)
             /\ End(bytes, size, k) \in 0..L
             /\ End(bytes, size, k - 1) <= End(bytes, size, k)
             /\ End(bytes, size, k) - End(bytes, size, k - 1) \in 0..size
  <2>. DEFINE m == (k - 1) * size
  <2>1. m \in Nat /\ k * size = m + size
    BY <1>1
  <2>2. m = End(bytes, size, k - 1) /\ (m < L \/ k = 1)
    <3>1. CASE k = 1
      BY <1>5, <3>1
    <3>2. CASE k # 1
      <4>1. k - 1 \in 1..(n - 1)
        BY <1>1, <3>2
      <4>. QED  BY <1>2, <1>3, <4>1
    <3>. QED  BY <3>1, <3>2
  <2>3. k = 1 => m = 0
    OBVIOUS
  <2>4. k = n \/ k \in 1..(n - 1)
    BY <1>1
  <2>5. k = n => L <= m + size
    BY <1>1, <2>1
  <2>6. End(bytes, size, k) = IF m + size < L THEN m + size ELSE L
    BY <2>1 DEF End
  <2>. HIDE DEF m
  <2>7. m <= L
    BY <1>1, <2>1, <2>2, <2>3
  <2>8. k # n => m + size < L
    BY <1>2, <2>1, <2>4
  <2>. QED  BY <1>1, <2>1, <2>2, <2>5, <2>6, <2>7, <2>8 DEF m
<1>. QED  BY <1>3, <1>4, <1>5, <1>6 DEF n

\* The pieces: all but the last are as long as they may be, and the last is no longer.
LEMMA PiecesAre ==
  ASSUME NEW bytes \in Seq(Bits), NEW size \in Nat \ {0}
  PROVE  LET P == Pieces(bytes, size)
             n == Count(bytes, size)
         IN  /\ P \in Seq(Seq(Bits)) /\ Len(P) = n /\ n \in Nat \ {0}
             /\ \A k \in 1..n : /\ P[k] = SubSeq(bytes, End(bytes, size, k - 1) + 1, End(bytes, size, k))
                                /\ Len(P[k]) = End(bytes, size, k) - End(bytes, size, k - 1)
                                /\ P[k] \in Seq(Bits)
                                /\ Len(P[k]) <= size
             /\ \A k \in 1..(n - 1) : Len(P[k]) = size
<1>. DEFINE P == Pieces(bytes, size)
            n == Count(bytes, size)
            e(k) == End(bytes, size, k)
<1>1. n \in Nat \ {0}
  BY CountIs
<1>2. P = [k \in 1..n |-> SubSeq(bytes, (k - 1) * size + 1, e(k))]
  BY DEF Pieces, Count, End
<1>. HIDE DEF P, n
<1>3. ASSUME NEW k \in 1..n
      PROVE  /\ P[k] = SubSeq(bytes, e(k - 1) + 1, e(k))
             /\ Len(P[k]) = e(k) - e(k - 1)
             /\ P[k] \in Seq(Bits)
             /\ Len(P[k]) <= size
  <2>1. /\ (k - 1) * size = e(k - 1)
        /\ e(k) \in 0..Len(bytes) /\ e(k - 1) <= e(k) /\ e(k) - e(k - 1) \in 0..size
    BY EndIs DEF n
  <2>2. (k - 1) * size \in Nat
    BY <1>1
  <2>. DEFINE a == e(k - 1)  b == e(k)
  <2>3. P[k] = SubSeq(bytes, a + 1, b)
    BY <1>2, <2>1
  <2>4. a \in Nat /\ b \in 0..Len(bytes) /\ a <= b /\ b - a \in 0..size
    BY <2>1, <2>2
  <2>. HIDE DEF a, b
  <2>5. a + 1 \in 1..(Len(bytes) + 1) /\ b \in (a + 1 - 1)..Len(bytes)
    BY <2>4
  <2>6. /\ SubSeq(bytes, a + 1, b) \in Seq(Bits)
        /\ Len(SubSeq(bytes, a + 1, b)) = IF a + 1 <= b THEN b - (a + 1) + 1 ELSE 0
    BY <2>5, SubSeqProperties
  <2>7. Len(SubSeq(bytes, a + 1, b)) = b - a
    BY <2>4, <2>6
  <2>. QED  BY <2>3, <2>4, <2>6, <2>7 DEF a, b
<1>4. P \in Seq(Seq(Bits)) /\ Len(P) = n
  BY <1>1, <1>2, <1>3
<1>5. ASSUME NEW k \in 1..(n - 1) PROVE Len(P[k]) = size
  <2>1. k \in 1..n /\ e(k) = k * size /\ (k - 1) * size = e(k - 1)
    BY <1>1, EndIs DEF n
  <2>2. k * size = (k - 1) * size + size /\ (k - 1) * size \in Nat
    BY <1>1
  <2>. QED  BY <1>3, <2>1, <2>2
<1>. QED  BY <1>1, <1>3, <1>4, <1>5 DEF P, n

\* Two sequences that differ in nothing are one.
LEMMA JoinPiece ==
  ASSUME NEW bytes \in Seq(Bits), NEW a \in 0..Len(bytes), NEW b \in a..Len(bytes)
  PROVE  SubSeq(bytes, 1, a) \o SubSeq(bytes, a + 1, b) = SubSeq(bytes, 1, b)
<1>. DEFINE s == SubSeq(bytes, 1, a)  t == SubSeq(bytes, a + 1, b)  u == SubSeq(bytes, 1, b)
<1>0. Len(bytes) \in Nat /\ a \in Nat /\ b \in Nat /\ a <= b
  OBVIOUS
<1>1. s \in Seq(Bits) /\ Len(s) = a /\ \A i \in 1..a : s[i] = bytes[i]
  <2>1. \A i \in 1..a : bytes[i] \in Bits
    BY <1>0, ElementOfSeq
  <2>2. /\ s \in Seq(Bits) /\ Len(s) = (IF 1 <= a THEN a - 1 + 1 ELSE 0)
        /\ \A i \in 1..(a - 1 + 1) : s[i] = bytes[1 + i - 1]
    BY <1>0, <2>1, SubSeqProperties
  <2>. HIDE DEF s
  <2>. QED  BY <1>0, <2>2
<1>2. t \in Seq(Bits) /\ Len(t) = b - a /\ \A i \in 1..(b - a) : t[i] = bytes[a + i]
  <2>1. \A i \in (a + 1)..b : bytes[i] \in Bits
    BY <1>0, ElementOfSeq
  <2>2. /\ t \in Seq(Bits) /\ Len(t) = (IF a + 1 <= b THEN b - (a + 1) + 1 ELSE 0)
        /\ \A i \in 1..(b - (a + 1) + 1) : t[i] = bytes[a + 1 + i - 1]
    BY <1>0, <2>1, SubSeqProperties
  <2>. HIDE DEF t
  <2>. QED  BY <1>0, <2>2
<1>3. u \in Seq(Bits) /\ Len(u) = b /\ \A i \in 1..b : u[i] = bytes[i]
  <2>1. \A i \in 1..b : bytes[i] \in Bits
    BY <1>0, ElementOfSeq
  <2>2. /\ u \in Seq(Bits) /\ Len(u) = (IF 1 <= b THEN b - 1 + 1 ELSE 0)
        /\ \A i \in 1..(b - 1 + 1) : u[i] = bytes[1 + i - 1]
    BY <1>0, <2>1, SubSeqProperties
  <2>. HIDE DEF u
  <2>. QED  BY <1>0, <2>2
<1>. HIDE DEF s, t, u
<1>4. /\ s \o t \in Seq(Bits) /\ Len(s \o t) = b
      /\ \A i \in 1..b : (s \o t)[i] = IF i <= a THEN s[i] ELSE t[i - a]
  BY <1>0, <1>1, <1>2, ConcatProperties
<1>5. \A i \in 1..b : (s \o t)[i] = u[i]
  <2>. TAKE i \in 1..b
  <2>1. CASE i <= a
    BY <1>0, <1>1, <1>3, <1>4, <2>1
  <2>2. CASE ~(i <= a)
    <3>1. i - a \in 1..(b - a) /\ a + (i - a) = i
      BY <1>0, <2>2
    <3>2. t[i - a] = bytes[i]
      BY <1>2, <3>1
    <3>. QED  BY <1>3, <1>4, <2>2, <3>2
  <2>. QED  BY <2>1, <2>2
<1>6. s \o t = u
  BY <1>3, <1>4, <1>5, SeqEqual
<1>. QED  BY <1>6 DEF s, t, u

\* What the recursion of FlattenSeq computes of them, piece after piece.
LEMMA FlattenIs ==
  ASSUME NEW bytes \in Seq(Bits), NEW size \in Nat \ {0}
  PROVE  FlattenSeq(Pieces(bytes, size)) = bytes
<1>. DEFINE P == Pieces(bytes, size)
            n == Count(bytes, size)
            e(k) == End(bytes, size, k)
            Flat(f) == f = [i \in 1..n |-> IF i = 1 THEN P[i] ELSE f[i - 1] \o P[i]]
            g == [i \in 1..n |-> SubSeq(bytes, 1, e(i))]
            h == CHOOSE f : f = [i \in 1..Len(P) |-> IF i = 1 THEN P[i] ELSE f[i - 1] \o P[i]]
<1>1. /\ P \in Seq(Seq(Bits)) /\ Len(P) = n /\ n \in Nat \ {0}
      /\ \A k \in 1..n : P[k] = SubSeq(bytes, e(k - 1) + 1, e(k))
  BY PiecesAre
<1>2. /\ \A k \in 1..n : /\ e(k) \in 0..Len(bytes) /\ e(k - 1) <= e(k)
      /\ e(n) = Len(bytes) /\ e(0) = 0
  BY EndIs
<1>3. FlattenSeq(P) = h[n]
  BY <1>1 DEF FlattenSeq
<1>. HIDE DEF P, n, e, h
<1>4. ASSUME NEW k \in 1..n
      PROVE  g[k] = IF k = 1 THEN P[k] ELSE g[k - 1] \o P[k]
  <2>1. CASE k = 1
    <3>1. e(k - 1) = 0 /\ e(k - 1) + 1 = 1
      BY <1>2, <2>1
    <3>2. P[k] = SubSeq(bytes, 1, e(k))
      BY <1>1, <3>1
    <3>. QED  BY <2>1, <3>2
  <2>2. CASE k # 1
    <3>1. k - 1 \in 1..n
      BY <1>1, <2>2
    <3>2. e(k - 1) \in 0..Len(bytes) /\ e(k) \in e(k - 1)..Len(bytes)
      BY <1>2, <3>1
    <3>3. SubSeq(bytes, 1, e(k - 1)) \o SubSeq(bytes, e(k - 1) + 1, e(k)) = SubSeq(bytes, 1, e(k))
      BY <3>2, JoinPiece
    <3>. QED  BY <1>1, <2>2, <3>1, <3>3
  <2>. QED  BY <2>1, <2>2
<1>5. Flat(g)
  <2>1. g = [k \in 1..n |-> g[k]]
    OBVIOUS
  <2>. HIDE DEF g
  <2>. QED  BY <1>4, <2>1
<1>6. Flat(h)
  BY <1>1, <1>5 DEF h
<1>7. h[n] = g[n]
  <2>. DEFINE G == {m \in 0..n : m = 0 \/ h[m] = g[m]}
  <2>. HIDE DEF g
  <2>1. 0 \in G
    BY <1>1
  <2>2. ASSUME NEW m \in 1..n, m - 1 \in G PROVE m \in G
    <3>1. h[m] = IF m = 1 THEN P[m] ELSE h[m - 1] \o P[m]
      BY <1>6
    <3>2. g[m] = IF m = 1 THEN P[m] ELSE g[m - 1] \o P[m]
      BY <1>4
    <3>3. m # 1 => h[m - 1] = g[m - 1]
      BY <2>2
    <3>. QED  BY <3>1, <3>2, <3>3
  <2>. HIDE DEF G
  <2>3. \A m \in 0..n : m \in G
    BY <1>1, <2>1, <2>2, RJ!SegmentInduction
  <2>4. n \in G
    BY <1>1, <2>3
  <2>. QED  BY <1>1, <2>4 DEF G
<1>8. g[n] = SubSeq(bytes, 1, Len(bytes))
  BY <1>1, <1>2
<1>9. SubSeq(bytes, 1, Len(bytes)) = bytes
  BY SubSeqFull
<1>. QED  BY <1>3, <1>7, <1>8, <1>9 DEF P

\* Which of some byte strings have a one at a place.
Ones(strings, i) == {k \in DOMAIN strings : i <= Len(strings[k]) /\ strings[k][i] = 1}

\* Some byte strings, one of which is the longest.
Strings(strings, n, top) ==
    /\ DOMAIN strings = 1..n /\ top \in 1..n
    /\ \A k \in 1..n : strings[k] \in Seq(Bits) /\ Len(strings[k]) <= Len(strings[top])

\* Their XOR is as long as the longest, and tells at each place whether their ones are odd.
XorTells(strings, top) ==
    /\ Xor(strings) \in Seq(Bits) /\ Len(Xor(strings)) = Len(strings[top])
    /\ \A i \in 1..Len(strings[top]) : Xor(strings)[i] = Cardinality(Ones(strings, i)) % 2
    /\ \A i : IsFiniteSet(Ones(strings, i)) /\ Cardinality(Ones(strings, i)) \in Nat

\* What strings are combined to tells any one of them, given the others.
LEMMA XorIs ==
  ASSUME NEW n \in Nat \ {0}, NEW strings, NEW top, Strings(strings, n, top)
  PROVE  XorTells(strings, top)
<1>. USE DEF Strings
<1>. DEFINE m == Len(strings[top])  S == {Len(s) : s \in Range(strings)}
<1>1. S = {Len(strings[k]) : k \in 1..n}
  BY DEF Range
<1>01. \A k \in 1..n : Len(strings[k]) \in Nat
  OBVIOUS
<1>02. m \in Nat /\ \A k \in 1..n : Len(strings[k]) <= m
  BY <1>01
<1>2. m \in S /\ \A x \in S : m >= x /\ x \in Nat
  <2>. HIDE DEF S
  <2>1. \A x \in S : \E k \in 1..n : x = Len(strings[k])
    BY <1>1, Zenon
  <2>2. m \in S
    BY <1>1, Zenon
  <2>. HIDE DEF m
  <2>. QED  BY <1>01, <1>02, <2>1, <2>2
<1>3. Max(S) = m
  <2>. HIDE DEF S, m
  <2>1. Max(S) \in S /\ \A y \in S : Max(S) >= y
    BY <1>2 DEF Max
  <2>. QED  BY <1>2, <2>1
<1>4. ASSUME NEW i
      PROVE  IsFiniteSet(Ones(strings, i)) /\ Cardinality(Ones(strings, i)) \in Nat
  <2>1. Ones(strings, i) \in SUBSET (1..n)
    BY DEF Ones
  <2>2. IsFiniteSet(1..n)
    BY FS_Interval
  <2>. QED  BY <2>1, <2>2, FS_Subset, FS_CardinalityType
<1>5. Xor(strings) = [i \in 1..m |-> Cardinality(Ones(strings, i)) % 2]
  BY <1>3 DEF Xor, Ones
<1>6. \A i \in 1..m : Cardinality(Ones(strings, i)) % 2 \in Bits
  BY <1>4 DEF Bits
<1>7. m \in Nat
  OBVIOUS
<1>. HIDE DEF m
<1>8. Xor(strings) \in Seq(Bits) /\ Len(Xor(strings)) = m
  BY <1>5, <1>6, <1>7
<1>. QED  BY <1>4, <1>5, <1>8 DEF m, XorTells

\* To add a bit, and then what is odd, leaves the bit.
LEMMA ParityUndone ==
  ASSUME NEW r \in Nat, NEW b \in {0, 1}
  PROVE  (r + b) % 2 \in {0, 1} /\ (r + ((r + b) % 2)) % 2 = b
<1>1. (r + b) % 2 \in {0, 1}
  OBVIOUS
<1>2. CASE b = 0
  <2>1. (r + b) % 2 = r % 2 /\ r % 2 \in {0, 1}
    BY <1>2
  <2>2. (r + (r % 2)) % 2 = 0
    BY Z3
  <2>. QED  BY <1>1, <1>2, <2>1, <2>2
<1>3. CASE b = 1
  <2>1. (r + ((r + 1) % 2)) % 2 = 1
    BY Z3
  <2>. QED  BY <1>1, <1>3, <2>1
<1>. QED  BY <1>2, <1>3

\* A piece is the XOR of the others and of the parity.
LEMMA XorRecovers ==
  ASSUME NEW n \in Nat \ {0}, NEW P, NEW top, Strings(P, n, top),
         NEW gap \in 1..n, NEW parts, DOMAIN parts = 1..n,
         \A k \in 1..n : k # gap => parts[k] = P[k]
  PROVE  SubSeq(Xor([parts EXCEPT ![gap] = Xor(P)]), 1, Len(P[gap])) = P[gap]
<1>. DEFINE x == Xor(P)  q == [parts EXCEPT ![gap] = x]  y == Xor(q)
<1>1. /\ x \in Seq(Bits) /\ Len(x) = Len(P[top])
      /\ \A i \in 1..Len(P[top]) : x[i] = Cardinality(Ones(P, i)) % 2
      /\ \A i : IsFiniteSet(Ones(P, i))
  <2>1. XorTells(P, top)
    BY XorIs
  <2>. QED  BY <2>1 DEF XorTells
<1>. HIDE DEF x
<1>2. DOMAIN q = 1..n /\ q[gap] = x /\ \A k \in 1..n : k # gap => q[k] = P[k]
  OBVIOUS
<1>. HIDE DEF q
<1>3. \A k \in 1..n : q[k] \in Seq(Bits) /\ Len(q[k]) <= Len(q[gap])
  BY <1>1, <1>2 DEF Strings
<1>4. /\ y \in Seq(Bits) /\ Len(y) = Len(x)
      /\ \A i \in 1..Len(x) : y[i] = Cardinality(Ones(q, i)) % 2
      /\ \A i : IsFiniteSet(Ones(q, i))
  <2>1. Strings(q, n, gap)
    BY <1>2, <1>3 DEF Strings
  <2>2. XorTells(q, gap)
    BY <2>1, XorIs
  <2>. QED  BY <1>2, <2>2 DEF XorTells
<1>. HIDE DEF y
<1>5. ASSUME NEW i \in 1..Len(P[gap]) PROVE y[i] = P[gap][i]
  <2>0. /\ Len(P[gap]) \in Nat /\ Len(x) \in Nat /\ Len(P[gap]) <= Len(x) /\ P[gap] \in Seq(Bits)
        /\ DOMAIN P = 1..n
    BY <1>1 DEF Strings
  <2>1. i \in 1..Len(x) /\ P[gap][i] \in Bits /\ i <= Len(P[gap]) /\ i <= Len(x)
    BY <2>0, ElementOfSeq
  <2>. DEFINE A == Ones(P, i)  B == Ones(q, i)  R == A \ {gap}
  <2>2. R = B \ {gap}
    BY <1>2, <2>0 DEF Ones
  <2>3. (gap \in A <=> P[gap][i] = 1) /\ (gap \in B <=> x[i] = 1)
    BY <1>2, <2>0, <2>1 DEF Ones
  <2>4. IsFiniteSet(A) /\ IsFiniteSet(B)
    BY <1>1, <1>4
  <2>. HIDE DEF A, B, R
  <2>5. IsFiniteSet(R) /\ Cardinality(R) \in Nat
    BY <2>4, FS_Subset, FS_CardinalityType DEF R
  <2>6. Cardinality(A) = Cardinality(R) + (IF gap \in A THEN 1 ELSE 0)
    <3>1. Cardinality(A \ {gap}) = (IF gap \in A THEN Cardinality(A) - 1 ELSE Cardinality(A)) /\ Cardinality(A) \in Nat
      BY <2>4, FS_RemoveElement, FS_CardinalityType
    <3>. QED  BY <3>1 DEF R
  <2>7. Cardinality(B) = Cardinality(R) + (IF gap \in B THEN 1 ELSE 0)
    <3>1. Cardinality(B \ {gap}) = (IF gap \in B THEN Cardinality(B) - 1 ELSE Cardinality(B)) /\ Cardinality(B) \in Nat
      BY <2>4, FS_RemoveElement, FS_CardinalityType
    <3>. QED  BY <2>2, <3>1
  <2>8. x[i] = Cardinality(A) % 2 /\ y[i] = Cardinality(B) % 2
    BY <1>1, <1>4, <2>1 DEF A, B
  <2>. DEFINE r == Cardinality(R)  b == P[gap][i]
  <2>9. b \in {0, 1} /\ r \in Nat /\ x[i] = (r + b) % 2
    BY <2>1, <2>3, <2>5, <2>6, <2>8 DEF Bits
  <2>. HIDE DEF r, b
  <2>10. (r + b) % 2 \in {0, 1} /\ (r + ((r + b) % 2)) % 2 = b
    BY <2>9, ParityUndone
  <2>11. y[i] = (r + x[i]) % 2
    BY <2>3, <2>7, <2>8, <2>9, <2>10 DEF r
  <2>. QED  BY <2>9, <2>10, <2>11 DEF b
<1>. DEFINE L == Len(P[gap])  z == SubSeq(y, 1, L)
<1>6. L \in Nat /\ L <= Len(y) /\ Len(y) \in Nat /\ P[gap] \in Seq(Bits)
  BY <1>1, <1>4 DEF Strings
<1>. HIDE DEF L
<1>7. z \in Seq(Bits) /\ Len(z) = L /\ \A i \in 1..L : z[i] = y[i]
  <2>1. \A i \in 1..L : y[i] \in Bits
    BY <1>4, <1>6, ElementOfSeq
  <2>2. /\ z \in Seq(Bits) /\ Len(z) = (IF 1 <= L THEN L - 1 + 1 ELSE 0)
        /\ \A i \in 1..(L - 1 + 1) : z[i] = y[1 + i - 1]
    BY <1>6, <2>1, SubSeqProperties
  <2>. HIDE DEF z
  <2>. QED  BY <1>6, <2>2
<1>. HIDE DEF z
<1>8. z = P[gap]
  BY <1>5, <1>6, <1>7, SeqEqual DEF L
<1>. QED  BY <1>8 DEF z, L, y, q, x

\* What a datagram of a frame is: a piece of it under its number, or its parity.
IsPiece(s, P, fl, k) ==
    /\ s.index = k /\ s.count = Len(P) /\ s.payload = P[k]
    /\ "fec" \notin s.flags /\ s.flags \subseteq fl \cup {"protected", "end"}
    /\ k = 1 => fl \subseteq s.flags
IsParity(s, P, size, fl) ==
    /\ s.count = Len(P) /\ s.payload = Parity(P, size) /\ s.flags = {"fec"} \cup fl

\* A packet of a frame is one of its pieces or its parity.
LEMMA ShardIs ==
  ASSUME NEW f, NEW fec \in BOOLEAN, NEW udp, NEW size, size = ShardSize(fec, udp), size \in Nat \ {0},
         f.bytes \in Seq(Bits), f.flags \subseteq {"key"},
         NEW i \in DOMAIN Packetized(f, fec, udp)
  PROVE  LET P == Pieces(f.bytes, size)
             s == Packetized(f, fec, udp)[i]
         IN  (\E k \in 1..Len(P) : IsPiece(s, P, f.flags, k)) \/ IsParity(s, P, size, f.flags)
<1>. DEFINE P == Pieces(f.bytes, size)  n == Len(P)
            d == DataShards(f, P, fec)
            x == ParityShard(f, Parity(P, size))
            t == IF fec THEN <<x>> ELSE <<>>
            S == {d[k] : k \in 1..n} \cup {x}
<1>1. P \in Seq(Seq(Bits)) /\ n \in Nat \ {0}
  BY PiecesAre
<1>2. Packetized(f, fec, udp) = <<>> \/ Packetized(f, fec, udp) = d \o t
  BY DEF Packetized
<1>3. Packetized(f, fec, udp) = d \o t
  BY <1>2
<1>. HIDE DEF P
<1>4. ASSUME NEW k \in 1..n PROVE IsPiece(d[k], P, f.flags, k)
  <2>. DEFINE first == IF k = 1 THEN f.flags ELSE {}
              armed == IF fec THEN {"protected"} ELSE {}
              ends  == IF k = n THEN {"end"} ELSE {}
  <2>0. DOMAIN P = 1..n
    BY <1>1
  <2>1. d[k] = [index |-> k, count |-> n, payload |-> P[k], flags |-> first \cup armed \cup ends]
    BY <2>0 DEF DataShards
  <2>2. /\ "fec" \notin first \cup armed \cup ends
        /\ first \cup armed \cup ends \subseteq f.flags \cup {"protected", "end"}
        /\ k = 1 => f.flags \subseteq first \cup armed \cup ends
    OBVIOUS
  <2>. HIDE DEF first, armed, ends, d
  <2>. QED  BY <2>1, <2>2 DEF IsPiece
<1>5. IsParity(x, P, size, f.flags)
  BY DEF ParityShard, IsParity, Parity
<1>6. d \in Seq(S) /\ Len(d) = n
  <2>. DEFINE e(k) == [index |-> k, count |-> Len(P), payload |-> P[k],
                       flags |-> (IF k = 1 THEN f.flags ELSE {})
                                 \cup (IF fec THEN {"protected"} ELSE {})
                                 \cup (IF k = Len(P) THEN {"end"} ELSE {})]
  <2>0. d = [k \in DOMAIN P |-> e(k)] /\ DOMAIN P = 1..n
    BY <1>1 DEF DataShards
  <2>. HIDE DEF d, x, e
  <2>1. DOMAIN d = 1..n /\ d = [k \in 1..n |-> d[k]]
    BY <2>0
  <2>2. \A k \in 1..n : d[k] \in S
    BY DEF S
  <2>. HIDE DEF S
  <2>. QED  BY <1>1, <2>1, <2>2
<1>. HIDE DEF d, x
<1>7. t \in Seq(S)
  <2>1. x \in S
    BY DEF S
  <2>. HIDE DEF S
  <2>. QED  BY <2>1
<1>. HIDE DEF S, t
<1>8. /\ Len(d \o t) = Len(d) + Len(t) /\ d \o t \in Seq(S)
      /\ \A j \in 1..(Len(d) + Len(t)) : (d \o t)[j] = IF j <= Len(d) THEN d[j] ELSE t[j - Len(d)]
  BY <1>6, <1>7, ConcatProperties
<1>9. (d \o t)[i] \in S
  <2>1. i \in 1..Len(d \o t)
    BY <1>3, <1>8
  <2>. QED  BY <1>8, <2>1, ElementOfSeq
<1>10. (\E k \in 1..n : (d \o t)[i] = d[k]) \/ (d \o t)[i] = x
  BY <1>9 DEF S
<1>11. CASE \E k \in 1..n : (d \o t)[i] = d[k]
  BY <1>3, <1>4, <1>11 DEF P
<1>12. CASE (d \o t)[i] = x
  BY <1>3, <1>5, <1>12 DEF P
<1>. QED  BY <1>10, <1>11, <1>12

\* An assembly of the pieces P of a frame with the flags fl: it has some of them, and
\* perhaps their parity; and the first of them and the parity bring the flags.
Payloads == Seq(Bits) \cup {Missing}

Assembly(h, P, size, fl) ==
    /\ h = [count |-> Len(P), parts |-> h.parts, parity |-> h.parity, flags |-> h.flags]
    /\ h.parts \in [1..Len(P) -> Payloads]
    /\ \A k \in 1..Len(P) : h.parts[k] \in {Missing, P[k]}
    /\ h.parity \in {NoParity, Parity(P, size)}
    /\ h.flags \subseteq fl \cup {"protected", "end"}
    /\ h.parts[1] # Missing \/ h.parity # NoParity => fl \subseteq h.flags

\* Pieces as they are cut.
IsCut(P, size) ==
    /\ P \in Seq(Seq(Bits)) /\ Len(P) \in Nat \ {0} /\ size \in Nat \ {0}
    /\ \A k \in 1..Len(P) : P[k] \in Seq(Bits) /\ Len(P[k]) <= size /\ P[k] # Missing
    /\ \A k \in 1..(Len(P) - 1) : Len(P[k]) = size

\* The pieces of a frame are a cut of it.
LEMMA CutIs ==
  ASSUME NEW bytes \in Seq(Bits), NEW size \in Nat \ {0}
  PROVE  IsCut(Pieces(bytes, size), size)
<1>. DEFINE P == Pieces(bytes, size)
<1>1. /\ P \in Seq(Seq(Bits)) /\ Len(P) \in Nat \ {0}
      /\ \A k \in 1..Len(P) : P[k] \in Seq(Bits) /\ Len(P[k]) <= size
      /\ \A k \in 1..(Len(P) - 1) : Len(P[k]) = size
  BY PiecesAre
<1>. HIDE DEF P
<1>2. ASSUME NEW s \in Seq(Bits) PROVE s # Missing
  <2>. SUFFICES ASSUME s = <<-1>> PROVE FALSE
    BY DEF Missing
  <2>1. Len(s) = 1 /\ s[1] = -1
    OBVIOUS
  <2>2. s[1] \in Bits
    BY <2>1, ElementOfSeq
  <2>. QED  BY <2>1, <2>2 DEF Bits
<1>. QED  BY <1>1, <1>2 DEF IsCut, P

\* A datagram begins an assembly, or adds to one.
LEMMA BegunIs ==
  ASSUME NEW P, NEW size, NEW fl, NEW s, s.count = Len(P), Len(P) \in Nat \ {0},
         NEW h, h = Empty \/ Assembly(h, P, size, fl)
  PROVE  Assembly(Begun(h, s), P, size, fl)
<1>1. CASE h = Empty
  <2>1. Begun(h, s) = [count |-> Len(P), parts |-> [k \in 1..Len(P) |-> Missing],
                       parity |-> NoParity, flags |-> {}]
    BY <1>1 DEF Begun, Empty
  <2>2. 1 \in 1..Len(P) /\ Missing \in Payloads
    BY DEF Payloads
  <2>. QED  BY <2>1, <2>2 DEF Assembly
<1>2. CASE Assembly(h, P, size, fl)
  <2>1. h.count = Len(P) /\ h.count # 0
    BY <1>2 DEF Assembly
  <2>2. Begun(h, s) = h
    BY <2>1 DEF Begun
  <2>. QED  BY <1>2, <2>2
<1>. QED  BY <1>1, <1>2

\* An assembly of a frame stays one when it takes one of its pieces.
LEMMA WithPieceIs ==
  ASSUME NEW P, NEW size, NEW fl, IsCut(P, size), NEW h, Assembly(h, P, size, fl), NEW s,
         NEW k \in 1..Len(P), IsPiece(s, P, fl, k)
  PROVE  Assembly(WithPiece(h, s), P, size, fl)
<1>. DEFINE v == IF h.parts[k] = Missing THEN P[k] ELSE h.parts[k]
            parts == [h.parts EXCEPT ![k] = v]
            flags == h.flags \cup s.flags
<1>1. h = [count |-> Len(P), parts |-> h.parts, parity |-> h.parity, flags |-> h.flags]
  BY DEF Assembly
<1>2. s.index = k /\ s.payload = P[k]
  BY DEF IsPiece
<1>3. WithPiece(h, s) = [count |-> Len(P), parts |-> parts, parity |-> h.parity, flags |-> flags]
  <2>1. PICK n, p, x, m : h = [count |-> n, parts |-> p, parity |-> x, flags |-> m]
    BY <1>1
  <2>2. h.count = n /\ h.parts = p /\ h.parity = x /\ h.flags = m /\ n = Len(P)
    BY <1>1, <2>1
  <2>3. WithPiece(h, s) = [h EXCEPT !.flags = flags, !.parts = parts]
    <3>1. WithPiece(h, s) = [h EXCEPT !.flags = h.flags \cup s.flags,
            !.parts = [h.parts EXCEPT ![s.index] = IF h.parts[s.index] = Missing THEN s.payload
                                                   ELSE h.parts[s.index]]]
      BY Zenon DEF WithPiece
    <3>. QED  BY <1>2, <3>1, Zenon
  <2>. HIDE DEF flags, parts
  <2>. QED  BY <2>1, <2>2, <2>3
<1>4. /\ parts \in [1..Len(P) -> Payloads] /\ \A j \in 1..Len(P) : parts[j] \in {Missing, P[j]}
      /\ \A j \in 1..Len(P) : j # k => parts[j] = h.parts[j]
  <2>1. P[k] \in Payloads
    BY DEF IsCut, Payloads
  <2>. HIDE DEF Payloads
  <2>. QED  BY <2>1 DEF Assembly
<1>5. /\ flags \subseteq fl \cup {"protected", "end"} /\ h.flags \subseteq flags
      /\ k = 1 => fl \subseteq flags
  BY DEF Assembly, IsPiece
<1>6. 1 \in 1..Len(P)
  BY DEF IsCut
<1>. HIDE DEF parts, flags
<1>7. parts[1] # Missing \/ h.parity # NoParity => fl \subseteq flags
  <2>1. CASE k = 1
    BY <1>5, <2>1
  <2>2. CASE k # 1
    BY <1>4, <1>5, <1>6, <2>2 DEF Assembly
  <2>. QED  BY <2>1, <2>2
<1>. QED  BY <1>3, <1>4, <1>5, <1>7 DEF Assembly

\* An assembly of a frame stays one when it takes its parity.
LEMMA WithParityIs ==
  ASSUME NEW P, NEW size, NEW fl, fl \subseteq {"key"}, NEW h, Assembly(h, P, size, fl), NEW s,
         IsParity(s, P, size, fl)
  PROVE  Assembly(WithParity(h, s), P, size, fl)
<1>. DEFINE flags == h.flags \cup (s.flags \ {"fec"})
<1>1. h = [count |-> Len(P), parts |-> h.parts, parity |-> h.parity, flags |-> h.flags]
  BY DEF Assembly
<1>2. WithParity(h, s) = [count |-> Len(P), parts |-> h.parts, parity |-> Parity(P, size), flags |-> flags]
  <2>1. PICK n, p, x, m : h = [count |-> n, parts |-> p, parity |-> x, flags |-> m]
    BY <1>1
  <2>2. h.count = n /\ h.parts = p /\ h.parity = x /\ h.flags = m /\ n = Len(P)
    BY <1>1, <2>1
  <2>3. WithParity(h, s) = [h EXCEPT !.flags = flags, !.parity = Parity(P, size)]
    BY DEF WithParity, IsParity
  <2>. HIDE DEF flags
  <2>. QED  BY <2>1, <2>2, <2>3
<1>3. flags \subseteq fl \cup {"protected", "end"} /\ fl \subseteq flags
  BY DEF Assembly, IsParity
<1>4. /\ h.parts \in [1..Len(P) -> Payloads]
      /\ \A k \in 1..Len(P) : h.parts[k] \in {Missing, P[k]}
  BY DEF Assembly
<1>. HIDE DEF flags
<1>. QED  BY <1>2, <1>3, <1>4 DEF Assembly

\* What the XOR of the pieces is, and how long each of them is expected to be.
LEMMA ParityIs ==
  ASSUME NEW P, NEW size, IsCut(P, size)
  PROVE  /\ Strings(P, Len(P), 1) /\ Xor(P) \in Seq(Bits) /\ Len(Xor(P)) = Len(P[1])
         /\ \A k \in 1..Len(P) : Len(P[k]) \in Nat /\ Len(P[k]) <= Len(P[1])
         /\ \A k \in 1..Len(P) : ExpectedLen(Parity(P, size), k) = Len(P[k])
         /\ Parity(P, size) # NoParity
<1>. DEFINE n == Len(P)
<1>1. /\ n \in Nat \ {0} /\ size \in Nat \ {0} /\ P \in Seq(Seq(Bits)) /\ DOMAIN P = 1..n
      /\ \A k \in 1..n : P[k] \in Seq(Bits) /\ Len(P[k]) <= size /\ Len(P[k]) \in Nat
      /\ \A k \in 1..(n - 1) : Len(P[k]) = size
  BY DEF IsCut
<1>. HIDE DEF n
<1>2. \A k \in 1..n : Len(P[k]) <= Len(P[1])
  <2>1. CASE n = 1
    BY <1>1, <2>1
  <2>2. CASE n # 1
    <3>1. 1 \in 1..(n - 1)
      BY <1>1, <2>2
    <3>2. Len(P[1]) = size
      BY <1>1, <3>1
    <3>. QED  BY <1>1, <3>2
  <2>. QED  BY <2>1, <2>2
<1>3. Strings(P, n, 1)
  BY <1>1, <1>2 DEF Strings
<1>4. XorTells(P, 1)
  BY <1>1, <1>3, XorIs
<1>5. Last(P) = P[n]
  BY DEF Last, n
<1>6. ASSUME NEW k \in 1..n PROVE ExpectedLen(Parity(P, size), k) = Len(P[k])
  <2>1. ExpectedLen(Parity(P, size), k) = IF k = n THEN Len(Last(P)) ELSE size
    BY DEF ExpectedLen, Parity, n
  <2>2. CASE k = n
    BY <1>5, <2>1, <2>2
  <2>3. CASE k # n
    <3>1. k \in 1..(n - 1)
      BY <1>1, <2>3
    <3>. QED  BY <1>1, <2>1, <2>3, <3>1
  <2>. QED  BY <2>2, <2>3
<1>7. Parity(P, size) # NoParity
  <2>1. Parity(P, size).count = n /\ NoParity.count = 0
    BY DEF Parity, NoParity, n
  <2>. QED  BY <1>1, <2>1
<1>. QED  BY <1>1, <1>2, <1>3, <1>4, <1>6, <1>7 DEF XorTells, n

\* An assembly that still waits lacks two pieces, or one and the parity.
Waits(h) == Gaps(h) # {} /\ (h.parity = NoParity \/ Cardinality(Gaps(h)) # 1)

\* The one gap of an assembly with its parity is filled with the piece that was lost.
LEMMA CompletedIs ==
  ASSUME NEW P, NEW size, NEW fl, IsCut(P, size), NEW h, Assembly(h, P, size, fl)
  PROVE  /\ Assembly(Completed(h), P, size, fl)
         /\ Gaps(Completed(h)) = {} \/ Waits(Completed(h))
<1>0. DOMAIN h.parts = 1..Len(P) /\ Len(P) \in Nat \ {0}
  BY DEF Assembly, IsCut
<1>00. IsFiniteSet(Gaps(h)) /\ Cardinality(Gaps(h)) \in Nat
  <2>1. Gaps(h) \in SUBSET (1..Len(P))
    BY <1>0 DEF Gaps
  <2>2. IsFiniteSet(1..Len(P))
    BY <1>0, FS_Interval
  <2>3. IsFiniteSet(Gaps(h))
    BY <2>1, <2>2, FS_Subset
  <2>. QED  BY <2>3, FS_CardinalityType
<1>1. CASE Cardinality(Gaps(h)) # 1 \/ h.parity = NoParity
  <2>1. Completed(h) = h
    BY <1>1 DEF Completed
  <2>. QED  BY <1>1, <2>1 DEF Waits
<1>2. CASE Cardinality(Gaps(h)) = 1 /\ h.parity # NoParity
  <2>1. PICK gap : Gaps(h) = {gap}
    BY <1>00, <1>2, FS_Singleton
  <2>2. gap \in 1..Len(P) /\ (CHOOSE k \in Gaps(h) : TRUE) = gap
    BY <1>0, <2>1 DEF Gaps
  <2>3. \A k \in 1..Len(P) : k # gap => h.parts[k] = P[k]
    <3>1. ASSUME NEW k \in 1..Len(P), k # gap PROVE h.parts[k] # Missing
      BY <1>0, <2>1, <3>1 DEF Gaps
    <3>. QED  BY <3>1 DEF Assembly
  <2>4. h.parity = Parity(P, size)
    BY <1>2 DEF Assembly
  <2>5. /\ h.parity.count = Len(P) /\ h.parity.xor = Xor(P)
    BY <2>4 DEF Parity
  <2>6. /\ Strings(P, Len(P), 1) /\ Len(Xor(P)) = Len(P[1])
        /\ \A k \in 1..Len(P) : Len(P[k]) \in Nat /\ Len(P[k]) <= Len(P[1])
        /\ \A k \in 1..Len(P) : ExpectedLen(h.parity, k) = Len(P[k])
    BY <2>4, ParityIs
  <2>7. Len(h.parts) = Len(P)
    <3>1. h.parts \in Seq(Payloads)
      BY <1>0 DEF Assembly
    <3>. QED  BY <1>0, <3>1
  <2>8. Recoverable(h, gap)
    BY <1>0, <2>2, <2>3, <2>5, <2>6, <2>7 DEF Recoverable
  <2>9. Recovered(h, gap) = P[gap]
    <3>1. SubSeq(Xor([h.parts EXCEPT ![gap] = Xor(P)]), 1, Len(P[gap])) = P[gap]
      BY <1>0, <2>2, <2>3, <2>6, XorRecovers
    <3>. QED  BY <2>2, <2>5, <2>6, <3>1 DEF Recovered
  <2>. DEFINE parts == [h.parts EXCEPT ![gap] = P[gap]]
  <2>10. Completed(h) = [h EXCEPT !.parts = parts]
    BY <1>2, <2>2, <2>8, <2>9 DEF Completed
  <2>11. /\ parts \in [1..Len(P) -> Payloads] /\ \A k \in 1..Len(P) : parts[k] = P[k]
    <3>1. P[gap] \in Payloads
      BY <2>2 DEF IsCut, Payloads
    <3>. HIDE DEF Payloads
    <3>. QED  BY <2>2, <2>3, <3>1 DEF Assembly
  <2>12. Completed(h) = [count |-> Len(P), parts |-> parts, parity |-> h.parity, flags |-> h.flags]
    <3>1. PICK n, p, x, m : h = [count |-> n, parts |-> p, parity |-> x, flags |-> m]
      BY DEF Assembly
    <3>2. h.count = n /\ h.parts = p /\ h.parity = x /\ h.flags = m /\ n = Len(P)
      BY <3>1 DEF Assembly
    <3>. HIDE DEF parts
    <3>. QED  BY <2>10, <3>1, <3>2
  <2>13. /\ h.parity \in {NoParity, Parity(P, size)} /\ h.flags \subseteq fl \cup {"protected", "end"}
         /\ fl \subseteq h.flags
    BY <1>2 DEF Assembly
  <2>. HIDE DEF parts
  <2>14. Assembly(Completed(h), P, size, fl)
    BY <2>11, <2>12, <2>13 DEF Assembly
  <2>15. Gaps(Completed(h)) = {}
    BY <2>11, <2>12 DEF Gaps, IsCut
  <2>. QED  BY <2>14, <2>15
<1>. QED  BY <1>1, <1>2

\* An assembly without gaps is the frame.
LEMMA WholeIs ==
  ASSUME NEW bytes \in Seq(Bits), NEW size \in Nat \ {0}, NEW fl, fl \subseteq {"key"},
         NEW h, Assembly(h, Pieces(bytes, size), size, fl), Gaps(h) = {}
  PROVE  Whole(h).bytes = bytes /\ Whole(h).flags \ {"end"} = fl
<1>. DEFINE P == Pieces(bytes, size)
<1>1. IsCut(P, size) /\ FlattenSeq(P) = bytes
  BY CutIs, FlattenIs
<1>2. Assembly(h, P, size, fl)
  OBVIOUS
<1>. HIDE DEF P
<1>3. \A k \in 1..Len(P) : h.parts[k] = P[k] /\ h.parts[k] # Missing
  BY <1>2 DEF Assembly, Gaps
<1>4. h.parts = P
  <2>. DEFINE n == Len(P)
  <2>1. P \in [1..n -> Seq(Bits)]
    BY <1>1 DEF IsCut
  <2>2. h.parts \in [1..n -> Payloads]
    BY <1>2 DEF Assembly
  <2>3. P = [k \in 1..n |-> P[k]] /\ h.parts = [k \in 1..n |-> h.parts[k]]
    <3>. HIDE DEF n
    <3>. QED  BY <2>1, <2>2
  <2>. QED  BY <1>3, <2>3
<1>5. fl \subseteq h.flags /\ h.flags \subseteq fl \cup {"protected", "end"}
  <2>1. 1 \in 1..Len(P)
    BY <1>1 DEF IsCut
  <2>. QED  BY <1>2, <1>3, <2>1 DEF Assembly
<1>. QED  BY <1>1, <1>4, <1>5 DEF Whole

\* An assembly that waits has received fewer datagrams of the frame than it has pieces.
LEMMA WaitingIs ==
  ASSUME NEW P, NEW size, NEW fl, IsCut(P, size), NEW h, Assembly(h, P, size, fl), Waits(h)
  PROVE  Cardinality({k \in DOMAIN h.parts : h.parts[k] # Missing})
            + (IF h.parity = NoParity THEN 0 ELSE 1) < h.count
<1>. DEFINE n == Len(P)  D == 1..n  G == Gaps(h)  A == {k \in DOMAIN h.parts : h.parts[k] # Missing}
<1>1. DOMAIN h.parts = D /\ n \in Nat /\ h.count = n
  BY DEF Assembly, IsCut
<1>. HIDE DEF n
<1>2. A = D \ G /\ G \in SUBSET D /\ D \cap G = G
  BY <1>1 DEF Gaps
<1>3. IsFiniteSet(D) /\ Cardinality(D) = n
  BY <1>1, FS_Interval
<1>4. IsFiniteSet(G) /\ Cardinality(G) \in Nat
  BY <1>2, <1>3, FS_Subset, FS_CardinalityType
<1>5. Cardinality(G) # 0 /\ (h.parity = NoParity \/ Cardinality(G) # 1)
  BY <1>4, FS_EmptySet DEF Waits
<1>. HIDE DEF A, D, G
<1>6. Cardinality(A) = n - Cardinality(G)
  <2>1. Cardinality(D \ G) = Cardinality(D) - Cardinality(D \cap G)
    BY <1>3, FS_Difference
  <2>. QED  BY <1>2, <1>3, <2>1
<1>. DEFINE c == Cardinality(G)
<1>7. Cardinality(A) = n - c /\ c \in Nat /\ c # 0 /\ (h.parity = NoParity \/ c # 1)
  BY <1>4, <1>5, <1>6
<1>. HIDE DEF c
<1>8. Cardinality(A) + (IF h.parity = NoParity THEN 0 ELSE 1) < n
  <2>1. CASE h.parity = NoParity
    BY <1>1, <1>7, <2>1
  <2>2. CASE h.parity # NoParity
    BY <1>1, <1>7, <2>2
  <2>. QED  BY <2>1, <2>2
<1>. QED  BY <1>1, <1>8 DEF A

\* The sizes of a datagram and of what it takes of a frame.
LEMMA SizesAre ==
  ASSUME NEW fec \in BOOLEAN, NEW udp \in MinUdp..MaxUdp
  PROVE  LET size == ShardSize(fec, udp)
         IN  /\ size \in Nat \ {0} /\ MinUdp - HeaderLen - MetadataLen \in Nat
             /\ MinUdp - HeaderLen - MetadataLen <= size
             /\ fec => MetadataLen + size = udp - HeaderLen
             /\ MaxPackets \in Nat \ {0}
<1>1. /\ {HeaderLen, MetadataLen, MinUdp, MaxUdp, PacketMargin} \subseteq Nat
      /\ MaxFrameBytes \in Nat \ {0} /\ HeaderLen + MetadataLen < MinUdp
  BY RecoveryAssumption
<1>2. MinUdp - HeaderLen \in Nat \ {0}
  BY <1>1
<1>3. DivCeil(MaxFrameBytes, MinUdp - HeaderLen) \in Nat \ {0}
  BY <1>1, <1>2, CeilIs
<1>4. MaxPackets \in Nat \ {0}
  BY <1>1, <1>3 DEF MaxPackets
<1>5. CASE fec
  BY <1>1, <1>4, <1>5 DEF ShardSize
<1>6. CASE ~fec
  BY <1>1, <1>4, <1>6 DEF ShardSize
<1>. QED  BY <1>5, <1>6

\* No datagrams are made of a frame that is too long, or that is cut in too many pieces.
LEMMA RefusedIs ==
  ASSUME NEW f, f.bytes \in Seq(Bits), NEW fec \in BOOLEAN, NEW udp \in MinUdp..MaxUdp,
         Packetized(f, fec, udp) = <<>>
  PROVE  \/ Len(f.bytes) > MaxFrameBytes
         \/ Len(f.bytes) > MaxPackets * (MinUdp - HeaderLen - MetadataLen)
<1>. DEFINE size == ShardSize(fec, udp)  P == Pieces(f.bytes, size)  n == Len(P)  least == MinUdp - HeaderLen - MetadataLen
            d == DataShards(f, P, fec)  t == IF fec THEN <<ParityShard(f, Parity(P, size))>> ELSE <<>>
<1>1. /\ size \in Nat \ {0} /\ least \in Nat /\ least <= size /\ MaxPackets \in Nat \ {0}
      /\ fec => MetadataLen + size = udp - HeaderLen
  BY SizesAre
<1>01. MetadataLen \in Nat /\ udp - HeaderLen \in Int
  BY RecoveryAssumption
<1>2. \/ Len(f.bytes) > MaxFrameBytes
      \/ n > MaxPackets
      \/ fec /\ ~ParityFits(Parity(P, size), udp)
      \/ Packetized(f, fec, udp) = d \o t
  <2>. SUFFICES ASSUME ~(Len(f.bytes) > MaxFrameBytes), ~(n > MaxPackets),
                       ~(fec /\ ~ParityFits(Parity(P, size), udp))
                PROVE  Packetized(f, fec, udp) = d \o t
    OBVIOUS
  <2>. QED  BY DEF Packetized
<1>. HIDE DEF size, least
<1>3. IsCut(P, size) /\ n = Count(f.bytes, size) /\ n \in Nat \ {0}
  BY <1>1, CutIs, PiecesAre
<1>4. d \o t # <<>>
  <2>1. DOMAIN P = 1..n
    BY <1>3 DEF IsCut
  <2>. DEFINE S == Range(d) \cup {ParityShard(f, Parity(P, size))}
  <2>2. d = [k \in 1..n |-> d[k]] /\ DOMAIN d = 1..n
    <3>. DEFINE e(k) == [index |-> k, count |-> Len(P), payload |-> P[k],
                         flags |-> (IF k = 1 THEN f.flags ELSE {})
                                   \cup (IF fec THEN {"protected"} ELSE {})
                                   \cup (IF k = Len(P) THEN {"end"} ELSE {})]
    <3>1. d = [k \in DOMAIN P |-> e(k)]
      BY DEF DataShards
    <3>. HIDE DEF d, e, P
    <3>. QED  BY <2>1, <3>1
  <2>. HIDE DEF d, P
  <2>3. d \in Seq(S) /\ Len(d) = n
    <3>1. \A k \in 1..n : d[k] \in S
      BY <2>2 DEF Range
    <3>. HIDE DEF S
    <3>. QED  BY <1>3, <2>2, <3>1
  <2>4. t \in Seq(S)
    <3>. DEFINE x == ParityShard(f, Parity(P, size))
    <3>1. x \in S
      OBVIOUS
    <3>. HIDE DEF x, S
    <3>2. t = IF fec THEN <<x>> ELSE <<>>
      BY DEF x
    <3>. HIDE DEF t
    <3>. QED  BY <3>1, <3>2
  <2>. HIDE DEF S, t
  <2>5. Len(d \o t) = n + Len(t) /\ Len(t) \in Nat
    <3>1. /\ d \o t \in Seq(S) /\ Len(d \o t) = Len(d) + Len(t)
      BY <2>3, <2>4, ConcatProperties
    <3>. QED  BY <2>3, <2>4, <3>1
  <2>. QED  BY <1>3, <2>5
<1>. HIDE DEF d, t
<1>5. Len(f.bytes) > MaxFrameBytes \/ n > MaxPackets
  <2>. SUFFICES ASSUME n <= MaxPackets, fec, ~ParityFits(Parity(P, size), udp) PROVE FALSE
    BY <1>1, <1>2, <1>3, <1>4
  <2>. DEFINE p == Parity(P, size)
  <2>1. p.count = n /\ p.size = size /\ p.last = Len(Last(P)) /\ p.xor = Xor(P)
    BY DEF Parity
  <2>2. Len(p.xor) = Len(P[1]) /\ Len(P[1]) \in Nat /\ Len(P[1]) <= size
    BY <1>3, <2>1, ParityIs DEF IsCut
  <2>3. Len(Last(P)) \in Nat /\ Len(Last(P)) <= size
    <3>1. Last(P) = P[n] /\ n \in 1..n
      BY <1>3 DEF Last
    <3>. QED  BY <1>3, <3>1 DEF IsCut
  <2>. HIDE DEF p, P, n
  <2>4. ParityFits(p, udp)
    BY <1>01, <1>1, <1>3, <2>1, <2>2, <2>3 DEF ParityFits
  <2>. QED  BY <2>4 DEF p
<1>6. CASE n > MaxPackets
  <2>. DEFINE m == n - 1  L == Len(f.bytes)
  <2>1. m * size < L /\ L \in Nat
    BY <1>1, <1>3, <1>6, CountIs
  <2>2. m \in Nat /\ MaxPackets <= m
    BY <1>1, <1>3, <1>6
  <2>. HIDE DEF m, L
  <2>3. MaxPackets * least <= m * size /\ MaxPackets * least \in Nat /\ m * size \in Nat
    <3>1. MaxPackets * least <= m * least /\ m * least <= m * size
      BY <1>1, <2>2, Z3
    <3>2. MaxPackets * least \in Nat /\ m * least \in Nat /\ m * size \in Nat
      BY <1>1, <2>2
    <3>. QED  BY <3>1, <3>2
  <2>4. L > MaxPackets * least
    BY <2>1, <2>3
  <2>. QED  BY <2>4 DEF L, least
<1>. QED  BY <1>5, <1>6

\* The inductive invariant: what the receiver holds are pieces of the frame that was cut, an
\* assembly that stays has too few of them, and what it made of them is the frame.
OnTheWay(fec, udp) ==
    LET size == ShardSize(fec, udp)
        P    == Pieces(picture.bytes, size)
    IN  /\ shards = Packetized(picture, fec, udp)
        /\ \/ held = Empty
           \/ Assembly(held, P, size, picture.flags) /\ Waits(held)

RecInv ==
    /\ picture = NoPicture => shards = <<>> /\ held = Empty /\ rebuilt = NoPicture
    /\ picture # NoPicture =>
          /\ picture.bytes \in Seq(Bits) /\ picture.flags \subseteq {"key"}
          /\ \E fec \in BOOLEAN, udp \in MinUdp..MaxUdp : OnTheWay(fec, udp)
    /\ RebuiltIsSent

\* The invariant has the safety properties of a frame on its way as consequences.
LEMMA RecImplies == RecInv => RebuiltIsSent /\ OneLossIsRecovered /\ OnlyOversizeIsRefused
<1>. SUFFICES ASSUME RecInv PROVE OneLossIsRecovered /\ OnlyOversizeIsRefused
  BY DEF RecInv
<1>1. CASE picture = NoPicture
  <2>1. held.count = 0
    BY <1>1 DEF RecInv, Empty
  <2>. QED  BY <1>1, <2>1 DEF OneLossIsRecovered, OnlyOversizeIsRefused
<1>2. CASE picture # NoPicture
  <2>1. /\ picture.bytes \in Seq(Bits) /\ picture.flags \subseteq {"key"}
        /\ \E fec \in BOOLEAN, udp \in MinUdp..MaxUdp : OnTheWay(fec, udp)
    BY <1>2 DEF RecInv
  <2>2. PICK fec \in BOOLEAN, udp \in MinUdp..MaxUdp : OnTheWay(fec, udp)
    BY <2>1
  <2>. DEFINE size == ShardSize(fec, udp)  P == Pieces(picture.bytes, size)
  <2>3. IsCut(P, size)
    BY <2>1, SizesAre, CutIs
  <2>4. held = Empty \/ (Assembly(held, P, size, picture.flags) /\ Waits(held))
    BY <2>2 DEF OnTheWay
  <2>5. OneLossIsRecovered
    <3>1. CASE held = Empty
      BY <3>1 DEF OneLossIsRecovered, Empty
    <3>2. CASE Assembly(held, P, size, picture.flags) /\ Waits(held)
      <4>. HIDE DEF P, size
      <4>1. Cardinality({k \in DOMAIN held.parts : held.parts[k] # Missing})
               + (IF held.parity = NoParity THEN 0 ELSE 1) < held.count
        BY <2>3, <3>2, WaitingIs
      <4>. QED  BY <4>1 DEF OneLossIsRecovered, Given
    <3>. QED  BY <2>4, <3>1, <3>2
  <2>6. OnlyOversizeIsRefused
    <3>1. shards = Packetized(picture, fec, udp)
      BY <2>2 DEF OnTheWay
    <3>. QED  BY <2>1, <3>1, RefusedIs DEF OnlyOversizeIsRefused
  <2>. QED  BY <2>5, <2>6
<1>. QED  BY <1>1, <1>2

\* It holds before a frame is sent.
LEMMA RecInitially == RecoveryInit => RecInv
  BY DEF RecoveryInit, RecInv, RebuiltIsSent

\* A frame is sent.
LEMMA SendPictureKeeps ==
  ASSUME RecInv, NEW bytes \in Pictures, NEW flags \in SUBSET {"key"}, NEW fec \in BOOLEAN,
         NEW udp \in {MinUdp, MaxUdp}, SendPicture(bytes, flags, fec, udp)
  PROVE  RecInv'
<1>1. udp \in MinUdp..MaxUdp
  BY RecoveryAssumption
<1>2. bytes \in Seq(Bits)
  <2>1. PICK n \in 0..(MaxFrameBytes + 1) : bytes \in [1..n -> {0, 1}]
    BY DEF Pictures
  <2>2. n \in Nat
    BY <2>1, RecoveryAssumption
  <2>. QED  BY <2>1, <2>2 DEF Bits
<1>3. /\ picture = NoPicture /\ picture' = [bytes |-> bytes, flags |-> flags]
      /\ shards' = Packetized(picture', fec, udp) /\ held' = held /\ rebuilt' = rebuilt
  BY DEF SendPicture
<1>4. held' = Empty /\ rebuilt' = NoPicture
  BY <1>3 DEF RecInv
<1>5. picture'.bytes = bytes /\ picture'.flags = flags /\ picture' # NoPicture
  <2>1. picture'.bytes = bytes /\ picture'.flags = flags
    BY <1>3
  <2>2. NoPicture.flags = {"none"}
    BY DEF NoPicture
  <2>3. flags # {"none"}
    OBVIOUS
  <2>. QED  BY <2>1, <2>2, <2>3
<1>6. OnTheWay(fec, udp)'
  BY <1>3, <1>4, Zenon DEF OnTheWay
<1>7. RebuiltIsSent'
  BY <1>4 DEF RebuiltIsSent
<1>. QED  BY <1>1, <1>2, <1>5, <1>6, <1>7 DEF RecInv

\* A datagram of it arrives.
LEMMA ReceiveShardKeeps ==
  ASSUME RecInv, NEW i \in DOMAIN shards, ReceiveShard(i)
  PROVE  RecInv'
<1>1. picture # NoPicture
  <2>. SUFFICES ASSUME picture = NoPicture PROVE FALSE
    OBVIOUS
  <2>1. shards = <<>>
    BY DEF RecInv
  <2>. QED  BY <2>1
<1>2. /\ picture.bytes \in Seq(Bits) /\ picture.flags \subseteq {"key"}
      /\ \E fec \in BOOLEAN, udp \in MinUdp..MaxUdp : OnTheWay(fec, udp)
  BY <1>1 DEF RecInv
<1>3. PICK fec \in BOOLEAN, udp \in MinUdp..MaxUdp : OnTheWay(fec, udp)
  BY <1>2
<1>. DEFINE size == ShardSize(fec, udp)  P == Pieces(picture.bytes, size)  fl == picture.flags  s == shards[i]
<1>4. /\ shards = Packetized(picture, fec, udp)
      /\ held = Empty \/ (Assembly(held, P, size, fl) /\ Waits(held))
  BY <1>3 DEF OnTheWay
<1>5. size \in Nat \ {0} /\ IsCut(P, size)
  BY <1>2, SizesAre, CutIs
<1>6. (\E k \in 1..Len(P) : IsPiece(s, P, fl, k)) \/ IsParity(s, P, size, fl)
  BY <1>2, <1>4, <1>5, ShardIs
<1>. DEFINE b == Begun(held, s)
            g == IF "fec" \in s.flags THEN WithParity(b, s) ELSE WithPiece(b, s)
            h == Completed(g)
<1>7. /\ rebuilt = NoPicture /\ picture' = picture /\ shards' = shards
      /\ IF Gaps(h) = {} THEN rebuilt' = Whole(h) /\ held' = Empty ELSE held' = h /\ rebuilt' = rebuilt
  BY DEF ReceiveShard
<1>. HIDE DEF s
<1>8. Assembly(g, P, size, fl)
  <2>. HIDE DEF P, size, fl
  <2>0. fl \subseteq {"key"}
    BY <1>2 DEF fl
  <2>1. s.count = Len(P) /\ Len(P) \in Nat \ {0}
    BY <1>5, <1>6 DEF IsPiece, IsParity, IsCut
  <2>2. Assembly(b, P, size, fl)
    BY <1>4, <2>1, BegunIs
  <2>. HIDE DEF b
  <2>3. CASE \E k \in 1..Len(P) : IsPiece(s, P, fl, k)
    <3>1. PICK k \in 1..Len(P) : IsPiece(s, P, fl, k)
      BY <2>3
    <3>2. g = WithPiece(b, s)
      BY <3>1 DEF IsPiece
    <3>. QED  BY <1>5, <2>2, <3>1, <3>2, WithPieceIs
  <2>4. CASE IsParity(s, P, size, fl)
    <3>1. g = WithParity(b, s)
      BY <2>4 DEF IsParity
    <3>. QED  BY <2>0, <2>2, <2>4, <3>1, WithParityIs
  <2>. QED  BY <1>6, <2>3, <2>4
<1>. HIDE DEF g, b
<1>9. Assembly(h, P, size, fl) /\ (Gaps(h) = {} \/ Waits(h))
  <2>. HIDE DEF P, size, fl
  <2>. QED  BY <1>5, <1>8, CompletedIs
<1>. HIDE DEF h
<1>10. CASE Gaps(h) = {}
  <2>1. Whole(h).bytes = picture.bytes /\ Whole(h).flags \ {"end"} = picture.flags
    <3>. DEFINE bytes == picture.bytes
    <3>1. Assembly(h, Pieces(bytes, size), size, fl)
      BY <1>9
    <3>2. bytes \in Seq(Bits) /\ fl \subseteq {"key"} /\ size \in Nat \ {0}
      BY <1>2, <1>5
    <3>. HIDE DEF size, P, fl, bytes
    <3>3. Whole(h).bytes = bytes /\ Whole(h).flags \ {"end"} = fl
      BY <1>10, <3>1, <3>2, WholeIs
    <3>. QED  BY <3>3 DEF bytes, fl
  <2>2. RebuiltIsSent'
    BY <1>7, <1>10, <2>1 DEF RebuiltIsSent
  <2>3. OnTheWay(fec, udp)'
    <3>1. shards' = Packetized(picture', fec, udp) /\ held' = Empty
      BY <1>4, <1>7, <1>10
    <3>. QED  BY <3>1, Zenon DEF OnTheWay
  <2>. QED  BY <1>1, <1>2, <1>7, <2>2, <2>3 DEF RecInv
<1>11. CASE Gaps(h) # {}
  <2>1. RebuiltIsSent'
    BY <1>7, <1>11 DEF RebuiltIsSent
  <2>2. OnTheWay(fec, udp)'
    BY <1>4, <1>7, <1>9, <1>11 DEF OnTheWay
  <2>. QED  BY <1>1, <1>2, <1>7, <2>1, <2>2 DEF RecInv
<1>. QED  BY <1>10, <1>11

\* Every step keeps it.
LEMMA RecKeeps == RecInv /\ [RecoveryNext]_recoveryVars => RecInv'
<1>. SUFFICES ASSUME RecInv, [RecoveryNext]_recoveryVars PROVE RecInv'
  OBVIOUS
<1>1. CASE UNCHANGED recoveryVars
  BY <1>1 DEF recoveryVars, RecInv, RebuiltIsSent, OnTheWay, Waits, Gaps, Assembly
<1>2. CASE RecoveryNext
  BY <1>2, SendPictureKeeps, ReceiveShardKeeps DEF RecoveryNext
<1>. QED  BY <1>1, <1>2

-----------------------------------------------------------------------------
(* CommandLine.  Settings have a value for what was given and for what is  *)
(* derived, or the line was refused.                                       *)

\* What the settings become when every argument is read keeps those that were given.
LEMMA DerivedKeeps ==
  ASSUME NEW p, NEW given PROVE DOMAIN given \subseteq DOMAIN Derived(p, given)
<1>1. \A f, g : DOMAIN f \subseteq DOMAIN Beside(f, g) /\ DOMAIN g \subseteq DOMAIN Beside(f, g)
  BY DEF Beside
<1>. DEFINE s == Beside(given, Defaults(p))
<1>2. \E f : Derived(p, given) \in {s, Beside(f, s)}
  BY DEF Derived
<1>3. DOMAIN given \subseteq DOMAIN s
  BY <1>1
<1>. HIDE DEF s
<1>. QED  BY <1>1, <1>2, <1>3

\* Before a subcommand is named nothing has been read.
LineInv == LineTypeOK /\ (program = "none" => launch = "reading")

\* The types of the command line are kept: an argument is read, or the line is refused.
LEMMA LineInitially == LineInit => LineInv
BY TypingAssumption DEF LineInit, LineTypeOK, LineInv

\* Every step of the parser and of the launch keeps the types.
LEMMA LineKeeps == LineInv /\ [LineNext]_lineVars => LineInv'
<1>. SUFFICES ASSUME LineInv, [LineNext]_lineVars PROVE LineInv'
  OBVIOUS
<1>. USE DEF LineInv, LineTypeOK
<1>1. ASSUME NEW o, NEW v, Read(o, v), launch = "reading"
      PROVE  launch' = "reading" \/ (launch' = "refused" /\ settings' = <<>>)
  BY <1>1 DEF Read, Refuse
<1>2. ASSUME NEW p \in Subcommands, NEW given, Enter(p, given) PROVE LineInv'
  BY <1>2 DEF Enter
<1>3. ASSUME NEW preset \in Presets, NEW audio \in BOOLEAN, NEW side \in {"sender", "receiver"},
             Share(preset, audio, side)
      PROVE  LineInv'
  BY <1>3 DEF Share
<1>4. CASE ReadLine
  BY <1>1, <1>4 DEF ReadLine
<1>5. ASSUME Typing
      PROVE  typed' \in 0 .. MaxTyped /\ program' = program /\ program # "none" /\ launch = "reading"
  BY <1>5, TypingAssumption DEF Typing
<1>6. ASSUME NEW o, NEW v, ReadTyped(o, v) PROVE LineInv'
  BY <1>1, <1>5, <1>6 DEF ReadTyped
<1>7. CASE ReadWrong
  BY <1>5, <1>7 DEF ReadWrong, Refuse
<1>8. CASE ReadHelp
  BY <1>5, <1>8 DEF ReadHelp
<1>9. CASE FinishReading
  <2>1. CASE Required(program) \subseteq DOMAIN settings /\ NotBlank(settings, "--input")
    <3>1. program # "none" /\ settings' = Derived(program, settings) /\ launch' = "accepted" /\ UNCHANGED <<program, typed>>
      BY <1>9, <2>1 DEF FinishReading
    <3>2. Required(program) \subseteq DOMAIN settings'
      BY <2>1, <3>1, DerivedKeeps
    <3>. QED  BY <3>1, <3>2
  <2>2. CASE ~(Required(program) \subseteq DOMAIN settings /\ NotBlank(settings, "--input"))
    BY <1>9, <2>2 DEF FinishReading, Refuse
  <2>. QED  BY <2>1, <2>2
<1>10. CASE Start
  BY <1>10 DEF Start
<1>11. CASE UNCHANGED lineVars
  BY <1>11 DEF lineVars
<1>. QED  BY <1>2, <1>3, <1>4, <1>6, <1>7, <1>8, <1>9, <1>10, <1>11 DEF LineNext

-----------------------------------------------------------------------------
(* The parts, each against its own specification.                          *)

\* The sound and its synchronisation, as systems of their own.
SoundSpec == AudioInit /\ [][AudioNext]_audioVars
SyncSpec  == AvSyncInit /\ [][AvSyncNext]_syncVars

\* However start, the stops of several threads, the startup check and the readers
\* interleave (ScreenRuntimeController): one stop runs at a time, a stop state is left
\* again, and while no thread crosses another without the lock no process is lost.
THEOREM RuntimeIsSafe == RuntimeSpec => [](RuntimeTypeOK /\ RuntimeSafety)
BY RunImplies, RunInitially, RunKeeps, PTL DEF RuntimeSpec

\* For any tolerance, deadline and drift: a picture is held no longer than MaxHold
\* however often it is replaced by a newer one, and a forced release lasts
\* (AvSyncScheduler::decide, MediaClockJumpDetector).
THEOREM SyncIsSafe == SyncSpec => [](AvSyncTypeOK /\ HoldIsBounded /\ ReleaseIsLasting)
BY SyncImplies, SyncInitially, SyncKeeps, PTL DEF SyncSpec

\* For any sizes of queues and buffers and any order of packets: what is buffered stays
\* within its bound, sound of one session is played in order and once, and nothing waits
\* that the playback has passed (JitterBuffer, fill_render_bytes).
THEOREM SoundIsSafe == SoundSpec => [](AudioTypeOK /\ PlayedForward /\ NothingBehind)
BY AudioImplies, AudioInitially, AudioKeeps, PTL DEF SoundSpec

\* For any frame and any sizes of datagrams: what is assembled, with or without the help
\* of the parity, is the frame that was sent, one loss is made good, and what is
\* refused is larger than a frame may be (packetize_frame, try_recover_missing).
THEOREM RecoveryIsSafe ==
    RecoverySpec => [](RebuiltIsSent /\ OneLossIsRecovered /\ OnlyOversizeIsRefused)
BY RecImplies, RecInitially, RecKeeps, PTL DEF RecoverySpec

\* A line is refused, or its settings have what was given and what is derived from it
\* (parse_args and the checks of the subcommands).
THEOREM LineTypes == LineSpec => []LineTypeOK
<1>1. LineInv => LineTypeOK
    BY DEF LineInv
<1> QED BY <1>1, LineInitially, LineKeeps, PTL DEF LineSpec

-----------------------------------------------------------------------------
(* All of them together.                                                   *)

\* A step of the receiving side is a step of one part; the others rest.
LEMMA StepsOfSubjects ==
    ASSUME [ReceivingNext]_allVars
    PROVE  /\ [AudioNext]_audioVars /\ [AvSyncNext]_syncVars /\ [RecoveryNext]_recoveryVars
           /\ [LineNext]_lineVars /\ [ResumeNext]_resumeVars /\ [ReplayNext]_replayVars
           /\ [RuntimeNext]_runtimeVars
<1>1. CASE UNCHANGED allVars
    BY <1>1 DEF allVars, mediaVars, otherVars
<1>2. CASE MediaSteps
    BY <1>2, Zenon DEF MediaSteps, otherVars
<1>3. CASE OtherSteps
    BY <1>3, Zenon DEF OtherSteps, mediaVars
<1>4. CASE HeldSteps
    BY <1>4, Zenon DEF HeldSteps, mediaVars
<1> QED BY <1>1, <1>2, <1>3, <1>4 DEF ReceivingNext

\* So every part of it behaves as it would alone.
LEMMA PartsAreThemselves ==
    ReceivingSpec => /\ SoundSpec /\ SyncSpec /\ RecoverySpec /\ LineSpec
                     /\ ResumeSpec /\ ReplaySpec /\ RuntimeSpec
<1>1. ReceivingInit => /\ AudioInit /\ AvSyncInit /\ RecoveryInit /\ LineInit
                       /\ ResumeInit /\ ReplayInit /\ RuntimeInit
    BY DEF ReceivingInit
<1> QED BY <1>1, StepsOfSubjects, PTL
        DEF ReceivingSpec, SoundSpec, SyncSpec, RecoverySpec, LineSpec, ResumeSpec, ReplaySpec,
            RuntimeSpec

\* Every part keeps its types, also when attempts at a transfer overlap.
THEOREM ReceivingTypes == ReceivingSpec => []ReceivingTypeOK
<1>1. ResumeSpec => []ResumeTypeOK
    BY ResumeTypes
<1>2. ASSUME AudioTypeOK, AvSyncTypeOK, LineTypeOK, ResumeTypeOK, ReplayTypeOK, RuntimeTypeOK
      PROVE  ReceivingTypeOK
    BY <1>2, Zenon DEF ReceivingTypeOK
<1> QED BY <1>1, <1>2, SoundIsSafe, SyncIsSafe, LineTypes, ReplayTypes, RuntimeIsSafe,
           PartsAreThemselves, PTL

\* What the pictures and the sound promise, whatever the network does to them: order,
\* bounded holding, and recovery of exactly what was sent.
THEOREM MediaIsSafe == ReceivingSpec => []MediaSafety
<1>1. ASSUME PlayedForward, NothingBehind, HoldIsBounded, ReleaseIsLasting,
             RebuiltIsSent, OneLossIsRecovered, OnlyOversizeIsRefused
      PROVE  MediaSafety
    BY <1>1 DEF MediaSafety
<1> QED BY <1>1, SoundIsSafe, SyncIsSafe, RecoveryIsSafe, PartsAreThemselves, PTL

\* What is kept from one attempt, packet or process to the next is what it is taken for.
THEOREM HoldingIsSafe ==
    ASSUME ~Overlap
    PROVE  ReceivingSpec => []HoldingSafety
<1>1. ResumeSpec => []ResumeSafety
    BY ResumeIsSafe
<1>2. ResumeSafety /\ ReplaySafety /\ RuntimeSafety => HoldingSafety
    BY DEF HoldingSafety
<1> QED BY <1>1, <1>2, ReplayIsSound, RuntimeIsSafe, PartsAreThemselves, PTL

\* And what a failed attempt received is kept beside the other parts too.
THEOREM ReceivingKeepsProgress ==
    ASSUME ~Overlap
    PROVE  ReceivingSpec => ProgressIsKept
BY ProgressKept, PartsAreThemselves, PTL
=============================================================================
