----------------------------- MODULE ReplayWindow -----------------------------
(***************************************************************************)
(* The window of numbers a receiver of the RUDP remembers (crypto.py       *)
(* ReplayProtector): the largest number accepted, and which of the window  *)
(* numbers up to it were.  A session has one for DATA, whose window the    *)
(* adaptive reordering widens as it goes (protocol.py                      *)
(* _sync_adaptive_reorder), and one for control packets, which only a jump *)
(* widens.  A packet that is not accepted as new is still DATA for the     *)
(* protocol, which acknowledges it again, but as a control packet it is    *)
(* not acted on, so a control packet must be accepted once.                *)
(*                                                                         *)
(* Packets arrive in any order, any number of times.  The bitmap is the    *)
(* set of its bits.  _accept_control_replay's seeding of an unused window  *)
(* with the number before the first comes to the same as its absence.      *)
(***************************************************************************)
EXTENDS Integers

CONSTANTS
    Numbers,      \* sequence numbers that packets arrive with
    Uses,         \* what the window is for: "control", "data"
    InitWindow,   \* window_size at the start
    InitMargin,   \* auto_expand_margin at the start
    MaxReplayWindow, \* max_window_size
    AskedWindows  \* what the adaptive reordering may ask for

ASSUME NumbersAssumption == Numbers \subseteq Nat \ {0}
ASSUME UsesAssumption == Uses \subseteq {"control", "data"}
ASSUME WindowSizesAssumption ==
    /\ InitWindow \in Nat \ {0} /\ InitMargin \in Nat /\ MaxReplayWindow \in Nat
    /\ MaxReplayWindow >= InitWindow /\ MaxReplayWindow >= InitMargin
    /\ AskedWindows \subseteq Nat

VARIABLES
    use,           \* what this window is for
    base,          \* base; 0 before the first packet
    bits,          \* bitmap: k is for base - k
    windowSize,    \* window_size
    expandMargin,  \* auto_expand_margin
    heard,         \* history: numbers accepted
    heardAgain     \* history: numbers accepted when they had been before

replayVars == <<use, base, bits, windowSize, expandMargin, heard, heardAgain>>

Least(a, b) == IF a <= b THEN a ELSE b
Most(a, b)  == IF a >= b THEN a ELSE b

ReplayInit ==
    /\ use \in Uses
    /\ base = 0 /\ bits = {}
    /\ windowSize = InitWindow /\ expandMargin = InitMargin
    /\ heard = {} /\ heardAgain = {}

-----------------------------------------------------------------------------
(* accept; a number that is refused, as too far ahead or as a duplicate or  *)
(* too old, changes nothing.                                                *)

TooFarRight(seq) == seq - base > Most(windowSize, Least(MaxReplayWindow, windowSize + expandMargin))

DupOld(seq) == base - seq >= windowSize \/ base - seq \in bits

\* The bits of a window that moves on by diff, those that leave it gone.
Shifted(diff) == {0} \cup {k \in diff..(windowSize - 1) : k - diff \in bits}

\* The first number is accepted whatever it is.
AcceptFirst(seq) ==
    /\ base = 0
    /\ base' = seq
    /\ bits' = {0}
    /\ UNCHANGED windowSize

\* A number ahead moves the window, and widens it if it jumps further than that.
AcceptAhead(seq) ==
    /\ base > 0 /\ seq > base /\ ~TooFarRight(seq)
    /\ base' = seq
    /\ bits' = Shifted(seq - base)
    /\ windowSize' = Most(windowSize, seq - base)

AcceptBehind(seq) ==
    /\ base > 0 /\ seq <= base /\ ~DupOld(seq)
    /\ bits' = bits \cup {base - seq}
    /\ UNCHANGED <<base, windowSize>>

Accept(seq) ==
    /\ AcceptFirst(seq) \/ AcceptAhead(seq) \/ AcceptBehind(seq)
    /\ heard' = heard \cup {seq}
    /\ heardAgain' = IF seq \in heard THEN heardAgain \cup {seq} ELSE heardAgain
    /\ UNCHANGED <<use, expandMargin>>

\* set_window_size and set_auto_expand_margin, as _sync_adaptive_reorder calls them:
\* neither is ever made smaller.
Widen(w, m) ==
    /\ use = "data"
    /\ windowSize' = Least(Most(windowSize, w), MaxReplayWindow)
    /\ expandMargin' = Least(Most(expandMargin, m), MaxReplayWindow)
    /\ UNCHANGED <<use, base, bits, heard, heardAgain>>

ReplayNext ==
    \/ \E seq \in Numbers : Accept(seq)
    \/ \E w, m \in AskedWindows : Widen(w, m)

ReplaySpec == ReplayInit /\ [][ReplayNext]_replayVars

-----------------------------------------------------------------------------
ReplayTypeOK ==
    /\ use \in Uses
    /\ base \in Nat /\ windowSize \in 1..MaxReplayWindow /\ expandMargin \in Nat
    /\ bits \subseteq 0..(windowSize - 1)
    /\ heard \subseteq Numbers /\ heardAgain \subseteq heard
    /\ \A n \in heard : n <= base

\* A control packet is accepted once, however its copies are delayed and whatever
\* jumps widen the window in between: no number it let go of comes back into it.
ControlOnce == use = "control" => heardAgain = {}

\* What the window holds against a number is true: it was accepted.  And what it lets
\* in again was outside the window when it was widened, which control never meets.
WindowIsTrue ==
    /\ \A k \in bits : base - k \in heard
    /\ use = "control" =>
          \A k \in 0..(windowSize - 1) : base - k \in heard => k \in bits

ReplaySafety == ControlOnce /\ WindowIsTrue
=============================================================================
