-------------------------- MODULE ReliableTransfer --------------------------
(***************************************************************************)
(* What one direction of a RUDP session promises its two applications.     *)
(* Packets are submitted in order; they arrive in any order and more than  *)
(* once; what arrived is handed on in order, once.  The sender may take a  *)
(* packet as confirmed only when it has arrived, and a packet it abandons  *)
(* is never confirmed.  Once the session has failed nothing more is        *)
(* submitted, confirmed or abandoned.                                      *)
(***************************************************************************)
EXTENDS Integers

CONSTANT N

VARIABLES
    submitted,  \* packets 1..submitted were given to the session
    arrived,    \* packets the receiving session has
    delivered,  \* packets 1..delivered were handed to the receiving app
    confirmed,  \* packets the sending session knows to have arrived
    abandoned,  \* packets the sending session gave up on
    failed      \* the sending session has failed

transferVars == <<submitted, arrived, delivered, confirmed, abandoned, failed>>

Init ==
    /\ submitted = 0 /\ delivered = 0
    /\ arrived = {} /\ confirmed = {} /\ abandoned = {}
    /\ failed = FALSE

Submit ==
    /\ ~failed /\ submitted < N
    /\ submitted' = submitted + 1
    /\ UNCHANGED <<arrived, delivered, confirmed, abandoned, failed>>

Arrive ==
    /\ \E s \in 1..submitted : arrived' = arrived \cup {s}
    /\ delivered' \in delivered..N
    /\ 1..delivered' \subseteq arrived'
    /\ UNCHANGED <<submitted, confirmed, abandoned, failed>>

Confirm ==
    /\ ~failed
    /\ \E S \in SUBSET (arrived \ abandoned) : confirmed' = confirmed \cup S
    /\ UNCHANGED <<submitted, arrived, delivered, abandoned, failed>>

Abandon ==
    /\ ~failed
    /\ \E S \in SUBSET ((1..submitted) \ confirmed) :
          abandoned' = abandoned \cup S
    /\ UNCHANGED <<submitted, arrived, delivered, confirmed, failed>>

Fail ==
    /\ failed' = TRUE
    /\ UNCHANGED <<submitted, arrived, delivered, confirmed, abandoned>>

Next == Submit \/ Arrive \/ Confirm \/ Abandon \/ Fail

Spec == Init /\ [][Next]_transferVars
=============================================================================
