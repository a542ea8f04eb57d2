--------------------------- MODULE MCVideoReceive ---------------------------
(* The instances of VideoReceive that TLC checks. *)
EXTENDS VideoReceive

\* Frames 1 and 2 have two data packets, the others one.
TwoPackets == [f \in Frames |-> IF f \in {1, 2} THEN 2 ELSE 1]
Keyframes  == {0, 3}
=============================================================================
