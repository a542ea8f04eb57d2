---------------------------- MODULE PathMigration -----------------------------
(***************************************************************************)
(* How the server of an established RUDP session follows a client whose    *)
(* address changes (protocol.py handle_packet, _send_path_challenge,       *)
(* _promote_validated_path).  A packet from a new address is held back     *)
(* until the client answers a challenge sent there; the answer makes that  *)
(* address the session's path and retires the one before, whose packets    *)
(* are still taken for a time, and which is not challenged meanwhile.      *)
(*                                                                         *)
(* The network keeps every packet and delivers it any number of times, in  *)
(* any order, or never; what is sent to an address that the client is not  *)
(* at is lost.  A token is good until the next is made for its address, or *)
(* the validation is over; an answer with one that no longer is, is        *)
(* "stale".  Time is abstract: a timeout passes when it passes.  A probe   *)
(* that the client starts itself is left out: nothing calls it.            *)
(***************************************************************************)
EXTENDS Naturals

CONSTANTS
    Routes,   \* addresses the client may have
    MaxMoves  \* bound of the model: how often it changes its address

ASSUME MaxMovesAssumption == MaxMoves \in Nat

VARIABLES
    here,          \* the client's address
    moves,         \* how often it has changed it
    peerAddr,      \* peer_addr of the server, and with it addr
    validating,    \* the addresses in _path_validation
    retired,       \* the addresses in _retired_paths
    peerDataSeen,  \* _peer_data_seen
    arriving,      \* the packets on their way to the server
    challenges     \* the addresses to which a token that is still good is on its way

serverPathVars == <<peerAddr, validating, retired, peerDataSeen>>
pathVars       == <<here, moves, serverPathVars, arriving, challenges>>

Packet(kind, from) == [kind |-> kind, from |-> from]

Ordinary    == {"data", "control"}
PacketKinds == Ordinary \cup {"response", "stale"}

PathInit ==
    /\ here \in Routes /\ peerAddr = here
    /\ moves = 0
    /\ validating = {} /\ retired = {} /\ challenges = {}
    /\ peerDataSeen = FALSE
    /\ arriving = {}

-----------------------------------------------------------------------------
(* The client. *)

ClientMoves ==
    /\ moves < MaxMoves
    /\ moves' = moves + 1
    /\ here' \in Routes \ {here}
    /\ UNCHANGED <<serverPathVars, arriving, challenges>>

\* It sends, or sends again: the session lasts.
ClientSends(kind) ==
    /\ arriving' = arriving \cup {Packet(kind, here)}
    /\ UNCHANGED <<here, moves, serverPathVars, challenges>>

\* A PATH_CHALLENGE is answered to where it came from, with its token.
ClientAnswers ==
    /\ here \in challenges
    /\ arriving' = arriving \cup {Packet("response", here)}
    /\ UNCHANGED <<here, moves, serverPathVars, challenges>>

-----------------------------------------------------------------------------
(* The server. *)

\* The token of an address is good no more: an answer with it may still arrive.
Outdated(a) ==
    IF a \in challenges
    THEN (arriving \ {Packet("response", a)}) \cup {Packet("stale", a)}
    ELSE arriving

\* _send_path_challenge, of a new token.
Challenge(a) ==
    /\ validating' = validating \cup {a}
    /\ challenges' = challenges \cup {a}
    /\ arriving' = Outdated(a)

\* _path_migration_allowed
MayMove(kind) == kind = "data" \/ peerDataSeen

\* An ordinary packet from the session's path, or from one that is retired, is taken.
TakesPacket(kind, a) ==
    /\ Packet(kind, a) \in arriving
    /\ a = peerAddr \/ a \in retired
    /\ peerDataSeen' = (peerDataSeen \/ kind = "data")
    /\ UNCHANGED <<here, moves, peerAddr, validating, retired, arriving, challenges>>

\* One from anywhere else is not; it has that address challenged, again if the last
\* challenge has timed out.
HoldsBack(kind, a) ==
    /\ Packet(kind, a) \in arriving
    /\ a # peerAddr /\ a \notin retired
    /\ a \in validating \/ MayMove(kind)
    /\ Challenge(a)
    /\ UNCHANGED <<here, moves, peerAddr, retired, peerDataSeen>>

\* The PATH_RESPONSE carries the token of the validation of its address.
AnswerIsGood(a) == a \in validating /\ Packet("response", a) \in arriving

\* _promote_validated_path
Promotes(a) ==
    /\ AnswerIsGood(a)
    /\ a # peerAddr
    /\ peerAddr' = a
    /\ validating' = validating \ {a}
    /\ retired' = (retired \ {a}) \cup {peerAddr}
    /\ challenges' = challenges \ {a}
    /\ arriving' = Outdated(a)
    /\ UNCHANGED <<here, moves, peerDataSeen>>

\* _prune_path_state, of a path whose time of grace is over ...
RetirementEnds(a) ==
    /\ a \in retired
    /\ retired' = retired \ {a}
    /\ UNCHANGED <<here, moves, peerAddr, validating, peerDataSeen, arriving, challenges>>

\* ... and of a validation that was never answered.
ValidationExpires(a) ==
    /\ a \in validating
    /\ validating' = validating \ {a}
    /\ challenges' = challenges \ {a}
    /\ arriving' = Outdated(a)
    /\ UNCHANGED <<here, moves, peerAddr, retired, peerDataSeen>>

PathNext ==
    \/ ClientMoves \/ ClientAnswers
    \/ \E kind \in Ordinary : ClientSends(kind)
    \/ \E kind \in Ordinary, a \in Routes : TakesPacket(kind, a) \/ HoldsBack(kind, a)
    \/ \E a \in Routes : Promotes(a) \/ RetirementEnds(a) \/ ValidationExpires(a)

\* The client goes on sending DATA, the server hears it, grace ends, and of the
\* challenges made at one address some time one is answered before the next.
PathFairness ==
    /\ WF_pathVars(ClientSends("data"))
    /\ WF_pathVars(HoldsBack("data", here))
    /\ WF_pathVars(RetirementEnds(here))
    /\ SF_pathVars(ClientAnswers)
    /\ SF_pathVars(Promotes(here))

PathSpec == PathInit /\ [][PathNext]_pathVars /\ PathFairness

-----------------------------------------------------------------------------
PathTypeOK ==
    /\ here \in Routes /\ moves \in 0..MaxMoves
    /\ peerAddr \in Routes /\ peerDataSeen \in BOOLEAN
    /\ validating \subseteq Routes /\ retired \subseteq Routes /\ challenges \subseteq Routes
    /\ arriving \subseteq {Packet(kind, a) : kind \in PacketKinds, a \in Routes}

\* The path of the session is neither being validated nor retired, and no address is
\* both: of a packet's address only one thing is true.  A token on its way is that of
\* a validation.
OneStanding ==
    /\ peerAddr \notin validating \cup retired
    /\ validating \cap retired = {}
    /\ challenges \subseteq validating
    /\ \A a \in Routes : Packet("response", a) \in arriving => a \in challenges

\* Wherever the client comes to stay, though it returns to a path that is retired and
\* answers from where it was arrive late, the session comes there too, and stays.
SessionFollows == <>[](peerAddr = here)
=============================================================================
