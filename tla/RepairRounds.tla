---------------------------- MODULE RepairRounds ----------------------------
(***************************************************************************)
(* The repair of one video frame, in time: the receiver asks for missing   *)
(* packets in rounds (collect_nack_items), the sender sends each at most   *)
(* once per interval (RepairSuppression), and the frame is given up at the *)
(* end of its repair window.                                               *)
(*                                                                         *)
(* The frame is the next one to be decoded and its first packet has        *)
(* arrived.  Time is counted in ticks.  A datagram takes up to Flight      *)
(* ticks; at most LostPackets packets of the frame and LostRequests NACKs  *)
(* are lost, and no packet that is sent again.  What is due happens before *)
(* time passes, as the network loop runs every millisecond.  The session   *)
(* and the lifetime of the sender's copies are in VideoSender, the gate    *)
(* over several frames in VideoReceive, the parity in FrameRecovery.       *)
(***************************************************************************)
EXTENDS Integers, FiniteSets, FiniteSetsExt

CONSTANTS
    FrameShards,   \* packets of the frame
    NackDelay, NackRepeat, MaxRounds,   \* nack_delay_ms, nack_repeat_ms, nack_max_rounds
    ItemsPerFrame, \* DEFAULT_NACK_ITEMS_PER_FRAME
    Debounce,      \* NACK_CONFIRMED_GAP_DEBOUNCE
    NearDeadline,  \* NACK_PLAYOUT_DEADLINE_GUARD
    RepairWindow,  \* playout_delay_ms
    RepairGuard,   \* REPAIR_DEADLINE_GUARD
    FrameTimeout,  \* frame_timeout_ms
    ReorderWait,   \* current_reorder_wait()
    SuppressRepair,\* the interval of the sender's RepairSuppression
    Flight, LostPackets, LostRequests

ASSUME RoundsAssumption ==
    /\ {FrameShards, NackRepeat, MaxRounds, ItemsPerFrame, RepairWindow, FrameTimeout}
          \subseteq Nat \ {0}
    /\ {NackDelay, Debounce, NearDeadline, RepairGuard, ReorderWait, SuppressRepair, Flight,
        LostPackets, LostRequests} \subseteq Nat

Shards == 0 .. FrameShards - 1
Never  == -1

VARIABLES
    frame,     \* the assembly: ages of what collect_nack_items looks at
    later,     \* a packet of a later frame has been seen, and since when it blocks
    flying,    \* datagrams under way: packets of the frame, and NACKs
    resent,    \* the sender: for each packet, the age of its last repair, and how many
    budget     \* datagrams that may still be lost

roundVars == <<frame, later, flying, resent, budget>>

-----------------------------------------------------------------------------
(* The receiver.                                                            *)

Smaller(a, b) == IF a < b THEN a ELSE b
Window   == Smaller(RepairWindow, FrameTimeout)
Deadline == Window - Smaller(RepairGuard, Window \div 2)

Lacking == Shards \ frame.got

\* confirmed_missing_count(), and the last packet being there.
ConfirmedGap ==
    \/ Cardinality(frame.got) < Max(frame.got) + 1
    \/ FrameShards - 1 \in frame.got

\* Nothing has come for a while; or there is a reason to believe that what
\* lacks was sent; or the time is short.
Evident ==
    \/ frame.quiet >= NackDelay
    \/ (ConfirmedGap \/ later.seen) /\ frame.quiet >= Smaller(NackDelay, Debounce)
    \/ Deadline - frame.age <= NearDeadline

Recently(age) == age # Never /\ age < NackRepeat

\* The lowest packets first, up to the limit.
ItemsDue ==
    LET due == {k \in Lacking : ~Recently(frame.asked[k])}
    IN  {k \in due : Cardinality({j \in due : j < k}) < ItemsPerFrame}

RoundDue ==
    /\ ~frame.out /\ Lacking # {} /\ frame.rounds < MaxRounds
    /\ frame.age < Deadline
    /\ Evident
    /\ ~Recently(frame.last) /\ ItemsDue # {}

\* collect_nack_items and the NACK that carries the items.
Ask ==
    /\ RoundDue
    /\ flying' = flying \cup {[kind |-> "nack", items |-> ItemsDue, left |-> Flight]}
    /\ frame' = [frame EXCEPT !.rounds = @ + 1, !.last = 0,
                              !.asked = [k \in Shards |-> IF k \in ItemsDue THEN 0 ELSE @[k]]]
    /\ UNCHANGED <<later, resent, budget>>

\* accept_data_packet; the frame that has everything is complete.
PacketArrives(d) ==
    /\ d \in flying /\ d.kind = "packet"
    /\ flying' = flying \ {d}
    /\ LET new == ~frame.out /\ d.items \cap frame.got = {}
       IN  frame' = [frame EXCEPT
               !.got = IF frame.out THEN @ ELSE @ \cup d.items,
               !.quiet = IF new THEN 0 ELSE @,
               !.asked = [k \in Shards |-> IF new /\ k \in d.items THEN Never ELSE @[k]],
               !.out = @ \/ frame.got \cup d.items = Shards]
    /\ UNCHANGED <<later, resent, budget>>

\* A packet of a later frame.
LaterFrame ==
    /\ ~frame.out /\ ~later.seen
    /\ later' = [later EXCEPT !.seen = TRUE]
    /\ UNCHANGED <<frame, flying, resent, budget>>

\* take_ready: the gate waits for the frame until its repair window has ended;
\* expire: a frame that has timed out is given up by itself.
GateGivesWay ==
    /\ ~frame.out
    /\ \/ later.seen /\ later.blocked >= ReorderWait /\ frame.age >= Deadline
       \/ frame.age >= FrameTimeout

FrameGivenUp ==
    /\ GateGivesWay
    /\ frame' = [frame EXCEPT !.out = TRUE]
    /\ UNCHANGED <<later, flying, resent, budget>>

-----------------------------------------------------------------------------
(* The sender and the network.                                              *)

\* Mutant: whatever is asked for is sent.
RequestArrives_Unsuppressed(d) ==
    /\ d \in flying /\ d.kind = "nack"
    /\ flying' = (flying \ {d}) \cup
               {[kind |-> "packet", items |-> {k}, left |-> Flight] : k \in d.items}
    /\ resent' = [k \in Shards |-> IF k \in d.items
                                   THEN [age |-> 0, times |-> resent[k].times + 1]
                                   ELSE resent[k]]
    /\ UNCHANGED <<frame, later, budget>>

\* The control thread takes a NACK: every packet it may send again is sent.
RequestArrives(d) ==
    /\ d \in flying /\ d.kind = "nack"
    /\ LET send == {k \in d.items : resent[k].age = Never \/ resent[k].age >= SuppressRepair}
       IN  /\ flying' = (flying \ {d}) \cup
                   {[kind |-> "packet", items |-> {k}, left |-> Flight] : k \in send}
           /\ resent' = [k \in Shards |-> IF k \in send
                                          THEN [age |-> 0, times |-> resent[k].times + 1]
                                          ELSE resent[k]]
    /\ UNCHANGED <<frame, later, budget>>

\* A NACK is lost.
RequestLost(d) ==
    /\ d \in flying /\ d.kind = "nack" /\ budget > 0
    /\ budget' = budget - 1
    /\ flying' = flying \ {d}
    /\ UNCHANGED <<frame, later, resent>>

Aging(age, most) == IF age = Never THEN Never ELSE Smaller(age + 1, most)

RoundTick ==
    /\ ~frame.out /\ ~RoundDue /\ ~GateGivesWay
    /\ \A d \in flying : d.left > 0
    /\ flying' = {[d EXCEPT !.left = @ - 1] : d \in flying}
    /\ frame' = [frame EXCEPT !.age = @ + 1, !.quiet = Smaller(@ + 1, NackDelay + Debounce),
                              !.last = Aging(@, NackRepeat),
                              !.asked = [k \in Shards |-> Aging(@[k], NackRepeat)]]
    /\ later' = [later EXCEPT !.blocked = IF later.seen THEN Smaller(@ + 1, ReorderWait) ELSE 0]
    /\ resent' = [k \in Shards |-> [resent[k] EXCEPT !.age = Aging(@, SuppressRepair)]]
    /\ UNCHANGED budget

-----------------------------------------------------------------------------
\* One packet is there, at most LostPackets of the others never come.
RoundInit ==
    /\ \E first \in Shards : \E gone \in SUBSET (Shards \ {first}) :
         /\ Cardinality(gone) <= LostPackets
         /\ frame = [got |-> {first}, age |-> 0, quiet |-> 0, rounds |-> 0, last |-> Never,
                     asked |-> [k \in Shards |-> Never], out |-> FALSE]
         /\ flying = {[kind |-> "packet", items |-> {k}, left |-> Flight] :
                         k \in Shards \ (gone \cup {first})}
    /\ later = [seen |-> FALSE, blocked |-> 0]
    /\ resent = [k \in Shards |-> [age |-> Never, times |-> 0]]
    /\ budget = LostRequests

RoundNext ==
    \/ Ask \/ LaterFrame \/ FrameGivenUp \/ RoundTick
    \/ \E d \in flying : PacketArrives(d) \/ RequestArrives(d) \/ RequestLost(d)

RoundSpec == RoundInit /\ [][RoundNext]_roundVars

-----------------------------------------------------------------------------
(* Properties.                                                              *)

\* A frame of which packets are lost is repaired before it is given up, even
\* when all the NACKs but those of the last round are lost on the way.
RepairedInTime == frame.out => frame.got = Shards

\* However the rounds of the receiver and what is still under way cross, no
\* packet is sent again more than once.
SentAgainOnce == \A k \in Shards : resent[k].times <= 1
=============================================================================
