------------------------------ MODULE RudpData ------------------------------
(***************************************************************************)
(* One direction of the DATA transport of protocol.py: a sender whose app  *)
(* thread calls send_precise, whose receive thread runs _handle_ack1,      *)
(* whose timer thread is _retransmit_checker and whose pacing thread is    *)
(* _recovery_sender; a receiver whose receive thread runs _handle_data and *)
(* _handle_ack2 and whose timer thread is _ack1_resender; and a UDP        *)
(* network that loses, reorders and duplicates.                            *)
(*                                                                         *)
(* Each action is one critical section of session.lock, or one call made   *)
(* between two of them, so every interleaving of the threads the lock      *)
(* permits is a behaviour.  Time is abstract: whenever the code compares a *)
(* clock with a limit, both outcomes are possible.                         *)
(***************************************************************************)
EXTENDS Integers, FiniteSets

CONSTANTS
    N,            \* DATA packets the app submits; packet N is the EOF frame
    Window,       \* packets can_send allows in flight
    MaxRetries,   \* max_retries
    MaxMissing,   \* ranges an ACK1 can list (255 on the wire)
    AckEvery,     \* ack1_every_data_packets
    GapThreshold, \* _fast_retx_gap_threshold
    Reports,      \* _fast_retx_missing_reports_required
    MaxFast,      \* _fr_max_fast_cnt
    NetCap        \* bound of the model: records a channel holds at once

ASSUME NAssumption == N \in Nat \ {0}
ASSUME WindowAssumption == Window \in Nat \ {0}
ASSUME MaxRetriesAssumption == MaxRetries \in Nat
ASSUME MaxMissingAssumption == MaxMissing \in Nat \ {0}
ASSUME AckEveryAssumption == AckEvery \in Nat \ {0}
ASSUME FastAssumption == /\ GapThreshold \in Nat \ {0}
                         /\ Reports \in Nat \ {0}
                         /\ MaxFast \in Nat
ASSUME NetCapAssumption == NetCap \in Nat \ {0}

Seqs == 1..N

(***************************************************************************)
(* An ACK state: everything below base is received, base itself is not     *)
(* (unless nothing above it is), and within base..seen exactly the members *)
(* of missing are not.  Nothing is said of the packets above seen.         *)
(***************************************************************************)
AckState == [base: 1..(N + 1), seen: 0..N, missing: SUBSET Seqs]

NoAck == [base |-> 0, seen |-> 0, missing |-> {}]

VARIABLES
    \* the sender
    nextSeq,        \* next DATA number of the app thread
    handoff,        \* number sent by send_precise and not yet in unacked, or 0
    unacked,        \* keys of unacked
    retries,        \* meta["retries"]
    fastCnt,        \* meta["fast_cnt"]
    streak,         \* _fr_missing_report_streak, saturated at Reports
    recoveryQueue,  \* numbers in _recovery_send_queue (its order is abstract)
    recoveryQueued, \* _recovery_send_queued
    hand,           \* the item _recovery_sender popped, or 0
    handStep,       \* where _recovery_sender is with it
    toResend,       \* to_resend of the checker's current round
    failing,        \* the round dropped packets and has not called _set_error
    rxAck,          \* the ACK state _handle_ack1 is working on, or NoAck
    rxStep,         \* where it is
    fastList,       \* its resend_list
    dropped,        \* dropped_data_seqs
    fatal,          \* _fatal_error
    late,           \* history: numbers registered after an ACK covering them
    \* the receiver
    received,         \* recv_ranges
    nextSeqExpected,  \* next_seq_expected
    ack1Payload,      \* ack1_last_payload, NoAck when empty
    ack1Dirty,        \* ack1_dirty
    ack1LastBase,     \* ack1_last_ack_base
    ack1Timed,        \* ack1_last_sent_ts > 0: no ACK2 cleared it since a send
    dataSinceAck,     \* _ack1_data_since_send
    \* the network
    dataNet, ackNet, ack2Net

txVars == <<nextSeq, handoff>>
trackVars == <<unacked, retries, fastCnt, dropped>>
recoveryVars == <<recoveryQueue, recoveryQueued, hand, handStep>>
checkerVars == <<toResend, failing>>
ackRxVars == <<rxAck, rxStep, fastList, streak>>
senderVars == <<txVars, trackVars, recoveryVars, checkerVars, ackRxVars,
                fatal, late>>
ack1Vars == <<ack1Payload, ack1Dirty, ack1LastBase, ack1Timed, dataSinceAck>>
receiverVars == <<received, nextSeqExpected, ack1Vars>>
netVars == <<dataNet, ackNet, ack2Net>>
vars == <<senderVars, receiverVars, netVars>>

-----------------------------------------------------------------------------
(***************************************************************************)
(* Operators on ACK states.                                                *)
(***************************************************************************)

\* A channel that is full loses what is sent on it.
Transmit(net, m) == IF Cardinality(net) < NetCap THEN net \cup {m} ELSE net

\* The last numbers of the ranges a set of numbers falls into.
RangeEnds(S) == {e \in S : e + 1 \notin S}

RangeStarts(S) == {s \in S : s - 1 \notin S}

\* The numbers the receiver misses below the largest it has seen.
Holes(base, recv) == {s \in base..N : s \notin recv /\ \E r \in recv : r > s}

\* seen is the seen_max _build_ack1_payload reports: the largest number
\* received, or the end of the last range that fits when there are too many.
ReportsSeen(seen, base, recv) ==
    LET ends == RangeEnds(Holes(base, recv)) IN
    \/ /\ ends = {}
       /\ seen = base - 1
    \/ /\ Cardinality(ends) \in 1..MaxMissing
       /\ seen \in recv
       /\ \A r \in recv : r <= seen
    \/ /\ Cardinality(ends) > MaxMissing
       /\ seen \in ends
       /\ Cardinality({e \in ends : e <= seen}) = MaxMissing

\* Mutant: too many ranges are cut off the list without shrinking seen_max.
AckStates_CutsList(base, recv) ==
    {[base |-> base, seen |-> seen, missing |-> {s \in (base..seen) \ recv :
        Cardinality({e \in RangeEnds((base..seen) \ recv) : e < s}) < MaxMissing}] :
        seen \in {s \in 0..N : \/ recv = {} /\ s = base - 1
                               \/ s \in recv /\ \A r \in recv : r <= s}}

\* The ACK state of a receiver: a set with one member.
AckStates(base, recv) ==
    {[base |-> base, seen |-> seen, missing |-> (base..seen) \ recv] :
        seen \in {s \in 0..N : ReportsSeen(s, base, recv)}}

\* Mutant: the sender also infers what lies above seen_max.
Acked_AboveSeen(a, s) == s < a.base \/ (s > a.base /\ s \notin a.missing)

\* What the sender may take as received from an ACK state.
Acked(a, s) ==
    \/ s < a.base
    \/ s > a.base /\ s <= a.seen /\ s \notin a.missing

\* Mutant: the cumulative parts of the states are not compared.
Covers_NoBase(a2, a1) ==
    /\ a2.seen >= a1.seen
    /\ \/ a1.seen < a1.base
       \/ a2.missing \cap (a1.base..a1.seen) = a1.missing

\* _ack2_covers_ack1_payload
Covers(a2, a1) ==
    /\ a2.base >= a1.base
    /\ a2.seen >= a1.seen
    /\ \/ a1.seen < a1.base
       \/ a2.missing \cap (a1.base..a1.seen) = a1.missing

\* _ack1_pending
Pending(lastBase, base, recv) ==
    \/ lastBase # base
    \/ \E r \in recv : r >= base

-----------------------------------------------------------------------------
Init ==
    /\ nextSeq = 1 /\ handoff = 0
    /\ unacked = {} /\ dropped = {}
    /\ retries = [s \in Seqs |-> 0] /\ fastCnt = [s \in Seqs |-> 0]
    /\ recoveryQueue = {} /\ recoveryQueued = {}
    /\ hand = 0 /\ handStep = "idle"
    /\ toResend = {} /\ failing = FALSE
    /\ rxAck = NoAck /\ rxStep = "idle" /\ fastList = {}
    /\ streak = [s \in Seqs |-> 0]
    /\ fatal = FALSE /\ late = {}
    /\ received = {} /\ nextSeqExpected = 1
    /\ ack1Payload = NoAck /\ ack1Dirty = FALSE
    /\ ack1LastBase = 0 /\ ack1Timed = FALSE /\ dataSinceAck = 0
    /\ dataNet = {} /\ ackNet = {} /\ ack2Net = {}

(***************************************************************************)
(* The app thread.  send_precise puts the packet on the wire and only then *)
(* takes the lock to enter it in unacked: an ACK may be processed between. *)
(***************************************************************************)
SendData ==
    /\ ~fatal /\ handoff = 0
    /\ nextSeq <= N
    /\ Cardinality(unacked) < Window
    /\ dataNet' = Transmit(dataNet, nextSeq)
    /\ handoff' = nextSeq
    /\ nextSeq' = nextSeq + 1
    /\ UNCHANGED <<trackVars, recoveryVars, checkerVars, ackRxVars, fatal,
                   late, receiverVars, ackNet, ack2Net>>

\* The local sendto failed: nothing is tracked and the session dies.
SendFails ==
    /\ ~fatal /\ handoff = 0
    /\ nextSeq <= N
    /\ Cardinality(unacked) < Window
    /\ fatal' = TRUE
    /\ UNCHANGED <<txVars, trackVars, recoveryVars, checkerVars, ackRxVars,
                   late, receiverVars, netVars>>

RegisterData ==
    /\ handoff # 0
    /\ unacked' = unacked \cup {handoff}
    /\ retries' = [retries EXCEPT ![handoff] = 0]
    /\ fastCnt' = [fastCnt EXCEPT ![handoff] = 0]
    /\ late' = IF \E a \in ack2Net \cup {rxAck} : Acked(a, handoff)
               THEN late \cup {handoff} ELSE late
    /\ handoff' = 0
    /\ UNCHANGED <<nextSeq, dropped, recoveryVars, checkerVars, ackRxVars,
                   fatal, receiverVars, netVars>>

\* Mutant: selective acknowledgements are ignored but still echoed.
AckedNow_Cumulative(a) == {s \in unacked : s < a.base}

(***************************************************************************)
(* _handle_ack1, in three lock sections: forget what is acknowledged,      *)
(* choose what to retransmit early, then queue it and echo the state.      *)
(***************************************************************************)
AckedNow(a) == {s \in unacked : Acked(a, s)}

HandleAck1(a) ==
    /\ ~fatal /\ rxStep = "idle"
    /\ a \in ackNet
    /\ ackNet' = ackNet \ {a}
    /\ unacked' = unacked \ AckedNow(a)
    /\ rxAck' = a /\ rxStep' = "choose"
    /\ UNCHANGED <<txVars, retries, fastCnt, dropped, recoveryVars,
                   checkerVars, fastList, streak, fatal, late, receiverVars,
                   dataNet, ack2Net>>

\* Starts of missing ranges far enough behind seen_max to be losses.
Candidates(a) ==
    {s \in RangeStarts(a.missing) : a.seen - s + 1 >= GapThreshold}

StreakAfter(a) ==
    [s \in Seqs |-> IF s \in Candidates(a) \cap unacked
                    THEN IF streak[s] < Reports THEN streak[s] + 1 ELSE Reports
                    ELSE 0]

ChooseFastRetransmits ==
    /\ rxStep = "choose"
    /\ streak' = StreakAfter(rxAck)
    /\ \E chosen \in SUBSET {s \in unacked : /\ streak'[s] >= Reports
                                             /\ fastCnt[s] < MaxFast
                                             /\ s \notin recoveryQueued} :
          /\ fastList' = chosen
          /\ fastCnt' = [s \in Seqs |-> IF s \in chosen THEN fastCnt[s] + 1
                                                        ELSE fastCnt[s]]
    /\ rxStep' = "finish"
    /\ UNCHANGED <<txVars, unacked, retries, dropped, recoveryVars,
                   checkerVars, rxAck, fatal, late, receiverVars, netVars>>

\* _queue_recovery_retransmit of every member of a list
Enqueue(list) ==
    LET fresh == (list \cap unacked) \ recoveryQueued IN
    /\ recoveryQueue' = recoveryQueue \cup fresh
    /\ recoveryQueued' = recoveryQueued \cup fresh

FinishAck1 ==
    /\ rxStep = "finish"
    /\ Enqueue(fastList)
    /\ ack2Net' = Transmit(ack2Net, rxAck)
    /\ rxAck' = NoAck /\ rxStep' = "idle" /\ fastList' = {}
    /\ UNCHANGED <<txVars, trackVars, hand, handStep, checkerVars, streak,
                   fatal, late, receiverVars, dataNet, ackNet>>

\* Mutant: one retry too many.
CheckerRound_OffByOne ==
    /\ ~fatal /\ ~failing /\ toResend = {}
    /\ LET exhausted == {s \in unacked : retries[s] > MaxRetries} IN
       \E expired \in SUBSET (unacked \ (exhausted \cup recoveryQueued)) :
          /\ expired \cup exhausted # {}
          /\ toResend' = expired
          /\ retries' = [s \in Seqs |-> IF s \in expired THEN retries[s] + 1
                                                         ELSE retries[s]]
          /\ unacked' = unacked \ exhausted
          /\ dropped' = dropped \cup exhausted
          /\ failing' = (exhausted # {})
    /\ UNCHANGED <<txVars, fastCnt, recoveryVars, ackRxVars, fatal, late,
                   receiverVars, netVars>>

(***************************************************************************)
(* _retransmit_checker.  A round drops the packets whose retries are       *)
(* exhausted, charges a retry to those whose RTO expired unless they are   *)
(* already queued, and after the lock fails the session for the former and *)
(* queues the latter.                                                      *)
(***************************************************************************)
CheckerRound ==
    /\ ~fatal /\ ~failing /\ toResend = {}
    /\ unacked # {}
    /\ LET exhausted == {s \in unacked : retries[s] >= MaxRetries}
           waiting == unacked \ (exhausted \cup recoveryQueued) IN
       \E expired \in SUBSET waiting :
          /\ expired \cup exhausted # {}
          /\ toResend' = expired
          /\ retries' = [s \in Seqs |-> IF s \in expired THEN retries[s] + 1
                                                         ELSE retries[s]]
          /\ unacked' = unacked \ exhausted
          /\ dropped' = dropped \cup exhausted
          /\ failing' = (exhausted # {})
    /\ UNCHANGED <<txVars, fastCnt, recoveryVars, ackRxVars, fatal, late,
                   receiverVars, netVars>>

CheckerFails ==
    /\ failing
    /\ fatal' = TRUE
    /\ failing' = FALSE
    /\ UNCHANGED <<txVars, trackVars, recoveryVars, toResend, ackRxVars, late,
                   receiverVars, netVars>>

CheckerQueues ==
    /\ ~failing /\ toResend # {}
    /\ Enqueue(toResend)
    /\ toResend' = {}
    /\ UNCHANGED <<txVars, trackVars, hand, handStep, failing, ackRxVars,
                   fatal, late, receiverVars, netVars>>

\* Mutant: an item acknowledged in the queue keeps its claim.
PopRecovery_KeepsClaim ==
    /\ ~fatal /\ hand = 0
    /\ \E s \in recoveryQueue :
          /\ recoveryQueue' = recoveryQueue \ {s}
          /\ hand' = (IF s \in unacked THEN s ELSE 0)
          /\ handStep' = (IF s \in unacked THEN "paced" ELSE "idle")
    /\ UNCHANGED <<txVars, trackVars, recoveryQueued, checkerVars, ackRxVars,
                   fatal, late, receiverVars, netVars>>

(***************************************************************************)
(* _recovery_sender: pop an item, leave it if it has been acknowledged,    *)
(* wait for the pacer, look again, send, and only then release the claim   *)
(* that keeps the packet from being queued twice.                          *)
(***************************************************************************)
PopRecovery ==
    /\ ~fatal /\ hand = 0
    /\ \E s \in recoveryQueue :
          /\ recoveryQueue' = recoveryQueue \ {s}
          /\ IF s \in unacked
             THEN /\ hand' = s /\ handStep' = "paced"
                  /\ UNCHANGED recoveryQueued
             ELSE /\ recoveryQueued' = recoveryQueued \ {s}
                  /\ UNCHANGED <<hand, handStep>>
    /\ UNCHANGED <<txVars, trackVars, checkerVars, ackRxVars, fatal, late,
                   receiverVars, netVars>>

\* sendto of a packet still unacknowledged; an error is logged and no more.
SendRecovery ==
    /\ handStep = "paced" /\ hand \in unacked
    /\ dataNet' \in {dataNet, Transmit(dataNet, hand)}
    /\ handStep' = "sent"
    /\ UNCHANGED <<txVars, trackVars, recoveryQueue, recoveryQueued, hand,
                   checkerVars, ackRxVars, fatal, late, receiverVars, ackNet,
                   ack2Net>>

\* Mutant: the claim is not released after the send.
ReleaseRecovery_KeepsClaim ==
    /\ handStep # "idle"
    /\ handStep = "sent" \/ hand \notin unacked
    /\ hand' = 0 /\ handStep' = "idle"
    /\ UNCHANGED <<txVars, trackVars, recoveryQueue, recoveryQueued,
                   checkerVars, ackRxVars, fatal, late, receiverVars, netVars>>

ReleaseRecovery ==
    /\ \/ handStep = "sent"
       \/ handStep = "paced" /\ hand \notin unacked
    /\ recoveryQueued' = recoveryQueued \ {hand}
    /\ hand' = 0 /\ handStep' = "idle"
    /\ UNCHANGED <<txVars, trackVars, recoveryQueue, checkerVars, ackRxVars,
                   fatal, late, receiverVars, netVars>>

(***************************************************************************)
(* The receiver.  _handle_data stores a new packet, hands the in-order     *)
(* prefix on and decides whether to answer now: always after a duplicate,  *)
(* a gap or the EOF frame, otherwise every AckEvery packets or when the    *)
(* last ACK1 is old enough.                                                *)
(***************************************************************************)
\* The in-order prefix ends just before n.
PrefixEnd(n, from, recv) == from..(n - 1) \subseteq recv /\ n \notin recv

\* _send_ack1: the newest state is always cached; a forced one is always
\* sent, any other one may hit the minimum interval and is left dirty.
SendAck1(force, base, recv) ==
    \E a \in AckStates(base, recv) :
        \/ /\ force \/ Pending(ack1LastBase, base, recv)
           /\ ack1Payload' = a
           /\ \/ /\ ack1Dirty' = FALSE
                 /\ ack1LastBase' = a.base
                 /\ ack1Timed' = TRUE
                 /\ dataSinceAck' = 0
                 /\ ackNet' = Transmit(ackNet, a)
              \/ /\ ~force /\ ack1Timed
                 /\ ack1Dirty' = TRUE
                 /\ dataSinceAck' = dataSinceAck + 1
                 /\ UNCHANGED <<ack1LastBase, ack1Timed, ackNet>>
        \/ /\ ~force /\ ~Pending(ack1LastBase, base, recv)
           /\ ack1Payload' = NoAck
           /\ ack1Dirty' = FALSE
           /\ dataSinceAck' = dataSinceAck + 1
           /\ UNCHANGED <<ack1LastBase, ack1Timed, ackNet>>

HandleDuplicate(seq) ==
    /\ seq \in dataNet /\ seq \in received
    /\ dataNet' \in {dataNet, dataNet \ {seq}}
    /\ SendAck1(TRUE, nextSeqExpected, received)
    /\ UNCHANGED <<senderVars, received, nextSeqExpected, ack2Net>>

HandleData(seq) ==
    /\ seq \in dataNet /\ seq \notin received
    /\ dataNet' \in {dataNet, dataNet \ {seq}}
    /\ received' = received \cup {seq}
    /\ \E n \in nextSeqExpected..(N + 1) :
          /\ PrefixEnd(n, nextSeqExpected, received')
          /\ nextSeqExpected' = n
    /\ LET force == seq > nextSeqExpected \/ seq = N IN
       \/ SendAck1(force, nextSeqExpected', received')
       \/ /\ ~force
          /\ dataSinceAck + 1 < AckEvery
          /\ ack1Timed
          /\ dataSinceAck' = dataSinceAck + 1
          /\ UNCHANGED <<ack1Payload, ack1Dirty, ack1LastBase, ack1Timed,
                         ackNet>>
    /\ UNCHANGED <<senderVars, ack2Net>>

\* _ack1_resender sends the cached state, however old, while there is
\* something to report, while it is dirty, and for a grace period after.
ResendAck1 ==
    /\ ack1Payload # NoAck
    /\ ackNet' = Transmit(ackNet, ack1Payload)
    /\ ack1Dirty' = FALSE
    /\ dataSinceAck' = 0
    /\ ack1LastBase' = ack1Payload.base
    /\ ack1Timed' = TRUE
    /\ UNCHANGED <<senderVars, received, nextSeqExpected, ack1Payload,
                   dataNet, ack2Net>>

ExpireAck1 ==
    /\ ack1Payload # NoAck
    /\ ~Pending(ack1LastBase, nextSeqExpected, received)
    /\ ~ack1Dirty
    /\ ack1Payload' = NoAck
    /\ UNCHANGED <<senderVars, received, nextSeqExpected, ack1Dirty,
                   ack1LastBase, ack1Timed, dataSinceAck, netVars>>

\* A covering ACK2 silences the receiver; any other is ignored.
HandleAck2(a) ==
    /\ a \in ack2Net
    /\ ack2Net' \in {ack2Net, ack2Net \ {a}}
    /\ IF ack1Payload # NoAck /\ Covers(a, ack1Payload)
       THEN ack1Payload' = NoAck /\ ack1Dirty' = FALSE /\ ack1Timed' = FALSE
       ELSE UNCHANGED <<ack1Payload, ack1Dirty, ack1Timed>>
    /\ UNCHANGED <<senderVars, received, nextSeqExpected, ack1LastBase,
                   dataSinceAck, dataNet, ackNet>>

-----------------------------------------------------------------------------
\* The network loses packets.  It also delivers DATA and ACK2 twice: the
\* receivers above may leave what they read on the channel.  A second copy
\* of an ACK only has its ACK2 sent again (_handle_duplicate_control), which
\* ack2Net already allows.
LoseData == \E s \in dataNet :
    /\ dataNet' = dataNet \ {s}
    /\ UNCHANGED <<senderVars, receiverVars, ackNet, ack2Net>>

LoseAck == \E a \in ackNet :
    /\ ackNet' = ackNet \ {a}
    /\ UNCHANGED <<senderVars, receiverVars, dataNet, ack2Net>>

LoseAck2 == \E a \in ack2Net :
    /\ ack2Net' = ack2Net \ {a}
    /\ UNCHANGED <<senderVars, receiverVars, dataNet, ackNet>>

Checker == CheckerRound \/ CheckerFails \/ CheckerQueues
Recovery == PopRecovery \/ SendRecovery \/ ReleaseRecovery

Next ==
    \/ SendData \/ SendFails \/ RegisterData
    \/ \E a \in ackNet : HandleAck1(a)
    \/ ChooseFastRetransmits \/ FinishAck1
    \/ Checker \/ Recovery
    \/ \E s \in dataNet : HandleDuplicate(s) \/ HandleData(s)
    \/ ResendAck1 \/ ExpireAck1
    \/ \E a \in ack2Net : HandleAck2(a)
    \/ LoseData \/ LoseAck \/ LoseAck2

Spec == Init /\ [][Next]_vars

\* The RTO of packet s ran out in this round.
RtoExpires(s) == CheckerRound /\ s \in unacked /\ s \in toResend' \cup dropped'

\* The threads run and time passes: each thread finishes what it began, and
\* the RTO of a packet that waits for nothing else runs out.  Nothing is
\* assumed of the network or of the receiver.
ThreadFairness ==
    /\ WF_vars(SendData) /\ WF_vars(RegisterData)
    /\ WF_vars(ChooseFastRetransmits) /\ WF_vars(FinishAck1)
    /\ WF_vars(CheckerFails) /\ WF_vars(CheckerQueues)
    /\ \A s \in Seqs : WF_vars(RtoExpires(s))
    /\ WF_vars(PopRecovery) /\ WF_vars(SendRecovery)
    /\ WF_vars(ReleaseRecovery)

FairSpec == Spec /\ ThreadFairness

-----------------------------------------------------------------------------
TrackTypeOK ==
    /\ nextSeq \in 1..(N + 1) /\ handoff \in 0..N
    /\ unacked \subseteq Seqs /\ dropped \subseteq Seqs /\ late \subseteq Seqs
    /\ retries \in [Seqs -> 0..MaxRetries] /\ fastCnt \in [Seqs -> 0..MaxFast]
    /\ toResend \subseteq Seqs /\ failing \in BOOLEAN /\ fatal \in BOOLEAN

RecoveryTypeOK ==
    /\ recoveryQueue \subseteq Seqs /\ recoveryQueued \subseteq Seqs
    /\ hand \in 0..N /\ handStep \in {"idle", "paced", "sent"}

AckRxTypeOK ==
    /\ streak \in [Seqs -> 0..Reports]
    /\ rxAck \in AckState \cup {NoAck}
    /\ (rxAck = NoAck) <=> (rxStep = "idle")
    /\ rxStep \in {"idle", "choose", "finish"} /\ fastList \subseteq Seqs

ReceiverTypeOK ==
    /\ received \subseteq Seqs /\ nextSeqExpected \in 1..(N + 1)
    /\ ack1Payload \in AckState \cup {NoAck} /\ ack1Dirty \in BOOLEAN
    /\ ack1LastBase \in 0..(N + 1) /\ ack1Timed \in BOOLEAN
    /\ dataSinceAck \in Nat

NetTypeOK ==
    /\ dataNet \subseteq Seqs
    /\ ackNet \subseteq AckState /\ ack2Net \subseteq AckState

\* The variables have the types of the fields they stand for; the receive
\* thread holds an ACK state exactly while it works on one.
TypeOK == /\ TrackTypeOK /\ RecoveryTypeOK /\ AckRxTypeOK
          /\ ReceiverTypeOK /\ NetTypeOK

\* What the sender has put on the wire and no longer keeps a copy of.
Forgotten == {s \in 1..(nextSeq - 1) : s # handoff /\ s \notin unacked \cup dropped}

\* The sender never forgets a packet the receiver does not have: an ACK1,
\* however old, truncated or reordered, only acknowledges what was received.
ForgottenIsReceived == Forgotten \subseteq received

\* _recovery_send_queued holds exactly the packets that are in the queue or
\* in the hand of _recovery_sender.  A number left behind in it would never
\* be retransmitted again, by RTO or by fast retransmit.
ClaimsAreOwned ==
    recoveryQueued = recoveryQueue \cup (IF handStep = "idle" THEN {} ELSE {hand})

\* An ACK2 only claims what the sender has acted on: a packet an ACK2 in
\* flight covers is tracked only if it was registered after that ACK.
Ack2SpeaksForSender ==
    \A a \in ack2Net : \A s \in unacked : Acked(a, s) => s \in late

\* A receiver with something left to report goes silent only when the sender
\* has acted on the state it goes silent about.
SilenceIsSafe ==
    [][ (/\ ack1Payload # NoAck /\ ack1Payload' = NoAck
         /\ Pending(ack1LastBase, nextSeqExpected, received))
        => \A s \in unacked : Acked(ack1Payload, s) => s \in late ]_vars

\* Every packet the app submits is in the end acknowledged, or the session
\* fails: no interleaving leaves a packet that is neither retransmitted nor
\* dropped, and none that is dropped is dropped silently.
Settles == []<>(fatal \/ (nextSeq = N + 1 /\ handoff = 0 /\ unacked = {} /\ dropped = {}))

-----------------------------------------------------------------------------
(***************************************************************************)
(* The transport implements the reliable in-order transfer its callers are *)
(* promised: a packet is confirmed when the sender has forgotten it.       *)
(***************************************************************************)
Transfer == INSTANCE ReliableTransfer WITH
    submitted <- nextSeq - 1,
    arrived <- received,
    delivered <- nextSeqExpected - 1,
    confirmed <- Forgotten,
    abandoned <- dropped,
    failed <- fatal

\* Every behaviour of the two sessions, whatever the network does, is one of
\* ReliableTransfer.
ImplementsTransfer == Transfer!Spec
=============================================================================
