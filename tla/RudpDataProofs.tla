--------------------------- MODULE RudpDataProofs ---------------------------
(***************************************************************************)
(* Theorems about RudpData, for every number of packets and every limit.   *)
(* The invariants are those RudpData's runs check; Inv strengthens them    *)
(* until each step preserves it: an acknowledgement is true wherever it    *)
(* may still be read from.                                                 *)
(***************************************************************************)
EXTENDS RudpData, TLAPS

-----------------------------------------------------------------------------
\* The places an ACK state can be read from.
LiveAcks == ackNet \cup ack2Net \cup {rxAck, ack1Payload}

\* Every ACK state in use only acknowledges packets the receiver has.
AcksAreTrue == \A a \in LiveAcks : \A s \in Seqs : Acked(a, s) => s \in received

\* The in-order prefix is received.
PrefixIsReceived == 1..(nextSeqExpected - 1) \subseteq received

\* Only submitted packets are tracked, on the wire, or received.
OnlySubmitted ==
    /\ unacked \subseteq 1..(nextSeq - 1)
    /\ dropped \subseteq 1..(nextSeq - 1)
    /\ dataNet \subseteq 1..(nextSeq - 1)
    /\ received \subseteq 1..(nextSeq - 1)

\* A packet is in one place of the sender's books.
OnePlace ==
    /\ unacked \cap dropped = {}
    /\ handoff # 0 => handoff = nextSeq - 1 /\ handoff \notin unacked \cup dropped

\* What the recovery sender holds is out of the queue.
HandIsOut ==
    /\ (hand = 0) <=> (handStep = "idle")
    /\ hand \notin recoveryQueue

ClaimInv == HandIsOut /\ ClaimsAreOwned

AckInv == /\ AcksAreTrue /\ PrefixIsReceived /\ OnlySubmitted /\ OnePlace
          /\ ForgottenIsReceived

-----------------------------------------------------------------------------
(***************************************************************************)
(* Lemmas about the operators.                                             *)
(***************************************************************************)

\* A channel never holds what was not sent on it.
LEMMA TransmitAdds ==
    ASSUME NEW net, NEW m
    PROVE  Transmit(net, m) \subseteq net \cup {m}
  BY DEF Transmit

\* A prefix grows by a range.
LEMMA RangeSplits ==
    ASSUME NEW m \in Int, NEW n \in Int, NEW q \in 1..(n - 1)
    PROVE  q \in 1..(m - 1) \/ q \in m..(n - 1)
  OBVIOUS

\* One less than a number of a range is in the range moved down by one.
LEMMA RangeShifts ==
    ASSUME NEW m \in Int, NEW k \in Int, NEW n \in m..(k + 1)
    PROVE  n - 1 \in (m - 1)..k
  OBVIOUS

\* Whatever a receiver has, the ACK state it builds is well formed.
LEMMA AckStatesType ==
    ASSUME NEW base \in 1..(N + 1), NEW recv \in SUBSET Seqs,
           NEW a \in AckStates(base, recv)
    PROVE  a \in AckState
  <1>1. PICK seen \in 0..N :
            a = [base |-> base, seen |-> seen, missing |-> (base..seen) \ recv]
    BY DEF AckStates
  <1>2. (base..seen) \ recv \subseteq Seqs
    BY NAssumption DEF Seqs
  <1>3. QED
    BY <1>1, <1>2 DEF AckState

\* It only acknowledges what the receiver has: the safety invariant
\* _build_ack1_payload documents, also when the list of ranges is full.
LEMMA AckStatesAreTrue ==
    ASSUME NEW base \in 1..(N + 1), NEW recv \in SUBSET Seqs,
           1..(base - 1) \subseteq recv,
           NEW a \in AckStates(base, recv),
           NEW s \in Seqs, Acked(a, s)
    PROVE  s \in recv
  <1>1. PICK seen \in 0..N :
            a = [base |-> base, seen |-> seen, missing |-> (base..seen) \ recv]
    BY DEF AckStates
  <1>2. s \in Int /\ s >= 1
    BY NAssumption DEF Seqs
  <1>3. CASE s < a.base
    BY <1>1, <1>2, <1>3, NAssumption
  <1>4. CASE s > a.base /\ s <= a.seen /\ s \notin a.missing
    BY <1>1, <1>2, <1>4, NAssumption
  <1>5. QED
    BY <1>3, <1>4 DEF Acked

\* An empty cache acknowledges nothing.
LEMMA NoAckIsEmpty ==
    ASSUME NEW s \in Seqs
    PROVE  ~Acked(NoAck, s)
  BY NAssumption DEF NoAck, Acked, Seqs

\* What _send_ack1 leaves in the cache and on the channel.
LEMMA SendAck1Effect ==
    ASSUME ReceiverTypeOK, ackNet \subseteq AckState,
           NEW force \in BOOLEAN,
           NEW base \in 1..(N + 1), NEW recv \in SUBSET Seqs,
           SendAck1(force, base, recv)
    PROVE  /\ ack1Payload' \in AckState \cup {NoAck}
           /\ ack1Dirty' \in BOOLEAN
           /\ ack1Timed' \in BOOLEAN
           /\ ack1LastBase' \in 0..(N + 1)
           /\ dataSinceAck' \in Nat
           /\ ackNet' \subseteq AckState
           /\ \E a \in AckStates(base, recv) :
                 ack1Payload' \in {a, NoAck} /\ ackNet' \subseteq ackNet \cup {a}
  <1>1. PICK a \in AckStates(base, recv) :
          \/ /\ ack1Payload' = a
             /\ \/ /\ ack1Dirty' = FALSE
                   /\ ack1LastBase' = a.base
                   /\ ack1Timed' = TRUE
                   /\ dataSinceAck' = 0
                   /\ ackNet' = Transmit(ackNet, a)
                \/ /\ ack1Dirty' = TRUE
                   /\ dataSinceAck' = dataSinceAck + 1
                   /\ UNCHANGED <<ack1LastBase, ack1Timed, ackNet>>
          \/ /\ ack1Payload' = NoAck
             /\ ack1Dirty' = FALSE
             /\ dataSinceAck' = dataSinceAck + 1
             /\ UNCHANGED <<ack1LastBase, ack1Timed, ackNet>>
    BY DEF SendAck1
  <1>2. a \in AckState
    BY AckStatesType
  <1>3. a.base \in 0..(N + 1)
    BY <1>2, NAssumption DEF AckState
  <1>4. ackNet' \subseteq ackNet \cup {a}
    BY <1>1, TransmitAdds
  <1>5. ack1Payload' \in {a, NoAck}
    BY <1>1
  <1>6. /\ ack1Timed \in BOOLEAN /\ ack1LastBase \in 0..(N + 1)
        /\ dataSinceAck \in Nat
    BY DEF ReceiverTypeOK
  <1>7. /\ ack1Payload' \in AckState \cup {NoAck}
        /\ ackNet' \subseteq AckState
    BY <1>2, <1>4, <1>5
  <1>8. /\ ack1Dirty' \in BOOLEAN
        /\ ack1Timed' \in BOOLEAN
        /\ ack1LastBase' \in 0..(N + 1)
    BY <1>1, <1>3, <1>6
  <1>9. dataSinceAck' \in Nat
    BY <1>1, <1>6
  <1>10. QED
    BY <1>4, <1>5, <1>7, <1>8, <1>9

-----------------------------------------------------------------------------
(***************************************************************************)
(* Type correctness.                                                       *)
(***************************************************************************)
\* A new pair of sessions (RudpSession.__init__) is well typed.
LEMMA TypeInit == Init => TypeOK
  <1> SUFFICES ASSUME Init PROVE TypeOK
    OBVIOUS
  <1>1. /\ 1 \in 1..(N + 1) /\ 0 \in 0..N /\ 0 \in 0..(N + 1)
        /\ 0 \in 0..MaxRetries /\ 0 \in 0..MaxFast /\ 0 \in 0..Reports
    BY NAssumption, MaxRetriesAssumption, FastAssumption
  <1>2. TrackTypeOK
    BY <1>1 DEF Init, TrackTypeOK
  <1>3. RecoveryTypeOK
    BY <1>1 DEF Init, RecoveryTypeOK
  <1>4. AckRxTypeOK
    BY <1>1 DEF Init, AckRxTypeOK
  <1>5. ReceiverTypeOK
    BY <1>1 DEF Init, ReceiverTypeOK
  <1>6. NetTypeOK
    BY DEF Init, NetTypeOK
  <1>7. QED
    BY <1>2, <1>3, <1>4, <1>5, <1>6 DEF TypeOK

\* A part of the type invariant is preserved when its variables are.
LEMMA TypeFrames ==
    /\ TrackTypeOK /\ UNCHANGED <<txVars, trackVars, checkerVars, fatal, late>>
          => TrackTypeOK'
    /\ RecoveryTypeOK /\ UNCHANGED recoveryVars => RecoveryTypeOK'
    /\ AckRxTypeOK /\ UNCHANGED ackRxVars => AckRxTypeOK'
    /\ ReceiverTypeOK /\ UNCHANGED receiverVars => ReceiverTypeOK'
    /\ NetTypeOK /\ UNCHANGED netVars => NetTypeOK'
  BY DEF TrackTypeOK, RecoveryTypeOK, AckRxTypeOK, ReceiverTypeOK, NetTypeOK,
         txVars, trackVars, checkerVars, recoveryVars, ackRxVars, receiverVars,
         ack1Vars, netVars

\* Every step of the threads and of the network keeps the fields typed: the
\* retry counter within its limit, each ACK state within the receiver's reach.
LEMMA TypeStep ==
    ASSUME TypeOK, [Next]_vars
    PROVE  TypeOK'
  <1>a. /\ TrackTypeOK /\ RecoveryTypeOK /\ AckRxTypeOK
        /\ ReceiverTypeOK /\ NetTypeOK
    BY DEF TypeOK
  <1>b. N \in Nat \ {0} /\ MaxRetries \in Nat /\ MaxFast \in Nat /\ Reports \in Nat \ {0}
    BY NAssumption, MaxRetriesAssumption, FastAssumption
  <1>c. \A s \in Seqs : s \in 1..N /\ s \in 0..N /\ s # 0
    BY <1>b DEF Seqs
  <1>1. CASE SendData
    <2>1. nextSeq \in Seqs
      BY <1>1, <1>a, <1>b DEF SendData, TrackTypeOK, Seqs
    <2>2. dataNet' \subseteq Seqs
      BY <1>1, <1>a, <2>1, TransmitAdds DEF SendData, NetTypeOK
    <2>3. NetTypeOK'
      BY <1>1, <1>a, <2>2 DEF SendData, NetTypeOK
    <2>4. nextSeq' \in 1..(N + 1) /\ handoff' \in 0..N
      BY <1>1, <1>a, <1>b, <2>1 DEF SendData, TrackTypeOK, Seqs
    <2>5. TrackTypeOK'
      BY <1>1, <1>a, <2>4 DEF SendData, TrackTypeOK, trackVars, checkerVars
    <2>6. QED
      BY <1>1, <1>a, <2>3, <2>5, TypeFrames DEF SendData, TypeOK
  <1>2. CASE SendFails
    <2>1. TrackTypeOK'
      BY <1>2, <1>a DEF SendFails, TrackTypeOK, txVars, trackVars, checkerVars
    <2>2. QED
      BY <1>2, <1>a, <2>1, TypeFrames DEF SendFails, TypeOK
  <1>3. CASE RegisterData
    <2>1. handoff \in Seqs
      BY <1>3, <1>a, <1>b DEF RegisterData, TrackTypeOK, Seqs
    <2>2. /\ unacked' \subseteq Seqs /\ late' \subseteq Seqs
          /\ handoff' \in 0..N /\ nextSeq' = nextSeq
      BY <1>3, <1>a, <1>b, <2>1 DEF RegisterData, TrackTypeOK
    <2>3. /\ retries' \in [Seqs -> 0..MaxRetries]
          /\ fastCnt' \in [Seqs -> 0..MaxFast]
      <3>1. 0 \in 0..MaxRetries /\ 0 \in 0..MaxFast
        BY <1>b
      <3>2. retries \in [Seqs -> 0..MaxRetries] /\ fastCnt \in [Seqs -> 0..MaxFast]
        BY <1>a DEF TrackTypeOK
      <3>3. /\ retries' = [retries EXCEPT ![handoff] = 0]
            /\ fastCnt' = [fastCnt EXCEPT ![handoff] = 0]
        BY <1>3 DEF RegisterData
      <3>4. QED
        BY <2>1, <3>1, <3>2, <3>3
    <2>4. TrackTypeOK'
      BY <1>3, <1>a, <2>2, <2>3 DEF RegisterData, TrackTypeOK, checkerVars
    <2>5. QED
      BY <1>3, <1>a, <2>4, TypeFrames DEF RegisterData, TypeOK
  <1>4. ASSUME NEW a \in ackNet, HandleAck1(a)
        PROVE  TypeOK'
    <2>1. a \in AckState /\ a # NoAck
      BY <1>a, <1>b DEF NetTypeOK, AckState, NoAck
    <2>2. AckRxTypeOK'
      BY <1>4, <1>a, <2>1 DEF HandleAck1, AckRxTypeOK
    <2>3. TrackTypeOK'
      BY <1>4, <1>a DEF HandleAck1, TrackTypeOK, txVars, checkerVars
    <2>4. NetTypeOK'
      BY <1>4, <1>a DEF HandleAck1, NetTypeOK
    <2>5. QED
      BY <1>4, <1>a, <2>2, <2>3, <2>4, TypeFrames DEF HandleAck1, TypeOK
  <1>5. CASE ChooseFastRetransmits
    <2>1. PICK chosen \in SUBSET {s \in unacked : /\ streak'[s] >= Reports
                                                  /\ fastCnt[s] < MaxFast
                                                  /\ s \notin recoveryQueued} :
            /\ fastList' = chosen
            /\ fastCnt' = [s \in Seqs |-> IF s \in chosen THEN fastCnt[s] + 1
                                                          ELSE fastCnt[s]]
      BY <1>5 DEF ChooseFastRetransmits
    <2>2. fastCnt' \in [Seqs -> 0..MaxFast]
      BY <2>1, <1>a, <1>b DEF TrackTypeOK
    <2>3. TrackTypeOK'
      BY <1>5, <1>a, <2>2 DEF ChooseFastRetransmits, TrackTypeOK, txVars, checkerVars
    <2>4. fastList' \subseteq Seqs
      BY <2>1, <1>a DEF TrackTypeOK
    <2>5. streak' \in [Seqs -> 0..Reports]
      BY <1>5, <1>a, <1>b DEF ChooseFastRetransmits, StreakAfter, AckRxTypeOK
    <2>6. AckRxTypeOK'
      BY <1>5, <1>a, <2>4, <2>5 DEF ChooseFastRetransmits, AckRxTypeOK
    <2>7. QED
      BY <1>5, <1>a, <2>3, <2>6, TypeFrames DEF ChooseFastRetransmits, TypeOK
  <1>6. CASE FinishAck1
    <2>1. rxAck \in AckState
      BY <1>6, <1>a DEF FinishAck1, AckRxTypeOK
    <2>2. ack2Net' \subseteq AckState
      BY <1>6, <1>a, <2>1, TransmitAdds DEF FinishAck1, NetTypeOK
    <2>3. NetTypeOK'
      BY <1>6, <1>a, <2>2 DEF FinishAck1, NetTypeOK
    <2>4. AckRxTypeOK'
      BY <1>6, <1>a DEF FinishAck1, AckRxTypeOK
    <2>5. RecoveryTypeOK'
      BY <1>6, <1>a DEF FinishAck1, Enqueue, RecoveryTypeOK, AckRxTypeOK
    <2>6. QED
      BY <1>6, <1>a, <2>3, <2>4, <2>5, TypeFrames
         DEF FinishAck1, TypeOK, checkerVars
  <1>7. CASE CheckerRound
    <2>1. PICK expired \in SUBSET unacked :
            /\ \A s \in expired : retries[s] < MaxRetries
            /\ toResend' = expired
            /\ retries' = [s \in Seqs |-> IF s \in expired THEN retries[s] + 1
                                                           ELSE retries[s]]
      <3>1. PICK expired \in SUBSET (unacked \ ({s \in unacked : retries[s] >= MaxRetries}
                                                   \cup recoveryQueued)) :
              /\ toResend' = expired
              /\ retries' = [s \in Seqs |-> IF s \in expired THEN retries[s] + 1
                                                             ELSE retries[s]]
        BY <1>7 DEF CheckerRound
      <3>2. \A s \in expired : retries[s] < MaxRetries
        BY <3>1, <1>a, <1>b DEF TrackTypeOK
      <3>3. QED
        BY <3>1, <3>2
    <2>2. retries' \in [Seqs -> 0..MaxRetries]
      BY <2>1, <1>a, <1>b DEF TrackTypeOK
    <2>3. /\ unacked' \subseteq unacked /\ dropped' \subseteq dropped \cup unacked
          /\ failing' \in BOOLEAN
      BY <1>7 DEF CheckerRound
    <2>4. TrackTypeOK'
      BY <1>7, <1>a, <2>1, <2>2, <2>3 DEF CheckerRound, TrackTypeOK, txVars
    <2>5. QED
      BY <1>7, <1>a, <2>4, TypeFrames DEF CheckerRound, TypeOK
  <1>8. CASE CheckerFails
    <2>1. TrackTypeOK'
      BY <1>8, <1>a DEF CheckerFails, TrackTypeOK, txVars, trackVars
    <2>2. QED
      BY <1>8, <1>a, <2>1, TypeFrames DEF CheckerFails, TypeOK
  <1>9. CASE CheckerQueues
    <2>1. TrackTypeOK'
      BY <1>9, <1>a DEF CheckerQueues, TrackTypeOK, txVars, trackVars
    <2>2. RecoveryTypeOK'
      BY <1>9, <1>a DEF CheckerQueues, Enqueue, RecoveryTypeOK, TrackTypeOK
    <2>3. QED
      BY <1>9, <1>a, <2>1, <2>2, TypeFrames DEF CheckerQueues, TypeOK
  <1>10. CASE PopRecovery
    <2>1. RecoveryTypeOK'
      BY <1>10, <1>a, <1>c DEF PopRecovery, RecoveryTypeOK
    <2>2. QED
      BY <1>10, <1>a, <2>1, TypeFrames DEF PopRecovery, TypeOK
  <1>11. CASE SendRecovery
    <2>1. dataNet' \subseteq Seqs
      BY <1>11, <1>a, TransmitAdds DEF SendRecovery, NetTypeOK, TrackTypeOK
    <2>2. NetTypeOK'
      BY <1>11, <1>a, <2>1 DEF SendRecovery, NetTypeOK
    <2>3. RecoveryTypeOK'
      BY <1>11, <1>a DEF SendRecovery, RecoveryTypeOK
    <2>4. QED
      BY <1>11, <1>a, <2>2, <2>3, TypeFrames DEF SendRecovery, TypeOK
  <1>12. CASE ReleaseRecovery
    <2>1. RecoveryTypeOK'
      BY <1>12, <1>a, <1>b DEF ReleaseRecovery, RecoveryTypeOK
    <2>2. QED
      BY <1>12, <1>a, <2>1, TypeFrames DEF ReleaseRecovery, TypeOK
  <1>13. ASSUME NEW s \in dataNet, HandleDuplicate(s)
         PROVE  TypeOK'
    <2>1. UNCHANGED senderVars /\ UNCHANGED <<received, nextSeqExpected>>
      BY <1>13 DEF HandleDuplicate
    <2>2. /\ ack1Payload' \in AckState \cup {NoAck} /\ ack1Dirty' \in BOOLEAN
          /\ ack1Timed' \in BOOLEAN /\ ack1LastBase' \in 0..(N + 1)
          /\ dataSinceAck' \in Nat /\ ackNet' \subseteq AckState
      BY <1>13, <1>a, SendAck1Effect
         DEF HandleDuplicate, ReceiverTypeOK, NetTypeOK
    <2>3. ReceiverTypeOK'
      BY <2>1, <1>a, <2>2 DEF ReceiverTypeOK
    <2>4. NetTypeOK'
      BY <1>13, <1>a, <2>2 DEF HandleDuplicate, NetTypeOK
    <2>5. QED
      BY <1>a, <2>1, <2>3, <2>4, TypeFrames DEF TypeOK, senderVars
  <1>14. ASSUME NEW s \in dataNet, HandleData(s)
         PROVE  TypeOK'
    <2>1. UNCHANGED senderVars
      BY <1>14 DEF HandleData
    <2>2. received' \in SUBSET Seqs /\ nextSeqExpected' \in 1..(N + 1)
      BY <1>14, <1>a, <1>b DEF HandleData, ReceiverTypeOK, NetTypeOK
    <2>3. /\ ack1Payload' \in AckState \cup {NoAck} /\ ack1Dirty' \in BOOLEAN
          /\ ack1Timed' \in BOOLEAN /\ ack1LastBase' \in 0..(N + 1)
          /\ dataSinceAck' \in Nat /\ ackNet' \subseteq AckState
      <3> DEFINE force == s > nextSeqExpected \/ s = N
      <3>1. CASE SendAck1(force, nextSeqExpected', received')
        <4>1. force \in BOOLEAN
          OBVIOUS
        <4>2. ReceiverTypeOK /\ ackNet \subseteq AckState
          BY <1>a DEF NetTypeOK
        <4> HIDE DEF force
        <4>3. QED
          BY <3>1, <4>1, <4>2, <2>2, SendAck1Effect
      <3>2. CASE /\ dataSinceAck' = dataSinceAck + 1
                 /\ UNCHANGED <<ack1Payload, ack1Dirty, ack1LastBase, ack1Timed,
                                ackNet>>
        BY <3>2, <1>a DEF ReceiverTypeOK, NetTypeOK
      <3>3. QED
        BY <1>14, <3>1, <3>2 DEF HandleData
    <2>4. ReceiverTypeOK'
      BY <2>2, <2>3 DEF ReceiverTypeOK
    <2>5. NetTypeOK'
      BY <1>14, <1>a, <2>3 DEF HandleData, NetTypeOK
    <2>6. QED
      BY <1>a, <2>1, <2>4, <2>5, TypeFrames DEF TypeOK, senderVars
  <1>15. CASE ResendAck1
    <2>1. ack1Payload \in AckState /\ ack1Payload.base \in 0..(N + 1)
      BY <1>15, <1>a, <1>b DEF ResendAck1, ReceiverTypeOK, AckState
    <2>2. ackNet' \subseteq AckState
      BY <1>15, <1>a, <2>1, TransmitAdds DEF ResendAck1, NetTypeOK
    <2>3. ReceiverTypeOK'
      BY <1>15, <1>a, <2>1 DEF ResendAck1, ReceiverTypeOK
    <2>4. NetTypeOK'
      BY <1>15, <1>a, <2>2 DEF ResendAck1, NetTypeOK
    <2>5. QED
      BY <1>15, <1>a, <2>3, <2>4, TypeFrames DEF ResendAck1, TypeOK, senderVars
  <1>16. CASE ExpireAck1
    <2>1. ReceiverTypeOK'
      BY <1>16, <1>a DEF ExpireAck1, ReceiverTypeOK
    <2>2. QED
      BY <1>16, <1>a, <2>1, TypeFrames DEF ExpireAck1, TypeOK, senderVars
  <1>17. ASSUME NEW a \in ack2Net, HandleAck2(a)
         PROVE  TypeOK'
    <2>1. ReceiverTypeOK'
      BY <1>17, <1>a DEF HandleAck2, ReceiverTypeOK
    <2>2. NetTypeOK'
      BY <1>17, <1>a DEF HandleAck2, NetTypeOK
    <2>3. QED
      BY <1>17, <1>a, <2>1, <2>2, TypeFrames DEF HandleAck2, TypeOK, senderVars
  <1>18. CASE LoseData
    <2>1. NetTypeOK'
      BY <1>18, <1>a DEF LoseData, NetTypeOK
    <2>2. QED
      BY <1>18, <1>a, <2>1, TypeFrames DEF LoseData, TypeOK, senderVars
  <1>19. CASE LoseAck
    <2>1. NetTypeOK'
      BY <1>19, <1>a DEF LoseAck, NetTypeOK
    <2>2. QED
      BY <1>19, <1>a, <2>1, TypeFrames DEF LoseAck, TypeOK, senderVars
  <1>20. CASE LoseAck2
    <2>1. NetTypeOK'
      BY <1>20, <1>a DEF LoseAck2, NetTypeOK
    <2>2. QED
      BY <1>20, <1>a, <2>1, TypeFrames DEF LoseAck2, TypeOK, senderVars
  <1>21. CASE UNCHANGED vars
    BY <1>21, <1>a, TypeFrames DEF vars, senderVars, TypeOK
  <1>22. QED
    BY <1>1, <1>2, <1>3, <1>4, <1>5, <1>6, <1>7, <1>8, <1>9, <1>10, <1>11,
       <1>12, <1>13, <1>14, <1>15, <1>16, <1>17, <1>18, <1>19, <1>20, <1>21
       DEF Next, Checker, Recovery

\* Every variable keeps the type of the field it stands for, for any number
\* of packets and any limits.
THEOREM TypeCorrect == Spec => []TypeOK
  <1>1. Init => TypeOK
    BY TypeInit
  <1>2. TypeOK /\ [Next]_vars => TypeOK'
    BY TypeStep
  <1>3. QED
    BY <1>1, <1>2, PTL DEF Spec

-----------------------------------------------------------------------------
(***************************************************************************)
(* Claims on the recovery queue.  Only five actions touch them.            *)
(***************************************************************************)
\* Nothing is queued for recovery at first, so nothing is marked.
LEMMA ClaimInit == Init => ClaimInv
  BY DEF Init, ClaimInv, HandIsOut, ClaimsAreOwned

\* Queueing claims exactly what it queues, never what is in the hand.
LEMMA EnqueueKeepsClaims ==
    ASSUME ClaimInv, RecoveryTypeOK, NEW list, list \subseteq Seqs,
           Enqueue(list), UNCHANGED <<hand, handStep>>
    PROVE  ClaimInv'
  <1>1. 0 \notin list
    BY DEF Seqs
  <1>2. hand # 0 => hand \in recoveryQueued
    BY DEF ClaimInv, HandIsOut, ClaimsAreOwned
  <1>3. HandIsOut'
    BY <1>1, <1>2 DEF ClaimInv, HandIsOut, Enqueue
  <1>4. ClaimsAreOwned'
    BY DEF ClaimInv, ClaimsAreOwned, Enqueue
  <1>5. QED
    BY <1>3, <1>4 DEF ClaimInv

\* The checker, the receive thread and the recovery sender each leave mark
\* and queue in agreement.
LEMMA ClaimStep ==
    ASSUME TypeOK, ClaimInv, [Next]_vars
    PROVE  ClaimInv'
  <1>a. RecoveryTypeOK /\ TrackTypeOK /\ AckRxTypeOK
    BY DEF TypeOK
  <1>b. 0 \notin recoveryQueue
    BY <1>a DEF RecoveryTypeOK, Seqs
  <1>1. CASE FinishAck1
    BY <1>1, <1>a, EnqueueKeepsClaims DEF FinishAck1, AckRxTypeOK
  <1>2. CASE CheckerQueues
    BY <1>2, <1>a, EnqueueKeepsClaims DEF CheckerQueues, TrackTypeOK
  <1>3. CASE PopRecovery
    <2>1. PICK s \in recoveryQueue :
            /\ recoveryQueue' = recoveryQueue \ {s}
            /\ IF s \in unacked
               THEN /\ hand' = s /\ handStep' = "paced"
                    /\ UNCHANGED recoveryQueued
               ELSE /\ recoveryQueued' = recoveryQueued \ {s}
                    /\ UNCHANGED <<hand, handStep>>
      BY <1>3 DEF PopRecovery
    <2>2. hand = 0 /\ handStep = "idle" /\ recoveryQueued = recoveryQueue
      BY <1>3 DEF PopRecovery, ClaimInv, HandIsOut, ClaimsAreOwned
    <2>3. HandIsOut'
      BY <2>1, <2>2, <1>b DEF HandIsOut
    <2>4. ClaimsAreOwned'
      BY <2>1, <2>2 DEF ClaimsAreOwned
    <2>5. QED
      BY <2>3, <2>4 DEF ClaimInv
  <1>4. CASE SendRecovery
    BY <1>4 DEF SendRecovery, ClaimInv, HandIsOut, ClaimsAreOwned
  <1>5. CASE ReleaseRecovery
    <2>1. recoveryQueued = recoveryQueue \cup {hand} /\ hand \notin recoveryQueue
      BY <1>5 DEF ReleaseRecovery, ClaimInv, HandIsOut, ClaimsAreOwned
    <2>2. /\ recoveryQueued' = recoveryQueue' /\ handStep' = "idle" /\ hand' = 0
          /\ recoveryQueue' = recoveryQueue
      BY <1>5, <2>1 DEF ReleaseRecovery
    <2>3. QED
      BY <2>2, <1>b DEF ClaimInv, HandIsOut, ClaimsAreOwned
  <1>6. CASE UNCHANGED recoveryVars
    BY <1>6 DEF recoveryVars, ClaimInv, HandIsOut, ClaimsAreOwned
  <1>7. QED
    <2>1. \/ FinishAck1 \/ CheckerQueues \/ PopRecovery \/ SendRecovery
          \/ ReleaseRecovery \/ UNCHANGED recoveryVars
      BY DEF Next, Checker, Recovery, vars, senderVars, SendData, SendFails,
             RegisterData, HandleAck1, ChooseFastRetransmits, CheckerRound,
             CheckerFails, HandleDuplicate, HandleData, ResendAck1, ExpireAck1,
             HandleAck2, LoseData, LoseAck, LoseAck2
    <2>2. QED
      BY <2>1, <1>1, <1>2, <1>3, <1>4, <1>5, <1>6

\* A packet is marked as queued for recovery only while it is: no
\* interleaving of the checker, the receive thread and the recovery sender
\* leaves a mark behind that would suppress its RTO for ever.
THEOREM ClaimsOwned == Spec => []ClaimsAreOwned
  <1>1. Init => ClaimInv
    BY ClaimInit
  <1>2. TypeOK /\ ClaimInv /\ [Next]_vars => ClaimInv'
    BY ClaimStep
  <1>3. ClaimInv => ClaimsAreOwned
    BY DEF ClaimInv
  <1>4. QED
    BY <1>1, <1>2, <1>3, TypeCorrect, PTL DEF Spec

-----------------------------------------------------------------------------
(***************************************************************************)
(* What the sender forgets is received.  The strengthening is that every   *)
(* ACK state that may still be acted on, on a channel, in the cache of the *)
(* receiver or in the hands of the sender's receive thread, is true.       *)
(***************************************************************************)
BookVars == <<nextSeq, handoff, unacked, dropped, received, nextSeqExpected>>

Books == PrefixIsReceived /\ OnlySubmitted /\ OnePlace /\ ForgottenIsReceived

\* Nothing has been sent, acknowledged or received at first.
LEMMA AckInit == Init => AckInv
  <1> SUFFICES ASSUME Init PROVE AckInv
    OBVIOUS
  <1>1. AcksAreTrue
    BY NoAckIsEmpty DEF Init, AcksAreTrue, LiveAcks
  <1>2. PrefixIsReceived /\ OnlySubmitted /\ OnePlace /\ ForgottenIsReceived
    BY DEF Init, PrefixIsReceived, OnlySubmitted, OnePlace,
           ForgottenIsReceived, Forgotten
  <1>3. QED
    BY <1>1, <1>2 DEF AckInv

\* The books stay right when only packets on the wire are lost.
LEMMA BooksFrame ==
    ASSUME Books, UNCHANGED BookVars, dataNet' \subseteq dataNet
    PROVE  Books'
  BY DEF Books, BookVars, PrefixIsReceived, OnlySubmitted, OnePlace,
         ForgottenIsReceived, Forgotten

\* ACK states stay true as they move and as the receiver receives.
LEMMA AcksFrame ==
    ASSUME AcksAreTrue, received \subseteq received',
           LiveAcks' \subseteq LiveAcks \cup {NoAck}
    PROVE  AcksAreTrue'
  BY NoAckIsEmpty DEF AcksAreTrue

\* Every step keeps the books of sender and receiver and the truth of every
\* ACK state, stored, cached or on the wire.
LEMMA AckStep ==
    ASSUME TypeOK, AckInv, [Next]_vars
    PROVE  AckInv'
  <1>a. /\ TrackTypeOK /\ ReceiverTypeOK /\ NetTypeOK /\ AckRxTypeOK
        /\ AcksAreTrue /\ Books
    BY DEF TypeOK, AckInv, Books
  <1>b. N \in Nat \ {0}
    BY NAssumption
  <1>c. SUFFICES AcksAreTrue' /\ Books'
    BY DEF AckInv, Books
  <1>1. CASE SendData
    <2>1. AcksAreTrue'
      BY <1>1, <1>a, AcksFrame DEF SendData, LiveAcks, ackRxVars, receiverVars,
         ack1Vars
    <2>2. /\ nextSeq \in 1..N /\ nextSeq' = nextSeq + 1 /\ handoff = 0
          /\ handoff' = nextSeq /\ dataNet' \subseteq dataNet \cup {nextSeq}
          /\ UNCHANGED <<unacked, dropped, received, nextSeqExpected>>
      BY <1>1, <1>a, <1>b, TransmitAdds
         DEF SendData, TrackTypeOK, trackVars, receiverVars
    <2>3. PrefixIsReceived' /\ OnlySubmitted'
      BY <1>a, <1>b, <2>2 DEF Books, PrefixIsReceived, OnlySubmitted
    <2>4. OnePlace'
      BY <1>a, <1>b, <2>2 DEF Books, OnePlace, OnlySubmitted
    <2>5. ForgottenIsReceived'
      BY <1>a, <1>b, <2>2 DEF Books, ForgottenIsReceived, Forgotten
    <2>6. QED
      BY <2>1, <2>3, <2>4, <2>5 DEF Books
  <1>2. CASE RegisterData
    <2>1. AcksAreTrue'
      BY <1>2, <1>a, AcksFrame DEF RegisterData, LiveAcks, ackRxVars,
         receiverVars, ack1Vars, netVars
    <2>2. /\ handoff \in 1..N /\ handoff' = 0
          /\ unacked' = unacked \cup {handoff}
          /\ UNCHANGED <<nextSeq, dropped, received, nextSeqExpected, dataNet>>
      BY <1>2, <1>a, <1>b DEF RegisterData, TrackTypeOK, receiverVars, netVars
    <2>3. PrefixIsReceived'
      BY <1>a, <2>2 DEF Books, PrefixIsReceived
    <2>4. OnlySubmitted' /\ OnePlace'
      BY <1>a, <1>b, <2>2 DEF Books, OnlySubmitted, OnePlace, TrackTypeOK
    <2>5. ForgottenIsReceived'
      BY <1>a, <2>2 DEF Books, ForgottenIsReceived, Forgotten
    <2>6. QED
      BY <2>1, <2>3, <2>4, <2>5 DEF Books
  <1>3. ASSUME NEW a \in ackNet, HandleAck1(a)
        PROVE  AcksAreTrue' /\ Books'
    <2>1. AcksAreTrue'
      BY <1>3, <1>a, AcksFrame DEF HandleAck1, LiveAcks, receiverVars, ack1Vars
    <2>2. /\ unacked' = unacked \ AckedNow(a)
          /\ UNCHANGED <<nextSeq, handoff, dropped, received, nextSeqExpected,
                         dataNet>>
      BY <1>3 DEF HandleAck1, receiverVars, txVars
    <2>3. AckedNow(a) \subseteq received
      BY <1>a DEF AckedNow, AcksAreTrue, LiveAcks, TrackTypeOK
    <2>4. PrefixIsReceived' /\ OnlySubmitted' /\ OnePlace'
      BY <1>a, <2>2 DEF Books, PrefixIsReceived, OnlySubmitted, OnePlace
    <2>5. ForgottenIsReceived'
      BY <1>a, <2>2, <2>3 DEF Books, ForgottenIsReceived, Forgotten
    <2>6. QED
      BY <2>1, <2>4, <2>5 DEF Books
  <1>4. CASE FinishAck1
    <2>1. ack2Net' \subseteq ack2Net \cup {rxAck} /\ rxAck' = NoAck
      BY <1>4, TransmitAdds DEF FinishAck1
    <2>2. AcksAreTrue'
      BY <1>4, <1>a, <2>1, AcksFrame
         DEF FinishAck1, LiveAcks, receiverVars, ack1Vars
    <2>3. Books'
      BY <1>4, <1>a, BooksFrame
         DEF FinishAck1, BookVars, txVars, trackVars, receiverVars
    <2>4. QED
      BY <2>2, <2>3
  <1>5. CASE CheckerRound
    <2>1. AcksAreTrue'
      BY <1>5, <1>a, AcksFrame DEF CheckerRound, LiveAcks, ackRxVars,
         receiverVars, ack1Vars, netVars
    <2>2. PICK exhausted \in SUBSET unacked :
            /\ unacked' = unacked \ exhausted
            /\ dropped' = dropped \cup exhausted
      BY <1>5 DEF CheckerRound
    <2>3. UNCHANGED <<nextSeq, handoff, received, nextSeqExpected, dataNet>>
      BY <1>5 DEF CheckerRound, txVars, receiverVars, netVars
    <2>4. PrefixIsReceived' /\ OnlySubmitted' /\ OnePlace'
      BY <1>a, <2>2, <2>3 DEF Books, PrefixIsReceived, OnlySubmitted, OnePlace
    <2>5. ForgottenIsReceived'
      BY <1>a, <2>2, <2>3 DEF Books, ForgottenIsReceived, Forgotten
    <2>6. QED
      BY <2>1, <2>4, <2>5 DEF Books
  <1>6. CASE SendRecovery
    <2>1. AcksAreTrue'
      BY <1>6, <1>a, AcksFrame DEF SendRecovery, LiveAcks, ackRxVars,
         receiverVars, ack1Vars
    <2>2. dataNet' \subseteq dataNet \cup unacked /\ UNCHANGED BookVars
      BY <1>6, TransmitAdds
         DEF SendRecovery, BookVars, txVars, trackVars, receiverVars
    <2>3. Books'
      BY <1>a, <2>2 DEF Books, BookVars, PrefixIsReceived, OnlySubmitted,
         OnePlace, ForgottenIsReceived, Forgotten
    <2>4. QED
      BY <2>1, <2>3
  <1>7. ASSUME NEW s \in dataNet, HandleDuplicate(s)
        PROVE  AcksAreTrue' /\ Books'
    <2>1. PICK a \in AckStates(nextSeqExpected, received) :
             ack1Payload' \in {a, NoAck} /\ ackNet' \subseteq ackNet \cup {a}
      BY <1>7, <1>a, SendAck1Effect
         DEF HandleDuplicate, ReceiverTypeOK, NetTypeOK
    <2>2. \A q \in Seqs : Acked(a, q) => q \in received
      BY <1>a, AckStatesAreTrue DEF ReceiverTypeOK, Books, PrefixIsReceived
    <2>3. UNCHANGED <<rxAck, ack2Net, received>>
      BY <1>7 DEF HandleDuplicate, senderVars, ackRxVars
    <2>4. AcksAreTrue'
      BY <1>a, <2>1, <2>2, <2>3, NoAckIsEmpty DEF AcksAreTrue, LiveAcks
    <2>5. Books'
      BY <1>7, <1>a, BooksFrame
         DEF HandleDuplicate, BookVars, senderVars, txVars, trackVars
    <2>6. QED
      BY <2>4, <2>5
  <1>8. ASSUME NEW s \in dataNet, HandleData(s)
        PROVE  AcksAreTrue' /\ Books'
    <2>1. /\ received' = received \cup {s} /\ dataNet' \subseteq dataNet
          /\ UNCHANGED <<nextSeq, handoff, unacked, dropped, rxAck, ack2Net>>
      BY <1>8 DEF HandleData, senderVars, txVars, trackVars, ackRxVars
    <2>2. /\ nextSeqExpected' \in nextSeqExpected..(N + 1)
          /\ nextSeqExpected..(nextSeqExpected' - 1) \subseteq received'
      BY <1>8 DEF HandleData, PrefixEnd
    <2>3. received' \in SUBSET Seqs /\ nextSeqExpected' \in 1..(N + 1)
      BY <1>a, <1>b, <2>1, <2>2 DEF ReceiverTypeOK, NetTypeOK
    <2>4. PrefixIsReceived'
      <3>1. ASSUME NEW q \in 1..(nextSeqExpected' - 1)
            PROVE  q \in received'
        <4>1. nextSeqExpected \in Int /\ nextSeqExpected' \in Int
          BY <1>a, <1>b, <2>3 DEF ReceiverTypeOK
        <4>2. \/ q \in 1..(nextSeqExpected - 1)
              \/ q \in nextSeqExpected..(nextSeqExpected' - 1)
          BY <4>1, RangeSplits
        <4>3. QED
          BY <1>a, <2>1, <2>2, <4>2 DEF Books, PrefixIsReceived
      <3>2. QED
        BY <3>1 DEF PrefixIsReceived
    <2>5. OnlySubmitted' /\ OnePlace' /\ ForgottenIsReceived'
      BY <1>a, <2>1 DEF Books, OnlySubmitted, OnePlace, ForgottenIsReceived,
         Forgotten
    <2>6. AcksAreTrue'
      <3> DEFINE force == s > nextSeqExpected \/ s = N
      <3>1. CASE SendAck1(force, nextSeqExpected', received')
        <4>1. force \in BOOLEAN
          OBVIOUS
        <4>2. ReceiverTypeOK /\ ackNet \subseteq AckState
          BY <1>a DEF NetTypeOK
        <4> HIDE DEF force
        <4>3. PICK a \in AckStates(nextSeqExpected', received') :
                 ack1Payload' \in {a, NoAck} /\ ackNet' \subseteq ackNet \cup {a}
          BY <3>1, <4>1, <4>2, <2>3, SendAck1Effect
        <4>4. \A q \in Seqs : Acked(a, q) => q \in received'
          BY <2>3, <2>4, AckStatesAreTrue DEF PrefixIsReceived
        <4>5. QED
          BY <1>a, <2>1, <4>3, <4>4, NoAckIsEmpty DEF AcksAreTrue, LiveAcks
      <3>2. CASE UNCHANGED <<ack1Payload, ackNet>>
        BY <3>2, <1>a, <2>1, AcksFrame DEF LiveAcks
      <3>3. QED
        BY <1>8, <3>1, <3>2 DEF HandleData
    <2>7. QED
      BY <2>4, <2>5, <2>6 DEF Books
  <1>9. CASE ResendAck1
    <2>1. ackNet' \subseteq ackNet \cup {ack1Payload}
      BY <1>9, TransmitAdds DEF ResendAck1
    <2>2. AcksAreTrue'
      BY <1>9, <1>a, <2>1, AcksFrame
         DEF ResendAck1, LiveAcks, senderVars, ackRxVars
    <2>3. Books'
      BY <1>9, <1>a, BooksFrame
         DEF ResendAck1, BookVars, senderVars, txVars, trackVars
    <2>4. QED
      BY <2>2, <2>3
  <1>10. CASE /\ UNCHANGED BookVars /\ dataNet' \subseteq dataNet
              /\ LiveAcks' \subseteq LiveAcks \cup {NoAck}
    <2>1. AcksAreTrue'
      BY <1>10, <1>a, AcksFrame DEF BookVars
    <2>2. QED
      BY <1>10, <1>a, <2>1, BooksFrame
  <1>11. QED
    <2>1. CASE \/ SendFails \/ ChooseFastRetransmits \/ CheckerFails
               \/ CheckerQueues \/ PopRecovery \/ ReleaseRecovery
               \/ ExpireAck1 \/ LoseData \/ LoseAck \/ LoseAck2
               \/ (\E a \in ack2Net : HandleAck2(a)) \/ UNCHANGED vars
      <3>1. UNCHANGED BookVars
        BY <2>1 DEF BookVars, SendFails, ChooseFastRetransmits, CheckerFails,
           CheckerQueues, PopRecovery, ReleaseRecovery, ExpireAck1, LoseData,
           LoseAck, LoseAck2, HandleAck2, vars, senderVars, receiverVars,
           txVars, trackVars
      <3>2. dataNet' \subseteq dataNet
        BY <2>1 DEF SendFails, ChooseFastRetransmits, CheckerFails,
           CheckerQueues, PopRecovery, ReleaseRecovery, ExpireAck1, LoseData,
           LoseAck, LoseAck2, HandleAck2, vars, netVars
      <3>3. /\ ackNet' \subseteq ackNet /\ ack2Net' \subseteq ack2Net
            /\ rxAck' = rxAck /\ ack1Payload' \in {ack1Payload, NoAck}
        BY <2>1 DEF SendFails, ChooseFastRetransmits, CheckerFails,
           CheckerQueues, PopRecovery, ReleaseRecovery, ExpireAck1, LoseData,
           LoseAck, LoseAck2, HandleAck2, vars, netVars, senderVars,
           receiverVars, ack1Vars, ackRxVars
      <3>4. LiveAcks' \subseteq LiveAcks \cup {NoAck}
        BY <3>3 DEF LiveAcks
      <3>5. QED
        BY <1>10, <3>1, <3>2, <3>4
    <2>2. QED
      BY <2>1, <1>1, <1>2, <1>3, <1>4, <1>5, <1>6, <1>7, <1>8, <1>9
         DEF Next, Checker, Recovery

\* No interleaving of the threads and no loss, delay, reordering or
\* duplication on the network makes the sender forget a packet the receiver
\* does not have.
THEOREM NothingForgottenEarly == Spec => []ForgottenIsReceived
  <1>1. Init => AckInv
    BY AckInit
  <1>2. TypeOK /\ AckInv /\ [Next]_vars => AckInv'
    BY AckStep
  <1>3. AckInv => ForgottenIsReceived
    BY DEF AckInv
  <1>4. QED
    BY <1>1, <1>2, <1>3, TypeCorrect, PTL DEF Spec

-----------------------------------------------------------------------------
(***************************************************************************)
(* The transport implements ReliableTransfer.                              *)
(***************************************************************************)
\* A new pair of sessions is the empty transfer.
LEMMA TransferInit == Init => Transfer!Init
  BY DEF Init, Transfer!Init, Forgotten

\* Nothing the transfer's callers see changes.
LEMMA TransferStutters ==
    ASSUME UNCHANGED BookVars, UNCHANGED fatal
    PROVE  UNCHANGED Transfer!transferVars
  BY DEF BookVars, Transfer!transferVars, Forgotten

\* Each step of the transport is a step of the transfer or stutters.
LEMMA TransferStep ==
    ASSUME TypeOK, AckInv, [Next]_vars
    PROVE  Transfer!Next \/ UNCHANGED Transfer!transferVars
  <1>a. TrackTypeOK /\ ReceiverTypeOK /\ NetTypeOK /\ AcksAreTrue
    BY DEF TypeOK, AckInv
  <1>b. N \in Nat \ {0}
    BY NAssumption
  <1>c. OnlySubmitted /\ OnePlace /\ PrefixIsReceived
    BY DEF AckInv
  <1>1. CASE SendData
    <2>1. /\ nextSeq \in 1..N /\ nextSeq' = nextSeq + 1 /\ handoff = 0
          /\ handoff' = nextSeq /\ ~fatal
          /\ UNCHANGED <<unacked, dropped, received, nextSeqExpected, fatal>>
      BY <1>1, <1>a, <1>b DEF SendData, TrackTypeOK, trackVars, receiverVars
    <2>2. Forgotten' = Forgotten
      BY <2>1, <1>b, <1>c DEF Forgotten, OnlySubmitted
    <2>3. nextSeq - 1 < N /\ nextSeq' - 1 = (nextSeq - 1) + 1
      BY <2>1, <1>b
    <2>4. Transfer!Submit
      BY <2>1, <2>2, <2>3 DEF Transfer!Submit
    <2>5. QED
      BY <2>4 DEF Transfer!Next
  <1>2. CASE SendFails \/ CheckerFails
    <2>1. fatal' = TRUE /\ UNCHANGED BookVars
      BY <1>2 DEF SendFails, CheckerFails, BookVars, txVars, trackVars,
         receiverVars
    <2>2. Transfer!Fail
      BY <2>1 DEF BookVars, Transfer!Fail, Forgotten
    <2>3. QED
      BY <2>2 DEF Transfer!Next
  <1>3. CASE RegisterData
    <2>1. /\ handoff # 0 /\ handoff' = 0 /\ unacked' = unacked \cup {handoff}
          /\ UNCHANGED <<nextSeq, dropped, received, nextSeqExpected, fatal>>
      BY <1>3 DEF RegisterData, receiverVars
    <2>2. Forgotten' = Forgotten
      BY <2>1, <1>a, <1>b DEF Forgotten, TrackTypeOK
    <2>3. QED
      BY <2>1, <2>2 DEF Transfer!transferVars
  <1>4. ASSUME NEW a \in ackNet, HandleAck1(a)
        PROVE  Transfer!Next
    <2>1. /\ ~fatal /\ unacked' = unacked \ AckedNow(a)
          /\ UNCHANGED <<nextSeq, handoff, dropped, received, nextSeqExpected,
                         fatal>>
      BY <1>4 DEF HandleAck1, receiverVars, txVars
    <2>2. AckedNow(a) \subseteq received \ dropped
      BY <1>a, <1>c DEF AckedNow, AcksAreTrue, LiveAcks, TrackTypeOK, OnePlace
    <2>3. /\ handoff \notin AckedNow(a) /\ AckedNow(a) \subseteq unacked
          /\ AckedNow(a) \subseteq 1..(nextSeq - 1)
      <3>1. AckedNow(a) \subseteq unacked
        BY DEF AckedNow
      <3>2. 0 \notin unacked /\ unacked \subseteq 1..(nextSeq - 1)
        BY <1>a, <1>c DEF OnlySubmitted, TrackTypeOK, Seqs
      <3>3. handoff \notin unacked
        BY <1>c, <3>2 DEF OnePlace
      <3>4. QED
        BY <3>1, <3>2, <3>3
    <2>f. Forgotten' = Forgotten \cup AckedNow(a)
      BY <2>1, <2>2, <2>3 DEF Forgotten
    <2>4. Transfer!Confirm
      BY <2>1, <2>2, <2>f DEF Transfer!Confirm
    <2>5. QED
      BY <2>4 DEF Transfer!Next
  <1>5. CASE CheckerRound
    <2>1. PICK exhausted \in SUBSET unacked :
            /\ unacked' = unacked \ exhausted
            /\ dropped' = dropped \cup exhausted
      BY <1>5 DEF CheckerRound
    <2>2. /\ ~fatal
          /\ UNCHANGED <<nextSeq, handoff, received, nextSeqExpected, fatal>>
      BY <1>5 DEF CheckerRound, txVars, receiverVars
    <2>3. Forgotten' = Forgotten
      BY <2>1, <2>2 DEF Forgotten
    <2>4. exhausted \in SUBSET ((1..(nextSeq - 1)) \ Forgotten)
      BY <2>1, <1>c DEF Forgotten, OnlySubmitted
    <2>5. Transfer!Abandon
      BY <2>1, <2>2, <2>3, <2>4 DEF Transfer!Abandon
    <2>6. QED
      BY <2>5 DEF Transfer!Next
  <1>6. ASSUME NEW s \in dataNet, HandleData(s)
        PROVE  Transfer!Next
    <2>1. /\ received' = received \cup {s}
          /\ UNCHANGED <<nextSeq, handoff, unacked, dropped, fatal>>
      BY <1>6 DEF HandleData, senderVars, txVars, trackVars
    <2>2. nextSeqExpected' \in nextSeqExpected..(N + 1)
      BY <1>6 DEF HandleData
    <2>3. nextSeqExpected' - 1 \in (nextSeqExpected - 1)..N
      <3>1. nextSeqExpected \in Int /\ N \in Int
        BY <1>a, <1>b DEF ReceiverTypeOK
      <3>2. QED
        BY <2>2, <3>1, RangeShifts
    <2>4. Forgotten' = Forgotten
      BY <2>1 DEF Forgotten
    <2>5. 1..(nextSeqExpected' - 1) \subseteq received'
      BY <1>6, AckStep DEF AckInv, PrefixIsReceived
    <2>6. s \in 1..(nextSeq - 1)
      BY <1>c DEF OnlySubmitted
    <2>7. Transfer!Arrive
      BY <2>1, <2>3, <2>4, <2>5, <2>6 DEF Transfer!Arrive
    <2>8. QED
      BY <2>7 DEF Transfer!Next
  <1>7. CASE \/ ChooseFastRetransmits \/ FinishAck1 \/ CheckerQueues
             \/ Recovery \/ (\E s \in dataNet : HandleDuplicate(s))
             \/ ResendAck1 \/ ExpireAck1
             \/ (\E a \in ack2Net : HandleAck2(a))
             \/ LoseData \/ LoseAck \/ LoseAck2 \/ UNCHANGED vars
    <2>1. UNCHANGED BookVars /\ UNCHANGED fatal
      BY <1>7 DEF BookVars, ChooseFastRetransmits, FinishAck1, CheckerQueues,
         Recovery, PopRecovery, SendRecovery, ReleaseRecovery,
         HandleDuplicate, ResendAck1, ExpireAck1, HandleAck2, LoseData,
         LoseAck, LoseAck2, vars, senderVars, receiverVars, txVars, trackVars
    <2>2. QED
      BY <2>1, TransferStutters
  <1>8. QED
    BY <1>1, <1>2, <1>3, <1>4, <1>5, <1>6, <1>7 DEF Next, Checker

\* Two sessions over a lossy network implement the reliable in-order
\* transfer, for every number of packets and every limit.
THEOREM TransferRefined == Spec => ImplementsTransfer
  <1>1. Init => Transfer!Init
    BY TransferInit
  <1>2. TypeOK /\ AckInv /\ [Next]_vars
          => Transfer!Next \/ UNCHANGED Transfer!transferVars
    BY TransferStep
  <1>3. Init => AckInv
    BY AckInit
  <1>4. TypeOK /\ AckInv /\ [Next]_vars => AckInv'
    BY AckStep
  <1>5. QED
    BY <1>1, <1>2, <1>3, <1>4, TypeCorrect, PTL
       DEF Spec, ImplementsTransfer, Transfer!Spec

-----------------------------------------------------------------------------
(***************************************************************************)
(* What an ACK2 says, and when the receiver falls silent.  An ACK state is *)
(* echoed by the sender only after it has been acted on; and the receiver  *)
(* compares an echo with the newest state it has built, which names its    *)
(* base as missing whenever it reports anything at or above it.            *)
(***************************************************************************)
\* The ACK states the sender has acted on: those it echoed and the one it works on.
ActedOn == ack2Net \cup {rxAck}

EchoInv == \A a \in ActedOn : \A s \in unacked : Acked(a, s) => s \in late

WellFormed(a) == a # NoAck /\ a.base <= a.seen => a.base \in a.missing

ReportInv ==
    /\ nextSeqExpected \notin received
    /\ ack1LastBase <= nextSeqExpected
    /\ \A a \in LiveAcks : a.base <= nextSeqExpected /\ WellFormed(a)

\* A state that the receiver builds names its own base.
LEMMA AckStatesAreFormed ==
    ASSUME NEW base \in 1..(N + 1), NEW recv \in SUBSET Seqs, base \notin recv,
           NEW a \in AckStates(base, recv)
    PROVE  a.base = base /\ WellFormed(a)
  <1>1. PICK seen \in 0..N :
            a = [base |-> base, seen |-> seen, missing |-> (base..seen) \ recv]
    BY DEF AckStates
  <1>2. QED
    BY <1>1, NAssumption DEF WellFormed

\* What a state acknowledges, every state that covers it (_ack2_covers_ack1_payload)
\* acknowledges too.
LEMMA CoverAcks ==
    ASSUME NEW a1 \in AckState, NEW a2 \in AckState, Covers(a2, a1),
           WellFormed(a2), a2 # NoAck,
           NEW s \in Seqs, Acked(a1, s)
    PROVE  Acked(a2, s)
  <1>1. /\ s \in Int /\ a1.base \in Int /\ a2.base \in Int
        /\ a1.seen \in Int /\ a2.seen \in Int
        /\ a2.base >= a1.base /\ a2.seen >= a1.seen
    BY NAssumption DEF AckState, Seqs, Covers
  <1>2. CASE s < a1.base
    BY <1>1, <1>2 DEF Acked
  <1>3. CASE s > a1.base /\ s <= a1.seen /\ s \notin a1.missing
    <2>1. s \in a1.base..a1.seen
      BY <1>1, <1>3
    <2>2. a2.missing \cap (a1.base..a1.seen) = a1.missing
      BY <1>1, <1>3 DEF Covers
    <2>3. s \notin a2.missing
      BY <2>1, <2>2, <1>3
    <2>4. s # a2.base
      BY <1>1, <1>3, <2>3 DEF WellFormed
    <2>5. QED
      BY <1>1, <1>3, <2>3, <2>4 DEF Acked
  <1>4. QED
    BY <1>2, <1>3 DEF Acked

-----------------------------------------------------------------------------
\* Every step keeps it: what the sender acts on leaves its books in the same step, and
\* a number that is registered after that is noted.
LEMMA EchoStep ==
    ASSUME TypeOK, EchoInv, [Next]_vars
    PROVE  EchoInv'
  <1>a. TrackTypeOK /\ AckRxTypeOK
    BY DEF TypeOK
  <1>1. CASE RegisterData
    <2>1. /\ unacked' = unacked \cup {handoff} /\ UNCHANGED <<ack2Net, rxAck>>
          /\ late' = IF \E a \in ack2Net \cup {rxAck} : Acked(a, handoff)
                     THEN late \cup {handoff} ELSE late
      BY <1>1 DEF RegisterData, ackRxVars, netVars
    <2>2. QED
      BY <2>1 DEF EchoInv, ActedOn
  <1>2. ASSUME NEW a \in ackNet, HandleAck1(a)
        PROVE  EchoInv'
    <2>1. /\ unacked' = unacked \ {s \in unacked : Acked(a, s)} /\ rxAck' = a
          /\ UNCHANGED <<ack2Net, late>>
      BY <1>2 DEF HandleAck1, AckedNow
    <2>2. QED
      BY <2>1 DEF EchoInv, ActedOn
  <1>3. CASE FinishAck1
    <2>1. /\ ack2Net' \subseteq ack2Net \cup {rxAck} /\ rxAck' = NoAck
          /\ UNCHANGED <<unacked, late>>
      BY <1>3, TransmitAdds DEF FinishAck1, trackVars
    <2>2. unacked \subseteq Seqs
      BY <1>a DEF TrackTypeOK
    <2>3. QED
      BY <2>1, <2>2, NoAckIsEmpty DEF EchoInv, ActedOn
  <1>4. CASE unacked' \subseteq unacked /\ ack2Net' \subseteq ack2Net /\ UNCHANGED <<rxAck, late>>
    BY <1>4 DEF EchoInv, ActedOn
  <1>5. QED
    <2>1. CASE \/ SendData \/ SendFails \/ ChooseFastRetransmits \/ Checker \/ Recovery
               \/ (\E s \in dataNet : HandleDuplicate(s) \/ HandleData(s))
               \/ ResendAck1 \/ ExpireAck1 \/ (\E a \in ack2Net : HandleAck2(a))
               \/ LoseData \/ LoseAck \/ LoseAck2 \/ UNCHANGED vars
      <3>1. unacked' \subseteq unacked
        BY <2>1 DEF SendData, SendFails, ChooseFastRetransmits, Checker, CheckerRound,
           CheckerFails, CheckerQueues, Recovery, PopRecovery, SendRecovery,
           ReleaseRecovery, HandleDuplicate, HandleData, ResendAck1, ExpireAck1,
           HandleAck2, LoseData, LoseAck, LoseAck2, vars, senderVars, trackVars
      <3>2. ack2Net' \subseteq ack2Net
        BY <2>1 DEF SendData, SendFails, ChooseFastRetransmits, Checker, CheckerRound,
           CheckerFails, CheckerQueues, Recovery, PopRecovery, SendRecovery,
           ReleaseRecovery, HandleDuplicate, HandleData, ResendAck1, ExpireAck1,
           HandleAck2, LoseData, LoseAck, LoseAck2, vars, netVars
      <3>3. UNCHANGED <<rxAck, late>>
        BY <2>1 DEF SendData, SendFails, ChooseFastRetransmits, Checker, CheckerRound,
           CheckerFails, CheckerQueues, Recovery, PopRecovery, SendRecovery,
           ReleaseRecovery, HandleDuplicate, HandleData, ResendAck1, ExpireAck1,
           HandleAck2, LoseData, LoseAck, LoseAck2, vars, senderVars, ackRxVars
      <3>4. QED
        BY <1>4, <3>1, <3>2, <3>3
    <2>2. QED
      BY <2>1, <1>1, <1>2, <1>3 DEF Next

\* An ACK2 only claims what the sender has acted on, whatever the threads of the two
\* sessions and the network do between the ACK1 and its echo.
THEOREM EchoesAreActedOn == Spec => []Ack2SpeaksForSender
  <1>1. Init => EchoInv
    BY DEF Init, EchoInv
  <1>2. TypeOK /\ EchoInv /\ [Next]_vars => EchoInv'
    BY EchoStep
  <1>3. EchoInv => Ack2SpeaksForSender
    BY DEF EchoInv, ActedOn, Ack2SpeaksForSender
  <1>4. QED
    BY <1>1, <1>2, <1>3, TypeCorrect, PTL DEF Spec

-----------------------------------------------------------------------------
\* The states of the receiver stay behind it as they move.
LEMMA ReportFrame ==
    ASSUME ReportInv, UNCHANGED <<received, nextSeqExpected>>,
           ack1LastBase' \in {ack1LastBase, ack1Payload.base},
           LiveAcks' \subseteq LiveAcks \cup {NoAck}, TypeOK
    PROVE  ReportInv'
  <1>1. nextSeqExpected \in Nat /\ NoAck.base = 0
    BY NAssumption DEF TypeOK, ReceiverTypeOK, NoAck
  <1>2. WellFormed(NoAck)
    BY DEF WellFormed
  <1>3. ack1Payload.base <= nextSeqExpected
    BY DEF ReportInv, LiveAcks
  <1>4. \A a \in LiveAcks' : a.base <= nextSeqExpected /\ WellFormed(a)
    BY <1>1, <1>2 DEF ReportInv
  <1>5. ack1LastBase' <= nextSeqExpected
    BY <1>3 DEF ReportInv
  <1>6. QED
    BY <1>4, <1>5 DEF ReportInv, WellFormed

\* A state that is built anew is of the base as it is.
LEMMA SendAck1Base ==
    ASSUME NEW force, NEW base, NEW recv, SendAck1(force, base, recv)
    PROVE  /\ \E a \in AckStates(base, recv) :
                /\ ack1Payload' \in {a, NoAck} /\ ackNet' \subseteq ackNet \cup {a}
                /\ ack1LastBase' \in {ack1LastBase, a.base}
           /\ ack1Payload' = NoAck =>
                \/ ~force /\ ~Pending(ack1LastBase, base, recv)
                \/ NoAck \in AckStates(base, recv)
BY TransmitAdds DEF SendAck1

\* Every step keeps the receiver's reports in line: what it acknowledges it names the
\* base of, and no report is of a base it has yet to reach.
LEMMA ReportStep ==
    ASSUME TypeOK, AckInv, ReportInv, [Next]_vars
    PROVE  ReportInv'
  <1>a. ReceiverTypeOK /\ NetTypeOK /\ PrefixIsReceived /\ N \in Nat \ {0}
    BY NAssumption DEF TypeOK, AckInv
  <1>1. ASSUME NEW s \in dataNet, HandleDuplicate(s)
        PROVE  ReportInv'
    <2>1. PICK a \in AckStates(nextSeqExpected, received) :
             /\ ack1Payload' \in {a, NoAck} /\ ackNet' \subseteq ackNet \cup {a}
             /\ ack1LastBase' \in {ack1LastBase, a.base}
      BY <1>1, SendAck1Base DEF HandleDuplicate
    <2>2. a.base = nextSeqExpected /\ WellFormed(a)
      BY <1>a, AckStatesAreFormed DEF ReceiverTypeOK, ReportInv
    <2>3. UNCHANGED <<rxAck, ack2Net, received, nextSeqExpected>>
      BY <1>1 DEF HandleDuplicate, senderVars, ackRxVars
    <2>4. nextSeqExpected \in Nat /\ NoAck.base = 0 /\ WellFormed(NoAck)
      BY <1>a DEF ReceiverTypeOK, NoAck, WellFormed
    <2>5. LiveAcks' \subseteq LiveAcks \cup {a, NoAck}
      BY <2>1, <2>3 DEF LiveAcks
    <2>6. \A b \in LiveAcks' : b.base <= nextSeqExpected /\ WellFormed(b)
      BY <2>2, <2>4, <2>5 DEF ReportInv
    <2>7. QED
      BY <2>1, <2>2, <2>3, <2>4, <2>6 DEF ReportInv, WellFormed
  <1>2. ASSUME NEW s \in dataNet, HandleData(s)
        PROVE  ReportInv'
    <2>1. /\ received' = received \cup {s} /\ UNCHANGED <<rxAck, ack2Net>>
          /\ nextSeqExpected' \in nextSeqExpected..(N + 1)
          /\ nextSeqExpected' \notin received'
      BY <1>2 DEF HandleData, PrefixEnd, senderVars, ackRxVars
    <2>2. /\ received' \in SUBSET Seqs /\ nextSeqExpected' \in 1..(N + 1)
          /\ nextSeqExpected <= nextSeqExpected' /\ nextSeqExpected \in Nat
      BY <1>a, <2>1 DEF ReceiverTypeOK, NetTypeOK
    <2>3. PICK a \in AckStates(nextSeqExpected', received') \cup {NoAck} :
             /\ ack1Payload' \in {a, NoAck, ack1Payload} /\ ackNet' \subseteq ackNet \cup {a}
             /\ ack1LastBase' \in {ack1LastBase, a.base}
      <3>1. CASE UNCHANGED <<ack1Payload, ack1LastBase, ackNet>>
        BY <3>1
      <3>2. CASE SendAck1(s > nextSeqExpected \/ s = N, nextSeqExpected', received')
        BY <3>2, SendAck1Base
      <3>3. QED
        BY <1>2, <3>1, <3>2 DEF HandleData
    <2>4. NoAck.base = 0 /\ WellFormed(NoAck)
      BY DEF NoAck, WellFormed
    <2>5. a.base \in {0, nextSeqExpected'} /\ WellFormed(a)
      BY <2>1, <2>2, <2>4, AckStatesAreFormed
    <2>6. LiveAcks' \subseteq LiveAcks \cup {a, NoAck}
      BY <2>1, <2>3 DEF LiveAcks
    <2>b. \A b \in LiveAcks : b.base \in Int
      BY <1>a, <2>4 DEF LiveAcks, NetTypeOK, ReceiverTypeOK, TypeOK, AckRxTypeOK, AckState
    <2>7. \A b \in LiveAcks : b.base <= nextSeqExpected'
      BY <2>b, <2>2 DEF ReportInv
    <2>8. \A b \in LiveAcks' : b.base <= nextSeqExpected' /\ WellFormed(b)
      BY <2>2, <2>4, <2>5, <2>6, <2>7 DEF ReportInv
    <2>9. ack1LastBase' <= nextSeqExpected'
      BY <1>a, <2>2, <2>3, <2>5 DEF ReportInv, ReceiverTypeOK
    <2>10. QED
      BY <2>1, <2>8, <2>9 DEF ReportInv, WellFormed
  <1>3. CASE ResendAck1
    <2>1. ackNet' \subseteq ackNet \cup {ack1Payload}
      BY <1>3, TransmitAdds DEF ResendAck1
    <2>2. LiveAcks' \subseteq LiveAcks
      BY <1>3, <2>1 DEF ResendAck1, LiveAcks, senderVars, ackRxVars
    <2>3. QED
      BY <1>3, <2>2, ReportFrame DEF ResendAck1
  <1>4. CASE FinishAck1
    <2>1. ack2Net' \subseteq ack2Net \cup {rxAck}
      BY <1>4, TransmitAdds DEF FinishAck1
    <2>2. LiveAcks' \subseteq LiveAcks \cup {NoAck}
      BY <1>4, <2>1 DEF FinishAck1, LiveAcks, receiverVars, ack1Vars
    <2>3. QED
      BY <1>4, <2>2, ReportFrame DEF FinishAck1, receiverVars, ack1Vars
  <1>5. ASSUME NEW a \in ackNet, HandleAck1(a)
        PROVE  ReportInv'
    <2>1. LiveAcks' \subseteq LiveAcks
      BY <1>5 DEF HandleAck1, LiveAcks, receiverVars, ack1Vars
    <2>2. QED
      BY <1>5, <2>1, ReportFrame DEF HandleAck1, receiverVars, ack1Vars
  <1>6. QED
    <2>1. CASE \/ SendData \/ SendFails \/ RegisterData \/ ChooseFastRetransmits \/ Checker
               \/ Recovery \/ ExpireAck1 \/ (\E a \in ack2Net : HandleAck2(a))
               \/ LoseData \/ LoseAck \/ LoseAck2 \/ UNCHANGED vars
      <3>1. UNCHANGED <<received, nextSeqExpected, ack1LastBase>>
        BY <2>1 DEF SendData, SendFails, RegisterData, ChooseFastRetransmits, Checker,
           CheckerRound, CheckerFails, CheckerQueues, Recovery, PopRecovery, SendRecovery,
           ReleaseRecovery, ExpireAck1, HandleAck2, LoseData, LoseAck, LoseAck2, vars,
           receiverVars, ack1Vars
      <3>2. /\ ackNet' \subseteq ackNet /\ ack2Net' \subseteq ack2Net
            /\ rxAck' = rxAck /\ ack1Payload' \in {ack1Payload, NoAck}
        BY <2>1 DEF SendData, SendFails, RegisterData, ChooseFastRetransmits, Checker,
           CheckerRound, CheckerFails, CheckerQueues, Recovery, PopRecovery, SendRecovery,
           ReleaseRecovery, ExpireAck1, HandleAck2, LoseData, LoseAck, LoseAck2, vars,
           netVars, senderVars, receiverVars, ack1Vars, ackRxVars
      <3>3. LiveAcks' \subseteq LiveAcks \cup {NoAck}
        BY <3>2 DEF LiveAcks
      <3>4. QED
        BY <3>1, <3>3, ReportFrame
    <2>2. QED
      BY <2>1, <1>1, <1>2, <1>3, <1>4, <1>5 DEF Next

\* What SilenceIsSafe says of one step.
Silences ==
    /\ ack1Payload # NoAck /\ ack1Payload' = NoAck
    /\ Pending(ack1LastBase, nextSeqExpected, received)

\* The receiver falls silent over something to report only by an ACK2 that covers it.
LEMMA OnlyEchoSilences ==
    ASSUME TypeOK, AckInv, ReportInv, Next, Silences
    PROVE  \E a \in ack2Net : Covers(a, ack1Payload)
  <1>a. ReceiverTypeOK /\ NetTypeOK /\ PrefixIsReceived /\ N \in Nat \ {0}
    BY NAssumption DEF TypeOK, AckInv
  <1>b. NoAck \notin AckState
    BY DEF NoAck, AckState
  <1>1. ASSUME NEW a \in ack2Net, HandleAck2(a)
        PROVE  Covers(a, ack1Payload)
    BY <1>1 DEF HandleAck2, Silences
  <1>2. ASSUME NEW s \in dataNet, HandleDuplicate(s)
        PROVE  FALSE
    <2>1. NoAck \in AckStates(nextSeqExpected, received)
      BY <1>2, SendAck1Base DEF HandleDuplicate, Silences
    <2>2. QED
      BY <2>1, <1>a, <1>b, AckStatesType DEF ReceiverTypeOK
  <1>3. ASSUME NEW s \in dataNet, HandleData(s)
        PROVE  FALSE
    <2>1. /\ received' = received \cup {s} /\ s \notin received
          /\ nextSeqExpected' \in nextSeqExpected..(N + 1)
          /\ nextSeqExpected..(nextSeqExpected' - 1) \subseteq received'
          /\ nextSeqExpected' \notin received'
      BY <1>3 DEF HandleData, PrefixEnd
    <2>2. /\ received' \in SUBSET Seqs /\ nextSeqExpected' \in 1..(N + 1)
          /\ nextSeqExpected \in 1..(N + 1) /\ s \in 1..N
      BY <1>a, <2>1 DEF ReceiverTypeOK, NetTypeOK, Seqs
    <2>3. NoAck \notin AckStates(nextSeqExpected', received')
      BY <1>b, <2>2, AckStatesType
    <2>4. ~Pending(ack1LastBase, nextSeqExpected', received')
      BY <1>3, <2>3, SendAck1Base DEF HandleData, Silences
    <2>5. nextSeqExpected' = nextSeqExpected
      BY <1>a, <2>2, <2>1, <2>4 DEF Pending, ReportInv, ReceiverTypeOK
    <2>6. s >= nextSeqExpected
      BY <1>a, <2>1, <2>2 DEF PrefixIsReceived
    <2>7. QED
      BY <2>1, <2>4, <2>5, <2>6 DEF Pending
  <1>4. CASE ResendAck1
    BY <1>4 DEF ResendAck1, Silences
  <1>5. CASE ExpireAck1
    BY <1>5 DEF ExpireAck1, Silences
  <1>6. QED
    <2>1. CASE \/ SendData \/ SendFails \/ RegisterData
               \/ (\E a \in ackNet : HandleAck1(a))
               \/ ChooseFastRetransmits \/ FinishAck1 \/ Checker \/ Recovery
               \/ LoseData \/ LoseAck \/ LoseAck2
      BY <2>1 DEF Silences, SendData, SendFails, RegisterData, HandleAck1,
         ChooseFastRetransmits, FinishAck1, Checker, CheckerRound, CheckerFails,
         CheckerQueues, Recovery, PopRecovery, SendRecovery, ReleaseRecovery, LoseData,
         LoseAck, LoseAck2, receiverVars, ack1Vars
    <2>2. QED
      BY <2>1, <1>1, <1>2, <1>3, <1>4, <1>5 DEF Next

\* A receiver with something left to report goes silent only when the sender has acted
\* on what it reports (_ack2_covers_ack1_payload): an old or a smaller ACK2 never
\* silences it.
THEOREM SilenceFollowsAction == Spec => SilenceIsSafe
  <1>1. Init => AckInv /\ EchoInv /\ ReportInv
    <2>1. ASSUME Init PROVE ReportInv
      BY <2>1 DEF Init, ReportInv, LiveAcks, NoAck, WellFormed
    <2>2. QED
      BY <2>1, AckInit DEF Init, EchoInv
  <1>2. TypeOK /\ AckInv /\ EchoInv /\ ReportInv /\ [Next]_vars
          => (AckInv /\ EchoInv /\ ReportInv)'
    BY AckStep, EchoStep, ReportStep
  <1>3. ASSUME TypeOK, AckInv, EchoInv, ReportInv, [Next]_vars
        PROVE  Silences => \A s \in unacked : Acked(ack1Payload, s) => s \in late
    <2>1. SUFFICES ASSUME Silences, NEW s \in unacked, Acked(ack1Payload, s)
                   PROVE  s \in late
      OBVIOUS
    <2>2. Next
      BY <1>3, <2>1 DEF Silences, vars, receiverVars, ack1Vars
    <2>3. PICK a \in ack2Net : Covers(a, ack1Payload)
      BY <1>3, <2>1, <2>2, OnlyEchoSilences
    <2>4. s \in Seqs /\ ack1Payload \in AckState /\ a \in AckState
      BY <1>3, <2>1 DEF TypeOK, TrackTypeOK, ReceiverTypeOK, NetTypeOK, Silences
    <2>5. a # NoAck /\ WellFormed(a)
      BY <1>3, <2>4 DEF ReportInv, LiveAcks, AckState, NoAck
    <2>6. Acked(a, s)
      BY <2>1, <2>3, <2>4, <2>5, CoverAcks
    <2>7. QED
      BY <1>3, <2>6 DEF EchoInv, ActedOn
  <1>4. TypeOK /\ AckInv /\ EchoInv /\ ReportInv /\ [Next]_vars
          => [Silences => \A s \in unacked : Acked(ack1Payload, s) => s \in late]_vars
    BY <1>3
  <1>5. QED
    BY <1>1, <1>2, <1>4, TypeCorrect, PTL DEF Spec, SilenceIsSafe, Silences
=============================================================================
