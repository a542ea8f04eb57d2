---------------------------- MODULE EndingProofs ----------------------------
(***************************************************************************)
(* What MCEndings' run checks of the way things end, for every value of    *)
(* the constants: first each part against its own specification, then all  *)
(* of them together.                                                       *)
(***************************************************************************)
EXTENDS MCEndings, SequenceTheorems, TLAPS

-----------------------------------------------------------------------------
(* StreamClose.  For any number of profile changes, what the two ends of a *)
(* screen stream conclude from each other's CLOSE and ACK is true.  The    *)
(* invariants that the runs check are not inductive: they speak of the two *)
(* tokens, while a step decides by a message that may be old.  IInv adds   *)
(* what every message in the network, the inbox and the two waiting        *)
(* threads say of the tokens.                                              *)

\* Every message of this stream is still true of the end that sent it.
Truthful ==
    \A m \in net :
        /\ m.type = "close" /\ m.session # EarlierSession
              => reason[m.from] = "local"
        /\ m.type = "close" /\ m.session # EarlierSession /\ m.from = "sender"
              => main["sender"] # "run" /\ m.session = session["sender"]
        /\ m.type = "ack" /\ m.id = CloseId[Peer[m.from]]
              => Cancelled(m.from)

\* Only an end that stops for its own reason waits for an ACK, and an ACK that
\* was taken out of the network is as true as it was there.  A receiver that has
\* accepted a CLOSE stops.
Waiting ==
    /\ main["sender"] = "close" => reason["sender"] = "local"
    /\ closing => reason["receiver"] = "local"
    /\ inbox => Cancelled("receiver")
    /\ accepted # 0 => Cancelled("receiver")

\* ObeysLastSession, with what keeps the sender's session where it is.
LastSession ==
    reason["receiver"] = "peer_closed"
        => main["sender"] # "run" /\ session["receiver"] = session["sender"]

IInv ==
    /\ TypeOK
    /\ Truthful
    /\ Waiting
    /\ LastSession
    /\ PeerClosedMeansLocal
    /\ AckedIsHeard

\* CancellationToken::cancel: the token of one end is set, once and for all.
LEMMA CancelFacts ==
    ASSUME reason \in [Ends -> Reasons],
           NEW e \in Ends, NEW why \in Reasons \ {"none"}, Cancel(e, why)
    PROVE  /\ reason' \in [Ends -> Reasons]
           /\ reason'[e] # "none"
           /\ reason'[e] = reason[e] \/ (reason[e] = "none" /\ reason'[e] = why)
           /\ \A x \in Ends : x # e => reason'[x] = reason[x]
           /\ \A x \in Ends : reason[x] # "none" => reason'[x] = reason[x]
BY DEF Cancel, Ends, Reasons

\* The messages an end makes are messages.
LEMMA MessageTypes ==
    /\ \A e \in Ends, s \in Sessions : Close(e, s) \in Messages
    /\ \A e \in Ends, m \in Messages : Ack(e, m) \in Messages
    /\ EarlierMessages \subseteq Messages
<1>1. EarlierSession \in 0..EarlierSession /\ Sessions \subseteq 0..EarlierSession
  BY MaxSessionAssumption DEF Sessions, EarlierSession
<1>2. \A e \in Ends : CloseId[e] \in 1..3
  BY DEF Ends, CloseId
<1>3. \A e \in Ends, s \in Sessions : Close(e, s) \in Messages
  BY <1>1, <1>2 DEF Close, Messages
<1>4. \A e \in Ends, m \in Messages : Ack(e, m) \in Messages
  BY DEF Ack, Messages
<1>5. EarlierMessages \subseteq Messages
  BY <1>1 DEF EarlierMessages, Messages, EarlierId
<1>. QED  BY <1>3, <1>4, <1>5

\* The streams begin with nothing but what earlier ones left.
LEMMA InitInv == Init => IInv
<1>. SUFFICES ASSUME Init PROVE IInv
  OBVIOUS
<1>1. 1 \in Sessions /\ 0 \in Sessions
  BY MaxSessionAssumption DEF Sessions
<1>2. running \in [Ends -> SUBSET {"control", "render", "network"}]
  BY DEF Init, Workers
<1>3. session \in [Ends -> Sessions] /\ net \subseteq Messages
  BY <1>1, MessageTypes DEF Init
<1>4. TypeOK
  <2>1. reason \in [Ends -> Reasons] /\ acked \in [Ends -> BOOLEAN]
    BY DEF Init, Reasons
  <2>2. /\ life \in [Ends -> {"running", "stopping", "stopped", "failed_cleanup"}]
        /\ main \in [Ends -> {"run", "close", "join", "ended"}]
    BY DEF Init
  <2>3. /\ linger \in [Ends -> {"none", "on", "over"}]
        /\ retained \in [Ends -> SUBSET {"control", "render", "network"}]
    BY DEF Init
  <2>4. accepted \in 0..3
    BY DEF Init
  <2>5. closing \in BOOLEAN /\ inbox \in BOOLEAN
    BY Zenon DEF Init
  <2>. QED  BY <1>2, <1>3, <2>1, <2>2, <2>3, <2>4, <2>5 DEF TypeOK
<1>5. Truthful
  BY DEF Init, Truthful, EarlierMessages, EarlierId, CloseId, Peer, Ends
<1>6. Waiting /\ LastSession /\ PeerClosedMeansLocal /\ AckedIsHeard
  BY DEF Init, Waiting, LastSession, PeerClosedMeansLocal, AckedIsHeard, Ends
<1>. QED  BY <1>4, <1>5, <1>6 DEF IInv

\* Steps that send nothing, take nothing from the network and begin no session:
\* they set a token for a reason of the end's own, or set none, and they wait for
\* an ACK only after such a reason.
OwnDecision ==
    /\ UNCHANGED <<net, session, acked, inbox, accepted>>
    /\ reason' \in [Ends -> Reasons]
    /\ \A x \in Ends : reason[x] # "none" => reason'[x] = reason[x]
    /\ \A x \in Ends : reason'[x] = "peer_closed" => reason[x] = "peer_closed"
    /\ main["sender"] # "run" => main'["sender"] # "run"
    /\ main'["sender"] = "close"
          => main["sender"] = "close" \/ reason["sender"] = "local"
    /\ closing' => closing \/ reason'["receiver"] = "local"

\* Nothing that was true of the ends becomes false by such a step.
LEMMA OwnDecisionSafe ==
    ASSUME IInv, TypeOK', OwnDecision
    PROVE  IInv'
<1>1. \A m \in net : m.from \in Ends /\ Peer[m.from] \in Ends
  BY DEF IInv, TypeOK, Messages, Peer, Ends
<1>2. Truthful'
  BY <1>1 DEF IInv, Truthful, OwnDecision, Cancelled
<1>3. Waiting' /\ LastSession'
  BY DEF IInv, Waiting, LastSession, OwnDecision, Cancelled, Ends
<1>4. PeerClosedMeansLocal' /\ AckedIsHeard'
  BY DEF IInv, PeerClosedMeansLocal, AckedIsHeard, OwnDecision, Cancelled, Ends,
         Peer
<1>. QED  BY <1>2, <1>3, <1>4 DEF IInv

\* Behind the loop the thread is over, or waits for a reason of its own.
LEMMA LeavesLoopFacts ==
    ASSUME TypeOK, NEW why, LeavesLoop(why)
    PROVE  /\ running' \in [Ends -> SUBSET {"control", "render", "network"}]
           /\ closing' \in BOOLEAN
           /\ closing' => closing \/ why = "local"
<1>1. CASE why = "local" /\ session["receiver"] # 0
  <2>1. closing' = TRUE /\ UNCHANGED running
    BY <1>1, Zenon DEF LeavesLoop
  <2>. QED  BY <1>1, <2>1, Zenon DEF TypeOK
<1>2. CASE ~(why = "local" /\ session["receiver"] # 0)
  <2>1. Finishes("receiver", "network") /\ UNCHANGED closing
    BY <1>2, Zenon DEF LeavesLoop
  <2>2. running' \in [Ends -> SUBSET {"control", "render", "network"}]
    BY <2>1 DEF Finishes, TypeOK
  <2>. QED  BY <2>1, <2>2, Zenon DEF TypeOK
<1>. QED  BY <1>1, <1>2

\* Every step keeps the types.
LEMMA TypeStep ==
    ASSUME TypeOK, Next
    PROVE  TypeOK'
<1>. USE DEF TypeOK
<1>1. ASSUME NEW e \in Ends, EndStep(e) PROVE TypeOK'
  <2>1. CASE LocalStop(e)
    BY <2>1, CancelFacts DEF LocalStop, Reasons
  <2>2. CASE LingerOver(e)
    BY <2>2 DEF LingerOver
  <2>3. CASE Finish(e)
    BY <2>3 DEF Finish
  <2>4. ASSUME NEW w \in Workers[e], JoinTimesOut(e, w) PROVE TypeOK'
    BY <2>4 DEF JoinTimesOut
  <2>. QED  BY <1>1, <2>1, <2>2, <2>3, <2>4 DEF EndStep
<1>2. CASE SwitchSender
  BY <1>2, MaxSessionAssumption DEF SwitchSender, Sessions, Ends
<1>3. CASE MediaArrives
  <2>1. PICK s \in 1..session["sender"] :
            session' = [session EXCEPT !["receiver"] = s]
    BY <1>3 DEF MediaArrives
  <2>2. session' \in [Ends -> Sessions]
    BY <2>1, MaxSessionAssumption DEF Sessions, Ends
  <2>. QED  BY <1>3, <2>2 DEF MediaArrives
<1>4. CASE SenderStep
  <2>0. "sender" \in Ends
    BY DEF Ends
  <2>1. CASE TxCleanup
    BY <2>1 DEF TxCleanup
  <2>2. CASE TxCloseSends
    BY <2>2, <2>0, MessageTypes DEF TxCloseSends
  <2>3. CASE TxCloseEnds
    BY <2>3 DEF TxCloseEnds
  <2>4. CASE TxPeerTimeout
    BY <2>4, <2>0, CancelFacts DEF TxPeerTimeout, Reasons
  <2>5. CASE TxControlEnds \/ TxControlFails
    BY <2>5 DEF TxControlEnds, TxControlFails, Finishes
  <2>6. ASSUME NEW m \in net, TxRxClose(m) PROVE TypeOK'
    BY <2>6, <2>0, CancelFacts, MessageTypes DEF TxRxClose, Reasons
  <2>7. ASSUME NEW m \in net, TxRxAck(m) PROVE TypeOK'
    BY <2>7 DEF TxRxAck
  <2>. QED  BY <1>4, <2>1, <2>2, <2>3, <2>4, <2>5, <2>6, <2>7 DEF SenderStep
<1>5. CASE ReceiverStep
  <2>0. "receiver" \in Ends
    BY DEF Ends
  <2>1. CASE RxPeerTimeout
    <3>1. /\ running' \in [Ends -> SUBSET {"control", "render", "network"}]
          /\ closing' \in BOOLEAN
      BY <2>1, LeavesLoopFacts DEF RxPeerTimeout
    <3>2. reason' \in [Ends -> Reasons]
      BY <2>1, <2>0, CancelFacts DEF RxPeerTimeout, Reasons
    <3>. QED  BY <2>1, <3>1, <3>2 DEF RxPeerTimeout
  <2>2. CASE RxLoopEnds
    <3>1. /\ running' \in [Ends -> SUBSET {"control", "render", "network"}]
          /\ closing' \in BOOLEAN
      BY <2>2, LeavesLoopFacts DEF RxLoopEnds
    <3>. QED  BY <2>2, <3>1 DEF RxLoopEnds
  <2>3. CASE RxFails
    BY <2>3, <2>0, CancelFacts DEF RxFails, Finishes, Reasons
  <2>4. CASE RxCloseSends
    BY <2>4, <2>0, MessageTypes DEF RxCloseSends
  <2>5. CASE RxCloseEnds \/ RenderEnds
    BY <2>5 DEF RxCloseEnds, RenderEnds, Finishes
  <2>6. CASE RxCleanup
    BY <2>6 DEF RxCleanup
  <2>7. ASSUME NEW m \in net, RxClose(m) PROVE TypeOK'
    <3>0. m \in Messages
      OBVIOUS
    <3>1. m.id \in 0..3 /\ Ack("receiver", m) \in Messages
      <4>1. m.id \in 1..3
        BY <3>0 DEF Messages
      <4>. QED  BY <2>0, <3>0, <4>1, MessageTypes
    <3>. QED  BY <2>7, <2>0, <3>1, CancelFacts DEF RxClose, Reasons
  <2>8. ASSUME NEW m \in net, RxDuplicate(m) PROVE TypeOK'
    BY <2>8, <2>0, MessageTypes DEF RxDuplicate
  <2>9. ASSUME NEW m \in net, RxAcked(m) PROVE TypeOK'
    BY <2>9 DEF RxAcked, Finishes
  <2>10. ASSUME NEW m \in net, RxRemoteClose(m) PROVE TypeOK'
    BY <2>10, <2>0, MessageTypes DEF RxRemoteClose
  <2>. QED  BY <1>5, <2>1, <2>2, <2>3, <2>4, <2>5, <2>6, <2>7, <2>8, <2>9, <2>10
            DEF ReceiverStep
<1>. QED  BY <1>1, <1>2, <1>3, <1>4, <1>5 DEF Next

\* The steps that only decide for the end itself keep the invariant.
LEMMA OwnSteps ==
    ASSUME IInv, TypeOK',
           \/ TxCleanup \/ TxPeerTimeout \/ TxControlEnds \/ TxControlFails
           \/ RxPeerTimeout \/ RxLoopEnds \/ RxFails \/ RxCloseEnds
           \/ RenderEnds \/ RxCleanup
           \/ \E e \in Ends : EndStep(e)
    PROVE  IInv'
<1>. USE DEF IInv, TypeOK, Ends
<1>1. CASE TxCleanup
  <2>1. OwnDecision
    BY <1>1 DEF TxCleanup, OwnDecision, Cancelled, Notifies
  <2>. QED  BY <2>1, OwnDecisionSafe
<1>2. CASE TxPeerTimeout
  <2>1. OwnDecision
    BY <1>2, CancelFacts DEF TxPeerTimeout, OwnDecision, Reasons
  <2>. QED  BY <2>1, OwnDecisionSafe
<1>3. CASE TxControlEnds \/ TxControlFails \/ RxCloseEnds \/ RenderEnds \/ RxCleanup
  <2>1. OwnDecision
    BY <1>3 DEF TxControlEnds, TxControlFails, RxCloseEnds, RenderEnds, RxCleanup,
                OwnDecision
  <2>. QED  BY <2>1, OwnDecisionSafe
<1>4. CASE RxPeerTimeout
  <2>1. closing' => closing \/ reason'["receiver"] = "local"
    BY <1>4, LeavesLoopFacts DEF RxPeerTimeout
  <2>2. OwnDecision
    BY <1>4, <2>1, CancelFacts DEF RxPeerTimeout, OwnDecision, Reasons
  <2>. QED  BY <2>2, OwnDecisionSafe
<1>5. CASE RxLoopEnds
  <2>1. closing' => closing \/ reason'["receiver"] = "local"
    BY <1>5, LeavesLoopFacts DEF RxLoopEnds
  <2>2. OwnDecision
    BY <1>5, <2>1 DEF RxLoopEnds, OwnDecision
  <2>. QED  BY <2>2, OwnDecisionSafe
<1>6. CASE RxFails
  <2>1. OwnDecision
    BY <1>6, CancelFacts DEF RxFails, OwnDecision, Reasons
  <2>. QED  BY <2>1, OwnDecisionSafe
<1>7. ASSUME NEW e \in Ends, EndStep(e) PROVE IInv'
  <2>1. CASE LocalStop(e)
    <3>1. OwnDecision
      BY <2>1, CancelFacts DEF LocalStop, OwnDecision, Reasons
    <3>. QED  BY <3>1, OwnDecisionSafe
  <2>2. CASE LingerOver(e)
    <3>1. OwnDecision
      BY <2>2 DEF LingerOver, OwnDecision
    <3>. QED  BY <3>1, OwnDecisionSafe
  <2>3. CASE Finish(e)
    <3>1. OwnDecision
      BY <2>3 DEF Finish, OwnDecision
    <3>. QED  BY <3>1, OwnDecisionSafe
  <2>4. ASSUME NEW w \in Workers[e], JoinTimesOut(e, w) PROVE IInv'
    <3>1. OwnDecision
      BY <2>4 DEF JoinTimesOut, OwnDecision
    <3>. QED  BY <3>1, OwnDecisionSafe
  <2>. QED  BY <1>7, <2>1, <2>2, <2>3, <2>4 DEF EndStep
<1>. QED  BY <1>1, <1>2, <1>3, <1>4, <1>5, <1>6, <1>7

\* A new session takes back nothing the sender said: it has said nothing yet.
LEMMA SessionSteps ==
    ASSUME IInv, TypeOK', SwitchSender \/ MediaArrives
    PROVE  IInv'
<1>1. UNCHANGED <<reason, main, acked, inbox, accepted, closing, net>>
  BY DEF SwitchSender, MediaArrives
<1>2. main["sender"] = "run" \/ session'["sender"] = session["sender"]
  BY DEF SwitchSender, MediaArrives, IInv, TypeOK, Ends
<1>3. Truthful'
  BY <1>1, <1>2 DEF IInv, Truthful, Cancelled
<1>4. LastSession'
  <2>1. CASE SwitchSender
    BY <1>1, <2>1 DEF IInv, LastSession, SwitchSender
  <2>2. CASE MediaArrives
    BY <1>1, <2>2 DEF IInv, LastSession, MediaArrives, Cancelled
  <2>. QED  BY <2>1, <2>2
<1>5. Waiting' /\ PeerClosedMeansLocal' /\ AckedIsHeard'
  BY <1>1 DEF IInv, Waiting, PeerClosedMeansLocal, AckedIsHeard, Cancelled
<1>. QED  BY <1>3, <1>4, <1>5 DEF IInv

\* An end that sends a CLOSE has stopped for its own reason, in its last session.
LEMMA CloseSteps ==
    ASSUME IInv, TypeOK', TxCloseSends \/ RxCloseSends
    PROVE  IInv'
<1>. USE DEF IInv, TypeOK, Ends
<1>1. UNCHANGED <<reason, main, acked, inbox, accepted, closing, session>>
  BY DEF TxCloseSends, RxCloseSends
<1>2. PICK e \in Ends :
          /\ net' = net \cup {Close(e, session[e])}
          /\ reason[e] = "local"
          /\ e = "sender" => main["sender"] # "run"
  BY DEF TxCloseSends, RxCloseSends, Closing, Waiting
<1>3. Truthful'
  BY <1>1, <1>2 DEF Truthful, Cancelled, Close
<1>4. (Waiting /\ LastSession /\ PeerClosedMeansLocal /\ AckedIsHeard)'
  BY <1>1 DEF Waiting, LastSession, PeerClosedMeansLocal, AckedIsHeard, Cancelled
<1>. QED  BY <1>3, <1>4

\* An end that acknowledges a CLOSE of this stream has stopped, or stops now; one
\* that acknowledges an earlier stream's CLOSE answers no other.
LEMMA AckKeepsTrue ==
    ASSUME IInv, NEW e \in Ends, NEW m \in net,
           net' = net \cup {Ack(e, m)},
           UNCHANGED <<main, session>>,
           reason' \in [Ends -> Reasons],
           \A x \in Ends : reason[x] # "none" => reason'[x] = reason[x],
           reason'[e] # "none"
    PROVE  Truthful'
<1>1. \A n \in net : n.from \in Ends
  BY DEF IInv, TypeOK, Messages
<1>2. ASSUME NEW n \in net
      PROVE  /\ n.type = "close" /\ n.session # EarlierSession
                   => reason'[n.from] = "local"
             /\ n.type = "close" /\ n.session # EarlierSession /\ n.from = "sender"
                   => main'["sender"] # "run" /\ n.session = session'["sender"]
             /\ n.type = "ack" /\ n.id = CloseId[Peer[n.from]]
                   => reason'[n.from] # "none"
  BY <1>1, <1>2 DEF IInv, Truthful, Cancelled
<1>3. Ack(e, m).type = "ack" /\ Ack(e, m).from = e
  BY DEF Ack
<1>. QED  BY <1>2, <1>3 DEF Truthful, Cancelled

\* Duplicates, and the CLOSEs that a waiting receiver answers.
LEMMA ReAckSteps ==
    ASSUME IInv, TypeOK', NEW m \in net, RxDuplicate(m) \/ RxRemoteClose(m)
    PROVE  IInv'
<1>1. /\ UNCHANGED <<reason, main, acked, inbox, accepted, closing, session>>
      /\ net' = net \cup {Ack("receiver", m)}
  BY DEF RxDuplicate, RxRemoteClose
<1>2. Cancelled("receiver")
  <2>1. CASE RxDuplicate(m)
    <3>1. m.id \in 1..3
      BY DEF IInv, TypeOK, Messages
    <3>2. accepted # 0
      BY <2>1, <3>1 DEF RxDuplicate
    <3>. QED  BY <3>2 DEF IInv, Waiting
  <2>2. CASE RxRemoteClose(m)
    BY <2>2 DEF RxRemoteClose, Closing, IInv, Waiting, Cancelled
  <2>. QED  BY <2>1, <2>2
<1>3. Truthful'
  BY <1>1, <1>2, AckKeepsTrue DEF IInv, TypeOK, Cancelled, Ends
<1>4. (Waiting /\ LastSession /\ PeerClosedMeansLocal /\ AckedIsHeard)'
  BY <1>1 DEF IInv, Waiting, LastSession, PeerClosedMeansLocal, AckedIsHeard,
              Cancelled
<1>. QED  BY <1>3, <1>4 DEF IInv

\* The sender obeys a CLOSE of its session: the receiver has said so.
LEMMA TxRxCloseStep ==
    ASSUME IInv, TypeOK', NEW m \in net, TxRxClose(m)
    PROVE  IInv'
<1>. USE DEF IInv, TypeOK, Ends
<1>1. /\ UNCHANGED <<main, acked, inbox, accepted, closing, session>>
      /\ net' = net \cup {Ack("sender", m)}
  BY DEF TxRxClose
<1>2. /\ reason' \in [Ends -> Reasons]
      /\ reason'["sender"] # "none"
      /\ reason'["sender"] = reason["sender"]
            \/ (reason["sender"] = "none" /\ reason'["sender"] = "peer_closed")
      /\ reason'["receiver"] = reason["receiver"]
  BY CancelFacts DEF TxRxClose, Reasons
<1>3. reason["receiver"] = "local"
  <2>1. m.session # EarlierSession
    BY MaxSessionAssumption DEF TxRxClose, TxObeys, EarlierSession, Sessions
  <2>. QED  BY <2>1 DEF TxRxClose, Truthful
<1>4. Truthful'
  BY <1>1, <1>2, AckKeepsTrue
<1>5. Waiting' /\ LastSession'
  BY <1>1, <1>2 DEF Waiting, LastSession, Cancelled
<1>6. PeerClosedMeansLocal' /\ AckedIsHeard'
  BY <1>1, <1>2, <1>3 DEF PeerClosedMeansLocal, AckedIsHeard, Peer, Cancelled
<1>. QED  BY <1>4, <1>5, <1>6

\* The receiver obeys a CLOSE of its session: the sender has said so, and will not
\* begin another session.
LEMMA RxCloseStep ==
    ASSUME IInv, TypeOK', NEW m \in net, RxClose(m)
    PROVE  IInv'
<1>. USE DEF IInv, TypeOK, Ends
<1>1. /\ UNCHANGED <<main, acked, inbox, closing, session>>
      /\ net' = net \cup {Ack("receiver", m)}
  BY DEF RxClose
<1>2. /\ reason' \in [Ends -> Reasons]
      /\ reason'["receiver"] # "none"
      /\ reason'["receiver"] = reason["receiver"]
            \/ (reason["receiver"] = "none" /\ reason'["receiver"] = "peer_closed")
      /\ reason'["sender"] = reason["sender"]
  BY CancelFacts DEF RxClose, Reasons
<1>3. /\ reason["sender"] = "local"
      /\ main["sender"] # "run" /\ session["receiver"] = session["sender"]
  <2>1. m.session # EarlierSession /\ m.session = session["receiver"]
    BY MaxSessionAssumption DEF RxClose, RxAccepts, EarlierSession, Sessions
  <2>. QED  BY <2>1 DEF RxClose, Truthful
<1>4. Truthful'
  BY <1>1, <1>2, AckKeepsTrue
<1>5. Waiting' /\ LastSession'
  BY <1>1, <1>2, <1>3 DEF Waiting, LastSession, Cancelled
<1>6. PeerClosedMeansLocal' /\ AckedIsHeard'
  BY <1>1, <1>2, <1>3 DEF PeerClosedMeansLocal, AckedIsHeard, Peer, Cancelled
<1>. QED  BY <1>4, <1>5, <1>6

\* An ACK that answers an end's CLOSE was sent by an end that has stopped.
LEMMA AckSteps ==
    ASSUME IInv, TypeOK', \/ TxCloseEnds
                          \/ \E m \in net : TxRxAck(m) \/ RxAcked(m)
    PROVE  IInv'
<1>. USE DEF IInv, TypeOK, Ends
<1>1. UNCHANGED <<reason, accepted, closing, session, net>>
  BY DEF TxCloseEnds, TxRxAck, RxAcked
<1>2. /\ main["sender"] # "run" => main'["sender"] # "run"
      /\ main'["sender"] = "close" => main["sender"] = "close"
  BY DEF TxCloseEnds, TxRxAck, RxAcked
<1>3. /\ inbox' => Cancelled("receiver")
      /\ \A e \in Ends : acked'[e] => Cancelled(Peer[e])
  <2>1. CASE TxCloseEnds
    BY <2>1 DEF TxCloseEnds, Waiting, AckedIsHeard, Peer
  <2>2. ASSUME NEW m \in net, TxRxAck(m)
        PROVE  /\ inbox' => Cancelled("receiver")
               /\ \A e \in Ends : acked'[e] => Cancelled(Peer[e])
    <3>1. Cancelled("receiver")
      BY <2>2 DEF TxRxAck, Answers, Truthful, Peer
    <3>. QED  BY <2>2, <3>1 DEF TxRxAck, AckedIsHeard
  <2>3. ASSUME NEW m \in net, RxAcked(m)
        PROVE  /\ inbox' => Cancelled("receiver")
               /\ \A e \in Ends : acked'[e] => Cancelled(Peer[e])
    <3>1. Cancelled("sender")
      BY <2>3 DEF RxAcked, Answers, Truthful, Peer
    <3>. QED  BY <2>3, <3>1 DEF RxAcked, AckedIsHeard, Waiting, Peer
  <2>. QED  BY <2>1, <2>2, <2>3
<1>4. Truthful'
  BY <1>1, <1>2 DEF Truthful, Cancelled
<1>5. (Waiting /\ LastSession /\ PeerClosedMeansLocal)'
  BY <1>1, <1>2, <1>3 DEF Waiting, LastSession, PeerClosedMeansLocal, Cancelled
<1>6. AckedIsHeard'
  BY <1>1, <1>3 DEF AckedIsHeard, Cancelled
<1>. QED  BY <1>4, <1>5, <1>6

\* Every step of either end, and of none, keeps the invariant.
LEMMA StepInv == IInv /\ [Next]_vars => IInv'
<1>. SUFFICES ASSUME IInv, [Next]_vars PROVE IInv'
  OBVIOUS
<1>1. CASE UNCHANGED vars
  <2>1. TypeOK'
    BY <1>1 DEF IInv, TypeOK, vars
  <2>2. OwnDecision
    BY <1>1 DEF IInv, TypeOK, OwnDecision, vars
  <2>. QED  BY <2>1, <2>2, OwnDecisionSafe
<1>2. CASE Next
  <2>1. TypeOK'
    BY <1>2, TypeStep DEF IInv
  <2>2. CASE SenderStep
    BY <2>1, <2>2, OwnSteps, CloseSteps, TxRxCloseStep, AckSteps DEF SenderStep
  <2>3. CASE ReceiverStep
    BY <2>1, <2>3, OwnSteps, CloseSteps, RxCloseStep, ReAckSteps, AckSteps
       DEF ReceiverStep
  <2>4. CASE SwitchSender \/ MediaArrives
    BY <2>1, <2>4, SessionSteps
  <2>5. CASE \E e \in Ends : EndStep(e)
    BY <2>1, <2>5, OwnSteps
  <2>. QED  BY <1>2, <2>2, <2>3, <2>4, <2>5 DEF Next
<1>. QED  BY <1>1, <1>2

\* What the two ends say of each other is true in every reachable state.
THEOREM CloseInvariant == Spec => []IInv
<1>. QED  BY InitInv, StepInv, PTL DEF Spec

\* An end stops on its peer's word only when the peer has given it: no CLOSE of
\* an earlier stream ends this one, and the two ends never stop on each other's.
THEOREM PeerClosedIsTrue == Spec => []PeerClosedMeansLocal
<1>1. IInv => PeerClosedMeansLocal
  BY DEF IInv
<1>. QED  BY <1>1, CloseInvariant, PTL

\* An acknowledged end has been heard.
THEOREM AckIsTrue == Spec => []AckedIsHeard
<1>1. IInv => AckedIsHeard
  BY DEF IInv
<1>. QED  BY <1>1, CloseInvariant, PTL

\* A receiver that stops on the sender's word is in the stream's last session.
THEOREM ReceiverSeesLastSession == Spec => []ObeysLastSession
<1>1. IInv => ObeysLastSession
  BY DEF IInv, LastSession, ObeysLastSession
<1>. QED  BY <1>1, CloseInvariant, PTL

\* The variables of the two ends and the messages have their types.
THEOREM CloseTypes == Spec => []TypeOK
<1>1. IInv => TypeOK
  BY DEF IInv
<1>. QED  BY <1>1, CloseInvariant, PTL

\* What either end believes of the other when it stops is true.
THEOREM CloseIsSafe == Spec => []CloseSafety
<1>1. PeerClosedMeansLocal /\ AckedIsHeard /\ ObeysLastSession => CloseSafety
  BY DEF CloseSafety
<1>. QED  BY <1>1, PeerClosedIsTrue, AckIsTrue, ReceiverSeesLastSession, PTL


-----------------------------------------------------------------------------
(* RudpCompletion.  The properties speak of the two applications, which    *)
(* never see each other: between them are two packets and what each thread *)
(* has concluded from them.  The variables' types are taken in the parts   *)
(* that one kind of reasoning proves.                                      *)

Counts ==
    /\ rangeRetries \in 0..CtrlMaxRetries /\ completeRetries \in 0..CtrlMaxRetries
    /\ rangeAcks \in 0..MaxAcks /\ rangeAcksTaken \in 0..MaxAcks

RangeFlags ==
    rangeTracked \in BOOLEAN /\ rangeId \in BOOLEAN /\ rangeAcked \in BOOLEAN
    /\ rangeAdopted \in BOOLEAN

ClientFlags ==
    clientRunning \in BOOLEAN /\ clientFatal \in BOOLEAN /\ completeHeard \in BOOLEAN

ServerFlags ==
    /\ allReceived \in BOOLEAN /\ fileSaved \in BOOLEAN
    /\ serverRunning \in BOOLEAN /\ serverFatal \in BOOLEAN
    /\ completeTracked \in BOOLEAN /\ completeNoted \in BOOLEAN /\ ackHeard \in BOOLEAN

Places ==
    /\ announce \in {"start", "sent", "tracked", "noted"}
    /\ clientApp \in {"announcing", "draining", "waiting", "completed", "failed"}
    /\ clientRx \in {"recv", "reply", "closed"}
    /\ serverApp \in {"receiving", "saved", "sent", "tracked", "waiting",
                      "complete", "failed", "ended"}
    /\ sent \subseteq CompletionKinds

\* A COMPLETE, on its way or heard, is of a file that was saved, and the server's
\* thread has saved it when it is past the saving.
CommitFollowsFile ==
    /\ serverApp \in {"saved", "sent", "tracked", "waiting", "complete"} => fileSaved
    /\ "complete" \in sent => fileSaved
    /\ completeHeard => fileSaved

\* A COMPLETE_ACK, on its way, about to be sent or heard, is of a client that has heard.
AnswerFollowsCommit ==
    /\ clientRx = "reply" => completeHeard
    /\ "completeAck" \in sent => completeHeard
    /\ ackHeard => completeHeard

Claims ==
    CommitFollowsFile /\ AnswerFollowsCommit /\ CompletedIsSaved /\ CompleteIsMutual

CompletionInv ==
    /\ Counts /\ RangeFlags /\ ClientFlags /\ ServerFlags /\ Places
    /\ Claims

\* Retries stop at their limit, and the network's META|ACKs at the model's.
LEMMA CountsKept == ASSUME Counts, CompletionNext PROVE Counts'
<1> USE CtrlMaxRetriesAssumption, MaxAcksAssumption DEF Counts, clientVars, serverVars, commitVars, ackNetVars, rangeVars
<1>1. CASE ClientApp
    BY <1>1 DEF ClientApp, Announce, AnnounceSends, AnnounceFails, AnnounceTracks,
        AnnounceNotes, AppSendsData, AppDrained, AppCompletes, AppGivesUp,
        ClientAborts, AppStops
<1>2. CASE ClientRx
    BY <1>2 DEF ClientRx, HandleRangeAck, RxComplete, RxReplies, RxReset
<1>3. CASE ServerApp
    BY <1>3 DEF ServerApp, SavesFile, ReceiveFails, ServerAborts, CommitSends,
        CommitFails, CommitTracks, CommitNotes, WaitHears, WaitGivesUp, ServerEnds
<1>4. CASE Listener
    BY <1>4 DEF Listener, DataArrives, HandleRange, HandleCompleteAck, HandleReset
<1>5. CASE Checkers
    BY <1>5 DEF Checkers, RangeRetry, CompleteRetry, Exhausted
<1> QED BY <1>1, <1>2, <1>3, <1>4, <1>5 DEF CompletionNext

\* The announcement's flags are flags: the client's thread, its receiver and its checker
\* write them.
LEMMA RangeFlagsKept == ASSUME RangeFlags, CompletionNext PROVE RangeFlags'
<1> USE DEF RangeFlags, rangeVars
<1>1. CASE ClientApp
    BY <1>1 DEF ClientApp, Announce, AnnounceSends, AnnounceFails, AnnounceTracks,
        AnnounceNotes, AppSendsData, AppDrained, AppCompletes, AppGivesUp,
        ClientAborts, AppStops
<1>2. CASE ClientRx
    BY <1>2 DEF ClientRx, HandleRangeAck, RxComplete, RxReplies, RxReset
<1>3. CASE ServerApp
    BY <1>3 DEF ServerApp, SavesFile, ReceiveFails, ServerAborts, CommitSends,
        CommitFails, CommitTracks, CommitNotes, WaitHears, WaitGivesUp, ServerEnds
<1>4. CASE Listener
    BY <1>4 DEF Listener, DataArrives, HandleRange, HandleCompleteAck, HandleReset
<1>5. CASE Checkers
    BY <1>5 DEF Checkers, RangeRetry, CompleteRetry
<1> QED BY <1>1, <1>2, <1>3, <1>4, <1>5 DEF CompletionNext

\* So are the client session's,
LEMMA ClientFlagsKept == ASSUME ClientFlags, CompletionNext PROVE ClientFlags'
<1> USE DEF ClientFlags, clientVars
<1>1. CASE ClientApp
    BY <1>1 DEF ClientApp, Announce, AnnounceSends, AnnounceFails, AnnounceTracks,
        AnnounceNotes, AppSendsData, AppDrained, AppCompletes, AppGivesUp,
        ClientAborts, AppStops
<1>2. CASE ClientRx
    BY <1>2 DEF ClientRx, HandleRangeAck, RxComplete, RxReplies, RxReset
<1>3. CASE ServerApp
    BY <1>3 DEF ServerApp, SavesFile, ReceiveFails, ServerAborts, CommitSends,
        CommitFails, CommitTracks, CommitNotes, WaitHears, WaitGivesUp, ServerEnds
<1>4. CASE Listener
    BY <1>4 DEF Listener, DataArrives, HandleRange, HandleCompleteAck, HandleReset
<1>5. CASE Checkers
    BY <1>5 DEF Checkers, RangeRetry, CompleteRetry
<1> QED BY <1>1, <1>2, <1>3, <1>4, <1>5 DEF CompletionNext

\* and the server session's.
LEMMA ServerFlagsKept == ASSUME ServerFlags, CompletionNext PROVE ServerFlags'
<1> USE DEF ServerFlags, serverVars, commitVars
<1>1. CASE ClientApp
    BY <1>1 DEF ClientApp, Announce, AnnounceSends, AnnounceFails, AnnounceTracks,
        AnnounceNotes, AppSendsData, AppDrained, AppCompletes, AppGivesUp,
        ClientAborts, AppStops
<1>2. CASE ClientRx
    BY <1>2 DEF ClientRx, HandleRangeAck, RxComplete, RxReplies, RxReset
<1>3. CASE ServerApp
    BY <1>3 DEF ServerApp, SavesFile, ReceiveFails, ServerAborts, CommitSends,
        CommitFails, CommitTracks, CommitNotes, WaitHears, WaitGivesUp, ServerEnds
<1>4. CASE Listener
    BY <1>4 DEF Listener, DataArrives, HandleRange, HandleCompleteAck, HandleReset
<1>5. CASE Checkers
    BY <1>5 DEF Checkers, RangeRetry, CompleteRetry
<1> QED BY <1>1, <1>2, <1>3, <1>4, <1>5 DEF CompletionNext

\* Every thread is at one of its places, and every packet is one of the kinds.
LEMMA PlacesKept == ASSUME Places, CompletionNext PROVE Places'
<1> USE DEF Places, CompletionKinds, clientVars, serverVars, commitVars, ackNetVars, rangeVars
<1>1. CASE ClientApp
    BY <1>1 DEF ClientApp, Announce, AnnounceSends, AnnounceFails, AnnounceTracks,
        AnnounceNotes, AppSendsData, AppDrained, AppCompletes, AppGivesUp,
        ClientAborts, AppStops
<1>2. CASE ClientRx
    BY <1>2 DEF ClientRx, HandleRangeAck, RxComplete, RxReplies, RxReset
<1>3. CASE ServerApp
    BY <1>3 DEF ServerApp, SavesFile, ReceiveFails, ServerAborts, CommitSends,
        CommitFails, CommitTracks, CommitNotes, WaitHears, WaitGivesUp, ServerEnds
<1>4. CASE Listener
    BY <1>4 DEF Listener, DataArrives, HandleRange, HandleCompleteAck, HandleReset
<1>5. CASE Checkers
    BY <1>5 DEF Checkers, RangeRetry, CompleteRetry
<1> QED BY <1>1, <1>2, <1>3, <1>4, <1>5 DEF CompletionNext

\* What an end concludes from a packet is true whenever the packet arrives.
LEMMA ClaimsKept == ASSUME Claims, CompletionNext PROVE Claims'
<1> USE DEF Claims, CommitFollowsFile, AnswerFollowsCommit, CompletedIsSaved, CompleteIsMutual, 
        clientVars, serverVars, commitVars, ackNetVars, rangeVars
<1>1. CASE ClientApp
    BY <1>1 DEF ClientApp, Announce, AnnounceSends, AnnounceFails, AnnounceTracks,
        AnnounceNotes, AppSendsData, AppDrained, AppCompletes, AppGivesUp,
        ClientAborts, AppStops
<1>2. CASE ClientRx
    BY <1>2 DEF ClientRx, HandleRangeAck, RxComplete, RxReplies, RxReset
<1>3. CASE ServerApp
    BY <1>3 DEF ServerApp, SavesFile, ReceiveFails, ServerAborts, CommitSends,
        CommitFails, CommitTracks, CommitNotes, WaitHears, WaitGivesUp, ServerEnds, Answered
<1>4. CASE Listener
    BY <1>4 DEF Listener, DataArrives, HandleRange, HandleCompleteAck, HandleReset
<1>5. CASE Checkers
    BY <1>5 DEF Checkers, RangeRetry, CompleteRetry
<1> QED BY <1>1, <1>2, <1>3, <1>4, <1>5 DEF CompletionNext

\* A transfer starts with nothing sent, nothing heard and nothing saved.
LEMMA CompletionStarts == CompletionInit => CompletionInv
<1> SUFFICES ASSUME CompletionInit PROVE CompletionInv
    OBVIOUS
<1>1. Counts
    BY CtrlMaxRetriesAssumption, MaxAcksAssumption DEF CompletionInit, Counts
<1>2. RangeFlags /\ ClientFlags
    BY DEF CompletionInit, RangeFlags, ClientFlags
<1>3. ServerFlags
    BY DEF CompletionInit, ServerFlags
<1>4. Places
    BY DEF CompletionInit, Places
<1>5. Claims
    BY DEF CompletionInit, Claims, CommitFollowsFile, AnswerFollowsCommit,
        CompletedIsSaved, CompleteIsMutual
<1> QED BY <1>1, <1>2, <1>3, <1>4, <1>5 DEF CompletionInv

\* No step of the transfer, and no step elsewhere, takes away what is true of it.
LEMMA CompletionStep == CompletionInv /\ [CompletionNext]_completionVars => CompletionInv'
<1> SUFFICES ASSUME CompletionInv, [CompletionNext]_completionVars PROVE CompletionInv'
    OBVIOUS
<1>1. CASE CompletionNext
    BY <1>1, CountsKept, RangeFlagsKept, ClientFlagsKept, ServerFlagsKept, PlacesKept,
        ClaimsKept DEF CompletionInv
<1>2. CASE UNCHANGED completionVars
    <2> USE <1>2 DEF CompletionInv, completionVars, clientVars, serverVars, commitVars,
            ackNetVars, rangeVars
    <2>1. Counts'      BY DEF Counts
    <2>2. RangeFlags'  BY DEF RangeFlags
    <2>3. ClientFlags' BY DEF ClientFlags
    <2>4. ServerFlags' BY DEF ServerFlags
    <2>5. Places'      BY DEF Places
    <2>6. Claims'
        BY DEF Claims, CommitFollowsFile, AnswerFollowsCommit, CompletedIsSaved,
            CompleteIsMutual
    <2> QED BY <2>1, <2>2, <2>3, <2>4, <2>5, <2>6
<1> QED BY <1>1, <1>2

\* The parts are the whole type invariant.
LEMMA CompletionTypes == CompletionInv => CompletionTypeOK
BY DEF CompletionInv, Counts, RangeFlags, ClientFlags, ServerFlags, Places, CompletionTypeOK

\* However many control packets are lost or repeated, and whoever gives up: a client that
\* reports success has its file in place, a server that reports it was answered.
THEOREM SuccessIsTrue == CompletionSpec => [](CompletedIsSaved /\ CompleteIsMutual)
<1>1. CompletionInv => CompletedIsSaved /\ CompleteIsMutual
    BY DEF CompletionInv, Claims
<1> QED BY <1>1, CompletionStarts, CompletionStep, PTL DEF CompletionSpec

-----------------------------------------------------------------------------
(* PathMigration.  OneStanding is inductive with the types: what keeps it  *)
(* is that a token stops being good where the validation it belongs to     *)
(* ends, and its answer with it.                                           *)

PathPlaces ==
    /\ here \in Routes /\ peerAddr \in Routes
    /\ validating \subseteq Routes /\ retired \subseteq Routes /\ challenges \subseteq Routes
    /\ arriving \subseteq {Packet(kind, a) : kind \in PacketKinds, a \in Routes}

PathFlag == peerDataSeen \in BOOLEAN

PathInv == PathPlaces /\ PathFlag /\ moves \in 0..MaxMoves /\ OneStanding

\* A packet is known by its kind and its address.
LEMMA PacketIsItsParts ==
    \A k1, k2, a1, a2 : Packet(k1, a1) = Packet(k2, a2) <=> k1 = k2 /\ a1 = a2
BY DEF Packet

\* With the token of an address its answer goes, and no other packet.
LEMMA OutdatedTakesAnswer ==
    ASSUME PathPlaces, OneStanding, NEW a \in Routes
    PROVE  /\ Outdated(a) \subseteq {Packet(kind, b) : kind \in PacketKinds, b \in Routes}
           /\ Packet("response", a) \notin Outdated(a)
           /\ \A b \in Routes : Packet("response", b) \in Outdated(a) => b \in challenges \ {a}
BY PacketIsItsParts DEF Outdated, PathPlaces, OneStanding, PacketKinds, Ordinary

\* The server and its client start from one address, with nothing under way.
LEMMA PathStarts == PathInit => PathInv
<1> SUFFICES ASSUME PathInit PROVE PathInv
    OBVIOUS
<1>1. PathPlaces /\ OneStanding  BY DEF PathInit, PathPlaces, OneStanding
<1>2. PathFlag                   BY DEF PathInit, PathFlag
<1>3. moves \in 0..MaxMoves      BY MaxMovesAssumption DEF PathInit
<1> QED BY <1>1, <1>2, <1>3 DEF PathInv

\* The client's steps: it moves, sends, or answers a challenge that is still good.
LEMMA ClientKeepsStanding ==
    ASSUME PathPlaces, OneStanding,
           \/ ClientMoves \/ ClientAnswers
           \/ \E kind \in Ordinary : ClientSends(kind)
    PROVE  PathPlaces' /\ OneStanding'
<1> USE PacketIsItsParts DEF PathPlaces, OneStanding, PacketKinds, serverPathVars
<1>1. CASE ClientMoves    BY <1>1 DEF ClientMoves
<1>2. CASE ClientAnswers  BY <1>2 DEF ClientAnswers
<1>3. ASSUME NEW kind \in Ordinary, ClientSends(kind) PROVE PathPlaces' /\ OneStanding'
    BY <1>3 DEF ClientSends, Ordinary
<1> QED BY <1>1, <1>2, <1>3

\* The server's: a challenge is of an address that has no standing, and a promotion
\* takes one away where it gives one.
LEMMA ServerKeepsStanding ==
    ASSUME PathPlaces, OneStanding, NEW a \in Routes,
           \/ \E kind \in Ordinary : TakesPacket(kind, a) \/ HoldsBack(kind, a)
           \/ Promotes(a) \/ RetirementEnds(a) \/ ValidationExpires(a)
    PROVE  PathPlaces' /\ OneStanding'
<1> USE OutdatedTakesAnswer DEF PathPlaces, OneStanding
<1>1. ASSUME NEW kind \in Ordinary, TakesPacket(kind, a) PROVE PathPlaces' /\ OneStanding'
    BY <1>1 DEF TakesPacket
<1>2. ASSUME NEW kind \in Ordinary, HoldsBack(kind, a) PROVE PathPlaces' /\ OneStanding'
    BY <1>2 DEF HoldsBack, Challenge
<1>3. CASE Promotes(a)          BY <1>3 DEF Promotes
<1>4. CASE RetirementEnds(a)    BY <1>4 DEF RetirementEnds
<1>5. CASE ValidationExpires(a) BY <1>5 DEF ValidationExpires
<1> QED BY <1>1, <1>2, <1>3, <1>4, <1>5

\* So it is with every step, and the flag and the count stay what they are.
LEMMA PathStep == PathInv /\ [PathNext]_pathVars => PathInv'
<1> SUFFICES ASSUME PathInv, [PathNext]_pathVars PROVE PathInv'
    OBVIOUS
<1>1. CASE PathNext
    <2>1. PathPlaces' /\ OneStanding'
        BY <1>1, ClientKeepsStanding, ServerKeepsStanding DEF PathInv, PathNext
    <2>2. PathFlag'
        BY <1>1 DEF PathInv, PathFlag, PathNext, ClientMoves, ClientAnswers, ClientSends,
            TakesPacket, HoldsBack, Promotes, RetirementEnds, ValidationExpires, serverPathVars
    <2>3. (moves \in 0..MaxMoves)'
        BY <1>1, MaxMovesAssumption
        DEF PathInv, PathNext, ClientMoves, ClientAnswers, ClientSends,
            TakesPacket, HoldsBack, Promotes, RetirementEnds, ValidationExpires
    <2> QED BY <2>1, <2>2, <2>3 DEF PathInv
<1>2. CASE UNCHANGED pathVars
    BY <1>2 DEF pathVars, serverPathVars, PathInv, PathPlaces, PathFlag, OneStanding
<1> QED BY <1>1, <1>2

\* The parts are the whole type invariant.
LEMMA PathTypes == PathInv => PathTypeOK
BY DEF PathInv, PathPlaces, PathFlag, PathTypeOK

\* Of the address of a packet only one thing is true, though the client may go back and
\* forth, and its answers come late, more than once or to a challenge that has timed out.
THEOREM StandingIsOne == PathSpec => []OneStanding
<1>1. PathInv => OneStanding
    BY DEF PathInv
<1> QED BY <1>1, PathStarts, PathStep, PTL DEF PathSpec

-----------------------------------------------------------------------------
(* DeliveryQueue.  The four places an item may be at are one row: what the *)
(* application has, what is queued for it, the batch and what is ready.    *)
(* The first two stay in order for ever; the others continue them as long  *)
(* as the session runs, after which nothing leaves the batch for the       *)
(* queue.                                                                  *)

Stores ==
    /\ completed \in 0..Items
    /\ ready \in Seq(1..Items) /\ batch \in Seq(1..Items)
    /\ appQueue \in Seq(1..Items) /\ taken \in Seq(1..Items)

Limits ==
    Len(batch) <= BatchLimit /\ (QueueLimit > 0 => Len(appQueue) <= QueueLimit)

DeliveryFlags ==
    /\ readyClosed \in BOOLEAN /\ streamClosed \in BOOLEAN
    /\ live \in BOOLEAN /\ told \in BOOLEAN

\* The closing goes one way, and where the delivery thread is tells whether it holds items.
ClosedInTurn ==
    /\ delivery \in {"loop", "push", "over"}
    /\ readyClosed => streamClosed
    /\ streamClosed => ~live
    /\ delivery # "push" => batch = <<>>
    /\ told => appQueue = <<>> /\ ~live

\* s goes on from number n, without a gap or a repetition.
GoesOn(s, n) == \A i \in 1..Len(s) : s[i] = n + i

RestGoesOn ==
    /\ GoesOn(batch, Len(taken) + Len(appQueue))
    /\ GoesOn(ready, Len(taken) + Len(appQueue) + Len(batch))
    /\ Len(taken) + Len(appQueue) + Len(batch) + Len(ready) = completed

InRow ==
    /\ GoesOn(taken, 0) /\ GoesOn(appQueue, Len(taken))
    /\ live => RestGoesOn

DeliveryInv == Stores /\ Limits /\ DeliveryFlags /\ ClosedInTurn /\ InRow

\* Nothing is completed, queued or closed at the start.
LEMMA DeliveryStarts == DeliveryInit => DeliveryInv
<1> SUFFICES ASSUME DeliveryInit PROVE DeliveryInv
    OBVIOUS
<1>1. Stores         BY ItemsAssumption DEF DeliveryInit, Stores
<1>2. Limits         BY BatchLimitAssumption, QueueLimitAssumption DEF DeliveryInit, Limits
<1>3. DeliveryFlags  BY DEF DeliveryInit, DeliveryFlags
<1>4. ClosedInTurn        BY DEF DeliveryInit, ClosedInTurn
<1>5. InRow          BY DEF DeliveryInit, InRow, RestGoesOn, GoesOn
<1> QED BY <1>1, <1>2, <1>3, <1>4, <1>5 DEF DeliveryInv

\* Two rows of which the second goes on from the first are one.
LEMMA RowsJoin ==
    ASSUME NEW S, NEW s \in Seq(S), NEW t \in Seq(S), NEW n \in Nat,
           GoesOn(s, n), GoesOn(t, n + Len(s))
    PROVE  s \o t \in Seq(S) /\ Len(s \o t) = Len(s) + Len(t) /\ GoesOn(s \o t, n)
<1>1. Len(s) \in Nat /\ Len(t) \in Nat
    BY LenProperties
<1>2. /\ s \o t \in Seq(S) /\ Len(s \o t) = Len(s) + Len(t)
      /\ \A i \in 1..Len(s) + Len(t) :
            (s \o t)[i] = IF i <= Len(s) THEN s[i] ELSE t[i - Len(s)]
    BY ConcatProperties
<1> QED BY <1>1, <1>2 DEF GoesOn

\* A row without its head goes on from one further.
LEMMA RowTail ==
    ASSUME NEW S, NEW s \in Seq(S), s # <<>>, NEW n \in Nat, GoesOn(s, n)
    PROVE  /\ Head(s) \in S /\ Tail(s) \in Seq(S)
           /\ Len(s) \in Nat \ {0} /\ Len(Tail(s)) = Len(s) - 1
           /\ Head(s) = n + 1 /\ GoesOn(Tail(s), n + 1)
<1>1. Len(s) \in Nat \ {0}
    BY EmptySeq
<1>2. /\ Head(s) \in S /\ Tail(s) \in Seq(S) /\ Len(Tail(s)) = Len(s) - 1
      /\ \A i \in 1..Len(Tail(s)) : Tail(s)[i] = s[i + 1]
    BY HeadTailProperties
<1>3. Head(s) = s[1]
    BY <1>1
<1> QED BY <1>1, <1>2, <1>3 DEF GoesOn

\* A row that is cut goes on where it was cut.
LEMMA RowCut ==
    ASSUME NEW S, NEW s \in Seq(S), NEW n \in Nat, NEW k \in 1..Len(s), GoesOn(s, n)
    PROVE  /\ SubSeq(s, 1, k) \in Seq(S) /\ Len(SubSeq(s, 1, k)) = k
           /\ GoesOn(SubSeq(s, 1, k), n)
           /\ SubSeq(s, k + 1, Len(s)) \in Seq(S)
           /\ Len(SubSeq(s, k + 1, Len(s))) = Len(s) - k
           /\ GoesOn(SubSeq(s, k + 1, Len(s)), n + k)
<1>1. Len(s) \in Nat /\ k \in Nat \ {0} /\ \A i \in 1..Len(s) : s[i] \in S
    BY LenProperties, ElementOfSeq
<1>2. /\ SubSeq(s, 1, k) \in Seq(S) /\ Len(SubSeq(s, 1, k)) = k
      /\ \A i \in 1..k : SubSeq(s, 1, k)[i] = s[i]
    <2>1. \A i \in 1..k : s[i] \in S
        BY <1>1
    <2>2. /\ SubSeq(s, 1, k) \in Seq(S)
          /\ Len(SubSeq(s, 1, k)) = IF 1 <= k THEN k - 1 + 1 ELSE 0
          /\ \A i \in 1..(k - 1 + 1) : SubSeq(s, 1, k)[i] = s[1 + i - 1]
        BY <1>1, <2>1, SubSeqProperties
    <2> QED BY <1>1, <2>2
<1>3. /\ SubSeq(s, k + 1, Len(s)) \in Seq(S)
      /\ Len(SubSeq(s, k + 1, Len(s))) = Len(s) - k
      /\ \A i \in 1..(Len(s) - k) : SubSeq(s, k + 1, Len(s))[i] = s[k + i]
    <2>1. \A i \in (k + 1)..Len(s) : s[i] \in S
        BY <1>1
    <2>2. /\ SubSeq(s, k + 1, Len(s)) \in Seq(S)
          /\ Len(SubSeq(s, k + 1, Len(s))) =
                IF k + 1 <= Len(s) THEN Len(s) - (k + 1) + 1 ELSE 0
          /\ \A i \in 1..(Len(s) - (k + 1) + 1) :
                SubSeq(s, k + 1, Len(s))[i] = s[(k + 1) + i - 1]
        BY <1>1, <2>1, SubSeqProperties
    <2> QED BY <1>1, <2>2
<1> QED BY <1>1, <1>2, <1>3 DEF GoesOn

\* The next number at its end makes a row one longer.
LEMMA RowGrows ==
    ASSUME NEW S, NEW s \in Seq(S), NEW n \in Nat, NEW e \in S, e = n + Len(s) + 1,
           GoesOn(s, n)
    PROVE  /\ Append(s, e) \in Seq(S) /\ Len(s) \in Nat /\ Len(Append(s, e)) = Len(s) + 1
           /\ GoesOn(Append(s, e), n)
<1>1. Len(s) \in Nat
    BY LenProperties
<1>2. /\ Append(s, e) \in Seq(S) /\ Len(Append(s, e)) = Len(s) + 1
      /\ \A i \in 1..Len(s) : Append(s, e)[i] = s[i]
      /\ Append(s, e)[Len(s) + 1] = e
    BY AppendProperties
<1> QED BY <1>1, <1>2 DEF GoesOn

\* The lengths are numbers.
LEMMA StoresAreFinite ==
    ASSUME Stores
    PROVE  /\ Len(ready) \in Nat /\ Len(batch) \in Nat
           /\ Len(appQueue) \in Nat /\ Len(taken) \in Nat
BY LenProperties DEF Stores

\* What the receive thread hands over continues the row, whoever else has items.
LEMMA CompletesKeepsRow ==
    ASSUME Stores, InRow, Completes
    PROVE  Stores' /\ InRow'
<1>1. PICK n \in (completed + 1)..Items :
            /\ completed' = n
            /\ ready' = ready \o [i \in 1..(n - completed) |-> completed + i]
    BY DEF Completes
<1> DEFINE more == [i \in 1..(n - completed) |-> completed + i]
<1>2. n \in Nat /\ completed \in Nat /\ n - completed \in Nat /\ n <= Items
    BY <1>1, ItemsAssumption DEF Stores
<1>3. more \in Seq(1..Items) /\ Len(more) = n - completed
    BY <1>2, ItemsAssumption
<1>4. GoesOn(more, completed)
    BY <1>2, <1>3 DEF GoesOn
<1>5. ready' \in Seq(1..Items) /\ Len(ready') = Len(ready) + (n - completed)
    BY <1>1, <1>3, ConcatProperties DEF Stores
<1>6. Stores'
    <2>1. completed' \in 0..Items
        BY <1>1, <1>2, ItemsAssumption
    <2> QED BY <2>1, <1>5 DEF Stores, Completes
<1>7. ASSUME RestGoesOn PROVE RestGoesOn'
    <2>1. Len(taken) + Len(appQueue) + Len(batch) \in Nat
        BY StoresAreFinite
    <2>2. completed = Len(taken) + Len(appQueue) + Len(batch) + Len(ready)
        BY <1>7 DEF RestGoesOn
    <2>3. GoesOn(ready', Len(taken) + Len(appQueue) + Len(batch))
        BY <1>1, <1>3, <1>4, <1>7, <2>1, <2>2, RowsJoin DEF Stores, RestGoesOn
    <2>4. Len(taken) + Len(appQueue) + Len(batch) + Len(ready') = completed'
        BY <1>1, <1>2, <1>5, <2>1, <2>2, StoresAreFinite
    <2> QED BY <1>7, <2>3, <2>4 DEF RestGoesOn, Completes
<1>8. InRow'
    BY <1>7 DEF InRow, Completes
<1> QED BY <1>6, <1>8

\* A batch is the front of what is ready.
LEMMA TakesBatchKeepsRow ==
    ASSUME Stores, Limits, ClosedInTurn, InRow, TakesBatch
    PROVE  Stores' /\ Limits' /\ InRow'
<1> DEFINE n == IF Len(ready) < BatchLimit THEN Len(ready) ELSE BatchLimit
<1>1. n \in 1..Len(ready) /\ n <= BatchLimit /\ n \in Nat
    <2>1. Len(ready) \in Nat \ {0}
        BY EmptySeq DEF Stores, TakesBatch
    <2> QED BY <2>1, BatchLimitAssumption
<1>2. /\ batch' = SubSeq(ready, 1, n) /\ ready' = SubSeq(ready, n + 1, Len(ready))
      /\ batch = <<>> /\ Len(batch) = 0
    BY DEF TakesBatch, ClosedInTurn
<1> HIDE DEF n
<1>3. /\ batch' \in Seq(1..Items) /\ Len(batch') = n
      /\ ready' \in Seq(1..Items) /\ Len(ready') = Len(ready) - n
    <2>2. \A i \in 1..Len(ready) : ready[i] \in 1..Items
        BY ElementOfSeq DEF Stores
    <2>3. Len(ready) \in Nat
        BY StoresAreFinite
    <2>4. /\ SubSeq(ready, 1, n) \in Seq(1..Items)
          /\ Len(SubSeq(ready, 1, n)) = IF 1 <= n THEN n - 1 + 1 ELSE 0
        <3>1. \A i \in 1..n : ready[i] \in 1..Items
            BY <1>1, <2>2, <2>3
        <3> QED BY <1>1, <3>1, SubSeqProperties
    <2>5. /\ SubSeq(ready, n + 1, Len(ready)) \in Seq(1..Items)
          /\ Len(SubSeq(ready, n + 1, Len(ready))) =
                IF n + 1 <= Len(ready) THEN Len(ready) - (n + 1) + 1 ELSE 0
        <3>1. \A i \in (n + 1)..Len(ready) : ready[i] \in 1..Items
            BY <1>1, <2>2, <2>3
        <3> QED BY <1>1, <2>3, <3>1, SubSeqProperties
    <2> QED BY <1>1, <1>2, <2>3, <2>4, <2>5
<1>4. Stores'
    BY <1>3 DEF Stores, TakesBatch
<1>5. Limits'
    BY <1>1, <1>3 DEF Limits, TakesBatch
<1>6. ASSUME RestGoesOn PROVE RestGoesOn'
    <2>1. Len(taken) + Len(appQueue) \in Nat /\ Len(ready) \in Nat
        BY StoresAreFinite
    <2>2. GoesOn(ready, Len(taken) + Len(appQueue))
        BY <1>2, <1>6, <2>1 DEF RestGoesOn
    <2>3. /\ GoesOn(batch', Len(taken) + Len(appQueue))
          /\ GoesOn(ready', Len(taken) + Len(appQueue) + n)
        BY <1>1, <1>2, <2>1, <2>2, RowCut DEF Stores
    <2>4. Len(taken) + Len(appQueue) + Len(batch') + Len(ready') = completed
        <3>1. Len(taken) + Len(appQueue) + 0 + Len(ready) = completed
            BY <1>2, <1>6 DEF RestGoesOn
        <3>2. Len(batch') + Len(ready') = Len(ready)
            BY <1>1, <1>3, <2>1
        <3> QED BY <1>1, <1>3, <3>1, <3>2, StoresAreFinite
    <2> QED BY <1>3, <2>3, <2>4 DEF RestGoesOn, TakesBatch
<1>7. InRow'
    BY <1>6 DEF InRow, TakesBatch
<1> QED BY <1>4, <1>5, <1>7

\* The item that is pushed is the next the application will be given.
LEMMA PushKeepsRow ==
    ASSUME Stores, Limits, InRow, PushesItem
    PROVE  Stores' /\ Limits' /\ InRow'
<1>1. /\ batch # <<>> /\ appQueue' = Append(appQueue, Head(batch)) /\ batch' = Tail(batch)
      /\ completed' = completed /\ ready' = ready /\ taken' = taken
    BY DEF PushesItem
<1>2. RestGoesOn /\ GoesOn(appQueue, Len(taken)) /\ GoesOn(taken, 0)
    BY DEF PushesItem, InRow
<1>3. Len(taken) + Len(appQueue) \in Nat /\ Len(batch) \in Nat /\ Len(ready) \in Nat
      /\ Len(taken) \in Nat /\ Len(appQueue) \in Nat
    BY StoresAreFinite
<1>4. /\ Head(batch) \in 1..Items /\ batch' \in Seq(1..Items)
      /\ Len(batch') = Len(batch) - 1
      /\ Head(batch) = Len(taken) + Len(appQueue) + 1
      /\ GoesOn(batch', Len(taken) + Len(appQueue) + 1)
    BY <1>1, <1>2, <1>3, RowTail DEF Stores, RestGoesOn
<1>5. /\ appQueue' \in Seq(1..Items) /\ Len(appQueue') = Len(appQueue) + 1
      /\ GoesOn(appQueue', Len(taken))
    BY <1>1, <1>2, <1>3, <1>4, RowGrows DEF Stores
<1>6. Stores'
    BY <1>1, <1>4, <1>5 DEF Stores
<1>7. Limits'
    BY <1>3, <1>4, <1>5, BatchLimitAssumption, QueueLimitAssumption
    DEF Limits, PushesItem, Full
<1>8. RestGoesOn'
    <2>1. Len(taken') + Len(appQueue') = Len(taken) + Len(appQueue) + 1
        BY <1>1, <1>3, <1>5
    <2>2. Len(taken') + Len(appQueue') + Len(batch') = Len(taken) + Len(appQueue) + Len(batch)
        BY <1>3, <1>4, <2>1
    <2> QED BY <1>1, <1>2, <1>4, <2>1, <2>2 DEF RestGoesOn
<1>9. InRow'
    BY <1>1, <1>2, <1>5, <1>8 DEF InRow
<1> QED BY <1>6, <1>7, <1>9

\* The application takes the head of its queue.
LEMMA GetKeepsRow ==
    ASSUME Stores, Limits, InRow, GetItem
    PROVE  Stores' /\ Limits' /\ InRow'
<1>1. CASE appQueue # <<>> /\ taken' = Append(taken, Head(appQueue))
           /\ appQueue' = Tail(appQueue)
           /\ UNCHANGED <<completed, ready, batch, live>>
    <2>1. Len(taken) \in Nat /\ Len(appQueue) \in Nat /\ Len(batch) \in Nat
        BY StoresAreFinite
    <2>2. /\ Head(appQueue) \in 1..Items /\ appQueue' \in Seq(1..Items)
          /\ Len(appQueue') = Len(appQueue) - 1
          /\ Head(appQueue) = Len(taken) + 1
          /\ GoesOn(appQueue', Len(taken) + 1)
        BY <1>1, <2>1, RowTail DEF Stores, InRow
    <2>3. /\ taken' \in Seq(1..Items) /\ Len(taken') = Len(taken) + 1 /\ GoesOn(taken', 0)
        BY <1>1, <2>1, <2>2, RowGrows DEF Stores, InRow
    <2>4. Stores'
        BY <1>1, <2>2, <2>3 DEF Stores
    <2>5. Limits'
        BY <1>1, <2>1, <2>2, QueueLimitAssumption DEF Limits
    <2>6. Len(taken') + Len(appQueue') = Len(taken) + Len(appQueue)
        BY <2>1, <2>2, <2>3
    <2>7. RestGoesOn => RestGoesOn'
        BY <1>1, <2>6 DEF RestGoesOn
    <2>8. InRow'
        BY <1>1, <2>2, <2>3, <2>7 DEF InRow
    <2> QED BY <2>4, <2>5, <2>8
<1>2. CASE UNCHANGED <<completed, ready, batch, appQueue, live, taken>>
    BY <1>2 DEF Stores, Limits, InRow, RestGoesOn
<1> QED BY <1>1, <1>2 DEF GetItem

\* The steps of an end: items are given up only when the session no longer runs.
LEMMA EndKeepsRow ==
    ASSUME Stores, Limits, ClosedInTurn, InRow,
           GivesUp \/ DeliveryEnds \/ StopRuns \/ StreamCloses \/ ReadyCloses
    PROVE  Stores' /\ Limits' /\ InRow'
<1>1. CASE GivesUp
    <2>1. /\ batch' = <<>> /\ UNCHANGED <<completed, ready, appQueue, live, taken>>
          /\ batch = <<>> \/ ~live
        BY <1>1 DEF GivesUp, ClosedInTurn
    <2>2. Stores' /\ InRow'
        BY <2>1 DEF Stores, InRow, RestGoesOn
    <2>3. Limits'
        BY <2>1, BatchLimitAssumption DEF Limits
    <2> QED BY <2>2, <2>3
<1>2. CASE UNCHANGED <<completed, ready, batch, appQueue, taken>> /\ (live' => live)
    BY <1>2 DEF Stores, Limits, InRow, RestGoesOn
<1> QED BY <1>1, <1>2 DEF DeliveryEnds, StopRuns, StreamCloses, ReadyCloses

\* The queue is closed after the session has ended and before the ready queue is; a
\* thread that tells of the end finds the application's queue empty for good.
LEMMA ClosedInTurnKept ==
    ASSUME ClosedInTurn, DeliveryNext
    PROVE  ClosedInTurn'
BY DEF ClosedInTurn, DeliveryNext, Completes, DeliveryStep, TakesBatch, PushesItem, GivesUp,
       DeliveryEnds, GetItem, StopRuns, StreamCloses, ReadyCloses

\* A flag stays a flag.
LEMMA DeliveryFlagsKept ==
    ASSUME DeliveryFlags, DeliveryNext
    PROVE  DeliveryFlags'
BY DEF DeliveryFlags, DeliveryNext, Completes, DeliveryStep, TakesBatch, PushesItem, GivesUp,
       DeliveryEnds, GetItem, StopRuns, StreamCloses, ReadyCloses

\* No thread's step, and no step elsewhere, breaks the row or the closing.
LEMMA DeliveryKept == DeliveryInv /\ [DeliveryNext]_deliveryVars => DeliveryInv'
<1> SUFFICES ASSUME DeliveryInv, [DeliveryNext]_deliveryVars PROVE DeliveryInv'
    OBVIOUS
<1>1. CASE DeliveryNext
    <2>1. Stores' /\ Limits' /\ InRow'
        <3>1. CASE Completes
            BY <3>1, CompletesKeepsRow DEF DeliveryInv, Limits, Completes
        <3>2. CASE ~Completes
            BY <1>1, <3>2, TakesBatchKeepsRow, PushKeepsRow, GetKeepsRow, EndKeepsRow
            DEF DeliveryInv, DeliveryNext, DeliveryStep
        <3> QED BY <3>1, <3>2
    <2> QED BY <1>1, <2>1, ClosedInTurnKept, DeliveryFlagsKept DEF DeliveryInv
<1>2. CASE UNCHANGED deliveryVars
    <2> USE <1>2 DEF deliveryVars, DeliveryInv
    <2>1. Stores' /\ Limits' /\ InRow'  BY DEF Stores, Limits, InRow, RestGoesOn
    <2>2. DeliveryFlags'                BY DEF DeliveryFlags
    <2>3. ClosedInTurn'                      BY DEF ClosedInTurn
    <2> QED BY <2>1, <2>2, <2>3
<1> QED BY <1>1, <1>2

\* The parts are the whole type invariant.
LEMMA DeliveryTypes == DeliveryInv => DeliveryTypeOK
<1> SUFFICES ASSUME DeliveryInv PROVE DeliveryTypeOK
    OBVIOUS
<1>1. {readyClosed, streamClosed, live, told} \subseteq BOOLEAN
    BY DEF DeliveryInv, DeliveryFlags
<1>2. ready \o batch \o appQueue \o taken \in Seq(1..Items)
    BY DEF DeliveryInv, Stores
<1> QED BY <1>1, <1>2 DEF DeliveryInv, Stores, Limits, ClosedInTurn, DeliveryTypeOK

\* A row that begins with one and has no gap is the numbers up to its end.
LEMMA RowIsNumbers ==
    ASSUME Stores, InRow, live
    PROVE  taken \o appQueue \o batch \o ready = [i \in 1..completed |-> i]
<1> DEFINE first == taken \o appQueue
           three == first \o batch
           row   == three \o ready
<1>1. RestGoesOn /\ GoesOn(taken, 0) /\ GoesOn(appQueue, 0 + Len(taken))
    BY StoresAreFinite DEF InRow
<1>2. /\ first \in Seq(1..Items) /\ Len(first) = Len(taken) + Len(appQueue)
      /\ GoesOn(first, 0)
    BY <1>1, RowsJoin DEF Stores
<1>3. /\ three \in Seq(1..Items) /\ Len(three) = Len(first) + Len(batch)
      /\ GoesOn(three, 0)
    <2>1. GoesOn(batch, 0 + Len(first))
        BY <1>1, <1>2, StoresAreFinite DEF RestGoesOn
    <2> HIDE DEF first
    <2> QED BY <1>2, <2>1, RowsJoin DEF Stores
<1>4. row \in Seq(1..Items) /\ Len(row) = completed /\ GoesOn(row, 0)
    <2>1. GoesOn(ready, 0 + Len(three))
        BY <1>1, <1>2, <1>3, StoresAreFinite DEF RestGoesOn
    <2>2. Len(three) + Len(ready) = completed
        BY <1>1, <1>2, <1>3, StoresAreFinite DEF RestGoesOn
    <2> HIDE DEF three
    <2> QED BY <1>3, <2>1, <2>2, RowsJoin DEF Stores
<1> HIDE DEF row
<1>5. row \in [1..completed -> 1..Items] /\ completed \in Nat
    BY <1>4, LenProperties, ItemsAssumption DEF Stores
<1>6. \A i \in 1..completed : row[i] = i
    BY <1>4, <1>5 DEF GoesOn
<1>7. row = [i \in 1..completed |-> i]
    BY <1>5, <1>6
<1> QED BY <1>7 DEF row

\* What is read off the row.
LEMMA RowIsSafe == DeliveryInv => DeliverySafety
<1> SUFFICES ASSUME DeliveryInv PROVE DeliverySafety
    OBVIOUS
<1>1. NothingMissing  BY RowIsNumbers DEF DeliveryInv, NothingMissing
<1>2. TakenInOrder    BY StoresAreFinite DEF DeliveryInv, InRow, GoesOn, TakenInOrder
<1>3. EndIsTheEnd     BY DEF DeliveryInv, ClosedInTurn, EndIsTheEnd
<1> QED BY <1>1, <1>2, <1>3 DEF DeliverySafety

\* Whenever the session ends, and with any limit of the queue and of a batch, the
\* application has had a prefix of what was completed, and is told of an end it has reached.
THEOREM DeliveryIsSafe == DeliverySpec => []DeliverySafety
BY DeliveryStarts, DeliveryKept, RowIsSafe, PTL DEF DeliverySpec

-----------------------------------------------------------------------------
(* ReceiverRun.  What a run reports is computed from its joins and from    *)
(* the registry, never from the workers; so the invariant says what these  *)
(* tell of the workers, in each phase of the main thread, while a worker   *)
(* that missed its deadline goes on to its end.                            *)

Phases ==
    {"prepare", "startSound", "startRender", "awaitRender", "startNetwork", "stopRender",
     "stopSound", "joinSoundAndFail", "fail", "running", "cleanup", "joinRender",
     "joinNetwork", "joinSound", "report", "returned"}
WorkerStates == {"none", "creating", "leaving", "running", "closing", "failing", "ended", "panicked"}
Outcomes     == {"not_started", "joined", "panicked", "timed_out"}

\* A worker that runs no more, or only has its failed start to return from.
Quiet == {"none", "leaving", "ended", "panicked"}

RunPlaces ==
    /\ phase \in Phases
    /\ workers \in [RunWorkers -> WorkerStates]
    /\ greeting \in {"none", "ready", "failed"}
    /\ lifecycle \in {"starting", "running", "stopping", "stopped", "failed", "failed_cleanup"}
    /\ joins \in [RunWorkers -> Outcomes]
    /\ registry \subseteq RunWorkers

RunFlags ==
    /\ errors \in [RunWorkers -> BOOLEAN]
    /\ interrupted \in BOOLEAN /\ silenced \in BOOLEAN /\ closed \in BOOLEAN

RunReasons == {"none", "ctrl_c", "duration", "window_closed", "local_stop", "internal_error",
            "peer_closed", "peer_timeout"}

TokenShape == token \in [flag : BOOLEAN, reason : RunReasons]

\* The phases in which a worker is not yet started, those in which it cannot have been
\* joined, and those in which it has been.
NotYet == [sound   |-> {"prepare", "startSound"},
           render  |-> {"prepare", "startSound", "startRender"},
           network |-> {"prepare", "startSound", "startRender", "awaitRender", "startNetwork",
                        "stopRender", "stopSound", "joinSoundAndFail", "fail"}]
Unjoined ==
    [sound   |-> Phases \ {"fail", "report", "returned"},
     render  |-> {"prepare", "startSound", "startRender", "awaitRender", "startNetwork",
                  "stopRender", "running", "cleanup", "joinRender"},
     network |-> Phases \ {"joinSound", "report", "returned"}]
Joined == [sound   |-> {"fail", "report"},
           render  |-> {"joinNetwork", "joinSound", "report"},
           network |-> {"joinSound", "report"}]

\* A worker is there only after its start, a renderer that greets with a failure does no
\* more, and the sound worker's error is not recorded where it would fail the run.
StartsAreTrue ==
    /\ \A w \in RunWorkers : phase \in NotYet[w] => workers[w] = "none"
    /\ greeting = "failed" => workers["render"] \in {"leaving", "ended", "panicked"}
    /\ ~errors["sound"]

\* A join says what the worker came to; those that say it did not end are the registry.
JoinsAreTrue ==
    /\ \A w \in RunWorkers :
          /\ joins[w] = "joined"   => workers[w] = "ended"
          /\ joins[w] = "panicked" => workers[w] = "panicked"
          /\ phase \in Joined[w] /\ joins[w] = "not_started" => workers[w] = "none"
          /\ phase # "returned" => (w \in registry <=> joins[w] = "timed_out")
          /\ phase \in Unjoined[w] => joins[w] = "not_started"
    /\ phase \in {"stopSound", "joinSoundAndFail", "fail"}
          => joins["render"] = "timed_out" \/ workers["render"] \in Quiet

RunInv ==
    /\ RunPlaces /\ RunFlags /\ TokenShape
    /\ StartsAreTrue /\ JoinsAreTrue
    /\ StopIsTrue /\ NoWorkerIsDetached

\* At the start nothing runs, and nothing is said of it.
LEMMA RunStarts == RunInit => RunInv
<1> SUFFICES ASSUME RunInit PROVE RunInv
    OBVIOUS
<1>1. RunPlaces /\ StartsAreTrue /\ JoinsAreTrue
    BY DEF RunInit, RunPlaces, StartsAreTrue, JoinsAreTrue, RunWorkers, NotYet, Joined, Unjoined, Phases,
        WorkerStates, Outcomes, Quiet
<1>2. RunFlags
    BY DEF RunInit, RunFlags
<1>3. TokenShape
    BY DEF RunInit, TokenShape, NoReason, RunReasons
<1>4. StopIsTrue /\ NoWorkerIsDetached
    BY DEF RunInit, StopIsTrue, NoWorkerIsDetached
<1> QED BY <1>1, <1>2, <1>3, <1>4 DEF RunInv

\* What the steps of a worker may do to it, and to the others: nothing.
Onward(before, after) ==
    \/ after = before
    \/ before \notin {"none", "ended", "panicked"} /\ after \notin {"none", "creating"}
       /\ (before = "leaving" => after = "ended")

\* No worker comes back, and none touches what is the main thread's.
LEMMA WorkersGoOnward ==
    ASSUME RunPlaces, WorkerStep \/ Interrupt \/ LocalStopArrives
    PROVE  /\ workers' \in [RunWorkers -> WorkerStates]
           /\ \A w \in RunWorkers : Onward(workers[w], workers'[w])
           /\ mainVars' = mainVars
<1> USE DEF RunPlaces, Onward, To, RunWorkers, WorkerStates, workerVars
<1>1. CASE RenderCreates      BY <1>1 DEF RenderCreates
<1>2. CASE RenderLeaves       BY <1>2 DEF RenderLeaves
<1>3. CASE WindowCloses       BY <1>3 DEF WindowCloses
<1>4. CASE SoundFails         BY <1>4 DEF SoundFails
<1>5. CASE PeerLeaves         BY <1>5 DEF PeerLeaves
<1>6. ASSUME NEW w \in {"render", "network"}, WorkerFails(w)
      PROVE  /\ workers' \in [RunWorkers -> WorkerStates]
             /\ \A v \in RunWorkers : Onward(workers[v], workers'[v])
             /\ mainVars' = mainVars
    BY <1>6 DEF WorkerFails
<1>7. ASSUME NEW w \in RunWorkers, WorkerStops(w) \/ WorkerPanics(w)
      PROVE  /\ workers' \in [RunWorkers -> WorkerStates]
             /\ \A v \in RunWorkers : Onward(workers[v], workers'[v])
             /\ mainVars' = mainVars
    BY <1>7 DEF WorkerStops, WorkerPanics
<1>8. CASE Interrupt \/ LocalStopArrives
    BY <1>8 DEF Interrupt, LocalStopArrives
<1> QED BY <1>1, <1>2, <1>3, <1>4, <1>5, <1>6, <1>7, <1>8 DEF WorkerStep

\* A greeting of failure is of a renderer that fails.
LEMMA GreetingKept ==
    ASSUME RunPlaces, StartsAreTrue, WorkerStep \/ Interrupt \/ LocalStopArrives
    PROVE  /\ greeting' \in {"none", "ready", "failed"}
           /\ greeting' = "failed" => workers'["render"] \in {"leaving", "ended", "panicked"}
<1> USE DEF RunPlaces, StartsAreTrue, To, RunWorkers, WorkerStates, workerVars
<1>1. CASE RenderCreates
    BY <1>1 DEF RenderCreates
<1>2. CASE UNCHANGED greeting /\ Onward(workers["render"], workers'["render"])
    BY <1>2 DEF Onward
<1> QED BY <1>1, <1>2, WorkersGoOnward DEF WorkerStep, RenderLeaves, WindowCloses, SoundFails,
        PeerLeaves, WorkerFails, WorkerStops, WorkerPanics, Interrupt, LocalStopArrives

\* Only a worker that is failing, or leaving, records an error.
LEMMA ErrorsAreOfFailing ==
    ASSUME RunFlags, WorkerStep \/ Interrupt \/ LocalStopArrives
    PROVE  /\ errors' \in [RunWorkers -> BOOLEAN]
           /\ \A w \in RunWorkers :
                 errors'[w] = errors[w] \/ (w # "sound" /\ workers[w] \in {"leaving", "failing"})
<1> USE DEF RunFlags, workerVars, RunWorkers
<1>1. CASE RenderLeaves
    BY <1>1 DEF RenderLeaves
<1>2. ASSUME NEW w \in {"render", "network"}, WorkerFails(w)
      PROVE  /\ errors' \in [RunWorkers -> BOOLEAN]
             /\ \A v \in RunWorkers :
                   errors'[v] = errors[v] \/ (v # "sound" /\ workers[v] \in {"leaving", "failing"})
    BY <1>2 DEF WorkerFails
<1>3. CASE UNCHANGED errors
    BY <1>3
<1> QED BY <1>1, <1>2, <1>3 DEF WorkerStep, RenderCreates, WindowCloses, SoundFails, PeerLeaves,
        WorkerStops, WorkerPanics, Interrupt, LocalStopArrives

\* What is said of the workers stays true while they go on to their ends.
LEMMA WorkersKeepRun ==
    ASSUME RunInv, WorkerStep \/ Interrupt \/ LocalStopArrives
    PROVE  RunPlaces' /\ StartsAreTrue' /\ JoinsAreTrue' /\ StopIsTrue' /\ NoWorkerIsDetached'
<1>1. /\ workers' \in [RunWorkers -> WorkerStates]
      /\ \A w \in RunWorkers : Onward(workers[w], workers'[w])
      /\ UNCHANGED <<phase, lifecycle, joins, registry, final, silenced>>
    BY WorkersGoOnward DEF RunInv, mainVars
<1>2. /\ greeting' \in {"none", "ready", "failed"}
      /\ greeting' = "failed" => workers'["render"] \in {"leaving", "ended", "panicked"}
    BY GreetingKept DEF RunInv
<1>3. \A w \in RunWorkers :
         errors'[w] = errors[w] \/ (w # "sound" /\ workers[w] \in {"leaving", "failing"})
    BY ErrorsAreOfFailing DEF RunInv
<1>4. RunPlaces'
    BY <1>1, <1>2 DEF RunInv, RunPlaces
<1>5. StartsAreTrue'
    BY <1>1, <1>2, <1>3 DEF RunInv, StartsAreTrue, Onward, RunWorkers
<1>6. JoinsAreTrue'
    BY <1>1 DEF RunInv, JoinsAreTrue, Onward, Quiet, RunWorkers, Joined, Unjoined
<1>7. StopIsTrue'
    BY <1>1, <1>3 DEF RunInv, StopIsTrue, Onward
<1>8. NoWorkerIsDetached'
    BY <1>1 DEF RunInv, NoWorkerIsDetached, Onward
<1> QED BY <1>4, <1>5, <1>6, <1>7, <1>8

\* A handle that a join returns is where JoinsAreTrue says it is.
LEMMA JoinIsTrue ==
    ASSUME RunInv, NEW w \in RunWorkers, JoinOrRetain(w), phase \in Unjoined[w],
           UNCHANGED workers
    PROVE  /\ joins' \in [RunWorkers -> Outcomes] /\ registry' \subseteq RunWorkers
           /\ \A v \in RunWorkers :
                 /\ joins'[v] = "joined"   => workers'[v] = "ended"
                 /\ joins'[v] = "panicked" => workers'[v] = "panicked"
                 /\ v \in registry' <=> joins'[v] = "timed_out"
                 /\ v # w => joins'[v] = joins[v]
           /\ joins'[w] = "not_started" => workers'[w] = "none"
           /\ joins'[w] = "timed_out" \/ workers'[w] \in Quiet
<1>1. JoinOutcome(w) \in Outcomes
    BY DEF JoinOutcome, Outcomes
<1>2. /\ JoinOutcome(w) = "joined"      => workers[w] = "ended"
      /\ JoinOutcome(w) = "panicked"    => workers[w] = "panicked"
      /\ JoinOutcome(w) = "not_started" => workers[w] = "none"
      /\ JoinOutcome(w) = "timed_out" \/ workers[w] \in Quiet
    BY DEF JoinOutcome, Quiet
<1>3. joins' = [joins EXCEPT ![w] = JoinOutcome(w)]
      /\ registry' = IF JoinOutcome(w) = "timed_out" THEN registry \cup {w} ELSE registry
    BY DEF JoinOrRetain
<1> HIDE DEF JoinOutcome
<1>4. phase # "returned" /\ joins[w] = "not_started" /\ w \notin registry
    <2>1. phase # "returned"
        BY DEF Unjoined, Phases, RunWorkers
    <2> QED BY <2>1 DEF RunInv, JoinsAreTrue
<1> QED BY <1>1, <1>2, <1>3, <1>4 DEF RunInv, RunPlaces, JoinsAreTrue

\* The start, as far as it goes: a worker that is started was not there, and nothing has
\* been joined.
LEMMA StartKeepsRun ==
    ASSUME RunInv,
           \/ Prepare /\ phase' # "returned"
           \/ StartSound \/ StartRender \/ StartNetwork
    PROVE  RunPlaces' /\ StartsAreTrue' /\ JoinsAreTrue' /\ StopIsTrue' /\ NoWorkerIsDetached'
<1> USE DEF RunInv, RunPlaces, StartsAreTrue, JoinsAreTrue, StopIsTrue, NoWorkerIsDetached,
        RunWorkers, NotYet, Joined, Unjoined, Phases, WorkerStates, Quiet, workerVars
<1>1. CASE Prepare /\ phase' # "returned"
    BY <1>1 DEF Prepare, StartupFails
<1>2. CASE StartSound
    BY <1>2 DEF StartSound
<1>3. CASE StartRender
    <2>1. RunPlaces'              BY <1>3 DEF StartRender, GiveUp
    <2>2. StartsAreTrue'          BY <1>3 DEF StartRender, GiveUp
    <2>3. JoinsAreTrue'           BY <1>3 DEF StartRender, GiveUp
    <2>4. StopIsTrue' /\ NoWorkerIsDetached'
        BY <1>3 DEF StartRender, GiveUp
    <2> QED BY <2>1, <2>2, <2>3, <2>4
<1>4. CASE StartNetwork
    BY <1>4 DEF StartNetwork, GiveUp
<1> QED BY <1>1, <1>2, <1>3, <1>4

\* The joins, of a start that failed and of a run that ends, and what lies between them.
LEMMA JoinsKeepRun ==
    ASSUME RunInv,
           \/ AbandonRender \/ AbandonSound
           \/ Poll \/ BeginCleanup \/ JoinRender \/ JoinNetwork \/ JoinSound
    PROVE  RunPlaces' /\ StartsAreTrue' /\ JoinsAreTrue' /\ StopIsTrue' /\ NoWorkerIsDetached'
<1> USE DEF RunPlaces, StartsAreTrue, JoinsAreTrue, StopIsTrue, NoWorkerIsDetached,
        RunWorkers, NotYet, Joined, Unjoined, Phases, Quiet, workerVars
<1>1. CASE AbandonRender
    <2>1. JoinOrRetain("render") /\ phase \in Unjoined["render"] /\ UNCHANGED workers
        BY <1>1 DEF AbandonRender
    <2> QED BY <1>1, <2>1, JoinIsTrue DEF RunInv, AbandonRender
<1>2. CASE AbandonSound /\ phase = "stopSound"
    <2>1. RunPlaces'              BY <1>2 DEF RunInv, AbandonSound
    <2>2. StartsAreTrue'          BY <1>2 DEF RunInv, AbandonSound
    <2>3. JoinsAreTrue'           BY <1>2 DEF RunInv, AbandonSound
    <2>4. StopIsTrue' /\ NoWorkerIsDetached'
        BY <1>2 DEF RunInv, AbandonSound
    <2> QED BY <2>1, <2>2, <2>3, <2>4
<1>3. CASE AbandonSound /\ phase = "joinSoundAndFail"
    <2>1. JoinOrRetain("sound") /\ phase \in Unjoined["sound"] /\ UNCHANGED workers
        BY <1>3 DEF AbandonSound
    <2> QED BY <1>3, <2>1, JoinIsTrue DEF RunInv, AbandonSound
<1>4. CASE Poll \/ BeginCleanup
    <2>1. RunPlaces'              BY <1>4 DEF RunInv, Poll, BeginCleanup
    <2>2. StartsAreTrue'          BY <1>4 DEF RunInv, Poll, BeginCleanup
    <2>3. JoinsAreTrue'           BY <1>4 DEF RunInv, Poll, BeginCleanup
    <2>4. StopIsTrue' /\ NoWorkerIsDetached'
        BY <1>4 DEF RunInv, Poll, BeginCleanup
    <2> QED BY <2>1, <2>2, <2>3, <2>4
<1>5. CASE JoinRender
    <2>1. JoinOrRetain("render") /\ phase \in Unjoined["render"] /\ UNCHANGED workers
        BY <1>5 DEF JoinRender
    <2> QED BY <1>5, <2>1, JoinIsTrue DEF RunInv, JoinRender
<1>6. CASE JoinNetwork
    <2>1. JoinOrRetain("network") /\ phase \in Unjoined["network"] /\ UNCHANGED workers
        BY <1>6 DEF JoinNetwork
    <2> QED BY <1>6, <2>1, JoinIsTrue DEF RunInv, JoinNetwork
<1>7. CASE JoinSound
    <2>1. JoinOrRetain("sound") /\ phase \in Unjoined["sound"] /\ UNCHANGED workers
        BY <1>7 DEF JoinSound
    <2> QED BY <1>7, <2>1, JoinIsTrue DEF RunInv, JoinSound
<1> QED BY <1>1, <1>2, <1>3, <1>4, <1>5, <1>6, <1>7 DEF AbandonSound

\* A start that fails before anything runs, or after what runs was joined or retained.
LEMMA FailureKeepsRun ==
    ASSUME RunInv, (Prepare /\ phase' = "returned") \/ FailStart
    PROVE  RunPlaces' /\ StartsAreTrue' /\ JoinsAreTrue' /\ StopIsTrue' /\ NoWorkerIsDetached'
<1>1. StartupFails /\ phase \in {"prepare", "fail"}
      /\ UNCHANGED <<workers, greeting, errors, joins, lifecycle>>
    BY DEF Prepare, FailStart, workerVars
<1>2. /\ phase' = "returned" /\ registry' = Reaped
      /\ final'.event = "stopped" => /\ joins["render"] # "timed_out"
                                     /\ Clean(joins["sound"]) /\ Reaped = {}
      /\ final'.result = "error"
    BY <1>1 DEF StartupFails
<1>3. \A w \in RunWorkers : w \in Reaped <=> joins[w] = "timed_out" /\ ~Ended(w)
    BY <1>1 DEF RunInv, RunPlaces, JoinsAreTrue, Reaped
<1>4. \A w \in RunWorkers : workers[w] \notin Quiet => w \in Reaped
    BY <1>1, <1>3 DEF RunInv, RunPlaces, JoinsAreTrue, StartsAreTrue, RunWorkers, NotYet, Joined,
        Quiet, Ended, Outcomes
<1>5. StopIsTrue'
    BY <1>1, <1>2, <1>4 DEF StopIsTrue, Quiet
<1>6. NoWorkerIsDetached'
    BY <1>1, <1>2, <1>4 DEF NoWorkerIsDetached, Quiet
<1>7. RunPlaces' /\ StartsAreTrue' /\ JoinsAreTrue'
    <2> USE <1>1, <1>2 DEF RunInv, RunPlaces
    <2>1. RunPlaces'      BY DEF Phases, Reaped
    <2>2. StartsAreTrue'  BY DEF StartsAreTrue, RunWorkers, NotYet
    <2>3. JoinsAreTrue'   BY DEF JoinsAreTrue, RunWorkers, Joined, Unjoined, Phases
    <2> QED BY <2>1, <2>2, <2>3
<1> QED BY <1>5, <1>6, <1>7

\* The report: every worker has been joined or is retained.
LEMMA ReportKeepsRun ==
    ASSUME RunInv, Report
    PROVE  RunPlaces' /\ StartsAreTrue' /\ JoinsAreTrue' /\ StopIsTrue' /\ NoWorkerIsDetached'
<1>1. /\ phase = "report" /\ phase' = "returned" /\ registry' = Reaped
      /\ UNCHANGED <<workers, greeting, errors, joins>>
      /\ lifecycle' = IF Reaped = {} /\ \A w \in RunWorkers : Clean(joins[w])
                        THEN "stopped" ELSE "failed_cleanup"
      /\ final'.result = RunResult
      /\ final'.event = IF RunResult = "ok" THEN "stopped" ELSE "shutdown_failed"
    BY DEF Report, workerVars
<1>2. \A w \in RunWorkers : w \in Reaped <=> joins[w] = "timed_out" /\ ~Ended(w)
    BY <1>1 DEF RunInv, RunPlaces, JoinsAreTrue, Reaped
<1>3. \A w \in RunWorkers : phase \in Joined[w]
    BY <1>1 DEF RunWorkers, Joined
<1>4. \A w \in RunWorkers : workers[w] \notin Quiet => w \in Reaped
    BY <1>1, <1>2, <1>3 DEF RunInv, RunPlaces, JoinsAreTrue, Quiet, Ended, Outcomes
<1>5. RunResult = "ok" => /\ \A w \in RunWorkers : workers[w] \in {"none", "ended"}
                          /\ \A w \in RunWorkers : ~errors[w]
                          /\ lifecycle' = "stopped"
    <2> SUFFICES ASSUME RunResult = "ok" PROVE
              /\ \A w \in RunWorkers : workers[w] \in {"none", "ended"}
              /\ \A w \in RunWorkers : ~errors[w]
              /\ lifecycle' = "stopped"
        OBVIOUS
    <2>1. /\ ~errors["network"] /\ ~errors["render"]
          /\ \A w \in RunWorkers : joins[w] \in {"joined", "not_started"}
          /\ Reaped = {} /\ \A w \in RunWorkers : Clean(joins[w])
        BY DEF RunResult, Clean
    <2>2. \A w \in RunWorkers : workers[w] \in {"none", "ended"}
        BY <1>3, <2>1 DEF RunInv, JoinsAreTrue
    <2>3. \A w \in RunWorkers : ~errors[w]
        BY <2>1 DEF RunInv, StartsAreTrue, RunWorkers
    <2> QED BY <1>1, <2>1, <2>2, <2>3
<1>6. StopIsTrue'
    <2>1. final'.event = "stopped" => RunResult = "ok"
        BY <1>1
    <2> QED BY <1>1, <1>5, <2>1 DEF StopIsTrue
<1>7. NoWorkerIsDetached'
    BY <1>1, <1>4 DEF NoWorkerIsDetached, Quiet
<1>8. RunPlaces' /\ StartsAreTrue' /\ JoinsAreTrue'
    <2> USE <1>1 DEF RunInv, RunPlaces
    <2>1. RunPlaces'      BY DEF Phases, Reaped
    <2>2. StartsAreTrue'  BY DEF StartsAreTrue, RunWorkers, NotYet
    <2>3. JoinsAreTrue'   BY DEF JoinsAreTrue, RunWorkers, Joined, Unjoined, Phases
    <2> QED BY <2>1, <2>2, <2>3
<1> QED BY <1>6, <1>7, <1>8

\* The first reason stays, and it is one the code has.
LEMMA TokenKept ==
    ASSUME TokenShape, RunNext
    PROVE  TokenShape'
<1>1. ASSUME NEW why \in RunReasons, CancelRun(why) PROVE TokenShape'
    BY <1>1 DEF CancelRun, TokenShape
<1>2. CASE UNCHANGED token
    BY <1>2 DEF TokenShape
<1>3. CASE token' = [token EXCEPT !.flag = TRUE]
    BY <1>3 DEF TokenShape
<1>4. MainStep => \/ \E why \in RunReasons : CancelRun(why)
                  \/ UNCHANGED token
                  \/ token' = [token EXCEPT !.flag = TRUE]
    BY DEF MainStep, Prepare, StartSound, StartRender, StartNetwork, AbandonRender, AbandonSound,
        FailStart, Poll, BeginCleanup, JoinRender, JoinNetwork, JoinSound, Report,
        NoticeInterrupt, RunReasons
<1>5. WorkerStep \/ Interrupt \/ LocalStopArrives =>
          (\E why \in RunReasons : CancelRun(why)) \/ UNCHANGED token
    BY DEF WorkerStep, RenderCreates, RenderLeaves, WindowCloses, SoundFails, PeerLeaves,
        WorkerFails, WorkerStops, WorkerPanics, Interrupt, LocalStopArrives, RunReasons
<1> QED BY <1>1, <1>2, <1>3, <1>4, <1>5 DEF RunNext

\* A flag stays a flag.
LEMMA RunFlagsKept ==
    ASSUME RunFlags, RunNext
    PROVE  RunFlags'
<1>1. CASE MainStep
    BY <1>1 DEF RunFlags, MainStep, Prepare, StartSound, StartRender, StartNetwork,
        AbandonRender, AbandonSound, FailStart, Poll, BeginCleanup, JoinRender, JoinNetwork,
        JoinSound, Report, workerVars
<1>2. CASE WorkerStep \/ Interrupt \/ LocalStopArrives
    <2>1. errors' \in [RunWorkers -> BOOLEAN]
        BY <1>2, ErrorsAreOfFailing
    <2>2. interrupted' \in BOOLEAN /\ silenced' \in BOOLEAN /\ closed' \in BOOLEAN
        BY <1>2 DEF RunFlags, WorkerStep, RenderCreates, RenderLeaves, WindowCloses, SoundFails,
            PeerLeaves, WorkerFails, WorkerStops, WorkerPanics, Interrupt, LocalStopArrives,
            mainVars, workerVars
    <2> QED BY <2>1, <2>2 DEF RunFlags
<1> QED BY <1>1, <1>2 DEF RunNext

\* So it is with every step of a run.
LEMMA RunStep == RunInv /\ [RunNext]_runVars => RunInv'
<1> SUFFICES ASSUME RunInv, [RunNext]_runVars PROVE RunInv'
    OBVIOUS
<1>1. CASE RunNext
    <2>1. RunPlaces' /\ StartsAreTrue' /\ JoinsAreTrue' /\ StopIsTrue' /\ NoWorkerIsDetached'
        BY <1>1, WorkersKeepRun, StartKeepsRun, JoinsKeepRun, FailureKeepsRun, ReportKeepsRun
        DEF RunNext, MainStep
    <2> QED BY <1>1, <2>1, TokenKept, RunFlagsKept DEF RunInv
<1>2. CASE UNCHANGED runVars
    <2> USE <1>2 DEF runVars, mainVars, workerVars, RunInv
    <2>1. RunPlaces' /\ StartsAreTrue' /\ JoinsAreTrue'
        BY DEF RunPlaces, StartsAreTrue, JoinsAreTrue
    <2>2. StopIsTrue' /\ NoWorkerIsDetached'
        BY DEF StopIsTrue, NoWorkerIsDetached
    <2>3. RunFlags'    BY DEF RunFlags
    <2>4. TokenShape'  BY DEF TokenShape
    <2> QED BY <2>1, <2>2, <2>3, <2>4
<1> QED BY <1>1, <1>2

\* The parts are the whole type invariant.
LEMMA RunTypes == RunInv => RunTypeOK
BY DEF RunInv, RunPlaces, RunFlags, TokenShape, RunTypeOK, Phases, WorkerStates, Outcomes

\* Whatever fails, panics or hangs, and however a run is stopped: what it reports of its
\* workers is so, and it has kept hold of each that still runs.
THEOREM StopsAreReported == ReceiverRunSpec => [](StopIsTrue /\ NoWorkerIsDetached)
<1>1. RunInv => StopIsTrue /\ NoWorkerIsDetached
    BY DEF RunInv
<1> QED BY <1>1, RunStarts, RunStep, PTL DEF ReceiverRunSpec

-----------------------------------------------------------------------------
(* All of them.  A step of one part leaves the others as they are, so that *)
(* each keeps its own invariant.                                           *)

EndInv == IInv /\ RunInv /\ CompletionInv /\ DeliveryInv /\ PathInv

\* Every step is one of each part, or leaves it alone.
LEMMA StepsOfParts ==
    ASSUME [EndingNext]_allVars
    PROVE  /\ [Next]_vars /\ [RunNext]_runVars /\ [CompletionNext]_completionVars
           /\ [DeliveryNext]_deliveryVars /\ [PathNext]_pathVars
<1>1. CASE ScreenEnds    BY <1>1 DEF ScreenEnds, otherVars
<1>2. CASE TransferEnds  BY <1>2 DEF TransferEnds
<1>3. CASE UNCHANGED allVars  BY <1>3 DEF allVars, otherVars
<1> QED BY <1>1, <1>2, <1>3 DEF EndingNext

\* The parts' own lemmas, together.
LEMMA EndStarts == EndingInit => EndInv
BY InitInv, RunStarts, CompletionStarts, DeliveryStarts, PathStarts DEF EndingInit, EndInv

\* No step of any part breaks the invariant of another.
LEMMA EndKept == EndInv /\ [EndingNext]_allVars => EndInv'
<1> SUFFICES ASSUME EndInv, [EndingNext]_allVars PROVE EndInv'
    OBVIOUS
<1>1. IInv'           BY StepsOfParts, StepInv DEF EndInv
<1>2. RunInv'         BY StepsOfParts, RunStep DEF EndInv
<1>3. CompletionInv'  BY StepsOfParts, CompletionStep DEF EndInv
<1>4. DeliveryInv'    BY StepsOfParts, DeliveryKept DEF EndInv
<1>5. PathInv'        BY StepsOfParts, PathStep DEF EndInv
<1> QED BY <1>1, <1>2, <1>3, <1>4, <1>5 DEF EndInv

\* So the parts' invariants hold of every behaviour.
LEMMA EndingHolds == EndingSpec => []EndInv
BY EndStarts, EndKept, PTL DEF EndingSpec

\* However things end, what is reported of their end is true.
THEOREM EndsAreReported == EndingSpec => []EndsAreTrue
<1>1. EndInv => EndsAreTrue
    BY RowIsSafe DEF EndInv, RunInv, CompletionInv, Claims, PathInv, EndsAreTrue
<1> QED BY <1>1, EndingHolds, PTL

\* And every variable of every part keeps to its values.
THEOREM EndingTypes == EndingSpec => []EndingTypeOK
<1>1. EndInv => EndingTypeOK
    BY RunTypes, CompletionTypes, DeliveryTypes, PathTypes DEF EndInv, IInv, EndingTypeOK
<1> QED BY <1>1, EndingHolds, PTL
=============================================================================
