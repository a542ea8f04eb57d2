------------------------------ MODULE StreamClose ------------------------------
(***************************************************************************)
(* How a screen stream ends: the STREAM_CLOSE handshake of agoralink_media *)
(* (h264_send_probe.rs, h264_recv_view.rs, media_control.rs) and the       *)
(* cleanup around it (shutdown.rs).                                        *)
(*                                                                         *)
(* Each end is a process.  The sender has its main thread and the media    *)
(* control thread; the receiver its main thread, the network thread and    *)
(* the render thread.  A CancellationToken shared by the threads of an end *)
(* keeps the first reason anybody gave for stopping; an end that stops for *)
(* a reason of its own tells the other with CLOSE messages and waits for   *)
(* the ACK until a deadline, an end that was told, or that no longer hears *)
(* its peer, only goes.                                                    *)
(*                                                                         *)
(* Deadlines may pass at any step (every packet of the interval may have   *)
(* been lost); the network delivers a message any number of times, at any  *)
(* time, or never.  An earlier stream between the same two addresses has   *)
(* left its CLOSEs and ACKs in the network.  The sender's pacer and the    *)
(* audio threads, which only have to be joined, are left out.              *)
(***************************************************************************)
EXTENDS Naturals

CONSTANT MaxSession     \* profile changes, each of which begins a session

ASSUME MaxSessionAssumption == MaxSession \in Nat \ {0}

Ends    == {"sender", "receiver"}
Peer    == [e \in Ends |-> IF e = "sender" THEN "receiver" ELSE "sender"]
Reasons == {"none", "local", "peer_closed", "peer_timeout"}
Workers == [e \in Ends |-> IF e = "sender" THEN {"control"}
                                         ELSE {"render", "network"}]

\* The ids of the CLOSE messages: random in the code, one per handshake.
CloseId   == [e \in Ends |-> IF e = "sender" THEN 1 ELSE 2]
EarlierId == 3

VARIABLES
    reason,     \* the reason of each end's CancellationToken
    life,       \* each end's ShutdownCoordinator
    running,    \* the worker threads of each end that have not finished
    retained,   \* the workers each end could not join
    acked,      \* close_ack_received of each end's handshake
    main,       \* where each end's main thread is
    session,    \* the session each end is in; the receiver begins with none
    linger,     \* peer_close_linger_until of each end
    accepted,   \* the id of the receiver's accepted_peer_close
    closing,    \* the network thread has left receive_loop for its handshake
    inbox,      \* the sender's close_ack_inbox holds the ACK of its CLOSE
    net         \* every message ever sent

vars == <<reason, life, running, retained, acked, main, session, linger,
          accepted, closing, inbox, net>>

Close(from, s) ==
    [type |-> "close", from |-> from, session |-> s, id |-> CloseId[from]]

\* StreamClose::ack: the session and the id of the CLOSE it answers.
Ack(from, close) ==
    [type |-> "ack", from |-> from, session |-> close.session, id |-> close.id]

Sessions       == 0..MaxSession
EarlierSession == MaxSession + 1

Messages ==
    [type : {"close", "ack"}, from : Ends,
     session : 0..EarlierSession, id : 1..3]

EarlierMessages ==
    [type : {"close", "ack"}, from : Ends,
     session : {EarlierSession}, id : {EarlierId}]

TypeOK ==
    /\ reason \in [Ends -> Reasons]
    /\ life \in [Ends -> {"running", "stopping", "stopped", "failed_cleanup"}]
    /\ running \in [Ends -> SUBSET {"control", "render", "network"}]
    /\ retained \in [Ends -> SUBSET {"control", "render", "network"}]
    /\ acked \in [Ends -> BOOLEAN]
    /\ main \in [Ends -> {"run", "close", "join", "ended"}]
    /\ session \in [Ends -> Sessions]
    /\ linger \in [Ends -> {"none", "on", "over"}]
    /\ accepted \in 0..3
    /\ closing \in BOOLEAN
    /\ inbox \in BOOLEAN
    /\ net \subseteq Messages

Init ==
    /\ reason = [e \in Ends |-> "none"]
    /\ life = [e \in Ends |-> "running"]
    /\ running = Workers
    /\ retained = [e \in Ends |-> {}]
    /\ acked = [e \in Ends |-> FALSE]
    /\ main = [e \in Ends |-> "run"]
    /\ session = [e \in Ends |-> IF e = "sender" THEN 1 ELSE 0]
    /\ linger = [e \in Ends |-> "none"]
    /\ accepted = 0
    /\ closing = FALSE
    /\ inbox = FALSE
    /\ net = EarlierMessages

(***************************************************************************)
(* What the threads of an end share.                                       *)
(***************************************************************************)

\* CancellationToken::cancel: the first reason stays.
Cancel(e, why) ==
    reason' = IF reason[e] = "none" THEN [reason EXCEPT ![e] = why] ELSE reason

Cancelled(e) == reason[e] # "none"

\* StopReason::should_notify_peer.
Notifies(e) == reason[e] = "local"

\* A worker runs while its process does.
Runs(e, w) == w \in running[e] /\ main[e] # "ended"

\* The user, LOCAL_STOP on stdin, Ctrl+C, the duration or an error of the
\* pipeline ends the run.
LocalStop(e) ==
    /\ main[e] = "run"
    /\ reason[e] = "none"
    /\ Cancel(e, "local")
    /\ UNCHANGED <<life, running, retained, acked, main, session, linger,
                   accepted, closing, inbox, net>>

LingerOver(e) ==
    /\ linger[e] = "on"
    /\ linger' = [linger EXCEPT ![e] = "over"]
    /\ UNCHANGED <<reason, life, running, retained, acked, main, session,
                   accepted, closing, inbox, net>>

\* A worker leaves its loop.
Finishes(e, w) == running' = [running EXCEPT ![e] = @ \ {w}]

\* try_join_until and retain_unjoined_worker: the deadline may find the
\* worker still running, and its handle goes to the registry.
JoinTimesOut(e, w) ==
    /\ main[e] = "join"
    /\ w \in running[e] \ retained[e]
    /\ w = "network" => "render" \notin running[e] \ retained[e]
    /\ retained' = [retained EXCEPT ![e] = @ \cup {w}]
    /\ UNCHANGED <<reason, life, running, acked, main, session, linger,
                   accepted, closing, inbox, net>>

\* Every worker has been joined or retained: finish_cleanup, and the process
\* ends.
Finish(e) ==
    /\ main[e] = "join"
    /\ running[e] \subseteq retained[e]
    /\ life' = [life EXCEPT ![e] =
                    IF retained[e] = {} THEN "stopped" ELSE "failed_cleanup"]
    /\ main' = [main EXCEPT ![e] = "ended"]
    /\ UNCHANGED <<reason, running, retained, acked, session, linger, accepted, closing,
                   inbox, net>>

(***************************************************************************)
(* Media and profile changes, as far as closing depends on them.           *)
(***************************************************************************)

\* The sender switches after the receiver, in its current session, has
\* acknowledged the change; a cancellation noticed too late does not stop it.
SwitchSender ==
    /\ main["sender"] = "run"
    /\ session["sender"] < MaxSession
    /\ session["receiver"] = session["sender"]
    /\ session' = [session EXCEPT !["sender"] = @ + 1]
    /\ UNCHANGED <<reason, life, running, retained, acked, main, linger,
                   accepted, closing, inbox, net>>

\* A media packet pins the peer and the first session, or activates the
\* pending one; after the cancellation media is skipped.
MediaArrives ==
    /\ Runs("receiver", "network")
    /\ ~Cancelled("receiver")
    /\ \E s \in 1..session["sender"] :
          /\ session["receiver"] < s
          /\ session' = [session EXCEPT !["receiver"] = s]
    /\ UNCHANGED <<reason, life, running, retained, acked, main, linger,
                   accepted, closing, inbox, net>>

(***************************************************************************)
(* The sender: finish_worker and perform_stream_close_handshake on the     *)
(* main thread, run_media_control_receiver on the control thread.          *)
(***************************************************************************)

TxCleanup ==
    /\ main["sender"] = "run"
    /\ Cancelled("sender")
    /\ life' = [life EXCEPT !["sender"] = "stopping"]
    /\ main' = [main EXCEPT !["sender"] =
                    IF Notifies("sender") THEN "close" ELSE "join"]
    /\ UNCHANGED <<reason, running, retained, acked, session, linger, accepted, closing,
                   inbox, net>>

TxCloseSends ==
    /\ main["sender"] = "close"
    /\ net' = net \cup {Close("sender", session["sender"])}
    /\ UNCHANGED <<reason, life, running, retained, acked, main, session,
                   linger, accepted, closing, inbox>>

\* The wait ends with the ACK or at the deadline; either way repair_stop is
\* set and the workers are joined.
TxCloseEnds ==
    /\ main["sender"] = "close"
    /\ acked' = [acked EXCEPT !["sender"] = inbox]
    /\ main' = [main EXCEPT !["sender"] = "join"]
    /\ UNCHANGED <<reason, life, running, retained, session, linger, accepted, closing,
                   inbox, net>>

\* A CLOSE of this session, or of a receiver without one, is acknowledged
\* every time, before and after the stop.
TxObeys(m) == m.session \in {0, session["sender"]}

TxRxClose(m) ==
    /\ Runs("sender", "control")
    /\ m \in net /\ m.type = "close" /\ m.from = "receiver"
    /\ TxObeys(m)
    /\ net' = net \cup {Ack("sender", m)}
    /\ linger' = [linger EXCEPT !["sender"] = IF @ = "none" THEN "on" ELSE @]
    /\ Cancel("sender", "peer_closed")
    /\ UNCHANGED <<life, running, retained, acked, main, session, accepted, closing,
                   inbox>>

\* An ACK goes to the inbox; only the one that answers this end's CLOSE is
\* taken out of it.
Answers(m, e) ==
    m.type = "ack" /\ m.session = session[e] /\ m.id = CloseId[e]

TxRxAck(m) ==
    /\ Runs("sender", "control")
    /\ m \in net /\ m.from = "receiver"
    /\ main["sender"] = "close"
    /\ Answers(m, "sender")
    /\ inbox' = TRUE
    /\ UNCHANGED <<reason, life, running, retained, acked, main, session,
                   linger, accepted, closing,
                   net>>

\* Mutant: a receiver that has not followed a profile change is never given up.
TxPeerTimeout_Grace ==
    /\ Runs("sender", "control")
    /\ reason["sender"] = "none"
    /\ session["receiver"] = session["sender"]
    /\ Cancel("sender", "peer_timeout")
    /\ UNCHANGED <<life, running, retained, acked, main, session, linger,
                   accepted, closing, inbox, net>>

\* peer_hard_timeout without feedback, checked whenever nothing arrives.
TxPeerTimeout ==
    /\ Runs("sender", "control")
    /\ reason["sender"] = "none"
    /\ Cancel("sender", "peer_timeout")
    /\ UNCHANGED <<life, running, retained, acked, main, session, linger,
                   accepted, closing, inbox, net>>

\* The thread ends after repair_stop, unless it lingers for the peer.
TxControlEnds ==
    /\ Runs("sender", "control")
    /\ main["sender"] = "join"
    /\ linger["sender"] # "on"
    /\ Finishes("sender", "control")
    /\ UNCHANGED <<reason, life, retained, acked, main, session, linger,
                   accepted, closing, inbox, net>>

\* A receive error that is not a timeout or a reset ends the thread at once.
TxControlFails ==
    /\ Runs("sender", "control")
    /\ Finishes("sender", "control")
    /\ UNCHANGED <<reason, life, retained, acked, main, session, linger,
                   accepted, closing, inbox, net>>

(***************************************************************************)
(* The receiver: receive_loop and perform_receiver_close_handshake on the  *)
(* network thread, run on the main thread.                                 *)
(***************************************************************************)

Receiving == Runs("receiver", "network") /\ ~closing

\* Mutant: the session of a CLOSE is not compared.
RxAccepts_AnySession(m) == session["receiver"] # 0 /\ accepted = 0

\* classify_incoming_stream_close: a CLOSE of the session in progress, from the
\* pinned peer, while no other was accepted.
RxAccepts(m) ==
    /\ session["receiver"] # 0
    /\ m.session = session["receiver"]
    /\ accepted = 0

RxClose(m) ==
    /\ Receiving
    /\ m \in net /\ m.type = "close" /\ m.from = "sender"
    /\ RxAccepts(m)
    /\ accepted' = m.id
    /\ net' = net \cup {Ack("receiver", m)}
    /\ linger' = [linger EXCEPT !["receiver"] = "on"]
    /\ Cancel("receiver", "peer_closed")
    /\ UNCHANGED <<life, running, retained, acked, main, session, closing, inbox>>

\* The accepted CLOSE again: only acknowledged.
RxDuplicate(m) ==
    /\ Receiving
    /\ m \in net /\ m.type = "close" /\ m.from = "sender"
    /\ session["receiver"] # 0
    /\ m.session = session["receiver"] /\ m.id = accepted
    /\ net' = net \cup {Ack("receiver", m)}
    /\ UNCHANGED <<reason, life, running, retained, acked, main, session, linger,
                   accepted, closing, inbox>>

\* Behind receive_loop: a reason that notifies a known peer begins the
\* handshake, any other ends the thread.
LeavesLoop(why) ==
    IF why = "local" /\ session["receiver"] # 0
    THEN closing' = TRUE /\ UNCHANGED running
    ELSE Finishes("receiver", "network") /\ UNCHANGED closing

\* peer_hard_timeout without media leaves the loop, whatever was cancelled before.
RxPeerTimeout ==
    /\ Receiving
    /\ session["receiver"] # 0
    /\ Cancel("receiver", "peer_timeout")
    /\ LeavesLoop(reason'["receiver"])
    /\ UNCHANGED <<life, retained, acked, main, session, linger, accepted, inbox,
                   net>>

\* The stop flag is the token's: the loop ends with any reason, unless it
\* lingers to acknowledge the CLOSE again.
RxLoopEnds ==
    /\ Receiving
    /\ Cancelled("receiver") /\ linger["receiver"] # "on"
    /\ LeavesLoop(reason["receiver"])
    /\ UNCHANGED <<reason, life, retained, acked, main, session, linger, accepted,
                   inbox, net>>

\* A receive or reassembly error returns from receive_loop past the handshake.
RxFails ==
    /\ Receiving
    /\ Cancel("receiver", "local")
    /\ Finishes("receiver", "network")
    /\ UNCHANGED <<life, retained, acked, main, session, linger, accepted, closing,
                   inbox, net>>

Closing == Runs("receiver", "network") /\ closing

RxCloseSends ==
    /\ Closing
    /\ net' = net \cup {Close("receiver", session["receiver"])}
    /\ UNCHANGED <<reason, life, running, retained, acked, main, session, linger,
                   accepted, closing, inbox>>

RxAcked(m) ==
    /\ Closing
    /\ m \in net /\ m.from = "sender" /\ Answers(m, "receiver")
    /\ acked' = [acked EXCEPT !["receiver"] = TRUE]
    /\ Finishes("receiver", "network")
    /\ UNCHANGED <<reason, life, retained, main, session, linger, accepted, closing,
                   inbox, net>>

\* While it waits the receiver acknowledges any CLOSE of its peer.
RxRemoteClose(m) ==
    /\ Closing
    /\ m \in net /\ m.type = "close" /\ m.from = "sender"
    /\ net' = net \cup {Ack("receiver", m)}
    /\ UNCHANGED <<reason, life, running, retained, acked, main, session, linger,
                   accepted, closing, inbox>>

\* close_handshake_timeout or a socket error.
RxCloseEnds ==
    /\ Closing
    /\ Finishes("receiver", "network")
    /\ UNCHANGED <<reason, life, retained, acked, main, session, linger, accepted,
                   closing, inbox, net>>

RenderEnds ==
    /\ Runs("receiver", "render")
    /\ Cancelled("receiver")
    /\ Finishes("receiver", "render")
    /\ UNCHANGED <<reason, life, retained, acked, main, session, linger, accepted,
                   closing, inbox, net>>

RxCleanup ==
    /\ main["receiver"] = "run"
    /\ Cancelled("receiver")
    /\ life' = [life EXCEPT !["receiver"] = "stopping"]
    /\ main' = [main EXCEPT !["receiver"] = "join"]
    /\ UNCHANGED <<reason, running, retained, acked, session, linger, accepted,
                   closing, inbox, net>>

-----------------------------------------------------------------------------
SenderStep ==
    \/ TxCleanup \/ TxCloseSends \/ TxCloseEnds
    \/ TxPeerTimeout \/ TxControlEnds \/ TxControlFails
    \/ \E m \in net : TxRxClose(m) \/ TxRxAck(m)

ReceiverStep ==
    \/ RxPeerTimeout \/ RxLoopEnds \/ RxFails
    \/ RxCloseSends \/ RxCloseEnds \/ RenderEnds \/ RxCleanup
    \/ \E m \in net : RxClose(m) \/ RxDuplicate(m) \/ RxAcked(m) \/ RxRemoteClose(m)

EndStep(e) ==
    \/ LocalStop(e) \/ LingerOver(e) \/ Finish(e)
    \/ \E w \in Workers[e] : JoinTimesOut(e, w)

Next ==
    \/ SenderStep \/ ReceiverStep \/ SwitchSender \/ MediaArrives
    \/ \E e \in Ends : EndStep(e)

Spec == Init /\ [][Next]_vars

\* Every thread keeps running and every deadline passes.  A peer timeout is due
\* only to an end whose peer sends nothing any more; nothing is assumed of the
\* network, of the user or of the sockets.
Fairness ==
    /\ WF_vars(TxCleanup) /\ WF_vars(TxCloseEnds)
    /\ WF_vars(TxControlEnds)
    /\ WF_vars(RxLoopEnds) /\ WF_vars(RxCloseEnds)
    /\ WF_vars(RenderEnds) /\ WF_vars(RxCleanup)
    /\ WF_vars(TxPeerTimeout /\ main["receiver"] = "ended")
    /\ WF_vars(RxPeerTimeout /\ main["sender"] = "ended")
    /\ \A e \in Ends :
          /\ WF_vars(LingerOver(e)) /\ WF_vars(Finish(e))
          /\ \A w \in {"control", "render", "network"} : WF_vars(JoinTimesOut(e, w))

FairSpec == Spec /\ Fairness

-----------------------------------------------------------------------------
(* Properties.                                                              *)

\* An end stops as "peer closed" only because the other end has stopped for a
\* reason of its own: never on a CLOSE left by an earlier stream, and never both
\* on each other's word.
PeerClosedMeansLocal ==
    \A e \in Ends : reason[e] = "peer_closed" => reason[Peer[e]] = "local"

\* An end that reports close_ack_received has been heard: the other end is
\* stopping too.
AckedIsHeard ==
    \A e \in Ends : acked[e] => Cancelled(Peer[e])

\* A receiver that ends on the sender's word has seen all of the stream's
\* sessions: no profile change is under way that it does not know of.
ObeysLastSession ==
    reason["receiver"] = "peer_closed" => session["receiver"] = session["sender"]

\* What a CLOSE and its ACK are believed for is true of the other end, whatever the
\* network repeats or holds back and whatever session either end is in.
CloseSafety == PeerClosedMeansLocal /\ AckedIsHeard /\ ObeysLastSession

\* When one end is gone the other ends too, though every CLOSE be lost: by the
\* message or by peer_hard_timeout.  A receiver that has never had media has no
\* peer to lose; a sender whose control thread has failed no longer watches.
\* (An end that is gone stays gone, so this says "leads to".)
OtherEndFollows ==
    /\ []<>(main["receiver"] = "ended" =>
               \/ main["sender"] = "ended"
               \/ main["sender"] = "run" /\ "control" \notin running["sender"])
    /\ []<>(main["sender"] = "ended" /\ session["receiver"] # 0 =>
               main["receiver"] = "ended")

=============================================================================
