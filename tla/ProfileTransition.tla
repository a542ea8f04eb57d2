-------------------------- MODULE ProfileTransition --------------------------
(***************************************************************************)
(* The hand-over of a live screen stream from one video session to the     *)
(* next when the sender changes the quality profile (rust-native/          *)
(* agoralink_media: profile_transition.rs and its users h264_send_probe.rs *)
(* and h264_recv_view.rs).                                                 *)
(*                                                                         *)
(* Five threads take part and share state under locks:                      *)
(*   sender pipeline    announces a change (MPRF), waits for its ACK,      *)
(*                      switches to the new session, waits for readiness   *)
(*   sender control     receives ACKs and capability feedback              *)
(*   receiver network   judges changes, switches on the first new packet   *)
(*   receiver main      drains the decode queue, decodes, reports          *)
(*   receiver render    shows the newest decoded frame                     *)
(*                                                                         *)
(* Every message ever sent stays in its set: a delivery leaves it there    *)
(* (duplication), any order is possible (reordering), and a message may    *)
(* never be delivered (loss).  A retry therefore adds nothing, and frames  *)
(* of every session up to the sender's may arrive at any time.  Deadlines  *)
(* are choices: a deadline action is enabled while the state it watches    *)
(* lasts, whatever its length.                                             *)
(*                                                                         *)
(* A failed transition ends the sender's run, so the n-th change of a run  *)
(* always leads from session n to n+1 with sequence and generation n.      *)
(***************************************************************************)
EXTENDS Integers, FiniteSets

CONSTANTS
    MaxChanges,     \* bound: profile changes of one run
    MaxFeedback,    \* bound: capability feedback packets sent
    MaxDamage,      \* bound: damaged groups of pictures
    MaxEvents,      \* bound: changes and damaged groups, together
    DamagedFrom,    \* bound: groups are damaged from this session on
    SettleWindows   \* progressing windows before a profile is settled (3)

ASSUME ChangesAssumption  == MaxChanges \in Nat \ {0}
ASSUME FeedbackAssumption == MaxFeedback \in Nat \ {0}
ASSUME DamageAssumption   == MaxDamage \in Nat
ASSUME EventsAssumption   == MaxEvents \in Nat \ {0}
ASSUME DamagedAssumption  == DamagedFrom \in Nat \ {0}
ASSUME SettleAssumption   == SettleWindows \in Nat \ {0}

RECEIVER_MAX_SETTLE_RESTARTS == 1

Sessions == 1 .. MaxChanges + 1

\* The change that leads away from session n, as transition_profile builds it.
Change(n)  == [old |-> n, new |-> n + 1, seq |-> n, gen |-> n]
Changes    == {Change(n) : n \in 1 .. MaxChanges}
NoChange   == [old |-> 0, new |-> 0, seq |-> 0, gen |-> 0]

\* A capability feedback packet; ready gathers the flags the sender asks for.
Feedback   == [seq : 1 .. MaxFeedback, session : Sessions,
               gen : 0 .. MaxChanges, ready : BOOLEAN]
NoFeedback == [seq |-> 0, session |-> 0, gen |-> 0, ready |-> FALSE]

VARIABLES
    \* sender
    sndPc,        \* stream, control, acked, activated, stopped
    phase,        \* SenderTransitionPhase
    change,       \* the change under way, or the last one
    ackReceived,  \* ack_received_at is set
    session,      \* session_id of the pipeline and current_session_id
    generation,   \* video_profile_generation
    inbox,        \* profile_ack_inbox
    tracker,      \* CapabilityFeedbackTracker.latest
    \* network
    mprf, acks, feedback,
    \* receiver, network thread
    rcvPc,        \* tick, switched, stopped
    active,       \* session of the reassembler and of the controller, 0: none
    pending,      \* the accepted change that waits for its first packet
    highest,      \* highest accepted sequence and generation
    lastKey,      \* last committed change
    expired,      \* last expired new session
    rcvGen,       \* profile_stats.generation
    damage,       \* damaged_gop_count
    snap,         \* the published NetworkSnapshot
    queue,        \* decode queue: a Reset item, and the frames behind it
    \* receiver, main and render threads
    mainPc,       \* drain, report, stopped
    decoder,      \* session of the open decoder, 0: waiting for a keyframe
    input,        \* frames entered the decoder since the last report
    toRender,     \* session of the decoded frame that waits to be shown, 0: none
    rendered,     \* frames were shown since the main thread last looked
    counted,      \* frames it has counted since the last report
    shown,        \* session of the frame on the screen
    cap           \* CapabilityFeedbackSource with its readiness machine

sndVars  == <<sndPc, phase, change, ackReceived, session, generation>>
ctlVars  == <<inbox, tracker>>
netVars  == <<mprf, acks, feedback>>
rcvVars  == <<rcvPc, active, pending, highest, lastKey, expired, rcvGen, damage,
              snap>>
mainVars == <<mainPc, decoder, input, toRender, rendered, counted, shown>>
vars     == <<sndVars, ctlVars, netVars, rcvVars, queue, mainVars, cap>>

EmptyQueue == [reset |-> FALSE, frame |-> 0]
ResetQueue == [reset |-> TRUE, frame |-> 0]
Snapshot   == [session : Sessions \cup {0}, gen : 0 .. MaxChanges, damage : 0 .. MaxDamage]

\* Mutant: a transition starts with the windows of the one before.
Begin_KeepsWindows(c, s, g) ==
    [c EXCEPT !.session = s, !.gen = g, !.phase = "AwaitFirstIdr", !.active = TRUE,
              !.settled = FALSE, !.renders = FALSE, !.anyRender = FALSE, !.restarts = 0,
              !.recovering = FALSE, !.seenDamage = c.totalDamage]

\* ReceiverReadinessTransition::begin.
ReadinessBegin(c) ==
    [c EXCEPT !.phase = "AwaitFirstIdr", !.active = TRUE, !.windows = 0,
              !.renders = FALSE, !.restarts = 0, !.recovering = FALSE,
              !.seenDamage = c.totalDamage]

\* CapabilityFeedbackSource::begin_profile_transition.
Begin(c, s, g) ==
    [ReadinessBegin(c) EXCEPT !.session = s, !.gen = g, !.settled = FALSE,
                              !.anyRender = FALSE]

Init ==
    /\ sndPc = "stream" /\ phase = "Idle" /\ change = NoChange
    /\ ackReceived = FALSE /\ session = 1 /\ generation = 0
    /\ inbox = {} /\ tracker = NoFeedback
    /\ mprf = {} /\ acks = {} /\ feedback = {}
    /\ rcvPc = "tick" /\ active = 0 /\ pending = NoChange
    /\ highest = [seq |-> 0, gen |-> 0] /\ lastKey = NoChange /\ expired = 0
    /\ rcvGen = 0 /\ damage = 0 /\ snap = [session |-> 0, gen |-> 0, damage |-> 0]
    /\ queue = EmptyQueue
    /\ mainPc = "drain"
    /\ decoder = 0 /\ input = FALSE /\ toRender = 0 /\ rendered = FALSE
    /\ counted = FALSE /\ shown = 0
    /\ cap = [session |-> 0, gen |-> 0, phase |-> "Idle", active |-> FALSE,
              windows |-> 0, settled |-> FALSE, renders |-> FALSE,
              anyRender |-> FALSE, restarts |-> 0, recovering |-> FALSE,
              seenDamage |-> 0, totalDamage |-> 0]

-----------------------------------------------------------------------------
(* Sender pipeline thread.                                                  *)

\* SenderProfileTransition::cancel, and the exit that follows every failure:
\* run_sender leaves its loop and closes the stream.
Stop(p) ==
    /\ phase' = p
    /\ sndPc' = "stopped"

\* Mutant: a failure after the ACK is taken for a rollback.
Cancelled_AlwaysRollback == "Rollback"

Cancelled == IF ackReceived THEN "Failed" ELSE "Rollback"

\* transition_profile up to its control loop.
StartChange ==
    /\ sndPc = "stream" /\ phase \in {"Idle", "Committed"}
    /\ session <= MaxChanges /\ change.seq + damage < MaxEvents
    /\ sndPc' = "control" /\ phase' = "ControlPending"
    /\ change' = Change(session) /\ ackReceived' = FALSE
    /\ inbox' = {}
    /\ UNCHANGED <<session, generation, tracker, netVars, rcvVars, queue, mainVars,
                   cap>>

\* should_send_control: attempts are limited, which loss already allows.
ControlDue == phase \in {"ControlPending", "AwaitControlAck"}

\* Send and record_control_sent.
SendControl ==
    /\ sndPc = "control" /\ ControlDue
    /\ mprf' = mprf \cup {change}
    /\ phase' = "AwaitControlAck"
    /\ UNCHANGED <<sndPc, change, ackReceived, session, generation, ctlVars, acks,
                   feedback, rcvVars, queue, mainVars, cap>>

\* Mutant: an unmatched ACK activates.
MatchesAck_Any(k) == TRUE

MatchesAck(k) == k = change

\* SenderProfileTransition::observe_ack.  (The receiver answers a change it refuses
\* with silence, so no ACK on the wire is a rejection.)
Accepts(k) == MatchesAck(k) /\ phase \in {"ControlPending", "AwaitControlAck"}

\* The drain of the ACK inbox: an unmatched ACK is counted and dropped.
DrainInbox ==
    /\ sndPc = "control" /\ inbox # {}
    /\ inbox' = {}
    /\ IF \E k \in inbox : Accepts(k)
       THEN sndPc' = "acked" /\ phase' = "ActivateNewSession" /\ ackReceived' = TRUE
       ELSE UNCHANGED <<sndPc, phase, ackReceived>>
    /\ UNCHANGED <<change, session, generation, tracker, netVars, rcvVars, queue,
                   mainVars, cap>>

\* check_deadline: a transition that is under way misses the deadline of its phase.
CheckDeadline ==
    /\ phase \in {"ControlPending", "AwaitControlAck", "AwaitReceiverReadiness"}
    /\ Stop(Cancelled)

\* The control loop: no ACK until ack_deadline.
AckTimeout ==
    /\ sndPc = "control"
    /\ CheckDeadline
    /\ UNCHANGED <<change, ackReceived, session, generation, ctlVars, netVars, rcvVars,
                   queue, mainVars, cap>>

\* The audio sender is stopped and joined, the transition activated and the
\* repair cache and the feedback tracker cleared ...
Activate ==
    /\ sndPc = "acked"
    /\ phase' = "AwaitReceiverReadiness" /\ sndPc' = "activated"
    /\ tracker' = NoFeedback
    /\ UNCHANGED <<change, ackReceived, session, generation, inbox, netVars, rcvVars,
                   queue, mainVars, cap>>

\* ... or the audio sender does not stop.
ActivateFails ==
    /\ sndPc = "acked"
    /\ Stop(Cancelled)
    /\ UNCHANGED <<change, ackReceived, session, generation, ctlVars, netVars, rcvVars,
                   queue, mainVars, cap>>

\* ... then the new session is stored for both threads of the sender.
SwitchSender ==
    /\ sndPc = "activated"
    /\ session' = change.new /\ generation' = change.gen
    /\ sndPc' = "stream"
    /\ UNCHANGED <<phase, change, ackReceived, ctlVars, netVars, rcvVars, queue,
                   mainVars, cap>>

\* Mutant: feedback of any generation counts.
GenerationMatches_Any(fb) == TRUE

\* refresh_adaptive_state: the feedback of this generation says the receiver
\* acknowledged, decoded, rendered and settled.
GenerationMatches(fb) == fb.gen = generation

CommitChange ==
    /\ sndPc = "stream" /\ phase = "AwaitReceiverReadiness"
    /\ tracker # NoFeedback /\ GenerationMatches(tracker) /\ tracker.ready
    /\ phase' = "Committed"
    /\ UNCHANGED <<sndPc, change, ackReceived, session, generation, ctlVars, netVars,
                   rcvVars, queue, mainVars, cap>>

\* Mutant: the readiness deadline is armed only once the receiver answered.
ReadinessTimeout_Answered ==
    /\ sndPc = "stream" /\ phase = "AwaitReceiverReadiness" /\ tracker # NoFeedback
    /\ Stop(Cancelled)
    /\ UNCHANGED <<change, ackReceived, session, generation, ctlVars, netVars, rcvVars,
                   queue, mainVars, cap>>

\* While the pipeline runs: readiness_deadline or total_deadline.
ReadinessTimeout ==
    /\ sndPc = "stream" /\ phase = "AwaitReceiverReadiness"
    /\ CheckDeadline
    /\ UNCHANGED <<change, ackReceived, session, generation, ctlVars, netVars, rcvVars,
                   queue, mainVars, cap>>

\* Stop request, peer close, peer timeout or end of the configured duration: the
\* control loop and the pipeline loop look at the cancellation token.
CancelSender ==
    /\ sndPc \in {"stream", "control"}
    /\ Stop(IF phase \in {"Idle", "Committed"} THEN phase ELSE Cancelled)
    /\ UNCHANGED <<change, ackReceived, session, generation, ctlVars, netVars, rcvVars,
                   queue, mainVars, cap>>

-----------------------------------------------------------------------------
(* Sender control thread.                                                   *)

RxAck(k) ==
    /\ sndPc # "stopped" /\ k \in acks
    /\ inbox' = inbox \cup {k}
    /\ UNCHANGED <<sndVars, tracker, netVars, rcvVars, queue, mainVars, cap>>

\* CapabilityFeedbackTracker::observe.  The thread reads current_session_id before
\* it takes the tracker's lock: a packet of the old session that is judged between
\* Activate and SwitchSender is the outcome of that gap.
RxFeedback(fb) ==
    /\ sndPc # "stopped" /\ fb \in feedback
    /\ fb.session = session /\ fb.seq > tracker.seq
    /\ tracker' = fb
    /\ UNCHANGED <<sndVars, inbox, netVars, rcvVars, queue, mainVars, cap>>

-----------------------------------------------------------------------------
(* Receiver network thread.                                                 *)

\* Mutant: the receiver trusts a change of its pinned peer without its history.
Fresh_NoHistory(c) == pending = NoChange /\ c.new # expired

\* What ReceiverProfileController::observe asks of a change it has not seen.
Fresh(c) ==
    /\ c.old = active
    /\ c.seq > highest.seq /\ c.gen > highest.gen
    /\ pending = NoChange
    /\ c.new # expired

\* The peer is pinned by its first accepted media packet; before it every change
\* is foreign.  A change that is neither known nor fresh is dropped unanswered.
RxChange(c) ==
    /\ rcvPc = "tick" /\ c \in mprf /\ active # 0
    /\ \/ /\ c \in {pending, lastKey}
          /\ UNCHANGED <<pending, highest>>
       \/ /\ c \notin {pending, lastKey} /\ Fresh(c)
          /\ pending' = c /\ highest' = [seq |-> c.seq, gen |-> c.gen]
    /\ acks' = acks \cup {c}
    /\ UNCHANGED <<sndVars, ctlVars, mprf, feedback, rcvPc, active, lastKey, expired,
                   rcvGen, damage, snap, queue, mainVars, cap>>

\* ReceiverProfileController::expire.
ExpirePending ==
    /\ rcvPc = "tick" /\ pending # NoChange
    /\ expired' = pending.new /\ pending' = NoChange
    /\ UNCHANGED <<sndVars, ctlVars, netVars, rcvPc, active, highest, lastKey, rcvGen,
                   damage, snap, queue, mainVars, cap>>

\* A packet of the session in progress, or the first one of all: its frame goes
\* to the decode queue.
RxVideo(s) ==
    /\ rcvPc = "tick" /\ s <= session /\ active \in {0, s}
    /\ active' = s /\ queue' = [queue EXCEPT !.frame = s]
    /\ UNCHANGED <<sndVars, ctlVars, netVars, rcvPc, pending, highest, lastKey,
                   expired, rcvGen, damage, snap, mainVars, cap>>

\* The first packet of the pending session: activate_if_pending, the reassembler
\* and the decode queue switch ...
SwitchReceiver(s) ==
    /\ rcvPc = "tick" /\ s <= session /\ s # active
    /\ pending # NoChange /\ pending.new = s
    /\ active' = s /\ lastKey' = pending /\ rcvGen' = pending.gen
    /\ pending' = NoChange /\ queue' = ResetQueue
    /\ rcvPc' = "switched"
    /\ UNCHANGED <<sndVars, ctlVars, netVars, highest, expired, damage, snap, mainVars,
                   cap>>

\* ... and then, under its own lock, the capability source.
BeginReadiness ==
    /\ rcvPc = "switched"
    /\ cap' = Begin(cap, active, rcvGen)
    /\ rcvPc' = "tick"
    /\ UNCHANGED <<sndVars, ctlVars, netVars, active, pending, highest, lastKey,
                   expired, rcvGen, damage, snap, queue, mainVars>>

\* An incomplete frame expires: begin_damaged_gop_recovery.
DamageGop ==
    /\ rcvPc = "tick" /\ active >= DamagedFrom /\ damage < MaxDamage
    /\ change.seq + damage < MaxEvents
    /\ damage' = damage + 1 /\ queue' = ResetQueue
    /\ UNCHANGED <<sndVars, ctlVars, netVars, rcvPc, active, pending, highest, lastKey,
                   expired, rcvGen, snap, mainVars, cap>>

\* The session of a feedback packet is the reassembler's, the rest is the source's.
SendFeedback ==
    /\ rcvPc = "tick" /\ active # 0 /\ Cardinality(feedback) < MaxFeedback
    /\ feedback' = feedback \cup
          {[seq |-> Cardinality(feedback) + 1, session |-> active, gen |-> cap.gen,
            ready |-> cap.settled /\ ~cap.active /\ cap.phase = "Committed"]}
    /\ UNCHANGED <<sndVars, ctlVars, mprf, acks, rcvVars, queue, mainVars, cap>>

\* update_network_snapshot, at the end of each tick.
PublishSnapshot ==
    /\ rcvPc = "tick"
    /\ snap' = [session |-> active, gen |-> rcvGen, damage |-> damage]
    /\ snap' # snap
    /\ UNCHANGED <<sndVars, ctlVars, netVars, rcvPc, active, pending, highest, lastKey,
                   expired, rcvGen, damage, queue, mainVars, cap>>

-----------------------------------------------------------------------------
(* Receiver main and render threads.                                        *)

\* One turn of the loop up to the report: count what was shown, take all that is
\* queued and decode it.  A Reset closes the decoder (mark_discontinuity); a frame
\* is then dropped while the decoder waits for a keyframe, or decoded, or rejected
\* by the decoder.  The report is due in some turns only.
Decode ==
    /\ mainPc = "drain"
    /\ counted' = (counted \/ rendered) /\ rendered' = FALSE
    /\ LET open == IF queue.reset THEN 0 ELSE decoder IN
       \/ /\ queue.frame = 0 \/ open = 0
          /\ decoder' = open
          /\ UNCHANGED <<input, toRender>>
       \/ /\ queue.frame # 0
          /\ input' = TRUE
          /\ \/ decoder' = queue.frame /\ toRender' = queue.frame
             \/ decoder' = 0 /\ UNCHANGED toRender
    /\ queue' = EmptyQueue
    /\ mainPc' \in {"drain", "report"}
    /\ UNCHANGED <<sndVars, ctlVars, netVars, rcvVars, shown, cap>>

Fail(c) == [c EXCEPT !.phase = "Failed", !.active = FALSE, !.settled = FALSE]

\* The stages of ReceiverReadinessTransition::observe, in its order.
ObserveDamage(c) ==
    LET new == [c EXCEPT !.seenDamage = c.totalDamage] IN
    IF c.totalDamage > c.seenDamage /\ c.phase \in {"AwaitFirstRenderedFrame", "Settling"}
    THEN [new EXCEPT !.phase = "AwaitFirstIdr", !.recovering = TRUE, !.windows = 0,
                     !.renders = FALSE]
    ELSE IF c.totalDamage > c.seenDamage THEN new ELSE c

ObserveIdr(c, idr) ==
    IF ~(c.phase = "AwaitFirstIdr" /\ idr) THEN c
    ELSE IF c.recovering /\ c.restarts >= RECEIVER_MAX_SETTLE_RESTARTS
    THEN Fail(c)
    ELSE [c EXCEPT !.phase = "AwaitFirstRenderedFrame", !.renders = FALSE,
                   !.restarts = IF c.recovering THEN @ + 1 ELSE @, !.recovering = FALSE]

ObserveRender(c) ==
    IF c.phase = "AwaitFirstRenderedFrame" /\ c.renders
    THEN [c EXCEPT !.phase = "Settling"] ELSE c

\* Consecutive progressing windows commit.
ObserveSettle(c, progressing) ==
    IF c.phase # "Settling" THEN c
    ELSE LET n == IF progressing THEN c.windows + 1 ELSE 0 IN
         [c EXCEPT !.windows = n,
                   !.phase = IF n >= SettleWindows THEN "Committed" ELSE @,
                   !.active = n < SettleWindows]

\* late: "phase" or "overall" when that deadline has passed.  A deadline set by
\* this very observation cannot have passed.
Renewed(before, after) ==
    \/ after.phase # before.phase
    \/ after.recovering # before.recovering
    \/ after.restarts # before.restarts

Observe(c, late, idr, progressing) ==
    LET damaged == ObserveDamage(c)
        final   == ObserveSettle(ObserveRender(ObserveIdr(damaged, idr)), progressing)
    IN  IF late = "overall" THEN Fail(damaged)
        ELSE IF late = "phase" /\ final.active /\ ~Renewed(c, final)
        THEN Fail(final)
        ELSE final

\* CapabilityFeedbackSource::update_readiness, with the published snapshot: the
\* network thread may have switched and begun a transition since it published.
Retarget(c) ==
    IF c.session = snap.session /\ c.gen = snap.gen THEN c
    ELSE IF c.session # 0 THEN Begin(c, snap.session, snap.gen)
    ELSE [c EXCEPT !.session = snap.session, !.gen = snap.gen]

UpdateReadiness(late) ==
    LET idr         == decoder # 0
        progressing == counted /\ input
        source      == Retarget([cap EXCEPT !.totalDamage = snap.damage])
        seen        == [source EXCEPT !.renders = @ \/ counted, !.anyRender = @ \/ counted]
        ready       == idr /\ seen.anyRender /\ progressing
        next        == IF seen.active
                       THEN Observe(seen, late, idr, progressing)
                       ELSE [seen EXCEPT !.windows =
                               IF ~ready THEN 0
                               ELSE IF @ < SettleWindows THEN @ + 1 ELSE @]
    IN  IF cap.phase = "Failed" \/ snap.session = 0
        THEN [cap EXCEPT !.totalDamage = snap.damage, !.settled = FALSE,
                         !.windows = IF snap.session = 0 THEN 0 ELSE @]
        ELSE [next EXCEPT !.settled = ready /\ next.windows >= SettleWindows
                                            /\ ~next.active]

Update(late) ==
    /\ mainPc = "report"
    /\ late # "no" => cap.active /\ cap.session = snap.session /\ cap.gen = snap.gen
    /\ cap' = UpdateReadiness(late)
    /\ input' = FALSE /\ counted' = FALSE
    /\ mainPc' = "drain"
    /\ UNCHANGED <<sndVars, ctlVars, netVars, rcvVars, queue, decoder, toRender,
                   rendered, shown>>

\* The newest decoded frame is shown, or dropped as late by the A/V scheduler.
RenderFrame ==
    /\ rcvPc # "stopped" /\ toRender # 0
    /\ toRender' = 0
    /\ \/ shown' = toRender /\ rendered' = TRUE
       \/ UNCHANGED <<shown, rendered>>
    /\ UNCHANGED <<sndVars, ctlVars, netVars, rcvVars, queue, mainPc, decoder,
                   input, counted, cap>>

\* The receiver ends: closed by the peer or the user, or after peer_hard_timeout.
StopReceiver ==
    /\ rcvPc = "tick" /\ mainPc = "drain"
    /\ rcvPc' = "stopped" /\ mainPc' = "stopped"
    /\ cap' = IF cap.active THEN Fail(cap) ELSE cap
    /\ UNCHANGED <<sndVars, ctlVars, netVars, active, pending, highest, lastKey,
                   expired, rcvGen, damage, snap, queue, decoder, input, toRender,
                   rendered, counted, shown>>

-----------------------------------------------------------------------------

SenderNext ==
    \/ StartChange \/ SendControl \/ DrainInbox \/ AckTimeout
    \/ Activate \/ ActivateFails \/ SwitchSender
    \/ CommitChange \/ ReadinessTimeout \/ CancelSender
    \/ \E k \in acks : RxAck(k)
    \/ \E fb \in feedback : RxFeedback(fb)

ReceiverNext ==
    \/ \E c \in mprf : RxChange(c)
    \/ \E s \in 1 .. session : RxVideo(s) \/ SwitchReceiver(s)
    \/ ExpirePending \/ BeginReadiness \/ DamageGop \/ SendFeedback
    \/ PublishSnapshot \/ Decode
    \/ \E late \in {"no", "phase", "overall"} : Update(late)
    \/ RenderFrame \/ StopReceiver

Next == SenderNext \/ ReceiverNext

Spec == Init /\ [][Next]_vars

\* The sender's pipeline thread runs and its deadlines, which no step moves, are
\* reached.  Nothing is assumed of the network or of the receiver.
Fairness ==
    /\ WF_vars(AckTimeout) /\ WF_vars(Activate) /\ WF_vars(SwitchSender)
    /\ WF_vars(ReadinessTimeout)

FairSpec == Spec /\ Fairness

-----------------------------------------------------------------------------
(* Properties.                                                              *)

SenderPhases   == {"Idle", "ControlPending", "AwaitControlAck", "ActivateNewSession",
                   "AwaitReceiverReadiness", "Committed", "Rollback", "Failed"}
ReceiverPhases == {"Idle", "AwaitFirstIdr", "AwaitFirstRenderedFrame", "Settling",
                   "Committed", "Failed"}
Queues         == [reset : BOOLEAN, frame : Sessions \cup {0}]

\* Types of the sender's, the network's and the receiver's state.
TypeOK ==
    /\ sndPc \in {"stream", "control", "acked", "activated", "stopped"}
    /\ phase \in SenderPhases /\ change \in Changes \cup {NoChange}
    /\ ackReceived \in BOOLEAN /\ session \in Sessions
    /\ generation \in 0 .. MaxChanges
    /\ inbox \subseteq acks /\ acks \subseteq mprf /\ mprf \subseteq Changes
    /\ tracker \in feedback \cup {NoFeedback}
    /\ feedback \subseteq Feedback
    /\ rcvPc \in {"tick", "switched", "stopped"} /\ active \in Sessions \cup {0}
    /\ pending \in Changes \cup {NoChange} /\ lastKey \in Changes \cup {NoChange}
    /\ snap \in Snapshot
    /\ queue \in Queues
    /\ mainPc \in {"drain", "report", "stopped"}
    /\ {decoder, toRender, shown} \subseteq Sessions \cup {0}
    /\ cap.phase \in ReceiverPhases /\ cap.windows \in 0 .. SettleWindows
    /\ cap.restarts \in 0 .. RECEIVER_MAX_SETTLE_RESTARTS

\* A change the sender has committed is one the receiver has made: it streams the
\* new session, and a frame of that session is on its screen.  The sender knows
\* only what feedback says, and feedback is built by one thread from flags another
\* computes out of a snapshot of a third (refresh_adaptive_state).
CommitIsMutual == phase = "Committed" => active = session /\ shown = session

\* A change the sender has rolled back has touched neither side: the old session is
\* still the one it sends and the only one the receiver can be on.
RollbackKeepsSession ==
    phase = "Rollback" => session = change.old /\ active \in {0, session}

\* The sender switches only after the receiver accepted this very change; an ACK of
\* an earlier one that the network repeats does not do (observe_ack).
SwitchAfterAccept ==
    phase \in {"ActivateNewSession", "AwaitReceiverReadiness", "Committed"} =>
        highest.seq = change.seq /\ highest.gen = change.gen

\* The receiver never returns to a session it has left, whatever old changes and
\* old packets the network still delivers (observe, activate_if_pending).
NeverBack == [][active' >= active]_vars

\* Every change the sender starts is decided (it never returns to Idle), also when
\* all its packets are lost, the receiver has let it expire or the receiver is gone.
SenderDecides == []<>(phase \in {"Idle", "Committed", "Rollback", "Failed"})
=============================================================================
