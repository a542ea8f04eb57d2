---------------------------- MODULE ProfileProofs ----------------------------
(***************************************************************************)
(* For every number of changes, feedback packets, damaged groups and       *)
(* settling windows: the types, that the sender switches only what the     *)
(* receiver accepted, that a change that was rolled back touched neither   *)
(* side, that the receiver never goes back, and that what the sender has   *)
(* committed is on the receiver's screen.                                  *)
(*                                                                         *)
(* The argument follows one number.  The change of sequence n leads away   *)
(* from session n, so everything in the network is bounded by the sender's *)
(* change, what the receiver accepted by the network, and the session and  *)
(* generation of the receiver by what it accepted.  The last theorem also  *)
(* follows the pictures: see Forward and Evidence.                         *)
(***************************************************************************)
EXTENDS ProfileTransition, FiniteSetTheorems, TLAPS

\* The types TypeOK leaves out, and those of the capability source.
Capability ==
    [session : Sessions \cup {0}, gen : 0 .. MaxChanges, phase : ReceiverPhases,
     active : BOOLEAN, windows : 0 .. SettleWindows, settled : BOOLEAN,
     renders : BOOLEAN, anyRender : BOOLEAN, restarts : 0 .. RECEIVER_MAX_SETTLE_RESTARTS,
     recovering : BOOLEAN, seenDamage : 0 .. MaxDamage, totalDamage : 0 .. MaxDamage]

\* While it is active the readiness machine is in a phase of its own and short of
\* the last window.
Readying == {"AwaitFirstIdr", "AwaitFirstRenderedFrame", "Settling"}
Running(c) ==
    /\ c.active = (c.phase \in Readying)
    /\ c.active => c.windows < SettleWindows
Sound(c) == c \in Capability /\ Running(c)

MoreTypes ==
    /\ IsFiniteSet(feedback)
    /\ highest \in [seq : 0 .. MaxChanges, gen : 0 .. MaxChanges]
    /\ rcvGen \in 0 .. MaxChanges /\ damage \in 0 .. MaxDamage
    /\ input \in BOOLEAN /\ rendered \in BOOLEAN /\ counted \in BOOLEAN
    /\ Sound(cap)

\* Where the sender's thread is says which change it is about, and from which
\* session.
Started == change \in Changes /\ session = change.old
Arrived == change \in Changes /\ session = change.new /\ generation = change.gen

SenderAt ==
    /\ sndPc = "stream" =>
          \/ phase = "Idle" /\ change = NoChange /\ session = 1
          \/ phase \in {"AwaitReceiverReadiness", "Committed"} /\ Arrived /\ ackReceived
    /\ sndPc = "control" =>
          phase \in {"ControlPending", "AwaitControlAck"} /\ Started /\ ~ackReceived
    /\ sndPc = "acked" => phase = "ActivateNewSession" /\ Started /\ ackReceived
    /\ sndPc = "activated" => phase = "AwaitReceiverReadiness" /\ Started /\ ackReceived
    /\ sndPc = "stopped" => phase \in {"Idle", "Committed", "Rollback", "Failed"}
    /\ phase = "Rollback" => Started
    /\ phase = "Committed" => Arrived
    /\ phase = "Idle" => session = 1

\* Every change in the network is the sender's or older, every one that was
\* acknowledged is accepted or older, and one that waits is the last accepted.
Handed ==
    /\ \A c \in mprf : c.seq <= change.seq
    /\ \A k \in acks : k.seq <= highest.seq
    /\ highest.seq = highest.gen /\ highest.seq <= change.seq
    /\ lastKey.seq <= highest.seq
    /\ pending # NoChange => pending.seq = highest.seq /\ pending.old = active

\* The generation of the receiver is that of its session, and no other part of it
\* is ahead.
Generations ==
    /\ active <= session
    /\ rcvGen # 0 => active = rcvGen + 1
    /\ cap.gen <= rcvGen /\ snap.gen <= rcvGen
    /\ \A fb \in feedback : fb.gen <= rcvGen

\* Before the sender switches, and once it has committed, the receiver is where the
\* sender is, or has seen nothing of the stream's first session yet.
Level ==
    phase \notin {"AwaitReceiverReadiness", "Failed"}
        => active = session \/ (active = 0 /\ session = 1)

IInv ==
    /\ TypeOK /\ MoreTypes
    /\ SenderAt /\ Handed /\ Generations /\ Level /\ SwitchAfterAccept

-----------------------------------------------------------------------------
(* What a commit proves of the screen.  Frames move forward to the screen; a   *)
(* frame of a session the readiness machine has left behind may still wait to  *)
(* be shown, or have been shown and not been counted, when the machine begins. *)

\* Each stage on the way to the screen holds no newer session than the one before.
Forward ==
    /\ queue.frame \in {0, active}
    /\ toRender <= active /\ shown <= active
    /\ toRender # 0 => shown <= toRender
    /\ rendered => toRender = 0
    /\ rcvPc = "switched" \/ snap.session # 0 \/ cap.phase # "Idle" => active # 0
    /\ cap.session = 0 => cap.phase = "Idle"

\* The screen shows the session of generation g, or a later one.
Shows(g) == shown > g

\* The places where what was shown of an earlier session is still to be noticed.
Waits(g)   == toRender # 0 /\ toRender <= g
AtMostOne(g) == ~(Waits(g) /\ rendered) /\ ~(Waits(g) /\ counted) /\ ~(rendered /\ counted)
NoneLeft(g)  == ~Waits(g) /\ ~rendered /\ ~counted

\* The first report that finds pictures may have counted the last one of the earlier
\* session; by then there is none left, so the second window is about the new one.
Evidence ==
    /\ cap.phase \in {"AwaitFirstIdr", "AwaitFirstRenderedFrame"} => cap.windows = 0
    /\ cap.phase = "AwaitFirstRenderedFrame" =>
          ~cap.renders /\ (Shows(cap.gen) \/ AtMostOne(cap.gen))
    /\ cap.phase = "Settling" =>
          Shows(cap.gen) \/ (NoneLeft(cap.gen) /\ cap.windows <= 1)
    /\ cap.phase = "Committed" => Shows(cap.gen)
    /\ \A fb \in feedback : fb.ready => Shows(fb.gen)

CommitInv == IInv /\ Forward /\ Evidence /\ CommitIsMutual

-----------------------------------------------------------------------------
\* The stream begins in its first session, with nothing announced.
LEMMA ProfileInit == Init => IInv
<1>. SUFFICES ASSUME Init PROVE IInv
  OBVIOUS
<1>. USE ChangesAssumption, DamageAssumption, SettleAssumption
<1>1. TypeOK
  <2>1. snap \in Snapshot /\ queue \in Queues
    BY DEF Init, Snapshot, Queues, EmptyQueue, Sessions
  <2>2. cap.phase \in ReceiverPhases /\ cap.windows \in 0 .. SettleWindows
        /\ cap.restarts \in 0 .. RECEIVER_MAX_SETTLE_RESTARTS
    BY DEF Init, ReceiverPhases, RECEIVER_MAX_SETTLE_RESTARTS
  <2>3. /\ sndPc = "stream" /\ phase \in SenderPhases
        /\ session \in Sessions /\ generation \in 0 .. MaxChanges
        /\ active \in Sessions \cup {0}
        /\ {decoder, toRender, shown} \subseteq Sessions \cup {0}
    BY DEF Init, SenderPhases, Sessions
  <2>. QED  BY <2>1, <2>2, <2>3 DEF Init, TypeOK
<1>2. MoreTypes
  <2>1. cap \in Capability /\ cap.active = FALSE /\ (cap.phase \in Readying) = FALSE
    BY DEF Init, Readying, Capability, ReceiverPhases, Sessions, RECEIVER_MAX_SETTLE_RESTARTS
  <2>2. /\ feedback = {} /\ highest \in [seq : 0 .. MaxChanges, gen : 0 .. MaxChanges]
        /\ rcvGen \in 0 .. MaxChanges /\ damage \in 0 .. MaxDamage
    BY DEF Init
  <2>3. input \in BOOLEAN /\ rendered \in BOOLEAN /\ counted \in BOOLEAN
    BY DEF Init
  <2>. QED  BY <2>1, <2>2, <2>3, FS_EmptySet DEF MoreTypes, Sound, Running
<1>3. SenderAt /\ Level /\ SwitchAfterAccept
  BY DEF Init, SenderAt, Level, SwitchAfterAccept
<1>4. Handed /\ Generations
  BY DEF Init, Handed, Generations, NoChange
<1>. QED  BY <1>1, <1>2, <1>3, <1>4 DEF IInv

\* The sender's thread goes from place to place.
LEMMA SenderSteps ==
    ASSUME IInv, StartChange \/ SendControl \/ DrainInbox \/ AckTimeout \/ Activate
              \/ ActivateFails \/ SwitchSender \/ CommitChange \/ ReadinessTimeout
              \/ CancelSender
    PROVE  IInv'
<1>. USE ChangesAssumption
<1>1. UNCHANGED <<feedback, rcvVars, queue, mainVars, cap>>
  BY DEF StartChange, SendControl, DrainInbox, AckTimeout, Activate, ActivateFails,
         SwitchSender, CommitChange, ReadinessTimeout, CancelSender, netVars
<1>2. MoreTypes'
  BY <1>1 DEF IInv, MoreTypes, rcvVars, mainVars
<1>3. CASE StartChange
  <2>1. TypeOK'
    <3>1. change' \in Changes
      BY <1>3 DEF IInv, TypeOK, StartChange, Changes, Sessions
    <3>. QED  BY <3>1, <1>3, <1>1 DEF IInv, TypeOK, SenderAt, Started, Arrived, StartChange, sndVars, ctlVars, netVars, rcvVars,
       mainVars, Change, Changes, NoChange, NoFeedback, SenderPhases, Sessions
  <2>2. SenderAt'
    BY <1>3 DEF IInv, TypeOK, SenderAt, Started, Arrived, Change, Changes, NoChange, StartChange, ctlVars, netVars, Sessions
  <2>3. Handed'
    BY <1>3, <1>1 DEF IInv, TypeOK, MoreTypes, Handed, SenderAt, Started, Arrived, Change, Changes, NoChange, StartChange,
       ctlVars, netVars, rcvVars
  <2>4. Generations'
    BY <1>3, <1>1 DEF IInv, TypeOK, Generations, SenderAt, Started, Arrived, Change, Changes, Sessions, StartChange, rcvVars
  <2>5. Level'
    BY <1>3, <1>1 DEF IInv, TypeOK, MoreTypes, Generations, Level, SenderAt, Started, Arrived, Change, Changes, Sessions, NoFeedback, StartChange, rcvVars
  <2>6. SwitchAfterAccept'
    BY <1>3, <1>1 DEF IInv, TypeOK, MoreTypes, SwitchAfterAccept, Handed, SenderAt, Started, Change, Changes, StartChange, rcvVars
  <2>. QED  BY <1>2, <2>1, <2>2, <2>3, <2>4, <2>5, <2>6 DEF IInv
<1>4. CASE SendControl
  <2>1. TypeOK'
    BY <1>4, <1>1 DEF IInv, TypeOK, SenderAt, Started, Arrived, SendControl, ControlDue, sndVars, ctlVars, netVars, rcvVars,
       mainVars, Change, Changes, NoChange, NoFeedback, SenderPhases, Sessions
  <2>2. SenderAt'
    BY <1>4 DEF IInv, TypeOK, SenderAt, Started, Arrived, Change, Changes, NoChange, SendControl, ControlDue, ctlVars, netVars, Sessions
  <2>3. Handed'
    BY <1>4, <1>1 DEF IInv, TypeOK, MoreTypes, Handed, SenderAt, Started, Arrived, Change, Changes, NoChange, SendControl, ControlDue,
       ctlVars, netVars, rcvVars
  <2>4. Generations'
    BY <1>4, <1>1 DEF IInv, TypeOK, Generations, SenderAt, Started, Arrived, Change, Changes, Sessions, SendControl, ControlDue, rcvVars
  <2>5. Level'
    BY <1>4, <1>1 DEF IInv, TypeOK, MoreTypes, Generations, Level, SenderAt, Started, Arrived, Change, Changes, Sessions, NoFeedback, SendControl, ControlDue, rcvVars
  <2>6. SwitchAfterAccept'
    BY <1>4, <1>1 DEF IInv, TypeOK, MoreTypes, SwitchAfterAccept, Handed, SenderAt, Started, Change, Changes, SendControl, ControlDue, rcvVars
  <2>. QED  BY <1>2, <2>1, <2>2, <2>3, <2>4, <2>5, <2>6 DEF IInv
<1>5. CASE DrainInbox
  <2>1. TypeOK'
    BY <1>5, <1>1 DEF IInv, TypeOK, SenderAt, Started, Arrived, DrainInbox, Accepts, MatchesAck, sndVars, ctlVars, netVars, rcvVars,
       mainVars, Change, Changes, NoChange, NoFeedback, SenderPhases, Sessions
  <2>2. SenderAt'
    BY <1>5 DEF IInv, TypeOK, SenderAt, Started, Arrived, Change, Changes, NoChange, DrainInbox, Accepts, MatchesAck, ctlVars, netVars, Sessions
  <2>3. Handed'
    BY <1>5, <1>1 DEF IInv, TypeOK, MoreTypes, Handed, SenderAt, Started, Arrived, Change, Changes, NoChange, DrainInbox, Accepts, MatchesAck,
       ctlVars, netVars, rcvVars
  <2>4. Generations'
    BY <1>5, <1>1 DEF IInv, TypeOK, Generations, SenderAt, Started, Arrived, Change, Changes, Sessions, DrainInbox, Accepts, MatchesAck, rcvVars
  <2>5. Level'
    BY <1>5, <1>1 DEF IInv, TypeOK, MoreTypes, Generations, Level, SenderAt, Started, Arrived, Change, Changes, Sessions, NoFeedback, DrainInbox, Accepts, MatchesAck, rcvVars
  <2>6. SwitchAfterAccept'
    BY <1>5, <1>1 DEF IInv, TypeOK, MoreTypes, SwitchAfterAccept, Handed, SenderAt, Started, Change, Changes, DrainInbox, Accepts, MatchesAck, rcvVars
  <2>. QED  BY <1>2, <2>1, <2>2, <2>3, <2>4, <2>5, <2>6 DEF IInv
<1>6. CASE AckTimeout
  <2>1. TypeOK'
    BY <1>6, <1>1 DEF IInv, TypeOK, SenderAt, Started, Arrived, AckTimeout, CheckDeadline, Stop, Cancelled, sndVars, ctlVars, netVars, rcvVars,
       mainVars, Change, Changes, NoChange, NoFeedback, SenderPhases, Sessions
  <2>2. SenderAt'
    BY <1>6 DEF IInv, TypeOK, SenderAt, Started, Arrived, Change, Changes, NoChange, AckTimeout, CheckDeadline, Stop, Cancelled, ctlVars, netVars, Sessions
  <2>3. Handed'
    BY <1>6, <1>1 DEF IInv, TypeOK, MoreTypes, Handed, SenderAt, Started, Arrived, Change, Changes, NoChange, AckTimeout, CheckDeadline, Stop, Cancelled,
       ctlVars, netVars, rcvVars
  <2>4. Generations'
    BY <1>6, <1>1 DEF IInv, TypeOK, Generations, SenderAt, Started, Arrived, Change, Changes, Sessions, AckTimeout, CheckDeadline, Stop, Cancelled, rcvVars
  <2>5. Level'
    BY <1>6, <1>1 DEF IInv, TypeOK, MoreTypes, Generations, Level, SenderAt, Started, Arrived, Change, Changes, Sessions, NoFeedback, AckTimeout, CheckDeadline, Stop, Cancelled, rcvVars
  <2>6. SwitchAfterAccept'
    BY <1>6, <1>1 DEF IInv, TypeOK, MoreTypes, SwitchAfterAccept, Handed, SenderAt, Started, Change, Changes, AckTimeout, CheckDeadline, Stop, Cancelled, rcvVars
  <2>. QED  BY <1>2, <2>1, <2>2, <2>3, <2>4, <2>5, <2>6 DEF IInv
<1>7. CASE Activate
  <2>1. TypeOK'
    BY <1>7, <1>1 DEF IInv, TypeOK, SenderAt, Started, Arrived, Activate, sndVars, ctlVars, netVars, rcvVars,
       mainVars, Change, Changes, NoChange, NoFeedback, SenderPhases, Sessions
  <2>2. SenderAt'
    BY <1>7 DEF IInv, TypeOK, SenderAt, Started, Arrived, Change, Changes, NoChange, Activate, ctlVars, netVars, Sessions
  <2>3. Handed'
    BY <1>7, <1>1 DEF IInv, TypeOK, MoreTypes, Handed, SenderAt, Started, Arrived, Change, Changes, NoChange, Activate,
       ctlVars, netVars, rcvVars
  <2>4. Generations'
    BY <1>7, <1>1 DEF IInv, TypeOK, Generations, SenderAt, Started, Arrived, Change, Changes, Sessions, Activate, rcvVars
  <2>5. Level'
    BY <1>7, <1>1 DEF IInv, TypeOK, MoreTypes, Generations, Level, SenderAt, Started, Arrived, Change, Changes, Sessions, NoFeedback, Activate, rcvVars
  <2>6. SwitchAfterAccept'
    BY <1>7, <1>1 DEF IInv, TypeOK, MoreTypes, SwitchAfterAccept, Handed, SenderAt, Started, Change, Changes, Activate, rcvVars
  <2>. QED  BY <1>2, <2>1, <2>2, <2>3, <2>4, <2>5, <2>6 DEF IInv
<1>8. CASE ActivateFails
  <2>1. TypeOK'
    BY <1>8, <1>1 DEF IInv, TypeOK, SenderAt, Started, Arrived, ActivateFails, Stop, Cancelled, sndVars, ctlVars, netVars, rcvVars,
       mainVars, Change, Changes, NoChange, NoFeedback, SenderPhases, Sessions
  <2>2. SenderAt'
    BY <1>8 DEF IInv, TypeOK, SenderAt, Started, Arrived, Change, Changes, NoChange, ActivateFails, Stop, Cancelled, ctlVars, netVars, Sessions
  <2>3. Handed'
    BY <1>8, <1>1 DEF IInv, TypeOK, MoreTypes, Handed, SenderAt, Started, Arrived, Change, Changes, NoChange, ActivateFails, Stop, Cancelled,
       ctlVars, netVars, rcvVars
  <2>4. Generations'
    BY <1>8, <1>1 DEF IInv, TypeOK, Generations, SenderAt, Started, Arrived, Change, Changes, Sessions, ActivateFails, Stop, Cancelled, rcvVars
  <2>5. Level'
    BY <1>8, <1>1 DEF IInv, TypeOK, MoreTypes, Generations, Level, SenderAt, Started, Arrived, Change, Changes, Sessions, NoFeedback, ActivateFails, Stop, Cancelled, rcvVars
  <2>6. SwitchAfterAccept'
    BY <1>8, <1>1 DEF IInv, TypeOK, MoreTypes, SwitchAfterAccept, Handed, SenderAt, Started, Change, Changes, ActivateFails, Stop, Cancelled, rcvVars
  <2>. QED  BY <1>2, <2>1, <2>2, <2>3, <2>4, <2>5, <2>6 DEF IInv
<1>9. CASE SwitchSender
  <2>1. TypeOK'
    BY <1>9, <1>1 DEF IInv, TypeOK, SenderAt, Started, Arrived, SwitchSender, sndVars, ctlVars, netVars, rcvVars,
       mainVars, Change, Changes, NoChange, NoFeedback, SenderPhases, Sessions
  <2>2. SenderAt'
    BY <1>9 DEF IInv, TypeOK, SenderAt, Started, Arrived, Change, Changes, NoChange, SwitchSender, ctlVars, netVars, Sessions
  <2>3. Handed'
    BY <1>9, <1>1 DEF IInv, TypeOK, MoreTypes, Handed, SenderAt, Started, Arrived, Change, Changes, NoChange, SwitchSender,
       ctlVars, netVars, rcvVars
  <2>4. Generations'
    BY <1>9, <1>1 DEF IInv, TypeOK, Generations, SenderAt, Started, Arrived, Change, Changes, Sessions, SwitchSender, rcvVars
  <2>5. Level'
    BY <1>9, <1>1 DEF IInv, TypeOK, MoreTypes, Generations, Level, SenderAt, Started, Arrived, Change, Changes, Sessions, NoFeedback, SwitchSender, rcvVars
  <2>6. SwitchAfterAccept'
    BY <1>9, <1>1 DEF IInv, TypeOK, MoreTypes, SwitchAfterAccept, Handed, SenderAt, Started, Change, Changes, SwitchSender, rcvVars
  <2>. QED  BY <1>2, <2>1, <2>2, <2>3, <2>4, <2>5, <2>6 DEF IInv
<1>10. CASE CommitChange
  <2>1. TypeOK'
    BY <1>10, <1>1 DEF IInv, TypeOK, SenderAt, Started, Arrived, CommitChange, GenerationMatches, sndVars, ctlVars, netVars, rcvVars,
       mainVars, Change, Changes, NoChange, NoFeedback, SenderPhases, Sessions
  <2>2. SenderAt'
    BY <1>10 DEF IInv, TypeOK, SenderAt, Started, Arrived, Change, Changes, NoChange, CommitChange, GenerationMatches, ctlVars, netVars, Sessions
  <2>3. Handed'
    BY <1>10, <1>1 DEF IInv, TypeOK, MoreTypes, Handed, SenderAt, Started, Arrived, Change, Changes, NoChange, CommitChange, GenerationMatches,
       ctlVars, netVars, rcvVars
  <2>4. Generations'
    BY <1>10, <1>1 DEF IInv, TypeOK, Generations, SenderAt, Started, Arrived, Change, Changes, Sessions, CommitChange, GenerationMatches, rcvVars
  <2>5. Level'
    BY <1>10, <1>1 DEF IInv, TypeOK, MoreTypes, Generations, Level, SenderAt, Started, Arrived, Change, Changes, Sessions, NoFeedback, CommitChange, GenerationMatches, rcvVars
  <2>6. SwitchAfterAccept'
    BY <1>10, <1>1 DEF IInv, TypeOK, MoreTypes, SwitchAfterAccept, Handed, SenderAt, Started, Change, Changes, CommitChange, GenerationMatches, rcvVars
  <2>. QED  BY <1>2, <2>1, <2>2, <2>3, <2>4, <2>5, <2>6 DEF IInv
<1>11. CASE ReadinessTimeout
  <2>1. TypeOK'
    BY <1>11, <1>1 DEF IInv, TypeOK, SenderAt, Started, Arrived, ReadinessTimeout, CheckDeadline, Stop, Cancelled, sndVars, ctlVars, netVars, rcvVars,
       mainVars, Change, Changes, NoChange, NoFeedback, SenderPhases, Sessions
  <2>2. SenderAt'
    BY <1>11 DEF IInv, TypeOK, SenderAt, Started, Arrived, Change, Changes, NoChange, ReadinessTimeout, CheckDeadline, Stop, Cancelled, ctlVars, netVars, Sessions
  <2>3. Handed'
    BY <1>11, <1>1 DEF IInv, TypeOK, MoreTypes, Handed, SenderAt, Started, Arrived, Change, Changes, NoChange, ReadinessTimeout, CheckDeadline, Stop, Cancelled,
       ctlVars, netVars, rcvVars
  <2>4. Generations'
    BY <1>11, <1>1 DEF IInv, TypeOK, Generations, SenderAt, Started, Arrived, Change, Changes, Sessions, ReadinessTimeout, CheckDeadline, Stop, Cancelled, rcvVars
  <2>5. Level'
    BY <1>11, <1>1 DEF IInv, TypeOK, MoreTypes, Generations, Level, SenderAt, Started, Arrived, Change, Changes, Sessions, NoFeedback, ReadinessTimeout, CheckDeadline, Stop, Cancelled, rcvVars
  <2>6. SwitchAfterAccept'
    BY <1>11, <1>1 DEF IInv, TypeOK, MoreTypes, SwitchAfterAccept, Handed, SenderAt, Started, Change, Changes, ReadinessTimeout, CheckDeadline, Stop, Cancelled, rcvVars
  <2>. QED  BY <1>2, <2>1, <2>2, <2>3, <2>4, <2>5, <2>6 DEF IInv
<1>12. CASE CancelSender
  <2>1. TypeOK'
    BY <1>12, <1>1 DEF IInv, TypeOK, SenderAt, Started, Arrived, CancelSender, Stop, Cancelled, sndVars, ctlVars, netVars, rcvVars,
       mainVars, Change, Changes, NoChange, NoFeedback, SenderPhases, Sessions
  <2>2. SenderAt'
    BY <1>12 DEF IInv, TypeOK, SenderAt, Started, Arrived, Change, Changes, NoChange, CancelSender, Stop, Cancelled, ctlVars, netVars, Sessions
  <2>3. Handed'
    BY <1>12, <1>1 DEF IInv, TypeOK, MoreTypes, Handed, SenderAt, Started, Arrived, Change, Changes, NoChange, CancelSender, Stop, Cancelled,
       ctlVars, netVars, rcvVars
  <2>4. Generations'
    BY <1>12, <1>1 DEF IInv, TypeOK, Generations, SenderAt, Started, Arrived, Change, Changes, Sessions, CancelSender, Stop, Cancelled, rcvVars
  <2>5. Level'
    BY <1>12, <1>1 DEF IInv, TypeOK, MoreTypes, Generations, Level, SenderAt, Started, Arrived, Change, Changes, Sessions, NoFeedback, CancelSender, Stop, Cancelled, rcvVars
  <2>6. SwitchAfterAccept'
    BY <1>12, <1>1 DEF IInv, TypeOK, MoreTypes, SwitchAfterAccept, Handed, SenderAt, Started, Change, Changes, CancelSender, Stop, Cancelled, rcvVars
  <2>. QED  BY <1>2, <2>1, <2>2, <2>3, <2>4, <2>5, <2>6 DEF IInv
<1>. QED  BY <1>3, <1>4, <1>5, <1>6, <1>7, <1>8, <1>9, <1>10, <1>11, <1>12

\* The sender's control thread only hands over what is in the network.
LEMMA ControlSteps ==
    ASSUME IInv, (\E k \in acks : RxAck(k)) \/ (\E fb \in feedback : RxFeedback(fb))
    PROVE  IInv'
<1>1. UNCHANGED <<sndVars, netVars, rcvVars, queue, mainVars, cap>>
  BY DEF RxAck, RxFeedback
<1>2. inbox' \subseteq acks /\ tracker' \in feedback \cup {NoFeedback}
  BY DEF RxAck, RxFeedback, IInv, TypeOK
<1>3. TypeOK'
  BY <1>1, <1>2 DEF IInv, TypeOK, sndVars, netVars, rcvVars, mainVars
<1>4. (MoreTypes /\ SenderAt /\ Handed)'
  BY <1>1 DEF IInv, MoreTypes, SenderAt, Started, Arrived, Handed, sndVars, netVars, rcvVars,
              mainVars
<1>5. (Generations /\ Level /\ SwitchAfterAccept)'
  BY <1>1 DEF IInv, Generations, Level, SwitchAfterAccept, sndVars, netVars, rcvVars
<1>. QED  BY <1>3, <1>4, <1>5 DEF IInv

\* Facts about the limits and the phases that the lemmas on the readiness machine share.
LEMMA Small ==
    /\ \A n \in {0, 1} : n \in 0 .. RECEIVER_MAX_SETTLE_RESTARTS
    /\ 0 \in 0 .. SettleWindows /\ 0 < SettleWindows
    /\ {"Committed", "Failed"} \cup Readying \subseteq ReceiverPhases
  BY SettleAssumption DEF RECEIVER_MAX_SETTLE_RESTARTS, ReceiverPhases, Readying

\* A transition begins in a sound state, with nothing counted.
LEMMA BeginFields ==
    ASSUME NEW c \in Capability, NEW s \in Sessions \cup {0}, NEW g \in 0 .. MaxChanges
    PROVE  /\ Begin(c, s, g) \in Capability
           /\ Begin(c, s, g).session = s /\ Begin(c, s, g).gen = g
           /\ Begin(c, s, g).phase = "AwaitFirstIdr" /\ Begin(c, s, g).windows = 0
           /\ Begin(c, s, g).active /\ ~Begin(c, s, g).renders
<1>1. c.totalDamage \in 0 .. MaxDamage
  BY DEF Capability
<1>2. ReadinessBegin(c) \in Capability
  BY <1>1, Small DEF Capability, ReadinessBegin, Readying
<1>3. /\ ReadinessBegin(c).phase = "AwaitFirstIdr" /\ ReadinessBegin(c).windows = 0
      /\ ReadinessBegin(c).active = TRUE /\ ReadinessBegin(c).renders = FALSE
  BY DEF Capability, ReadinessBegin
<1>. QED  BY <1>2, <1>3 DEF Capability, Begin

\* The readiness machine begins sound, whatever it was before.
LEMMA BeginIsSound ==
    ASSUME NEW c \in Capability, NEW s \in Sessions \cup {0}, NEW g \in 0 .. MaxChanges
    PROVE  Sound(Begin(c, s, g)) /\ Begin(c, s, g).gen = g
<1>. DEFINE d == Begin(c, s, g)
<1>1. /\ d \in Capability /\ d.gen = g /\ d.phase = "AwaitFirstIdr"
      /\ d.windows = 0 /\ d.active
  BY BeginFields
<1>. HIDE DEF d
<1>2. d.active = TRUE
  BY <1>1 DEF Capability
<1>. QED  BY <1>1, <1>2, Small DEF Sound, Running, Readying, d

\* Every stage of an observation keeps the machine sound and on its generation.
LEMMA FailIsSound ==
    ASSUME NEW c \in Capability
    PROVE  Sound(Fail(c)) /\ Fail(c).gen = c.gen
<1>1. Fail(c) \in Capability
  BY Small DEF Capability, Fail
<1>2. Fail(c).active = FALSE /\ Fail(c).phase = "Failed" /\ Fail(c).gen = c.gen
  BY DEF Capability, Fail
<1>3. (Fail(c).phase \in Readying) = FALSE
  BY <1>2 DEF Readying
<1>. QED  BY <1>1, <1>2, <1>3 DEF Sound, Running

\* A damaged group of pictures at most takes the machine back to its first phase.
LEMMA ObserveDamageIsSound ==
    ASSUME NEW c, Sound(c)
    PROVE  Sound(ObserveDamage(c)) /\ ObserveDamage(c).gen = c.gen
<1>1. c \in Capability /\ c.totalDamage \in 0 .. MaxDamage
  BY DEF Sound, Capability
<1>. DEFINE new   == [c EXCEPT !.seenDamage = c.totalDamage]
            again == [new EXCEPT !.phase = "AwaitFirstIdr", !.recovering = TRUE, !.windows = 0,
                                 !.renders = FALSE]
<1>2. /\ new \in Capability /\ new.gen = c.gen
      /\ new.active = c.active /\ new.phase = c.phase /\ new.windows = c.windows
  BY <1>1 DEF Capability
<1>3. again \in Capability /\ again.gen = c.gen
  BY <1>2, Small DEF Capability, Readying
<1>4. again.phase = "AwaitFirstIdr" /\ again.windows = 0 /\ again.active = c.active
  BY <1>2 DEF Capability
<1>5. CASE c.totalDamage > c.seenDamage /\ c.phase \in {"AwaitFirstRenderedFrame", "Settling"}
  <2>1. ObserveDamage(c) = again
    BY <1>5 DEF ObserveDamage
  <2>2. c.active = TRUE
    BY <1>5 DEF Sound, Running, Readying
  <2>. QED  BY <2>1, <2>2, <1>3, <1>4, Small DEF Sound, Running, Readying
<1>6. CASE ~(c.totalDamage > c.seenDamage /\ c.phase \in {"AwaitFirstRenderedFrame", "Settling"})
  <2>1. ObserveDamage(c) \in {new, c}
    BY <1>6 DEF ObserveDamage
  <2>2. Running(new)
    BY <1>2 DEF Sound, Running
  <2>. QED  BY <2>1, <2>2, <1>2 DEF Sound
<1>. QED  BY <1>5, <1>6

\* The first keyframe that is decoded moves the machine on by one phase, or fails it.
LEMMA ObserveIdrIsSound ==
    ASSUME NEW c, Sound(c), NEW idr \in BOOLEAN
    PROVE  Sound(ObserveIdr(c, idr)) /\ ObserveIdr(c, idr).gen = c.gen
<1>1. c \in Capability /\ c.restarts \in {0, 1}
  BY DEF Sound, Capability, RECEIVER_MAX_SETTLE_RESTARTS
<1>. DEFINE n    == IF c.recovering THEN c.restarts + 1 ELSE c.restarts
            next == [c EXCEPT !.phase = "AwaitFirstRenderedFrame", !.renders = FALSE,
                              !.restarts = n, !.recovering = FALSE]
<1>2. CASE ObserveIdr(c, idr) \in {c, Fail(c)}
  BY <1>1, <1>2, FailIsSound
<1>3. CASE ObserveIdr(c, idr) \notin {c, Fail(c)}
  <2>1. /\ c.phase = "AwaitFirstIdr" /\ ObserveIdr(c, idr) = next
        /\ ~(c.recovering /\ c.restarts >= RECEIVER_MAX_SETTLE_RESTARTS)
    BY <1>3 DEF ObserveIdr
  <2>2. n \in {0, 1}
    BY <1>1, <2>1 DEF RECEIVER_MAX_SETTLE_RESTARTS
  <2>3. next \in Capability
    BY <1>1, <2>2, Small DEF Capability, Readying
  <2>4. /\ next.active = c.active /\ next.phase = "AwaitFirstRenderedFrame"
        /\ next.windows = c.windows /\ next.gen = c.gen
    BY <1>1 DEF Capability
  <2>5. c.active = TRUE /\ c.windows < SettleWindows
    BY <2>1 DEF Sound, Running, Readying
  <2>. QED  BY <2>1, <2>3, <2>4, <2>5 DEF Sound, Running, Readying
<1>. QED  BY <1>2, <1>3

\* So does the first picture that is shown.
LEMMA ObserveRenderIsSound ==
    ASSUME NEW c, Sound(c)
    PROVE  Sound(ObserveRender(c)) /\ ObserveRender(c).gen = c.gen
<1>. DEFINE next == [c EXCEPT !.phase = "Settling"]
<1>1. c \in Capability
  BY DEF Sound
<1>2. /\ next \in Capability /\ next.gen = c.gen /\ next.active = c.active
      /\ next.phase = "Settling" /\ next.windows = c.windows
  BY <1>1, Small DEF Capability, Readying
<1>3. c.phase = "AwaitFirstRenderedFrame" => Sound(next)
  BY <1>2 DEF Sound, Running, Readying
<1>. QED  BY <1>2, <1>3 DEF ObserveRender

\* A window with progress counts, the last of them commits, and one without starts the count anew.
LEMMA ObserveSettleIsSound ==
    ASSUME NEW c, Sound(c), NEW progressing \in BOOLEAN
    PROVE  /\ Sound(ObserveSettle(c, progressing))
           /\ ObserveSettle(c, progressing).gen = c.gen
<1>. DEFINE n    == IF progressing THEN c.windows + 1 ELSE 0
            last == n >= SettleWindows
            next == [c EXCEPT !.windows = n, !.phase = IF last THEN "Committed" ELSE c.phase,
                              !.active = n < SettleWindows]
<1>1. c \in Capability /\ c.windows \in 0 .. SettleWindows /\ c.phase \in ReceiverPhases
  BY DEF Sound, Capability
<1>2. CASE c.phase = "Settling"
  <2>1. c.windows < SettleWindows
    BY <1>2 DEF Sound, Running, Readying
  <2>2. n \in 0 .. SettleWindows
    BY <2>1, <1>1, SettleAssumption
  <2>3. (n < SettleWindows) \in BOOLEAN /\ (IF last THEN "Committed" ELSE c.phase) \in ReceiverPhases
    BY <1>1, Small
  <2>4. next \in Capability
    BY <1>1, <2>2, <2>3 DEF Capability
  <2>5. /\ next.active = (n < SettleWindows) /\ next.windows = n /\ next.gen = c.gen
        /\ next.phase = IF last THEN "Committed" ELSE c.phase
    BY <1>1 DEF Capability
  <2>6. ObserveSettle(c, progressing) = next
    BY <1>2 DEF ObserveSettle
  <2>7. Running(next)
    <3>1. CASE last
      <4>1. next.phase = "Committed" /\ (n < SettleWindows) = FALSE
        BY <3>1, <2>2, <2>5, SettleAssumption
      <4>2. (next.phase \in Readying) = FALSE
        BY <4>1 DEF Readying
      <4>. QED  BY <4>1, <4>2, <2>5 DEF Running
    <3>2. CASE ~last
      BY <3>2, <2>2, <2>5, <1>2, SettleAssumption DEF Running, Readying
    <3>. QED  BY <3>1, <3>2
  <2>. QED  BY <2>4, <2>5, <2>6, <2>7 DEF Sound
<1>3. CASE c.phase # "Settling"
  BY <1>3 DEF ObserveSettle
<1>. QED  BY <1>2, <1>3
\* What the main thread makes of the capability source.
LEMMA UpdateIsSound ==
    ASSUME IInv, NEW late \in {"no", "phase", "overall"}
    PROVE  Sound(UpdateReadiness(late)) /\ UpdateReadiness(late).gen <= rcvGen
<1>. DEFINE idr         == decoder # 0
            progressing == counted /\ input
            told        == [cap EXCEPT !.totalDamage = snap.damage]
            source      == Retarget(told)
            seen        == [source EXCEPT !.renders = @ \/ counted, !.anyRender = @ \/ counted]
            ready       == idr /\ seen.anyRender /\ progressing
            windows     == IF ~ready THEN 0
                           ELSE IF seen.windows < SettleWindows THEN seen.windows + 1
                           ELSE seen.windows
            next        == IF seen.active THEN Observe(seen, late, idr, progressing)
                           ELSE [seen EXCEPT !.windows = windows]
<1>1. /\ Sound(cap) /\ cap \in Capability /\ cap.gen <= rcvGen
      /\ snap.session \in Sessions \cup {0} /\ snap.gen \in 0 .. MaxChanges
      /\ snap.damage \in 0 .. MaxDamage /\ snap.gen <= rcvGen
      /\ idr \in BOOLEAN /\ progressing \in BOOLEAN /\ counted \in BOOLEAN
  BY DEF IInv, TypeOK, MoreTypes, Generations, Sound, Snapshot
<1>2. /\ told \in Capability /\ told.gen = cap.gen /\ told.active = cap.active
      /\ told.phase = cap.phase /\ told.windows = cap.windows
  BY <1>1 DEF Capability
<1>3. Sound(source) /\ source.gen <= rcvGen
  <2>. DEFINE bound == [told EXCEPT !.session = snap.session, !.gen = snap.gen]
  <2>1. /\ bound \in Capability /\ bound.gen = snap.gen /\ bound.active = told.active
        /\ bound.phase = told.phase /\ bound.windows = told.windows
    BY <1>1, <1>2 DEF Capability
  <2>2. Sound(told) /\ Sound(bound)
    BY <1>1, <1>2, <2>1 DEF Sound, Running
  <2>3. Sound(Begin(told, snap.session, snap.gen))
        /\ Begin(told, snap.session, snap.gen).gen = snap.gen
    BY <1>1, <1>2, BeginIsSound
  <2>4. source \in {told, bound, Begin(told, snap.session, snap.gen)}
    BY DEF Retarget
  <2>. QED  BY <1>1, <1>2, <2>1, <2>2, <2>3, <2>4
<1>4. Sound(seen) /\ seen.gen <= rcvGen
  <2>1. source \in Capability
    BY <1>3 DEF Sound
  <2>2. (source.renders \/ counted) \in BOOLEAN /\ (source.anyRender \/ counted) \in BOOLEAN
    OBVIOUS
  <2>3. /\ seen \in Capability /\ seen.gen = source.gen /\ seen.active = source.active
        /\ seen.phase = source.phase /\ seen.windows = source.windows
    BY <2>1, <2>2 DEF Capability
  <2>. QED  BY <1>3, <2>3 DEF Sound, Running
<1>5. Sound(next) /\ next.gen <= rcvGen
  <2>1. CASE seen.active
    <3>. DEFINE damaged == ObserveDamage(seen)
                started == ObserveIdr(damaged, idr)
                showing == ObserveRender(started)
                final   == ObserveSettle(showing, progressing)
    <3>1. Sound(damaged) /\ damaged.gen = seen.gen
      BY <1>4, ObserveDamageIsSound
    <3>2. Sound(started) /\ started.gen = seen.gen
      BY <1>1, <3>1, ObserveIdrIsSound
    <3>3. Sound(showing) /\ showing.gen = seen.gen
      BY <3>2, ObserveRenderIsSound
    <3>4. Sound(final) /\ final.gen = seen.gen
      BY <1>1, <3>3, ObserveSettleIsSound
    <3>5. Sound(Fail(damaged)) /\ Fail(damaged).gen = seen.gen
      BY <3>1, FailIsSound DEF Sound
    <3>6. Sound(Fail(final)) /\ Fail(final).gen = seen.gen
      BY <3>4, FailIsSound DEF Sound
    <3>7. next \in {Fail(damaged), Fail(final), final}
      BY <2>1 DEF Observe
    <3>. QED  BY <1>4, <3>4, <3>5, <3>6, <3>7
  <2>2. CASE ~seen.active
    <3>1. seen \in Capability /\ seen.windows \in 0 .. SettleWindows
      BY <1>4 DEF Sound, Capability
    <3>2. windows \in 0 .. SettleWindows
      BY <3>1, SettleAssumption
    <3>3. next = [seen EXCEPT !.windows = windows]
      BY <2>2
    <3>4. /\ next \in Capability /\ next.gen = seen.gen /\ next.active = seen.active
          /\ next.phase = seen.phase
      <4>. HIDE DEF next, seen, windows
      <4>. QED  BY <3>1, <3>2, <3>3 DEF Capability
    <3>. QED  BY <1>4, <2>2, <3>4 DEF Sound, Running
  <2>. QED  BY <2>1, <2>2
<1>6. CASE cap.phase = "Failed" \/ snap.session = 0
  <2>. DEFINE n    == IF snap.session = 0 THEN 0 ELSE cap.windows
              same == [cap EXCEPT !.totalDamage = snap.damage, !.settled = FALSE, !.windows = n]
  <2>1. UpdateReadiness(late) = same
    BY <1>6 DEF UpdateReadiness
  <2>2. n \in 0 .. SettleWindows /\ cap.windows \in 0 .. SettleWindows /\ n <= cap.windows
    BY <1>1, SettleAssumption DEF Capability
  <2>3. /\ same \in Capability /\ same.gen = cap.gen /\ same.active = cap.active
        /\ same.phase = cap.phase /\ same.windows = n
    BY <1>1, <2>2 DEF Capability
  <2>4. Running(same)
    BY <1>1, <2>2, <2>3, SettleAssumption DEF Sound, Running
  <2>. QED  BY <1>1, <2>1, <2>3, <2>4 DEF Sound
<1>7. CASE ~(cap.phase = "Failed" \/ snap.session = 0)
  <2>. DEFINE settled == ready /\ next.windows >= SettleWindows /\ ~next.active
              told2   == [next EXCEPT !.settled = settled]
  <2>1. UpdateReadiness(late) = told2
    BY <1>7 DEF UpdateReadiness
  <2>2. settled \in BOOLEAN /\ next \in Capability
    BY <1>5 DEF Sound
  <2>3. /\ told2 \in Capability /\ told2.gen = next.gen /\ told2.active = next.active
        /\ told2.phase = next.phase /\ told2.windows = next.windows
    <3>. HIDE DEF next, settled
    <3>. QED  BY <2>2 DEF Capability
  <2>. QED  BY <1>5, <2>1, <2>3 DEF Sound, Running
<1>. QED  BY <1>6, <1>7

\* The main and the render thread touch the decoder, the screen and the source.
LEMMA MainSteps ==
    ASSUME IInv, Decode \/ RenderFrame \/ \E late \in {"no", "phase", "overall"} : Update(late)
    PROVE  IInv'
<1>1. UNCHANGED <<sndVars, ctlVars, netVars, rcvVars>>
  BY DEF Decode, RenderFrame, Update
<1>2. Sound(cap') /\ cap'.gen <= rcvGen
  <2>1. CASE Decode \/ RenderFrame
    BY <2>1 DEF Decode, RenderFrame, IInv, MoreTypes, Generations
  <2>2. CASE \E late \in {"no", "phase", "overall"} : Update(late)
    BY <2>2, UpdateIsSound DEF Update
  <2>. QED  BY <2>1, <2>2
<1>3. /\ queue' \in Queues /\ mainPc' \in {"drain", "report", "stopped"}
      /\ {decoder', toRender', shown'} \subseteq Sessions \cup {0}
  <2>1. CASE Decode
    BY <2>1 DEF Decode, IInv, TypeOK, Queues, EmptyQueue, Sessions
  <2>2. CASE ~Decode
    BY <2>2 DEF RenderFrame, Update, IInv, TypeOK
  <2>. QED  BY <2>1, <2>2
<1>4. input' \in BOOLEAN /\ rendered' \in BOOLEAN /\ counted' \in BOOLEAN
  BY DEF Decode, RenderFrame, Update, IInv, MoreTypes
<1>5. TypeOK'
  BY <1>1, <1>2, <1>3 DEF IInv, TypeOK, Sound, Capability, sndVars, ctlVars, netVars, rcvVars
<1>6. MoreTypes'
  BY <1>1, <1>2, <1>4 DEF IInv, MoreTypes, netVars, rcvVars
<1>7. (SenderAt /\ Handed /\ Generations /\ Level /\ SwitchAfterAccept)'
  BY <1>1, <1>2 DEF IInv, SenderAt, Started, Arrived, Handed, Generations, Level,
     SwitchAfterAccept, sndVars, ctlVars, netVars, rcvVars
<1>. QED  BY <1>5, <1>6, <1>7 DEF IInv

\* The receiver's network thread, and its end.
LEMMA NetworkSteps ==
    ASSUME IInv,
           \/ \E c \in mprf : RxChange(c)
           \/ \E s \in 1 .. session : RxVideo(s) \/ SwitchReceiver(s)
           \/ ExpirePending \/ BeginReadiness \/ DamageGop \/ SendFeedback
           \/ PublishSnapshot \/ StopReceiver
    PROVE  IInv'
<1>. USE ChangesAssumption
<1>1. UNCHANGED <<sndVars, ctlVars, mprf>>
  BY DEF RxChange, ExpirePending, RxVideo, SwitchReceiver, BeginReadiness, DamageGop,
         SendFeedback, PublishSnapshot, StopReceiver, netVars
<1>2. SenderAt'
  BY <1>1 DEF IInv, SenderAt, Started, Arrived, sndVars
<1>3. CASE \E c \in mprf : RxChange(c)
  <2>1. TypeOK'
    BY <1>3, <1>1 DEF IInv, TypeOK, MoreTypes, RxChange, Fresh, sndVars, ctlVars, netVars, rcvVars, mainVars, Queues, Snapshot, Changes, Sessions, Change
  <2>2. MoreTypes'
    BY <1>3, <1>1 DEF IInv, TypeOK, MoreTypes, RxChange, Fresh, Changes, mainVars, netVars, Change
  <2>3. Handed'
    BY <1>3, <1>1 DEF IInv, TypeOK, MoreTypes, Handed, RxChange, Fresh, sndVars, netVars, Changes, Change, NoChange
  <2>4. Generations'
    BY <1>3, <1>1 DEF IInv, TypeOK, MoreTypes, Generations, Handed, RxChange, Fresh, sndVars, netVars, Changes, Change, NoChange, Sessions
  <2>5. Level'
    BY <1>3, <1>1 DEF IInv, TypeOK, Level, Handed, Generations, RxChange, Fresh, sndVars, Changes, Change, NoChange, Sessions
  <2>6. SwitchAfterAccept'
    BY <1>3, <1>1 DEF IInv, TypeOK, MoreTypes, SwitchAfterAccept, Handed, RxChange, Fresh, sndVars, Changes, Change
  <2>. QED  BY <1>2, <2>1, <2>2, <2>3, <2>4, <2>5, <2>6 DEF IInv
<1>4. CASE ExpirePending
  <2>1. TypeOK'
    BY <1>4, <1>1 DEF IInv, TypeOK, MoreTypes, ExpirePending, sndVars, ctlVars, netVars, rcvVars, mainVars, Queues, Snapshot, Changes, Sessions, Change
  <2>2. MoreTypes'
    BY <1>4, <1>1 DEF IInv, TypeOK, MoreTypes, ExpirePending, Changes, mainVars, netVars, Change
  <2>3. Handed'
    BY <1>4, <1>1 DEF IInv, TypeOK, MoreTypes, Handed, ExpirePending, sndVars, netVars, Changes, Change, NoChange
  <2>4. Generations'
    BY <1>4, <1>1 DEF IInv, TypeOK, MoreTypes, Generations, Handed, ExpirePending, sndVars, netVars, Changes, Change, NoChange, Sessions
  <2>5. Level'
    BY <1>4, <1>1 DEF IInv, TypeOK, Level, Handed, Generations, ExpirePending, sndVars, Changes, Change, NoChange, Sessions
  <2>6. SwitchAfterAccept'
    BY <1>4, <1>1 DEF IInv, TypeOK, MoreTypes, SwitchAfterAccept, Handed, ExpirePending, sndVars, Changes, Change
  <2>. QED  BY <1>2, <2>1, <2>2, <2>3, <2>4, <2>5, <2>6 DEF IInv
<1>5. CASE \E s \in 1 .. session : RxVideo(s)
  <2>1. TypeOK'
    BY <1>5, <1>1 DEF IInv, TypeOK, MoreTypes, RxVideo, sndVars, ctlVars, netVars, rcvVars, mainVars, Queues, Snapshot, Changes, Sessions, Change
  <2>2. MoreTypes'
    BY <1>5, <1>1 DEF IInv, TypeOK, MoreTypes, RxVideo, Changes, mainVars, netVars, Change
  <2>3. Handed'
    BY <1>5, <1>1 DEF IInv, TypeOK, MoreTypes, Handed, RxVideo, sndVars, netVars, Changes, Change, NoChange
  <2>4. Generations'
    BY <1>5, <1>1 DEF IInv, TypeOK, MoreTypes, Generations, Handed, RxVideo, sndVars, netVars, Changes, Change, NoChange, Sessions
  <2>5. Level'
    BY <1>5, <1>1 DEF IInv, TypeOK, Level, Handed, Generations, RxVideo, sndVars, Changes, Change, NoChange, Sessions
  <2>6. SwitchAfterAccept'
    BY <1>5, <1>1 DEF IInv, TypeOK, MoreTypes, SwitchAfterAccept, Handed, RxVideo, sndVars, Changes, Change
  <2>. QED  BY <1>2, <2>1, <2>2, <2>3, <2>4, <2>5, <2>6 DEF IInv
<1>6. CASE \E s \in 1 .. session : SwitchReceiver(s)
  <2>1. TypeOK'
    BY <1>6, <1>1 DEF IInv, TypeOK, MoreTypes, SwitchReceiver, ResetQueue, sndVars, ctlVars, netVars, rcvVars, mainVars, Queues, Snapshot, Changes, Sessions, Change
  <2>2. MoreTypes'
    BY <1>6, <1>1 DEF IInv, TypeOK, MoreTypes, SwitchReceiver, ResetQueue, Changes, mainVars, netVars, Change
  <2>3. Handed'
    BY <1>6, <1>1 DEF IInv, TypeOK, MoreTypes, Handed, SwitchReceiver, ResetQueue, sndVars, netVars, Changes, Change, NoChange
  <2>4. Generations'
    <3>1. PICK s \in 1 .. session : SwitchReceiver(s)
      BY <1>6
    <3>2. pending \in Changes /\ pending.old = active /\ pending.gen = active /\ s = active + 1
      BY <3>1 DEF IInv, TypeOK, Handed, SwitchReceiver, Changes, Change
    <3>3. active' = s /\ rcvGen' = active /\ rcvGen <= rcvGen' /\ rcvGen' \in Nat
      BY <3>1, <3>2 DEF IInv, TypeOK, MoreTypes, Generations, SwitchReceiver, Sessions, Changes, Change
    <3>4. feedback' = feedback /\ snap' = snap /\ cap' = cap /\ session' = session
      BY <3>1, <1>1 DEF SwitchReceiver, netVars, sndVars
    <3>5. \A fb \in feedback : fb.gen \in Nat
      BY DEF IInv, TypeOK, Feedback
    <3>6. cap.gen \in Nat /\ snap.gen \in Nat /\ rcvGen \in Nat /\ session \in Nat
      BY DEF IInv, TypeOK, MoreTypes, Sound, Capability, Snapshot, Sessions
    <3>. QED  BY <3>2, <3>3, <3>4, <3>5, <3>6 DEF IInv, Generations
  <2>5. Level'
    BY <1>6, <1>1 DEF IInv, TypeOK, Level, Handed, Generations, SwitchReceiver, ResetQueue, sndVars, Changes, Change, NoChange, Sessions
  <2>6. SwitchAfterAccept'
    BY <1>6, <1>1 DEF IInv, TypeOK, MoreTypes, SwitchAfterAccept, Handed, SwitchReceiver, ResetQueue, sndVars, Changes, Change
  <2>. QED  BY <1>2, <2>1, <2>2, <2>3, <2>4, <2>5, <2>6 DEF IInv
<1>7. CASE BeginReadiness
  <2>. cap' = Begin(cap, active, rcvGen) /\ Sound(cap') /\ cap'.gen = rcvGen
    BY <1>7, BeginIsSound DEF BeginReadiness, IInv, TypeOK, MoreTypes, Sound
  <2>. UNCHANGED <<active, pending, highest, lastKey, expired, rcvGen, damage, snap, queue,
                   mainVars, netVars>> /\ rcvPc' = "tick"
    BY <1>7 DEF BeginReadiness
  <2>1. TypeOK'
    BY <1>1 DEF IInv, TypeOK, Sound, Capability, sndVars, ctlVars, netVars, mainVars
  <2>2. MoreTypes'
    BY DEF IInv, MoreTypes, mainVars, netVars
  <2>3. Handed'
    BY <1>7, <1>1 DEF IInv, TypeOK, MoreTypes, Handed, BeginReadiness, sndVars, netVars, Changes, Change, NoChange
  <2>4. Generations'
    BY <1>1 DEF IInv, MoreTypes, Generations, sndVars, netVars
  <2>5. Level'
    BY <1>7, <1>1 DEF IInv, TypeOK, Level, Handed, Generations, BeginReadiness, sndVars, Changes, Change, NoChange, Sessions
  <2>6. SwitchAfterAccept'
    BY <1>7, <1>1 DEF IInv, TypeOK, MoreTypes, SwitchAfterAccept, Handed, BeginReadiness, sndVars, Changes, Change
  <2>. QED  BY <1>2, <2>1, <2>2, <2>3, <2>4, <2>5, <2>6 DEF IInv
<1>8. CASE DamageGop
  <2>1. TypeOK'
    BY <1>8, <1>1 DEF IInv, TypeOK, MoreTypes, DamageGop, ResetQueue, sndVars, ctlVars, netVars, rcvVars, mainVars, Queues, Snapshot, Changes, Sessions, Change
  <2>2. MoreTypes'
    <3>1. damage' \in 0 .. MaxDamage
      BY <1>8, DamageAssumption DEF DamageGop, IInv, MoreTypes
    <3>. QED  BY <1>8, <3>1 DEF IInv, MoreTypes, DamageGop, mainVars, netVars
  <2>3. Handed'
    BY <1>8, <1>1 DEF IInv, TypeOK, MoreTypes, Handed, DamageGop, ResetQueue, sndVars, netVars, Changes, Change, NoChange
  <2>4. Generations'
    BY <1>8, <1>1 DEF IInv, TypeOK, MoreTypes, Generations, Handed, DamageGop, ResetQueue, sndVars, netVars, Changes, Change, NoChange, Sessions
  <2>5. Level'
    BY <1>8, <1>1 DEF IInv, TypeOK, Level, Handed, Generations, DamageGop, ResetQueue, sndVars, Changes, Change, NoChange, Sessions
  <2>6. SwitchAfterAccept'
    BY <1>8, <1>1 DEF IInv, TypeOK, MoreTypes, SwitchAfterAccept, Handed, DamageGop, ResetQueue, sndVars, Changes, Change
  <2>. QED  BY <1>2, <2>1, <2>2, <2>3, <2>4, <2>5, <2>6 DEF IInv
<1>9. CASE SendFeedback
  <2>1. TypeOK'
    <3>. DEFINE fb == [seq |-> Cardinality(feedback) + 1, session |-> active, gen |-> cap.gen,
                       ready |-> cap.settled /\ ~cap.active /\ cap.phase = "Committed"]
    <3>1. Cardinality(feedback) + 1 \in 1 .. MaxFeedback
      BY <1>9, FeedbackAssumption, FS_CardinalityType DEF SendFeedback, IInv, MoreTypes
    <3>2. active \in Sessions /\ cap.gen \in 0 .. MaxChanges
      BY <1>9 DEF SendFeedback, IInv, TypeOK, MoreTypes, Sound, Capability
    <3>3. (cap.settled /\ ~cap.active /\ cap.phase = "Committed") \in BOOLEAN
      OBVIOUS
    <3>4. fb \in Feedback
      BY <3>1, <3>2, <3>3 DEF Feedback
    <3>5. feedback' = feedback \cup {fb}
      BY <1>9 DEF SendFeedback
    <3>. HIDE DEF fb
    <3>6. feedback' \subseteq Feedback /\ tracker' \in feedback' \cup {NoFeedback}
      BY <3>4, <3>5, <1>1 DEF IInv, TypeOK, ctlVars
    <3>. QED  BY <1>9, <1>1, <3>6 DEF IInv, TypeOK, SendFeedback, sndVars, ctlVars, rcvVars, mainVars
  <2>2. MoreTypes'
    BY <1>9, FS_AddElement, <1>1 DEF IInv, TypeOK, MoreTypes, SendFeedback, Changes, mainVars, netVars, rcvVars, Change
  <2>3. Handed'
    BY <1>9, <1>1 DEF IInv, TypeOK, MoreTypes, Handed, SendFeedback, sndVars, netVars, Changes, Change, NoChange, rcvVars, mainVars
  <2>4. Generations'
    BY <1>9, <1>1 DEF IInv, TypeOK, MoreTypes, Generations, Handed, SendFeedback, sndVars, netVars, Changes, Change, NoChange, Sessions, rcvVars, mainVars
  <2>5. Level'
    BY <1>9, <1>1 DEF IInv, TypeOK, Level, Handed, Generations, SendFeedback, sndVars, Changes, Change, NoChange, Sessions, rcvVars, mainVars
  <2>6. SwitchAfterAccept'
    BY <1>9, <1>1 DEF IInv, TypeOK, MoreTypes, SwitchAfterAccept, Handed, SendFeedback, sndVars, Changes, Change, rcvVars, mainVars
  <2>. QED  BY <1>2, <2>1, <2>2, <2>3, <2>4, <2>5, <2>6 DEF IInv
<1>10. CASE PublishSnapshot
  <2>1. TypeOK'
    BY <1>10, <1>1 DEF IInv, TypeOK, MoreTypes, PublishSnapshot, sndVars, ctlVars, netVars, rcvVars, mainVars, Queues, Snapshot, Changes, Sessions, Change
  <2>2. MoreTypes'
    BY <1>10, <1>1 DEF IInv, TypeOK, MoreTypes, PublishSnapshot, Changes, mainVars, netVars, Change
  <2>3. Handed'
    BY <1>10, <1>1 DEF IInv, TypeOK, MoreTypes, Handed, PublishSnapshot, sndVars, netVars, Changes, Change, NoChange
  <2>4. Generations'
    BY <1>10, <1>1 DEF IInv, TypeOK, MoreTypes, Generations, Handed, PublishSnapshot, sndVars, netVars, Changes, Change, NoChange, Sessions
  <2>5. Level'
    BY <1>10, <1>1 DEF IInv, TypeOK, Level, Handed, Generations, PublishSnapshot, sndVars, Changes, Change, NoChange, Sessions
  <2>6. SwitchAfterAccept'
    BY <1>10, <1>1 DEF IInv, TypeOK, MoreTypes, SwitchAfterAccept, Handed, PublishSnapshot, sndVars, Changes, Change
  <2>. QED  BY <1>2, <2>1, <2>2, <2>3, <2>4, <2>5, <2>6 DEF IInv
<1>11. CASE StopReceiver
  <2>. Sound(cap') /\ cap'.gen = cap.gen
    BY <1>11, FailIsSound DEF StopReceiver, IInv, MoreTypes, Sound
  <2>. UNCHANGED <<netVars, active, pending, highest, lastKey, expired, rcvGen, damage, snap,
                   queue, decoder, input, toRender, rendered, counted, shown>>
       /\ rcvPc' = "stopped" /\ mainPc' = "stopped"
    BY <1>11 DEF StopReceiver
  <2>1. TypeOK'
    BY <1>1 DEF IInv, TypeOK, Sound, Capability, sndVars, ctlVars, netVars
  <2>2. MoreTypes'
    BY DEF IInv, MoreTypes, netVars
  <2>3. Handed'
    BY <1>11, <1>1 DEF IInv, TypeOK, MoreTypes, Handed, StopReceiver, Fail, sndVars, netVars, Changes, Change, NoChange
  <2>4. Generations'
    BY <1>1 DEF IInv, MoreTypes, Generations, sndVars, netVars
  <2>5. Level'
    BY <1>11, <1>1 DEF IInv, TypeOK, Level, Handed, Generations, StopReceiver, Fail, sndVars, Changes, Change, NoChange, Sessions
  <2>6. SwitchAfterAccept'
    BY <1>11, <1>1 DEF IInv, TypeOK, MoreTypes, SwitchAfterAccept, Handed, StopReceiver, Fail, sndVars, Changes, Change
  <2>. QED  BY <1>2, <2>1, <2>2, <2>3, <2>4, <2>5, <2>6 DEF IInv
<1>. QED  BY <1>3, <1>4, <1>5, <1>6, <1>7, <1>8, <1>9, <1>10, <1>11

-----------------------------------------------------------------------------
(* The theorems that need no more than IInv.                                *)

\* Every step of either end keeps the invariant.
LEMMA ProfileStep == IInv /\ [Next]_vars => IInv'
<1>. SUFFICES ASSUME IInv, [Next]_vars PROVE IInv'
  OBVIOUS
<1>1. CASE SenderNext
  BY <1>1, SenderSteps, ControlSteps DEF SenderNext
<1>2. CASE ReceiverNext
  BY <1>2, NetworkSteps, MainSteps DEF ReceiverNext
<1>3. CASE UNCHANGED vars
  <2>. UNCHANGED <<sndVars, ctlVars, netVars, rcvVars, queue, mainVars, cap>>
    BY <1>3 DEF vars
  <2>1. (TypeOK /\ MoreTypes)'
    BY DEF IInv, TypeOK, MoreTypes, sndVars, ctlVars, netVars, rcvVars, mainVars
  <2>2. (SenderAt /\ Handed /\ Generations /\ Level /\ SwitchAfterAccept)'
    BY DEF IInv, SenderAt, Started, Arrived, Handed, Generations, Level, SwitchAfterAccept,
           sndVars, netVars, rcvVars
  <2>. QED  BY <2>1, <2>2 DEF IInv
<1>. QED  BY <1>1, <1>2, <1>3 DEF Next

\* The invariant holds whatever the network loses, repeats or delays.
LEMMA ProfileInvariant == Spec => []IInv
<1>. QED  BY ProfileInit, ProfileStep, PTL DEF Spec

\* The types of the sender's, the network's and the receiver's state.
THEOREM ProfileTypes == Spec => []TypeOK
<1>1. IInv => TypeOK
  BY DEF IInv
<1>. QED  BY <1>1, ProfileInvariant, PTL

\* The sender switches only after the receiver accepted this very change: what the
\* receiver accepted last bounds every ACK there is, and the sender's change bounds
\* what the receiver can have accepted (observe_ack, observe).
THEOREM SwitchIsAccepted == Spec => []SwitchAfterAccept
<1>1. IInv => SwitchAfterAccept
  BY DEF IInv
<1>. QED  BY <1>1, ProfileInvariant, PTL

\* A change that was rolled back left both sides on the old session: the sender had
\* not switched, and the receiver switches on a packet of the new one only (cancel).
THEOREM RollbackIsHarmless == Spec => []RollbackKeepsSession
<1>1. IInv => RollbackKeepsSession
  BY DEF IInv, TypeOK, SenderAt, Started, Level, RollbackKeepsSession
<1>. QED  BY <1>1, ProfileInvariant, PTL

\* No old change and no old packet brings the receiver back to a session it left.
THEOREM ReceiverNeverBack == Spec => NeverBack
<1>1. IInv /\ [Next]_vars => [active' >= active]_vars
  <2>. SUFFICES ASSUME IInv, Next PROVE active' >= active
    BY DEF vars
  <2>1. active \in Nat
    BY DEF IInv, TypeOK, Sessions
  <2>2. CASE UNCHANGED active
    BY <2>1, <2>2
  <2>3. CASE \E s \in 1 .. session : RxVideo(s)
    BY <2>1, <2>3 DEF RxVideo
  <2>4. CASE \E s \in 1 .. session : SwitchReceiver(s)
    BY <2>1, <2>4 DEF SwitchReceiver, IInv, TypeOK, Handed, Changes, Change
  <2>5. SenderNext => UNCHANGED active
    BY DEF SenderNext, StartChange, SendControl, DrainInbox, AckTimeout, Activate, ActivateFails,
           SwitchSender, CommitChange, ReadinessTimeout, CancelSender, RxAck, RxFeedback, rcvVars
  <2>6. ReceiverNext => \/ UNCHANGED active
                       \/ \E s \in 1 .. session : RxVideo(s) \/ SwitchReceiver(s)
    BY DEF ReceiverNext, RxChange, ExpirePending, BeginReadiness, DamageGop, SendFeedback,
           PublishSnapshot, Decode, Update, RenderFrame, StopReceiver, rcvVars
  <2>. QED  BY <2>2, <2>3, <2>4, <2>5, <2>6 DEF Next
<1>. QED  BY <1>1, ProfileInvariant, PTL DEF Spec, NeverBack

-----------------------------------------------------------------------------
(* What each stage of an observation does to the phase and the windows.     *)

\* What damage does: nothing, or the machine waits for a keyframe again, no window counted.
LEMMA DamageFields ==
    ASSUME NEW c \in Capability
    PROVE  LET d == ObserveDamage(c) IN
           /\ d.session = c.session
           /\ \/ d.phase = c.phase /\ d.windows = c.windows /\ d.renders = c.renders
              \/ d.phase = "AwaitFirstIdr" /\ d.windows = 0
<1>1. c.totalDamage \in 0 .. MaxDamage
  BY DEF Capability
<1>. DEFINE new   == [c EXCEPT !.seenDamage = c.totalDamage]
            again == [new EXCEPT !.phase = "AwaitFirstIdr", !.recovering = TRUE, !.windows = 0,
                                 !.renders = FALSE]
<1>2. /\ new \in Capability /\ new.session = c.session
      /\ new.phase = c.phase /\ new.windows = c.windows /\ new.renders = c.renders
  BY <1>1 DEF Capability
<1>3. /\ again.session = c.session
      /\ again.phase = "AwaitFirstIdr" /\ again.windows = 0
  BY <1>2 DEF Capability
<1>4. ObserveDamage(c) \in {c, new, again}
  BY DEF ObserveDamage
<1>. QED  BY <1>2, <1>3, <1>4

\* What a keyframe does: nothing, a failure, or the machine waits for the first picture.
LEMMA IdrFields ==
    ASSUME NEW c \in Capability, NEW idr \in BOOLEAN
    PROVE  LET d == ObserveIdr(c, idr) IN
           /\ d.session = c.session
           /\ \/ d = c
              \/ d.phase = "Failed"
              \/ /\ c.phase = "AwaitFirstIdr" /\ d.phase = "AwaitFirstRenderedFrame"
                 /\ d.windows = c.windows /\ d.renders = FALSE
<1>1. Fail(c).phase = "Failed" /\ Fail(c).session = c.session
  BY DEF Fail, Capability
<1>. DEFINE n    == IF c.recovering THEN c.restarts + 1 ELSE c.restarts
            next == [c EXCEPT !.phase = "AwaitFirstRenderedFrame", !.renders = FALSE,
                              !.restarts = n, !.recovering = FALSE]
<1>2. /\ next.phase = "AwaitFirstRenderedFrame" /\ next.windows = c.windows
      /\ next.renders = FALSE /\ next.session = c.session
  BY DEF Capability
<1>3. \/ ObserveIdr(c, idr) \in {c, Fail(c)}
      \/ c.phase = "AwaitFirstIdr" /\ ObserveIdr(c, idr) = next
  BY DEF ObserveIdr
<1>. QED  BY <1>1, <1>2, <1>3

\* What a picture does: nothing, or it starts the settling.
LEMMA RenderFields ==
    ASSUME NEW c \in Capability
    PROVE  LET d == ObserveRender(c) IN
           IF c.phase = "AwaitFirstRenderedFrame" /\ c.renders
           THEN d.phase = "Settling" /\ d.windows = c.windows /\ d.session = c.session
           ELSE d = c
<1>. DEFINE next == [c EXCEPT !.phase = "Settling"]
<1>1. next.phase = "Settling" /\ next.windows = c.windows /\ next.session = c.session
  BY DEF Capability
<1>2. ObserveRender(c) = IF c.phase = "AwaitFirstRenderedFrame" /\ c.renders THEN next ELSE c
  BY DEF ObserveRender
<1>. QED  BY <1>1, <1>2

\* What a window does while settling: it counts, or the count starts anew.
LEMMA SettleFields ==
    ASSUME NEW c \in Capability, NEW progressing \in BOOLEAN
    PROVE  LET d == ObserveSettle(c, progressing) IN
           IF c.phase = "Settling"
           THEN /\ d.session = c.session
                /\ d.windows = IF progressing THEN c.windows + 1 ELSE 0
                /\ d.phase = IF d.windows >= SettleWindows THEN "Committed" ELSE "Settling"
           ELSE d = c
<1>. DEFINE n    == IF progressing THEN c.windows + 1 ELSE 0
            last == IF n >= SettleWindows THEN "Committed" ELSE c.phase
            next == [c EXCEPT !.windows = n, !.phase = last, !.active = n < SettleWindows]
<1>1. next.windows = n /\ next.phase = last /\ next.session = c.session
  <2>. HIDE DEF n, last
  <2>. QED  BY DEF Capability
<1>2. ObserveSettle(c, progressing) = IF c.phase # "Settling" THEN c ELSE next
  BY DEF ObserveSettle
<1>. QED  BY <1>1, <1>2

\* A whole observation: settling and commit are reached from the phases before them
\* only, on the pictures and the progress of this very window.
Moves(from, renders, progressing, d) ==
    \/ d.phase = "Failed"
    \/ d.phase = "AwaitFirstIdr" /\ d.windows = 0
    \/ d.phase = "AwaitFirstRenderedFrame" /\ d.windows = 0 /\ d.renders = FALSE
    \/ /\ d.phase = "Settling" /\ from = "AwaitFirstRenderedFrame" /\ renders
       /\ d.windows \in {0, 1}
    \/ d.phase = "Settling" /\ from = "Settling" /\ (progressing \/ d.windows = 0)
    \/ d.phase = "Committed" /\ from = "Settling" /\ progressing

\* One report altogether: how far it can take the machine, and from where.
LEMMA ObserveFields ==
    ASSUME NEW c, Sound(c), c.phase \in Readying, SettleWindows >= 2,
           NEW idr \in BOOLEAN, NEW progressing \in BOOLEAN,
           NEW late \in {"no", "phase", "overall"},
           c.phase \in {"AwaitFirstIdr", "AwaitFirstRenderedFrame"} => c.windows = 0
    PROVE  LET d == Observe(c, late, idr, progressing) IN
           /\ Sound(d) /\ d.session = c.session /\ d.gen = c.gen
           /\ Moves(c.phase, c.renders, progressing, d)
<1>. DEFINE damaged == ObserveDamage(c)
            started == ObserveIdr(damaged, idr)
            showing == ObserveRender(started)
            final   == ObserveSettle(showing, progressing)
            d       == Observe(c, late, idr, progressing)
<1>1. /\ Sound(damaged) /\ damaged.gen = c.gen /\ damaged.session = c.session
      /\ \/ damaged.phase = c.phase /\ damaged.windows = c.windows /\ damaged.renders = c.renders
         \/ damaged.phase = "AwaitFirstIdr" /\ damaged.windows = 0
  BY DamageFields, ObserveDamageIsSound DEF Sound
<1>2. /\ Sound(started) /\ started.gen = c.gen /\ started.session = c.session
      /\ \/ started = damaged
         \/ started.phase = "Failed"
         \/ /\ damaged.phase = "AwaitFirstIdr" /\ started.phase = "AwaitFirstRenderedFrame"
            /\ started.windows = damaged.windows /\ started.renders = FALSE
  <2>. HIDE DEF damaged
  <2>1. damaged \in Capability
    BY <1>1 DEF Sound
  <2>2. Sound(started) /\ started.gen = damaged.gen
    BY <1>1, ObserveIdrIsSound
  <2>3. /\ started.session = damaged.session
        /\ \/ started = damaged
           \/ started.phase = "Failed"
           \/ /\ damaged.phase = "AwaitFirstIdr" /\ started.phase = "AwaitFirstRenderedFrame"
              /\ started.windows = damaged.windows /\ started.renders = FALSE
    BY <2>1, IdrFields
  <2>. HIDE DEF started
  <2>. QED  BY <1>1, <2>2, <2>3
<1>3. /\ Sound(showing) /\ showing.gen = c.gen /\ showing.session = c.session
      /\ IF started.phase = "AwaitFirstRenderedFrame" /\ started.renders
         THEN showing.phase = "Settling" /\ showing.windows = started.windows
         ELSE showing = started
  <2>. HIDE DEF started
  <2>. QED  BY <1>2, RenderFields, ObserveRenderIsSound DEF Sound
<1>4. /\ Sound(final) /\ final.gen = c.gen /\ final.session = c.session
      /\ IF showing.phase = "Settling"
         THEN /\ final.windows = IF progressing THEN showing.windows + 1 ELSE 0
              /\ final.phase = IF final.windows >= SettleWindows THEN "Committed" ELSE "Settling"
         ELSE final = showing
  <2>. HIDE DEF showing
  <2>. QED  BY <1>3, SettleFields, ObserveSettleIsSound DEF Sound
<1>5. d \in {Fail(damaged), Fail(final), final}
  BY DEF Observe
<1>. HIDE DEF damaged, started, showing, final, d
<1>6. \A x \in {damaged, final} :
         Fail(x).phase = "Failed" /\ Fail(x).gen = c.gen /\ Fail(x).session = c.session
  BY <1>1, <1>4 DEF Sound, Capability, Fail
<1>7. damaged.renders \in BOOLEAN
  BY <1>1 DEF Sound, Capability
<1>8. Moves(c.phase, c.renders, progressing, final)
  <2>1. CASE damaged.phase = "AwaitFirstIdr" /\ damaged.windows = 0
    BY <1>2, <1>3, <1>4, <2>1 DEF Moves
  <2>2. CASE c.phase = "AwaitFirstRenderedFrame" /\ damaged.phase = c.phase
             /\ damaged.windows = 0 /\ damaged.renders = c.renders
    <3>1. started = damaged \/ started.phase = "Failed"
      BY <1>2, <2>2
    <3>2. CASE started = damaged /\ c.renders
      BY <1>3, <1>4, <2>2, <3>2, SettleAssumption DEF Moves
    <3>3. CASE started = damaged /\ ~c.renders
      BY <1>3, <1>4, <1>7, <2>2, <3>3 DEF Moves
    <3>4. CASE started.phase = "Failed"
      BY <1>3, <1>4, <3>4 DEF Moves
    <3>. QED  BY <3>1, <3>2, <3>3, <3>4
  <2>3. CASE c.phase = "Settling" /\ damaged.phase = c.phase
    BY <1>2, <1>3, <1>4, <2>3, SettleAssumption DEF Moves
  <2>. QED  BY <1>1, <2>1, <2>2, <2>3 DEF Readying
<1>. QED
  <2>1. d.session = c.session /\ d.gen = c.gen
    BY <1>4, <1>5, <1>6
  <2>3. Sound(d)
    BY <1>1, <1>4, <1>5, FailIsSound DEF Sound
  <2>2. Moves(c.phase, c.renders, progressing, d)
    BY <1>5, <1>6, <1>8 DEF Moves
  <2>. QED  BY <2>1, <2>2, <2>3 DEF d

\* What a report does to the source: nothing much, or it observes the transition it
\* is about, or it begins the one of the published snapshot and observes that.
LEMMA UpdateFields ==
    ASSUME IInv, Forward, Evidence, SettleWindows >= 2,
           NEW late \in {"no", "phase", "overall"}
    PROVE  LET d == UpdateReadiness(late) IN
           \/ /\ d.phase = cap.phase /\ d.gen = cap.gen /\ d.session = cap.session
              /\ d.renders = cap.renders /\ d.windows \in {cap.windows, 0}
           \/ /\ d.phase = cap.phase /\ d.phase \notin Readying
              /\ snap.session # 0 /\ d.session = snap.session
              /\ d.phase = "Idle" \/ d.gen = cap.gen
           \/ /\ snap.session # 0 /\ d.session = snap.session
              /\ d.gen = cap.gen
              /\ Moves(cap.phase, cap.renders \/ counted, counted /\ input, d)
           \/ /\ snap.session # 0 /\ d.session = snap.session
              /\ Moves("AwaitFirstIdr", counted, counted /\ input, d)
<1>. DEFINE idr         == decoder # 0
            progressing == counted /\ input
            told        == [cap EXCEPT !.totalDamage = snap.damage]
            bound       == [told EXCEPT !.session = snap.session, !.gen = snap.gen]
            begun       == Begin(told, snap.session, snap.gen)
            source      == Retarget(told)
            seen        == [source EXCEPT !.renders = @ \/ counted, !.anyRender = @ \/ counted]
            ready       == idr /\ seen.anyRender /\ progressing
            windows     == IF ~ready THEN 0
                           ELSE IF seen.windows < SettleWindows THEN seen.windows + 1
                           ELSE seen.windows
            next        == IF seen.active THEN Observe(seen, late, idr, progressing)
                           ELSE [seen EXCEPT !.windows = windows]
            d           == UpdateReadiness(late)
<1>1. /\ Sound(cap) /\ cap \in Capability
      /\ snap.session \in Sessions \cup {0} /\ snap.gen \in 0 .. MaxChanges
      /\ snap.damage \in 0 .. MaxDamage
      /\ idr \in BOOLEAN /\ progressing \in BOOLEAN /\ counted \in BOOLEAN
  BY DEF IInv, TypeOK, MoreTypes, Sound, Snapshot
<1>2. CASE cap.phase = "Failed" \/ snap.session = 0
  <2>. DEFINE w == IF snap.session = 0 THEN 0 ELSE cap.windows
  <2>1. d = [cap EXCEPT !.totalDamage = snap.damage, !.settled = FALSE, !.windows = w]
    BY <1>2 DEF UpdateReadiness
  <2>. HIDE DEF d
  <2>2. /\ d.phase = cap.phase /\ d.gen = cap.gen /\ d.session = cap.session
        /\ d.renders = cap.renders /\ d.windows = w
    <3>. HIDE DEF w
    <3>. QED  BY <2>1, <1>1 DEF Capability
  <2>. QED  BY <2>2 DEF d
<1>3. CASE ~(cap.phase = "Failed" \/ snap.session = 0)
  <2>1. /\ told \in Capability /\ told.gen = cap.gen /\ told.active = cap.active
        /\ told.phase = cap.phase /\ told.windows = cap.windows
        /\ told.session = cap.session /\ told.renders = cap.renders
    BY <1>1 DEF Capability
  <2>2. /\ bound \in Capability /\ bound.active = told.active
        /\ bound.phase = told.phase /\ bound.windows = told.windows
        /\ bound.session = snap.session
    BY <1>1, <2>1 DEF Capability
  <2>3. /\ Sound(begun) /\ begun.session = snap.session /\ begun.phase = "AwaitFirstIdr"
        /\ begun.windows = 0 /\ begun.active = TRUE /\ begun.renders = FALSE
    BY <1>1, <2>1, BeginIsSound, BeginFields
  <2>4. Sound(told) /\ Sound(bound)
    BY <1>1, <2>1, <2>2 DEF Sound, Running
  <2>5. \/ source = told /\ told.session = snap.session
        \/ source = bound /\ told.session = 0
        \/ source = begun
    BY DEF Retarget
  <2>6. Sound(source) /\ source \in Capability /\ source.session = snap.session
    <3>. HIDE DEF told, bound, begun, source
    <3>. QED  BY <2>2, <2>3, <2>4, <2>5 DEF Sound
  <2>7. /\ seen \in Capability /\ seen.gen = source.gen /\ seen.active = source.active
        /\ seen.phase = source.phase /\ seen.windows = source.windows
        /\ seen.session = source.session /\ seen.renders = (source.renders \/ counted)
    <3>1. (source.renders \/ counted) \in BOOLEAN /\ (source.anyRender \/ counted) \in BOOLEAN
      OBVIOUS
    <3>. HIDE DEF source
    <3>. QED  BY <2>6, <3>1 DEF Capability
  <2>8. Sound(seen)
    BY <2>6, <2>7 DEF Sound, Running
  <2>9. /\ next.session = seen.session /\ next \in Capability
        /\ IF seen.active
           THEN next.gen = seen.gen /\ Moves(seen.phase, seen.renders, progressing, next)
           ELSE next.gen = seen.gen /\ next.phase = seen.phase
    <3>1. CASE seen.active
      <4>1. seen.phase \in Readying
        BY <2>8, <3>1 DEF Sound, Running
      <4>2. seen.phase \in {"AwaitFirstIdr", "AwaitFirstRenderedFrame"} => seen.windows = 0
        <5>. HIDE DEF told, bound, begun, source, seen
        <5>. QED  BY <2>1, <2>2, <2>3, <2>5, <2>7 DEF Evidence
      <4>3. next = Observe(seen, late, idr, progressing)
        BY <3>1
      <4>. HIDE DEF told, bound, begun, source, seen, next
      <4>4. /\ Sound(next) /\ next.session = seen.session /\ next.gen = seen.gen
            /\ Moves(seen.phase, seen.renders, progressing, next)
        <5>. HIDE DEF idr, progressing
        <5>. QED  BY <1>1, <2>8, <4>1, <4>2, <4>3, ObserveFields
      <4>. QED  BY <3>1, <4>4 DEF Sound
    <3>2. CASE ~seen.active
      <4>1. next = [seen EXCEPT !.windows = windows]
        BY <3>2
      <4>2. seen.windows \in 0 .. SettleWindows
        BY <2>7 DEF Capability
      <4>3. windows \in 0 .. SettleWindows
        <5>. HIDE DEF seen, ready
        <5>. QED  BY <4>2, SettleAssumption
      <4>. HIDE DEF told, bound, begun, source, seen, windows, next
      <4>. QED  BY <2>7, <3>2, <4>1, <4>3 DEF Capability
    <3>. QED  BY <3>1, <3>2
  <2>10. /\ d.phase = next.phase /\ d.gen = next.gen /\ d.session = next.session
         /\ d.windows = next.windows /\ d.renders = next.renders
    <3>1. d = [next EXCEPT !.settled = ready /\ next.windows >= SettleWindows /\ ~next.active]
      BY <1>3 DEF UpdateReadiness
    <3>. HIDE DEF told, bound, begun, source, seen, next, d
    <3>. QED  BY <2>9, <3>1 DEF Capability
  <2>11. Moves(seen.phase, seen.renders, progressing, next)
            => Moves(seen.phase, seen.renders, progressing, d)
    <3>. HIDE DEF told, bound, begun, source, seen, next, d
    <3>. QED  BY <2>10 DEF Moves
  <2>. HIDE DEF told, bound, begun, source, seen, next, d
  <2>12. CASE source = told /\ told.session = snap.session
    <3>1. CASE seen.active
      BY <1>3, <2>1, <2>7, <2>9, <2>10, <2>11, <2>12, <3>1 DEF d
    <3>2. CASE ~seen.active
      <4>1. d.phase = cap.phase /\ d.gen = cap.gen /\ d.session = snap.session
        BY <2>1, <2>7, <2>9, <2>10, <2>12, <3>2
      <4>2. (cap.phase \in Readying) = FALSE
        <5>1. cap.active = FALSE
          BY <1>1, <2>1, <2>7, <2>12, <3>2 DEF Capability
        <5>. QED  BY <1>1, <5>1 DEF Sound, Running
      <4>. QED  BY <1>3, <4>1, <4>2 DEF d
    <3>. QED  BY <3>1, <3>2
  <2>13. CASE source = bound /\ told.session = 0
    <3>1. cap.phase = "Idle"
      BY <2>1, <2>13 DEF Forward
    <3>2. (cap.phase \in Readying) = FALSE
      BY <3>1 DEF Readying
    <3>3. ~seen.active
      BY <2>1, <2>2, <2>7, <2>13, <3>2, <1>1 DEF Sound, Running
    <3>4. d.phase = "Idle" /\ d.session = snap.session
      BY <2>1, <2>2, <2>7, <2>9, <2>10, <2>13, <3>1, <3>3
    <3>. QED  BY <1>3, <3>1, <3>2, <3>4 DEF d
  <2>14. CASE source = begun
    <3>1. seen.phase = "AwaitFirstIdr" /\ seen.renders = counted /\ seen.active
      BY <1>1, <2>3, <2>7, <2>14
    <3>. QED  BY <1>3, <2>3, <2>7, <2>9, <2>10, <2>11, <2>14, <3>1 DEF d
  <2>. QED  BY <2>5, <2>12, <2>13, <2>14
<1>. QED  BY <1>2, <1>3

\* Nothing is shown and nothing counted at the start.
LEMMA CommitInit == Init => Forward /\ Evidence /\ CommitIsMutual
  BY DEF Init, Forward, Evidence, CommitIsMutual, EmptyQueue

\* A step of the sender touches nothing of the receiver; it commits on feedback that
\* says it, and the screen can be no further than the session the sender streams.
LEMMA CommitSender ==
    ASSUME CommitInv, SenderNext
    PROVE  (Forward /\ Evidence /\ CommitIsMutual)'
<1>1. UNCHANGED <<feedback, rcvVars, queue, mainVars, cap>>
  BY DEF SenderNext, StartChange, SendControl, DrainInbox, AckTimeout, Activate, ActivateFails,
         SwitchSender, CommitChange, ReadinessTimeout, CancelSender, RxAck, RxFeedback, netVars
<1>2. Forward' /\ Evidence'
  BY <1>1 DEF CommitInv, Forward, Evidence, Shows, AtMostOne, NoneLeft, Waits, rcvVars, mainVars
<1>3. CASE CommitChange
  <2>1. tracker \in feedback /\ tracker.ready /\ tracker.gen = generation
    BY <1>3 DEF CommitChange, GenerationMatches, CommitInv, IInv, TypeOK
  <2>2. shown > generation
    BY <2>1 DEF CommitInv, Evidence, Shows
  <2>3. change \in Changes /\ session = change.new /\ generation = change.gen
    BY <1>3 DEF CommitChange, CommitInv, IInv, SenderAt, Arrived
  <2>4. session = generation + 1 /\ generation \in Nat
    BY <2>3, ChangesAssumption DEF Changes, Change
  <2>5. shown <= active /\ active <= session /\ shown \in Nat /\ active \in Nat
    BY DEF CommitInv, IInv, TypeOK, Forward, Generations, Sessions
  <2>6. shown = session /\ active = session
    BY <2>2, <2>4, <2>5
  <2>. QED  BY <1>1, <1>2, <1>3, <2>6 DEF CommitIsMutual, CommitChange, rcvVars, mainVars
<1>4. CASE ~CommitChange
  <2>1. phase' = "Committed" => phase = "Committed" /\ UNCHANGED session
    BY <1>4 DEF SenderNext, StartChange, SendControl, DrainInbox, AckTimeout, Activate,
           ActivateFails, SwitchSender, ReadinessTimeout, CancelSender, RxAck, RxFeedback,
           CheckDeadline, Stop, Cancelled, sndVars, CommitInv, IInv, SenderAt
  <2>. QED  BY <1>1, <1>2, <2>1 DEF CommitInv, CommitIsMutual, rcvVars, mainVars
<1>. QED  BY <1>3, <1>4

\* The network thread moves the session forward and reports a commit as one.
LEMMA CommitNetwork ==
    ASSUME CommitInv,
           \/ \E c \in mprf : RxChange(c)
           \/ \E s \in 1 .. session : RxVideo(s) \/ SwitchReceiver(s)
           \/ ExpirePending \/ BeginReadiness \/ DamageGop \/ SendFeedback \/ PublishSnapshot
    PROVE  (Forward /\ Evidence /\ CommitIsMutual)'
<1>. USE ChangesAssumption
<1>1. UNCHANGED <<sndVars, mainVars>>
  BY DEF RxChange, RxVideo, SwitchReceiver, ExpirePending, BeginReadiness, DamageGop,
         SendFeedback, PublishSnapshot
<1>2. /\ active \in Sessions \cup {0} /\ shown \in Sessions \cup {0}
      /\ toRender \in Sessions \cup {0} /\ session \in Sessions
      /\ cap \in Capability /\ rcvGen \in 0 .. MaxChanges
  BY DEF CommitInv, IInv, TypeOK, MoreTypes, Sound
<1>3. CASE (\E c \in mprf : RxChange(c)) \/ ExpirePending
  <2>1. UNCHANGED <<feedback, active, rcvPc, snap, queue, cap>>
    BY <1>3 DEF RxChange, ExpirePending, netVars
  <2>. QED  BY <1>1, <2>1 DEF CommitInv, Forward, Evidence, CommitIsMutual, Shows, AtMostOne,
                NoneLeft, Waits, sndVars, mainVars
<1>4. CASE \E s \in 1 .. session : RxVideo(s)
  <2>1. /\ UNCHANGED <<feedback, rcvPc, snap, cap>>
        /\ queue'.frame = active' /\ active' \in 1 .. session /\ active \in {0, active'}
    BY <1>4 DEF RxVideo, netVars, CommitInv, IInv, TypeOK, Queues
  <2>2. active <= active' /\ active' # 0
    BY <1>2, <2>1 DEF Sessions
  <2>3. Forward'
    BY <1>1, <1>2, <2>1, <2>2 DEF CommitInv, Forward, mainVars, Sessions
  <2>4. Evidence'
    BY <1>1, <2>1 DEF CommitInv, Evidence, Shows, AtMostOne, NoneLeft, Waits, mainVars
  <2>5. CommitIsMutual'
    BY <1>1, <1>2, <2>1 DEF CommitInv, CommitIsMutual, sndVars, mainVars, Sessions
  <2>. QED  BY <2>3, <2>4, <2>5
<1>5. CASE \E s \in 1 .. session : SwitchReceiver(s)
  <2>1. /\ UNCHANGED <<feedback, snap, cap>>
        /\ queue'.frame = 0 /\ active' = active + 1 /\ active' <= session
    BY <1>5 DEF SwitchReceiver, netVars, CommitInv, IInv, TypeOK, Handed, Changes, Change,
               ResetQueue, Sessions
  <2>2. Forward'
    BY <1>1, <1>2, <2>1 DEF CommitInv, Forward, mainVars, Sessions
  <2>3. Evidence'
    BY <1>1, <2>1 DEF CommitInv, Evidence, Shows, AtMostOne, NoneLeft, Waits, mainVars
  <2>4. CommitIsMutual'
    BY <1>1, <1>2, <2>1 DEF CommitInv, CommitIsMutual, sndVars, Sessions
  <2>. QED  BY <2>2, <2>3, <2>4
<1>6. CASE BeginReadiness
  <2>1. /\ UNCHANGED <<feedback, active, snap, queue>> /\ active # 0
        /\ rcvPc' = "tick" /\ cap' = Begin(cap, active, rcvGen)
    BY <1>6 DEF BeginReadiness, netVars, CommitInv, Forward
  <2>2. cap'.phase = "AwaitFirstIdr" /\ cap'.windows = 0 /\ cap'.session = active
    <3>1. /\ Begin(cap, active, rcvGen).phase = "AwaitFirstIdr"
          /\ Begin(cap, active, rcvGen).windows = 0
          /\ Begin(cap, active, rcvGen).session = active
      BY <1>2, BeginFields
    <3>. QED  BY <2>1, <3>1
  <2>3. Forward'
    BY <1>1, <2>1, <2>2 DEF CommitInv, Forward, mainVars
  <2>4. Evidence'
    BY <1>1, <2>1, <2>2 DEF CommitInv, Evidence, Shows, mainVars
  <2>5. CommitIsMutual'
    BY <1>1, <2>1 DEF CommitInv, CommitIsMutual, sndVars, mainVars
  <2>. QED  BY <2>3, <2>4, <2>5
<1>7. CASE DamageGop \/ PublishSnapshot
  <2>1. /\ UNCHANGED <<feedback, active, rcvPc, cap>> /\ queue'.frame \in {0, queue.frame}
        /\ snap'.session # 0 => active # 0 \/ snap.session # 0
    BY <1>7 DEF DamageGop, PublishSnapshot, netVars, ResetQueue
  <2>2. Forward'
    BY <1>1, <2>1 DEF CommitInv, Forward, mainVars
  <2>3. Evidence' /\ CommitIsMutual'
    BY <1>1, <2>1 DEF CommitInv, Evidence, CommitIsMutual, Shows, AtMostOne, NoneLeft, Waits,
                     sndVars, mainVars
  <2>. QED  BY <2>2, <2>3
<1>8. CASE SendFeedback
  <2>1. UNCHANGED <<active, rcvPc, snap, queue, cap>>
    BY <1>8 DEF SendFeedback, rcvVars
  <2>. DEFINE new == [seq |-> Cardinality(feedback) + 1, session |-> active, gen |-> cap.gen,
                      ready |-> cap.settled /\ ~cap.active /\ cap.phase = "Committed"]
  <2>2. feedback' = feedback \cup {new}
    BY <1>8 DEF SendFeedback
  <2>3. new.gen = cap.gen /\ (new.ready => cap.phase = "Committed")
    OBVIOUS
  <2>. HIDE DEF new
  <2>4. \A fb \in feedback' : fb.ready => shown > fb.gen
    BY <2>2, <2>3 DEF CommitInv, Evidence, Shows
  <2>5. Evidence'
    BY <1>1, <2>1, <2>4 DEF CommitInv, Evidence, Shows, AtMostOne, NoneLeft, Waits, mainVars
  <2>6. Forward' /\ CommitIsMutual'
    BY <1>1, <2>1 DEF CommitInv, Forward, CommitIsMutual, sndVars, mainVars
  <2>. QED  BY <2>5, <2>6
<1>. QED  BY <1>3, <1>4, <1>5, <1>6, <1>7, <1>8

\* The main thread takes a frame to the renderer, the renderer shows it, and the
\* report judges what was counted.
LEMMA CommitMain ==
    ASSUME CommitInv, SettleWindows >= 2,
           \/ Decode \/ RenderFrame \/ StopReceiver
           \/ \E late \in {"no", "phase", "overall"} : Update(late)
    PROVE  (Forward /\ Evidence /\ CommitIsMutual)'
<1>1. UNCHANGED <<sndVars, feedback, active, snap>>
  BY DEF Decode, RenderFrame, StopReceiver, Update, netVars, rcvVars
<1>2. /\ active \in Nat /\ shown \in Nat /\ toRender \in Nat /\ session \in Nat \ {0}
      /\ cap \in Capability /\ cap.gen \in Nat /\ cap.gen <= rcvGen /\ rcvGen \in Nat
      /\ rcvGen # 0 => active = rcvGen + 1
      /\ active <= session /\ shown <= active /\ toRender <= active
      /\ toRender # 0 => shown <= toRender
      /\ \A fb \in feedback : fb.gen \in Nat
  BY ChangesAssumption DEF CommitInv, IInv, TypeOK, MoreTypes, Sound, Sessions, Generations,
     Forward, Capability, Feedback
<1>3. CASE Decode
  <2>1. /\ UNCHANGED <<shown, cap, rcvPc>>
        /\ queue'.frame = 0 /\ rendered' = FALSE /\ counted' = (counted \/ rendered)
        /\ toRender' = toRender \/ (toRender' = active /\ active # 0)
    BY <1>3 DEF Decode, EmptyQueue, rcvVars, CommitInv, Forward
  <2>2. Forward'
    BY <1>1, <1>2, <2>1 DEF CommitInv, Forward
  <2>3. Waits(cap.gen)' => Waits(cap.gen)
    BY <1>2, <2>1 DEF Waits
  <2>4. Evidence'
    <3>1. \A g : Shows(g)' <=> Shows(g)
      BY <2>1 DEF Shows
    <3>2. NoneLeft(cap.gen) => NoneLeft(cap.gen)'
      BY <2>1, <2>3 DEF NoneLeft
    <3>3. AtMostOne(cap.gen) => AtMostOne(cap.gen)'
      BY <2>1, <2>3 DEF AtMostOne
    <3>. QED  BY <1>1, <2>1, <3>1, <3>2, <3>3 DEF CommitInv, Evidence
  <2>5. CommitIsMutual'
    BY <1>1, <2>1 DEF CommitInv, CommitIsMutual, sndVars
  <2>. QED  BY <2>2, <2>4, <2>5
<1>4. CASE RenderFrame
  <2>1. /\ UNCHANGED <<cap, rcvPc, queue, counted>> /\ toRender # 0 /\ toRender' = 0
        /\ \/ shown' = toRender /\ rendered' = TRUE
           \/ UNCHANGED <<shown, rendered>>
    BY <1>4 DEF RenderFrame, rcvVars
  <2>2. Forward'
    BY <1>1, <1>2, <2>1 DEF CommitInv, Forward
  <2>3. \A g \in Nat : Shows(g) => Shows(g)'
    BY <1>2, <2>1 DEF Shows
  <2>4. NoneLeft(cap.gen) => (Shows(cap.gen) \/ NoneLeft(cap.gen))'
    BY <1>2, <2>1 DEF NoneLeft, Waits, Shows
  <2>5. AtMostOne(cap.gen) => (Shows(cap.gen) \/ AtMostOne(cap.gen))'
    BY <1>2, <2>1 DEF AtMostOne, Waits, Shows
  <2>6. Evidence'
    BY <1>1, <1>2, <2>1, <2>3, <2>4, <2>5 DEF CommitInv, Evidence
  <2>7. CommitIsMutual'
    BY <1>1, <1>2, <2>1 DEF CommitInv, CommitIsMutual, sndVars
  <2>. QED  BY <2>2, <2>6, <2>7
<1>5. CASE StopReceiver
  <2>1. /\ UNCHANGED <<queue, toRender, rendered, counted, shown>> /\ rcvPc' = "stopped"
        /\ cap' = IF cap.active THEN Fail(cap) ELSE cap
    BY <1>5 DEF StopReceiver
  <2>2. CASE cap.active
    <3>1. cap'.phase = "Failed" /\ cap'.session = cap.session
      BY <1>2, <2>1, <2>2 DEF Fail, Capability
    <3>2. cap.phase \in Readying
      BY <2>2 DEF CommitInv, IInv, MoreTypes, Sound, Running
    <3>3. Forward'
      BY <1>1, <2>1, <3>1, <3>2 DEF CommitInv, Forward, Readying
    <3>4. Evidence' /\ CommitIsMutual'
      BY <1>1, <2>1, <3>1 DEF CommitInv, Evidence, CommitIsMutual, Shows, sndVars
    <3>. QED  BY <3>3, <3>4
  <2>3. CASE ~cap.active
    BY <1>1, <2>1, <2>3 DEF CommitInv, Forward, Evidence, CommitIsMutual, Shows, AtMostOne,
                             NoneLeft, Waits, sndVars
  <2>. QED  BY <2>2, <2>3
<1>6. ASSUME NEW late \in {"no", "phase", "overall"}, Update(late)
      PROVE  (Forward /\ Evidence /\ CommitIsMutual)'
  <2>1. /\ UNCHANGED <<rcvPc, queue, toRender, rendered, shown>> /\ counted' = FALSE
        /\ cap' = UpdateReadiness(late)
    BY <1>6 DEF Update, rcvVars
  <2>2. /\ IInv /\ Forward /\ Evidence
    BY DEF CommitInv
  <2>3. \/ /\ cap'.phase = cap.phase /\ cap'.gen = cap.gen /\ cap'.session = cap.session
           /\ cap'.renders = cap.renders /\ cap'.windows \in {cap.windows, 0}
        \/ /\ cap'.phase = cap.phase /\ cap'.phase \notin Readying
           /\ snap.session # 0 /\ cap'.session = snap.session
           /\ cap'.phase = "Idle" \/ cap'.gen = cap.gen
        \/ /\ snap.session # 0 /\ cap'.session = snap.session
           /\ cap'.gen = cap.gen
           /\ Moves(cap.phase, cap.renders \/ counted, counted /\ input, cap')
        \/ /\ snap.session # 0 /\ cap'.session = snap.session
           /\ Moves("AwaitFirstIdr", counted, counted /\ input, cap')
    BY <2>1, <2>2, UpdateFields
  <2>4. Forward'
    BY <1>1, <2>1, <2>2, <2>3 DEF Forward
  <2>5. CommitIsMutual'
    BY <1>1, <2>1 DEF CommitInv, CommitIsMutual, sndVars
  <2>6. ~(toRender' # 0 /\ rendered') /\ ~counted'
    BY <2>1, <2>4 DEF Forward
  <2>7. \A fb \in feedback' : fb.ready => Shows(fb.gen)'
    BY <1>1, <2>1, <2>2 DEF Evidence, Shows
  <2>8. ASSUME cap'.phase = "AwaitFirstRenderedFrame" PROVE Evidence'
    <3>1. cap'.windows = 0 /\ ~cap'.renders
      BY <2>2, <2>3, <2>8 DEF Moves, Evidence, Readying
    <3>. QED  BY <2>1, <2>6, <2>7, <2>8, <3>1 DEF Evidence, Shows, NoneLeft, AtMostOne, Waits
  <2>9. ASSUME cap'.phase = "Settling" PROVE Evidence'
    <3>1. /\ cap'.gen = cap.gen
          /\ \/ cap.phase = "Settling" /\ cap'.windows \in {cap.windows, 0}
             \/ cap.phase = "Settling" /\ counted
             \/ /\ cap.phase = "AwaitFirstRenderedFrame" /\ (cap.renders \/ counted)
                /\ cap'.windows \in {0, 1}
      BY <2>3, <2>9 DEF Moves, Readying
    <3>2. Shows(cap.gen) \/ (~Waits(cap.gen) /\ ~rendered /\ cap'.windows <= 1)
      <4>1. CASE cap.phase = "Settling" /\ cap'.windows \in {cap.windows, 0}
        BY <2>2, <4>1 DEF Evidence, NoneLeft
      <4>2. CASE cap.phase = "Settling" /\ counted
        BY <2>2, <4>2 DEF Evidence, NoneLeft
      <4>3. CASE cap.phase = "AwaitFirstRenderedFrame" /\ counted /\ cap'.windows \in {0, 1}
        BY <2>2, <4>3 DEF Evidence, AtMostOne
      <4>. QED  BY <2>2, <3>1, <4>1, <4>2, <4>3 DEF Evidence
    <3>. QED  BY <2>1, <2>7, <2>9, <3>1, <3>2 DEF Evidence, Shows, NoneLeft, AtMostOne, Waits
  <2>10. ASSUME cap'.phase = "Committed" PROVE Evidence'
    <3>1. /\ cap'.gen = cap.gen
          /\ cap.phase = "Committed" \/ (cap.phase = "Settling" /\ counted)
      BY <2>3, <2>10 DEF Moves
    <3>2. Shows(cap.gen)
      BY <2>2, <3>1 DEF Evidence, NoneLeft
    <3>. QED  BY <2>1, <2>7, <2>10, <3>1, <3>2 DEF Evidence, Shows, NoneLeft, AtMostOne, Waits
  <2>11. ASSUME cap'.phase = "AwaitFirstIdr" PROVE Evidence'
    <3>1. cap'.windows = 0
      BY <2>2, <2>3, <2>11 DEF Moves, Evidence, Readying
    <3>. QED  BY <2>1, <2>7, <2>11, <3>1 DEF Evidence, Shows, NoneLeft, AtMostOne, Waits
  <2>12. Evidence'
    BY <2>7, <2>8, <2>9, <2>10, <2>11 DEF Evidence
  <2>. QED  BY <2>4, <2>5, <2>12
<1>. QED  BY <1>3, <1>4, <1>5, <1>6

\* Every step keeps the evidence for what is committed.
LEMMA CommitStep ==
    ASSUME SettleWindows >= 2
    PROVE  CommitInv /\ [Next]_vars => CommitInv'
<1>. SUFFICES ASSUME CommitInv, [Next]_vars PROVE (Forward /\ Evidence /\ CommitIsMutual)'
  BY ProfileStep DEF CommitInv
<1>1. CASE SenderNext
  BY <1>1, CommitSender
<1>2. CASE ReceiverNext
  BY <1>2, CommitNetwork, CommitMain DEF ReceiverNext
<1>3. CASE UNCHANGED vars
  <2>1. UNCHANGED <<sndVars, feedback, rcvPc, active, snap, queue, mainVars, cap>>
    BY <1>3 DEF vars, netVars, rcvVars
  <2>. QED  BY <2>1 DEF CommitInv, Forward, Evidence, CommitIsMutual, Shows, AtMostOne,
                NoneLeft, Waits, sndVars, mainVars
<1>. QED  BY <1>1, <1>2, <1>3 DEF Next

\* What the sender has committed is on the receiver's screen: with two settling windows
\* or more (the code asks for three) the last of them counts pictures of the new session
\* only, whatever of the old one was still on its way when the switch happened
\* (refresh_adaptive_state, ReceiverReadinessTransition::observe).
THEOREM CommittedIsMutual ==
    ASSUME SettleWindows >= 2
    PROVE  Spec => []CommitIsMutual
<1>1. Init => CommitInv
  BY ProfileInit, CommitInit DEF CommitInv
<1>2. CommitInv /\ [Next]_vars => CommitInv'
  BY CommitStep
<1>3. CommitInv => CommitIsMutual
  BY DEF CommitInv
<1>. QED  BY <1>1, <1>2, <1>3, PTL DEF Spec
=============================================================================
