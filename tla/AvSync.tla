------------------------------- MODULE AvSync -------------------------------
(***************************************************************************)
(* The A/V presentation policy of the render thread.  The thread takes the *)
(* newest decoded frame from a slot of one, reads the audio master and     *)
(* asks the scheduler whether to render, to hold, to drop or to bypass the *)
(* synchronisation.  A held frame goes back to the slot, over a newer one  *)
(* that arrived meanwhile, and is asked about again 2 ms later.            *)
(*                                                                         *)
(* Time is in ticks and relative: ages instead of instants, and for the    *)
(* frame its distance from the audio that is audible.  What the thread     *)
(* reads of the audio is arbitrary at every decision.                      *)
(***************************************************************************)
EXTENDS Integers

CONSTANTS
    SyncFrames,       \* frames are followed up to this number
    Tolerance,        \* TOLERANCE_US
    LateDrop,         \* LATE_DROP_US
    MaxHold,          \* MAX_HOLD_US
    ForcedBypass,     \* FORCED_BYPASS_US
    MaxDrift          \* MAX_DRIFT_US

\* A frame may be held at all, and for one tick.
ASSUME SyncAssumption ==
    /\ {SyncFrames, Tolerance, LateDrop, ForcedBypass, MaxDrift} \subseteq Nat
    /\ MaxHold \in Nat \ {0}

NotSet == -1
Deltas == (-LateDrop - 1)..(Tolerance + 1)

\* What keeps the thread from synchronising, in the order of the checks: the
\* early ones are looked at before the clock jump, the late ones after it.
EarlyObstacles == {"renderer_not_ready", "session_mismatch", "timeline_discontinuity",
                   "device_padding_invalid"}
LateObstacles  == {"audio_master_stale", "audio_master_invalid", "unstable"}
Obstacles      == EarlyObstacles \cup LateObstacles \cup {"none"}

VARIABLES
    newest,     \* the last frame that was decoded
    slot,       \* RenderWorkerState::pending: a frame or 0
    taken,      \* the frame the thread holds in its hands, or 0
    sync,       \* AvSyncScheduler: [state, reason, epoch, counted, forced]
    detector,   \* MediaClockJumpDetector: the drift since the last reading
    clock,      \* ghost: [held: how long the taken frame was held, forced: age]
    verdict     \* the last decision, and the frame it was about

syncVars == <<newest, slot, taken, sync, detector, clock, verdict>>

AvSyncInit ==
    /\ newest = 0 /\ slot = 0 /\ taken = 0
    /\ sync = [state |-> "waiting_for_renderer", reason |-> "none",
               epoch |-> NotSet, counted |-> FALSE, forced |-> 0]
    /\ detector = NotSet
    /\ clock = [held |-> NotSet, forced |-> ForcedBypass, polled |-> TRUE]
    /\ verdict = [what |-> "none", frame |-> 0]

-----------------------------------------------------------------------------
(* The scheduler: decide gives the next scheduler and the verdict.          *)

\* clear_hold_epoch
ClearEpoch(s) == [s EXCEPT !.epoch = NotSet, !.counted = FALSE]

\* bypass
Bypass(s, state, why) ==
    [s |-> [ClearEpoch(s) EXCEPT !.state = state, !.reason = why], what |-> "bypass"]

StateFor(obstacle) ==
    CASE obstacle = "renderer_not_ready"  -> "waiting_for_renderer"
      [] obstacle \in LateObstacles       -> "waiting_for_audio_anchor"
      [] OTHER                            -> "temporarily_bypassed"

\* A frame that is too early: it is held until the epoch is MaxHold old, and
\* then released by force.
HoldEarly(s) ==
    IF s.epoch < MaxHold
      THEN [s |-> [s EXCEPT !.epoch = IF @ = NotSet THEN 0 ELSE @, !.counted = TRUE],
            what |-> "hold"]
      ELSE [s |-> [ClearEpoch(s) EXCEPT !.forced = ForcedBypass, !.reason = "hold_deadline_exceeded",
                                        !.state = "temporarily_bypassed"],
            what |-> "forced"]

\* decide
Decide(s, obstacle, jump, delta) ==
    LET active == [s EXCEPT !.forced = 0, !.state = "active", !.reason = "none"]
    IN  IF obstacle \in EarlyObstacles THEN Bypass(s, StateFor(obstacle), obstacle)
        ELSE IF jump THEN Bypass(s, "temporarily_bypassed", "clock_jump")
        ELSE IF obstacle \in LateObstacles THEN Bypass(s, StateFor(obstacle), obstacle)
        ELSE IF s.forced > 0
          THEN Bypass(s, "temporarily_bypassed", "hold_deadline_exceeded")
        ELSE IF delta > Tolerance THEN HoldEarly(active)
        ELSE [s |-> ClearEpoch(active), what |-> IF delta < -LateDrop THEN "drop" ELSE "render"]

-----------------------------------------------------------------------------
(* The threads.                                                             *)

\* submit_render_frame: the newest decoded frame replaces what is there.
SubmitFrame ==
    /\ newest < SyncFrames
    /\ newest' = newest + 1
    /\ slot' = newest'
    /\ UNCHANGED <<taken, sync, detector, clock, verdict>>

TakeFrame ==
    /\ taken = 0 /\ slot # 0
    /\ taken' = slot
    /\ slot' = 0
    /\ clock' = [clock EXCEPT !.held = IF verdict = [what |-> "hold", frame |-> slot] THEN @ ELSE NotSet]
    /\ UNCHANGED <<newest, sync, detector, verdict>>

\* The playhead is known unless the master is unusable.
Playhead(obstacle) ==
    CASE obstacle \in {"none", "unstable"}                         -> {TRUE}
      [] obstacle \in {"renderer_not_ready", "session_mismatch"}   -> BOOLEAN
      [] OTHER                                                     -> {FALSE}

\* MediaClockJumpDetector::observe; without a playhead the detector is reset.
Jumped(playhead) == playhead /\ detector # NotSet /\ detector > MaxDrift

\* One pass of the render thread with a frame.
RenderPass ==
    /\ taken # 0
    /\ \E obstacle \in Obstacles, delta \in Deltas :
       \E playhead \in Playhead(obstacle) :
        LET d == Decide(sync, obstacle, Jumped(playhead), delta)
        IN  /\ sync' = d.s
            /\ detector' = IF playhead THEN 0 ELSE NotSet
            /\ verdict' = [what |-> d.what, frame |-> taken]
            /\ slot' = IF d.what = "hold" THEN taken ELSE slot
            /\ clock' = [held   |-> IF d.what # "hold" THEN NotSet
                                    ELSE IF clock.held = NotSet THEN 0 ELSE clock.held,
                         forced |-> IF d.what = "forced" THEN 0 ELSE clock.forced,
                         polled |-> TRUE]
    /\ taken' = 0
    /\ UNCHANGED newest

\* The thread asks about a held frame in every tick; the audio clock may run
\* away from the wall clock.
SyncTick ==
    /\ taken = 0
    /\ clock.held # NotSet => clock.polled
    /\ sync' = [sync EXCEPT !.epoch = IF @ \in {NotSet, MaxHold} THEN @ ELSE @ + 1,
                            !.forced = IF @ = 0 THEN 0 ELSE @ - 1]
    /\ clock' = [held   |-> IF clock.held \in {NotSet, MaxHold + 1} THEN clock.held ELSE clock.held + 1,
                 forced |-> IF clock.forced = ForcedBypass THEN ForcedBypass ELSE clock.forced + 1,
                 polled |-> FALSE]
    /\ \E drift \in 0..1 :
        detector' = IF detector = NotSet \/ detector > MaxDrift THEN detector ELSE detector + drift
    /\ UNCHANGED <<newest, slot, taken, verdict>>

AvSyncNext == SubmitFrame \/ TakeFrame \/ RenderPass \/ SyncTick

-----------------------------------------------------------------------------
(* Properties.                                                              *)

\* The types; an epoch is open exactly while frames are held.
AvSyncTypeOK ==
    /\ slot \in 0..SyncFrames /\ taken \in 0..SyncFrames
    /\ sync.epoch \in NotSet..MaxHold /\ sync.forced \in 0..ForcedBypass
    /\ (sync.epoch # NotSet) <=> (verdict.what = "hold")
    /\ sync.counted <=> (sync.epoch # NotSet)

\* A frame is not held longer than MAX_HOLD_US, whatever the audio does: a
\* frame that replaces a held one inherits its epoch.
HoldIsBounded == clock.held <= MaxHold

\* After a forced release nothing is held or dropped for FORCED_BYPASS_US, also
\* when the synchronisation was bypassed for another reason in between.
ReleaseIsLasting == verdict.what \in {"hold", "drop"} => clock.forced = ForcedBypass
=============================================================================
