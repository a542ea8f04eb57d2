----------------------------- MODULE ReceiverRun -----------------------------
(***************************************************************************)
(* One run of the screen receiver, from its start to its exit code         *)
(* (h264_recv_view.rs run, shutdown.rs, local_control.rs).  The main       *)
(* thread starts a sound worker, a render worker and a network worker,     *)
(* polls a cancellation token while they run, and then joins each of them  *)
(* within a deadline; a worker that misses it is kept in the process-wide  *)
(* registry of retained workers.  A worker may fail, panic or hang at any  *)
(* time, and a stop may come from the console, from standard input, from   *)
(* the window, from the peer, from the clock or from a worker's own error. *)
(*                                                                         *)
(* `workers', `errors', `closed' and `token' are what the threads share;   *)
(* `phase' is where the main thread is and `joins' what its bounded joins  *)
(* returned.  The second console signal, which lets the system kill the    *)
(* process, is left out.                                                   *)
(***************************************************************************)
EXTENDS Naturals, FiniteSets

CONSTANT SoundWanted      \* the values of the --audio option to run with, a set of BOOLEANs

VARIABLES phase, sound, workers, greeting, errors, token, interrupted, silenced, closed,
          lifecycle, joins, registry, final

mainVars   == <<phase, lifecycle, joins, registry, final, silenced>>
workerVars == <<workers, greeting, errors, closed>>
runVars    == <<mainVars, workerVars, sound, token, interrupted>>

RunWorkers == {"sound", "render", "network"}

NoReason == "none"

Ended(w) == workers[w] \in {"ended", "panicked"}

(* The token: every worker polls the flag; the first reason stays. *)
CancelRun(why) ==
    token' = [flag |-> TRUE, reason |-> IF token.reason = NoReason THEN why ELSE token.reason]

(* is_cancelled and reason: a console signal becomes a reason when the     *)
(* token is next looked at.                                                *)
NoticeInterrupt == IF interrupted THEN CancelRun("ctrl_c") ELSE UNCHANGED token

RunInit ==
    /\ phase = "prepare"
    /\ sound \in SoundWanted
    /\ workers = [w \in RunWorkers |-> "none"]
    /\ greeting = "none"
    /\ errors = [w \in RunWorkers |-> FALSE]
    /\ token = [flag |-> FALSE, reason |-> NoReason]
    /\ interrupted = FALSE
    /\ silenced = FALSE
    /\ closed = FALSE
    /\ lifecycle = "starting"
    /\ joins = [w \in RunWorkers |-> "not_started"]
    /\ registry = {}
    /\ final = [result |-> "none", event |-> "none", reason |-> NoReason]

-----------------------------------------------------------------------------
(* Bounded joins and the registry. *)

(* try_join_until: what a join of w that gives up at its deadline returns. *)
JoinOutcome(w) ==
    CASE workers[w] = "none"     -> "not_started"
      [] workers[w] = "ended"    -> "joined"
      [] workers[w] = "panicked" -> "panicked"
      [] OTHER                   -> "timed_out"

Clean(outcome) == outcome \in {"joined", "not_started"}

(* Join w; one that has not ended by the deadline is retained. *)
\* Mutant: the handle of a worker that missed its deadline is dropped.
JoinOrRetain_Detached(w) ==
    /\ joins' = [joins EXCEPT ![w] = JoinOutcome(w)]
    /\ UNCHANGED registry

JoinOrRetain(w) ==
    /\ joins' = [joins EXCEPT ![w] = JoinOutcome(w)]
    /\ registry' = IF JoinOutcome(w) = "timed_out" THEN registry \cup {w} ELSE registry

(* reap_finished_retained_workers *)
Reaped == {w \in registry : ~Ended(w)}

-----------------------------------------------------------------------------
(* Starting. *)

(* print_startup_failure: the final event speaks of the cleanup, by the    *)
(* registry and by the tag that a render worker left running, or a sound   *)
(* worker that did not end well, has added to the error.                   *)
StartupFails ==
    /\ phase' = "returned"
    /\ registry' = Reaped
    /\ final' = [result |-> "error",
                 event  |-> IF joins["render"] = "timed_out" \/ ~Clean(joins["sound"]) \/ Reaped # {}
                              THEN "shutdown_failed" ELSE "stopped",
                 reason |-> IF interrupted THEN "ctrl_c" ELSE "startup_failure"]

(* validate_config, the console handler, the listener on standard input,   *)
(* the socket and its buffer: any of them may fail, nothing runs yet.      *)
Prepare ==
    /\ phase = "prepare"
    /\ \/ phase' = "startSound" /\ UNCHANGED <<registry, final>>
       \/ StartupFails
    /\ UNCHANGED <<workerVars, sound, token, interrupted, silenced, lifecycle, joins>>

(* spawn_integrated_audio_receiver: a thread that does not start is no error. *)
StartSound ==
    /\ phase = "startSound"
    /\ phase' = "startRender"
    /\ \/ sound /\ workers' = [workers EXCEPT !["sound"] = "running"]
       \/ UNCHANGED workers
    /\ UNCHANGED <<greeting, errors, closed, sound, token, interrupted,
                   silenced, lifecycle, joins, registry, final>>

(* mark_failed and, for the sound worker, the first half of stop_and_join. *)
GiveUp(next) ==
    /\ phase' = next
    /\ lifecycle' = "failed"
    /\ UNCHANGED <<joins, registry, final>>

(* spawn_render_thread waits for the renderer to exist or to have failed.  *)
StartRender ==
    /\ \/ /\ phase = "startRender"
          /\ \/ /\ phase' = "awaitRender"
                /\ workers' = [workers EXCEPT !["render"] = "creating"]
                /\ UNCHANGED <<lifecycle, joins, registry, final>>
             \/ GiveUp("stopSound") /\ UNCHANGED workers
       \/ /\ phase = "awaitRender"
          /\ \/ greeting = "ready" /\ phase' = "startNetwork" /\ UNCHANGED <<lifecycle, joins, registry, final>>
             \/ greeting = "failed" /\ GiveUp("stopSound")
          /\ UNCHANGED workers
    /\ UNCHANGED <<greeting, errors, closed, sound, token, interrupted, silenced>>

(* spawn_network_thread, then mark_running; without it the flag is raised  *)
(* with no reason, and what was started is stopped and joined.             *)
StartNetwork ==
    /\ phase = "startNetwork"
    /\ \/ /\ phase' = "running"
          /\ workers' = [workers EXCEPT !["network"] = "running"]
          /\ lifecycle' = "running"
          /\ UNCHANGED <<token, joins, registry, final>>
       \/ /\ GiveUp("stopRender")
          /\ token' = [token EXCEPT !.flag = TRUE]
          /\ UNCHANGED workers
    /\ UNCHANGED <<greeting, errors, closed, sound, interrupted, silenced>>

AbandonRender ==
    /\ phase = "stopRender"
    /\ phase' = "stopSound"
    /\ JoinOrRetain("render")
    /\ UNCHANGED <<workerVars, sound, token, interrupted, silenced, lifecycle, final>>

AbandonSound ==
    \/ /\ phase = "stopSound"
       /\ phase' = "joinSoundAndFail"
       /\ silenced' = TRUE
       /\ UNCHANGED <<workerVars, sound, token, interrupted, lifecycle, joins, registry, final>>
    \/ /\ phase = "joinSoundAndFail"
       /\ phase' = "fail"
       /\ JoinOrRetain("sound")
       /\ UNCHANGED <<workerVars, sound, token, interrupted, silenced, lifecycle, final>>

FailStart ==
    /\ phase = "fail"
    /\ StartupFails
    /\ UNCHANGED <<workerVars, sound, token, interrupted, silenced, lifecycle, joins>>

-----------------------------------------------------------------------------
(* Running and cleaning up. *)

(* One pass of the main loop: the token (where a console signal becomes a  *)
(* reason), the --duration, the window; otherwise it decodes and reports.  *)
Poll ==
    /\ phase = "running"
    /\ phase' = "cleanup"
    /\ \/ (token.flag \/ interrupted) /\ NoticeInterrupt
       \/ ~token.flag /\ ~interrupted /\ CancelRun("duration")
       \/ closed /\ CancelRun("window_closed")
    /\ UNCHANGED <<workerVars, sound, interrupted, silenced, lifecycle, joins, registry, final>>

(* request_stop and begin_cleanup: a stop without a reason is a local one. *)
BeginCleanup ==
    /\ phase = "cleanup"
    /\ phase' = "joinRender"
    /\ CancelRun("local_stop")
    /\ lifecycle' = "stopping"
    /\ UNCHANGED <<workerVars, sound, interrupted, silenced, joins, registry, final>>

JoinRender ==
    /\ phase = "joinRender"
    /\ phase' = "joinNetwork"
    /\ JoinOrRetain("render")
    /\ UNCHANGED <<workerVars, sound, token, interrupted, silenced, lifecycle, final>>

JoinNetwork ==
    /\ phase = "joinNetwork"
    /\ phase' = "joinSound"
    /\ JoinOrRetain("network")
    /\ silenced' = TRUE
    /\ UNCHANGED <<workerVars, sound, token, interrupted, lifecycle, final>>

JoinSound ==
    /\ phase = "joinSound"
    /\ phase' = "report"
    /\ JoinOrRetain("sound")
    /\ UNCHANGED <<workerVars, sound, token, interrupted, silenced, lifecycle, final>>

(* The summary, the final event and the exit: an error that a worker       *)
(* recorded, or a join that was not clean, makes the run an error.         *)
RunResult ==
    IF /\ ~errors["network"] /\ ~errors["render"]
       /\ \A w \in RunWorkers : Clean(joins[w])
       /\ Reaped = {}
      THEN "ok" ELSE "error"

Report ==
    /\ phase = "report"
    /\ phase' = "returned"
    /\ registry' = Reaped
    /\ lifecycle' = IF Reaped = {} /\ \A w \in RunWorkers : Clean(joins[w]) THEN "stopped" ELSE "failed_cleanup"
    /\ final' = [result |-> RunResult,
                 event  |-> IF RunResult = "ok" THEN "stopped" ELSE "shutdown_failed",
                 reason |-> token.reason]
    /\ UNCHANGED <<workerVars, sound, token, interrupted, silenced, joins>>

-----------------------------------------------------------------------------
(* The workers. *)

To(w, state) == workers' = [workers EXCEPT ![w] = state]

(* The render worker's start: the renderer is made, or its error is sent   *)
(* to the main thread and recorded after that.                             *)
RenderCreates ==
    /\ workers["render"] = "creating"
    /\ \/ To("render", "running") /\ greeting' = "ready"
       \/ To("render", "leaving") /\ greeting' = "failed"
       \/ To("render", "panicked") /\ greeting' = "failed"
    /\ UNCHANGED <<mainVars, errors, closed, sound, token, interrupted>>

RenderLeaves ==
    /\ workers["render"] = "leaving"
    /\ To("render", "ended")
    /\ errors' = [errors EXCEPT !["render"] = TRUE]
    /\ UNCHANGED <<mainVars, greeting, closed, sound, token, interrupted>>

(* The window is closed, seen by the next pump of its messages. *)
WindowCloses ==
    /\ \/ /\ workers["render"] = "running"
          /\ CancelRun("window_closed")
          /\ To("render", "closing")
          /\ UNCHANGED closed
       \/ /\ workers["render"] = "closing"
          /\ closed' = TRUE
          /\ To("render", "ended")
          /\ UNCHANGED token
    /\ UNCHANGED <<mainVars, greeting, errors, sound, interrupted>>

(* The network loop or the rendering fails: the reason is in the token     *)
(* before the error is where the main thread looks for it.                 *)
WorkerFails(w) ==
    /\ \/ /\ workers[w] = "running"
          /\ CancelRun("internal_error")
          /\ To(w, "failing")
          /\ UNCHANGED errors
       \/ /\ workers[w] = "failing"
          /\ errors' = [errors EXCEPT ![w] = TRUE]
          /\ To(w, "ended")
          /\ UNCHANGED token
    /\ UNCHANGED <<mainVars, greeting, closed, sound, interrupted>>

(* The sound worker's error is a statistic and ends only itself. *)
SoundFails ==
    /\ workers["sound"] = "running"
    /\ To("sound", "ended")
    /\ UNCHANGED <<mainVars, greeting, errors, closed, sound, token, interrupted>>

(* The peer closes the stream or falls silent. *)
PeerLeaves ==
    /\ workers["network"] = "running"
    /\ \E why \in {"peer_closed", "peer_timeout"} : CancelRun(why)
    /\ UNCHANGED <<mainVars, workerVars, sound, interrupted>>

(* A worker sees its flag and returns. *)
WorkerStops(w) ==
    /\ workers[w] = "running"
    /\ IF w = "sound" THEN silenced ELSE token.flag
    /\ To(w, "ended")
    /\ UNCHANGED <<mainVars, greeting, errors, closed, sound, token, interrupted>>

WorkerPanics(w) ==
    /\ workers[w] = "running"
    /\ To(w, "panicked")
    /\ UNCHANGED <<mainVars, greeting, errors, closed, sound, token, interrupted>>

(* The console signal, and LOCAL_STOP on standard input. *)
Interrupt ==
    /\ ~interrupted
    /\ interrupted' = TRUE
    /\ UNCHANGED <<mainVars, workerVars, sound, token>>

LocalStopArrives ==
    /\ phase \notin {"prepare", "returned"}
    /\ CancelRun("local_stop")
    /\ UNCHANGED <<mainVars, workerVars, sound, interrupted>>

MainStep ==
    \/ Prepare \/ StartSound \/ StartRender \/ StartNetwork
    \/ AbandonRender \/ AbandonSound \/ FailStart
    \/ Poll \/ BeginCleanup \/ JoinRender \/ JoinNetwork \/ JoinSound \/ Report

WorkerStep ==
    \/ RenderCreates \/ RenderLeaves \/ WindowCloses \/ SoundFails \/ PeerLeaves
    \/ \E w \in {"render", "network"} : WorkerFails(w)
    \/ \E w \in RunWorkers : WorkerStops(w) \/ WorkerPanics(w)

RunNext == MainStep \/ WorkerStep \/ Interrupt \/ LocalStopArrives

(* The main thread is scheduled, and the pass that sees a raised flag is   *)
(* its next one; a renderer is created or fails.  A running worker may     *)
(* hang for ever: nothing is assumed of it.                                *)
RunFairness ==
    /\ WF_runVars(MainStep /\ (phase = "running" => token.flag \/ interrupted))
    /\ WF_runVars(RenderCreates)

ReceiverRunSpec == RunInit /\ [][RunNext]_runVars /\ RunFairness

-----------------------------------------------------------------------------
(* Properties. *)

(* Types. *)
RunTypeOK ==
    /\ phase \in {"prepare", "startSound", "startRender", "awaitRender", "startNetwork",
                  "stopRender", "stopSound", "joinSoundAndFail", "fail", "running", "cleanup",
                  "joinRender", "joinNetwork", "joinSound", "report", "returned"}
    /\ workers \in [RunWorkers -> {"none", "creating", "leaving", "running", "closing", "failing", "ended", "panicked"}]
    /\ greeting \in {"none", "ready", "failed"}
    /\ errors \in [RunWorkers -> BOOLEAN]
    /\ token.flag \in BOOLEAN /\ interrupted \in BOOLEAN /\ silenced \in BOOLEAN /\ closed \in BOOLEAN
    /\ lifecycle \in {"starting", "running", "stopping", "stopped", "failed", "failed_cleanup"}
    /\ joins \in [RunWorkers -> {"not_started", "joined", "panicked", "timed_out"}]
    /\ registry \subseteq RunWorkers

(* A run that reports a stop has no worker left (a renderer that failed to *)
(* start may still be returning), and one that returns success had no      *)
(* worker that failed or panicked, except for a sound worker that failed.  *)
(* The terminal event is computed from join results, from the registry     *)
(* and from errors recorded by threads that may outlive their deadlines.   *)
StopIsTrue ==
    phase = "returned" =>
        /\ final.event = "stopped" =>
             \A w \in RunWorkers : workers[w] \in {"none", "leaving", "ended", "panicked"}
        /\ final.result = "ok" =>
             /\ \A w \in RunWorkers : workers[w] \in {"none", "ended"} /\ ~errors[w]
             /\ lifecycle = "stopped"

(* A worker that is still running when the run returns is in the registry  *)
(* of retained workers: no path, of start or of cleanup, drops a handle.   *)
NoWorkerIsDetached ==
    phase = "returned" =>
        \A w \in RunWorkers : workers[w] \notin {"none", "leaving", "ended", "panicked"} => w \in registry

(* A stop that has been asked for makes the run return, even when a worker *)
(* never notices it.  (A request is never withdrawn, so this says "leads   *)
(* to".)                                                                   *)
AskedToStopReturns == []<>(token.flag \/ interrupted => phase = "returned")

=============================================================================
