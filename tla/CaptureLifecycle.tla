---------------------------- MODULE CaptureLifecycle ----------------------------
(***************************************************************************)
(* Starting and stopping a screen capture around the callback barrier      *)
(* (callback_lifecycle.rs): wgc_latest_capture.rs, which                   *)
(* gpu_nv12_capture.rs repeats with another conversion of the frame.       *)
(*                                                                         *)
(* The owner starts a capture thread, waits for it to be ready, and later  *)
(* stops or drops it; every wait has a deadline, and a thread that cannot  *)
(* be joined goes to a registry.  The capture thread registers a handler   *)
(* with Windows, whose frame pool calls it on threads of its own: a        *)
(* callback takes a frame from the pool and hands it over through a        *)
(* bounded queue.  At the end the thread closes the barrier, removes the   *)
(* handler, waits for the callbacks that are inside, returns the queued    *)
(* frames and closes the session and the pool.                             *)
(*                                                                         *)
(* Windows is modelled by what the code has to expect of it: any call may  *)
(* fail, a callback that was raised may begin at any later time, also      *)
(* after its handler is removed, and a pool that is closed gives no frame. *)
(***************************************************************************)
EXTENDS Naturals, FiniteSets

CONSTANTS
    Callbacks,        \* the calls of the handler that Windows makes
    QueueCapacity     \* FRAME_QUEUE_CAPACITY

ASSUME QueueCapacityAssumption == QueueCapacity \in Nat \ {0}

VARIABLES
    owner,      \* where the thread that owns the LatestCapture is
    handle,     \* the JoinHandle of the capture thread
    outcome,    \* what stop() returned
    stop,       \* the stop flag
    ready,      \* the channel on which the capture thread reports its start
    worker,     \* where the capture thread is
    dropping,   \* it is in the Drop of its resources
    failed,     \* the Err that capture_thread is going to return
    error,      \* the error in SharedState
    token,      \* frame_token: the handler is still to be removed
    resources,  \* resources_closed
    handler,    \* Windows has the handler
    session,    \* the GraphicsCaptureSession
    pool,       \* the frame pool is open
    accepting,  \* the barrier admits callbacks
    leases,     \* the callbacks inside it: in_flight is their number
    callback,   \* where each callback is
    frame       \* who has the frame that each callback took

ownerVars    == <<owner, handle, outcome>>
workerVars   == <<worker, dropping, failed, token, resources>>
windowsVars  == <<handler, session, pool>>
callbackVars == <<accepting, leases, callback, frame>>
vars == <<ownerVars, stop, ready, workerVars, error, windowsVars, callbackVars>>

Closing == {"refuse", "remove", "wait", "asleep", "drain", "session", "pool"}

Types ==
    /\ owner \in {"starting", "aborting", "running", "stopping", "dropping", "ended"}
    /\ handle \in {"owned", "joined", "retained"}
    /\ outcome \in {"none", "ok", "error"}
    /\ stop \in BOOLEAN
    /\ ready \in {"none", "ok", "err", "gone"}
    /\ worker \in Closing \cup
          {"setup", "register", "start", "announce", "loop", "frame", "return", "done"}
    /\ dropping \in BOOLEAN /\ failed \in BOOLEAN /\ error \in BOOLEAN
    /\ token \in BOOLEAN /\ resources \in BOOLEAN
    /\ handler \in BOOLEAN
    /\ session \in {"none", "created", "started", "closed"}
    /\ pool \in BOOLEAN
    /\ accepting \in BOOLEAN
    /\ leases \in SUBSET Callbacks
    /\ callback \in [Callbacks -> {"idle", "raised", "inside", "holding", "leaving",
                                   "gone"}]
    /\ frame \in [Callbacks -> {"none", "callback", "queued", "worker", "closed"}]

Init ==
    /\ owner = "starting" /\ handle = "owned" /\ outcome = "none"
    /\ stop = FALSE /\ ready = "none"
    /\ worker = "setup" /\ dropping = FALSE /\ failed = FALSE /\ error = FALSE
    /\ token = FALSE /\ resources = FALSE
    /\ handler = FALSE /\ session = "none" /\ pool = FALSE
    /\ accepting = TRUE /\ leases = {}
    /\ callback = [c \in Callbacks |-> "idle"]
    /\ frame = [c \in Callbacks |-> "none"]

Queued == {c \in Callbacks : frame[c] = "queued"}

TypeOK == Types /\ Cardinality(Queued) <= QueueCapacity

-----------------------------------------------------------------------------
(* The owner: LatestCapture::start, stop and Drop.                          *)

StartSucceeds ==
    /\ owner = "starting" /\ ready = "ok"
    /\ owner' = "running"
    /\ UNCHANGED <<handle, outcome, stop, ready, workerVars, error, windowsVars,
                   callbackVars>>

\* The thread reported an error, is gone, or was not ready in time:
\* stop_failed_startup_worker.
StartFails ==
    /\ owner = "starting"
    /\ stop' = TRUE /\ owner' = "aborting"
    /\ UNCHANGED <<handle, outcome, ready, workerVars, error, windowsVars,
                   callbackVars>>

StopOrDrop(how) ==
    /\ owner = "running"
    /\ stop' = TRUE /\ owner' = how
    /\ UNCHANGED <<handle, outcome, ready, workerVars, error, windowsVars,
                   callbackVars>>

Joining == owner \in {"aborting", "stopping", "dropping"}

\* Only stop() has a result to speak of.
Returns(result) ==
    /\ owner' = "ended"
    /\ outcome' = IF owner = "stopping" THEN result ELSE outcome

Join ==
    /\ Joining /\ worker = "done"
    /\ handle' = "joined"
    /\ Returns(IF error THEN "error" ELSE "ok")
    /\ UNCHANGED <<stop, ready, workerVars, error, windowsVars, callbackVars>>

\* try_join_until and retain_unjoined_worker; only Drop leaves an error behind.
JoinTimesOut ==
    /\ Joining /\ worker # "done"
    /\ handle' = "retained"
    /\ Returns("error")
    /\ error' = (error \/ owner = "dropping")
    /\ UNCHANGED <<stop, ready, workerVars, windowsVars, callbackVars>>

-----------------------------------------------------------------------------
(* The capture thread: capture_thread.                                      *)

\* WinRtGuard::initialize and setup_capture.
Setup ==
    /\ worker = "setup"
    /\ \/ /\ worker' = "register" /\ session' = "created" /\ pool' = TRUE
          /\ UNCHANGED <<ready, failed>>
       \/ /\ worker' = "return" /\ ready' = "err" /\ failed' = TRUE
          /\ UNCHANGED <<session, pool>>
    /\ UNCHANGED <<ownerVars, stop, dropping, error, token, resources, handler,
                   callbackVars>>

\* Without a handler there is nothing to guard yet: the objects are released.
Register ==
    /\ worker = "register"
    /\ \/ /\ worker' = "start" /\ handler' = TRUE /\ token' = TRUE
          /\ UNCHANGED failed
       \/ /\ worker' = "return" /\ failed' = TRUE
          /\ UNCHANGED <<handler, token>>
    /\ UNCHANGED <<ownerVars, stop, ready, dropping, error, resources, session, pool,
                   callbackVars>>

\* From here on an error leaves through the guard's Drop.
Abandon ==
    /\ worker' = "refuse" /\ dropping' = TRUE /\ failed' = TRUE

StartCapture ==
    /\ worker = "start"
    /\ \/ /\ worker' = "announce" /\ session' = "started"
          /\ UNCHANGED <<dropping, failed>>
       \/ Abandon /\ UNCHANGED session
    /\ UNCHANGED <<ownerVars, stop, ready, error, token, resources, handler, pool,
                   callbackVars>>

\* The receiver of the channel lives until start returns.
Announce ==
    /\ worker = "announce"
    /\ \/ /\ owner # "ended"
          /\ worker' = "loop" /\ ready' = "ok"
          /\ UNCHANGED <<dropping, failed>>
       \/ owner = "ended" /\ Abandon /\ UNCHANGED ready
    /\ UNCHANGED <<ownerVars, stop, error, token, resources, windowsVars,
                   callbackVars>>

\* The flag is read before a wait for at most 20 ms.
TakeFrame(c) ==
    /\ worker = "loop" /\ frame[c] = "queued"
    /\ worker' = "frame" /\ frame' = [frame EXCEPT ![c] = "worker"]
    /\ UNCHANGED <<ownerVars, stop, ready, dropping, failed, token, resources, error,
                   windowsVars, accepting, leases, callback>>

\* readback_frame, and the frame is closed whatever it returned.
CloseFrame(c) ==
    /\ worker = "frame" /\ frame[c] = "worker"
    /\ worker' = "loop" /\ frame' = [frame EXCEPT ![c] = "closed"]
    /\ UNCHANGED <<ownerVars, stop, ready, dropping, failed, token, resources, error,
                   windowsVars, accepting, leases, callback>>

LeaveLoop ==
    /\ worker = "loop" /\ stop
    /\ worker' = "refuse"
    /\ UNCHANGED <<ownerVars, stop, ready, dropping, failed, token, resources, error,
                   windowsVars, callbackVars>>

-----------------------------------------------------------------------------
(* CaptureResourcesGuard::close and shutdown_callback_source: once when the *)
(* loop is over, and once more, or only then, from Drop.                    *)

\* Mutant: the queue is emptied before the callbacks have left.
Following_DrainFirst(step) ==
    CASE step = "refuse"  -> "remove"
      [] step = "remove"  -> "drain"
      [] step = "drain"   -> "wait"
      [] step = "wait"    -> "session"
      [] step = "session" -> "pool"

\* The order of the five steps; each of them is taken whether or not the one
\* before has failed.
Following(step) ==
    CASE step = "refuse"  -> "remove"
      [] step = "remove"  -> "wait"
      [] step = "wait"    -> "drain"
      [] step = "drain"   -> "session"
      [] step = "session" -> "pool"

\* What close returns counts after the loop; Drop ignores it.
CallFails == failed' = (failed \/ ~dropping)

Refuse ==
    /\ worker = "refuse"
    /\ accepting' = FALSE
    /\ worker' = Following("refuse")
    /\ UNCHANGED <<ownerVars, stop, ready, dropping, failed, token, resources, error,
                   windowsVars, leases, callback, frame>>

\* A handler that could not be removed stays, and is not removed again.
RemoveHandler ==
    /\ worker = "remove"
    /\ token' = FALSE
    /\ \/ token /\ handler' = FALSE /\ UNCHANGED failed
       \/ token /\ CallFails /\ UNCHANGED handler
       \/ ~token /\ UNCHANGED <<handler, failed>>
    /\ worker' = Following("remove")
    /\ UNCHANGED <<ownerVars, stop, ready, dropping, resources, error, session, pool,
                   callbackVars>>

\* wait_until_idle: in_flight = 0.
Idle == leases = {}

WaitUntilIdle ==
    /\ worker = "wait"
    /\ worker' = IF Idle THEN Following("wait") ELSE "asleep"
    /\ UNCHANGED <<ownerVars, stop, ready, dropping, failed, token, resources, error,
                   windowsVars, callbackVars>>

\* A frame whose Close fails is given up all the same.
DrainPending ==
    /\ worker = "drain"
    /\ \/ UNCHANGED failed
       \/ Queued # {} /\ CallFails
    /\ frame' = [c \in Callbacks |-> IF c \in Queued THEN "closed" ELSE frame[c]]
    /\ worker' = Following("drain")
    /\ UNCHANGED <<ownerVars, stop, ready, dropping, token, resources, error,
                   windowsVars, accepting, leases, callback>>

CloseSession ==
    /\ worker = "session"
    /\ \/ ~resources /\ session' = "closed" /\ UNCHANGED failed
       \/ ~resources /\ CallFails /\ UNCHANGED session
       \/ resources /\ UNCHANGED <<session, failed>>
    /\ worker' = Following("session")
    /\ UNCHANGED <<ownerVars, stop, ready, dropping, token, resources, error, handler,
                   pool, callbackVars>>

\* The last step: Drop's close follows the first one.
ClosePool ==
    /\ worker = "pool"
    /\ \/ ~resources /\ pool' = FALSE /\ UNCHANGED failed
       \/ ~resources /\ CallFails /\ UNCHANGED pool
       \/ resources /\ UNCHANGED <<pool, failed>>
    /\ resources' = TRUE /\ dropping' = TRUE
    /\ worker' = IF dropping THEN "return" ELSE "refuse"
    /\ UNCHANGED <<ownerVars, stop, ready, token, error, handler, session,
                   callbackVars>>

\* The Err of capture_thread goes to SharedState.
ErrorOf == error \/ failed

\* The channel is gone with the thread's arguments.
Return ==
    /\ worker = "return"
    /\ error' = ErrorOf
    /\ ready' = IF ready = "none" THEN "gone" ELSE ready
    /\ worker' = "done"
    /\ UNCHANGED <<ownerVars, stop, dropping, failed, token, resources, windowsVars,
                   callbackVars>>

-----------------------------------------------------------------------------
(* The callbacks: the closure of create_frame_handler on a Windows thread.  *)

MoveTo(c, place) == callback' = [callback EXCEPT ![c] = place]

Raise(c) ==
    /\ callback[c] = "idle"
    /\ handler /\ session = "started" /\ pool
    /\ MoveTo(c, "raised")
    /\ UNCHANGED <<ownerVars, stop, ready, workerVars, error, windowsVars, accepting,
                   leases, frame>>

\* CallbackBarrier::try_enter.
TryEnter(c) ==
    /\ callback[c] = "raised"
    /\ \/ accepting /\ leases' = leases \cup {c} /\ MoveTo(c, "inside")
       \/ ~accepting /\ UNCHANGED leases /\ MoveTo(c, "gone")
    /\ UNCHANGED <<ownerVars, stop, ready, workerVars, error, windowsVars, accepting,
                   frame>>

\* TryGetNextFrame.
GetFrame(c) ==
    /\ callback[c] = "inside"
    /\ \/ /\ pool
          /\ frame' = [frame EXCEPT ![c] = "callback"] /\ MoveTo(c, "holding")
       \/ UNCHANGED frame /\ MoveTo(c, "leaving")
    /\ UNCHANGED <<ownerVars, stop, ready, workerVars, error, windowsVars, accepting,
                   leases>>

\* try_send gives a frame back that has no room, and the callback closes it.
Refused(c) == frame' = [frame EXCEPT ![c] = "closed"]

HasRoom == Cardinality(Queued) < QueueCapacity

SendFrame(c) ==
    /\ callback[c] = "holding"
    /\ IF HasRoom
       THEN frame' = [frame EXCEPT ![c] = "queued"]
       ELSE Refused(c)
    /\ MoveTo(c, "leaving")
    /\ UNCHANGED <<ownerVars, stop, ready, workerVars, error, windowsVars, accepting,
                   leases>>

\* Mutant: the last callback does not wake the waiting thread.
Woken_Never(left) == worker

\* The condition variable is notified when in_flight has become 0.
Woken(left) == IF left = {} /\ worker = "asleep" THEN "wait" ELSE worker

\* CallbackLease::drop.
LeaveBarrier(c) ==
    /\ callback[c] = "leaving"
    /\ leases' = leases \ {c}
    /\ worker' = Woken(leases \ {c})
    /\ MoveTo(c, "gone")
    /\ UNCHANGED <<ownerVars, stop, ready, dropping, failed, token, resources, error,
                   windowsVars, accepting, frame>>

-----------------------------------------------------------------------------
OwnerStep ==
    \/ StartSucceeds \/ StartFails \/ StopOrDrop("stopping") \/ StopOrDrop("dropping")
    \/ Join \/ JoinTimesOut

CloseStep ==
    \/ Refuse \/ RemoveHandler \/ WaitUntilIdle \/ DrainPending \/ CloseSession
    \/ ClosePool

WorkerStep ==
    \/ Setup \/ Register \/ StartCapture \/ Announce \/ LeaveLoop \/ CloseStep \/ Return
    \/ \E c \in Callbacks : TakeFrame(c) \/ CloseFrame(c)

\* What a callback does once Windows has raised it.
CallbackStep(c) == TryEnter(c) \/ GetFrame(c) \/ SendFrame(c) \/ LeaveBarrier(c)

Next ==
    \/ OwnerStep \/ WorkerStep
    \/ \E c \in Callbacks : Raise(c) \/ CallbackStep(c)

Spec == Init /\ [][Next]_vars

\* The capture thread and the callbacks that began keep running, which assumes
\* that every call into Windows returns, and the owner's deadlines pass.
Fairness ==
    /\ WF_vars(WorkerStep)
    /\ \A c \in Callbacks : WF_vars(CallbackStep(c))
    /\ WF_vars(StartSucceeds \/ StartFails)
    /\ WF_vars(Join \/ JoinTimesOut)

FairSpec == Spec /\ Fairness

-----------------------------------------------------------------------------
(* Properties.                                                              *)

\* The session, the pool or the thread is over.
Closed == session = "closed" \/ resources \/ worker = "done"

\* They are closed only when no callback is inside the barrier, where it may call
\* the pool and hold one of its frames, however late Windows began it.
CallbackFenced ==
    Closed => \A c \in Callbacks : callback[c] \notin {"inside", "holding", "leaving"}

\* Every frame that was taken from the pool has been returned before, by whoever
\* had it last: a callback, the queue or the capture thread.
FramesReturned ==
    Closed => \A c \in Callbacks : frame[c] \in {"none", "closed"}

\* A stop() that returns Ok leaves nothing: the thread is over, the session and
\* the pool are closed, the handler is removed and no callback will do anything.
StopIsClean ==
    outcome = "ok" =>
        /\ worker = "done" /\ handle = "joined"
        /\ ~handler /\ session = "closed" /\ ~pool
        /\ ~accepting /\ leases = {}

\* What the ordered cleanup is for: no callback outlives what it uses, no frame its
\* pool, and no stop() that returns Ok leaves either behind.
CaptureSafety == CallbackFenced /\ FramesReturned /\ StopIsClean

\* Whoever stops the capture returns, and the thread ends, though it may have
\* fallen asleep on callbacks that were inside.
StopEnds == []<>(stop => owner = "ended" /\ worker = "done")

=============================================================================
