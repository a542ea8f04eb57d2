---------------------------- MODULE ScreenRuntime -----------------------------
(***************************************************************************)
(* The part of the desktop application that starts, watches and stops the  *)
(* native media process (screen_runtime.py).  The threads that meet here   *)
(* are the GUI's, which starts; those that run stop(), one for the button  *)
(* and one for the closing of the application; a timer that looks at every *)
(* process one second after its start; and the readers of a process's      *)
(* output, which act on its events without the lock.                       *)
(*                                                                         *)
(* A section under _lifecycle_lock is one action, except that the early    *)
(* path of stop() is three, since the GUI's assignments do not take the    *)
(* lock; `locked' is the stop that holds it between them.  A join that is  *)
(* bounded by a deadline may find the reader over or still reading.  Why a *)
(* start is refused (arguments, executable, audio) is one outcome.         *)
(***************************************************************************)
EXTENDS Naturals, FiniteSets

CONSTANTS
    MaxStarts,   \* bound of the model: processes that are started
    StopThreads  \* the threads that call stop()

ASSUME MaxStartsAssumption == MaxStarts \in Nat \ {0}

NoProcess == 0
Processes == 1..MaxStarts
StopStates == {"stop_requested", "stopping", "native_stopped"}

VARIABLES
    screenState,   \* _state: idle, sharing (receiving or sending), error, or a stop state
    process,       \* _process
    stopInProgress,\* _stop_in_progress
    listed,        \* the processes whose readers are in _reader_threads
    native,        \* each native process: "none", "alive", or the exit code it left
    readersOn,     \* the processes whose reader threads have not ended
    faults,        \* the processes with an ERROR event not read yet
    starter,       \* where start_receiver or start_sender is
    started,       \* how many processes have been created
    checks,        \* the processes whose startup check has not run
    stopper,       \* where each stop() is
    target,        \* the process each stop() is about
    joining,       \* the readers each stop() has taken from the list to join
    locked,        \* the stops in their early path, holding the lock
    crossed        \* history: another thread took the lock in the middle of a start

startVars   == <<starter, started, checks>>
stopVars    == <<stopper, target, joining, locked>>
nativeVars  == <<native, readersOn, faults>>
sharedVars  == <<screenState, process, stopInProgress, listed>>
runtimeVars == <<sharedVars, nativeVars, startVars, stopVars, crossed>>

Alive(p) == p # NoProcess /\ native[p] = "alive"
Exited(p) == p # NoProcess /\ native[p] # "alive"
LockFree == locked = {}

RuntimeInit ==
    /\ screenState = "idle" /\ process = NoProcess /\ stopInProgress = FALSE /\ listed = {}
    /\ native = [p \in Processes |-> "none"] /\ readersOn = {} /\ faults = {}
    /\ starter = "rest" /\ started = 0 /\ checks = {}
    /\ stopper = [s \in StopThreads |-> "rest"]
    /\ target = [s \in StopThreads |-> NoProcess]
    /\ joining = [s \in StopThreads |-> {}]
    /\ locked = {} /\ crossed = FALSE

\* What of a list of readers is left when the join of its threads is over.
Unjoined(readers) == readers \cap readersOn

\* Another thread's section falls between the first check of a start and its last write.
Crosses == crossed' = (crossed \/ starter # "rest")

-----------------------------------------------------------------------------
(* Looking at the process. *)

\* A process that has exited is let go of.
LetGo(over) ==
    /\ process' = NoProcess
    /\ listed' = Unjoined(listed)
    /\ screenState' = IF over THEN "idle" ELSE "error"

\* _refresh_process_locked: not while a stop is dealing with it.
Refresh ==
    IF Exited(process) /\ ~stopInProgress
    THEN LetGo(screenState = "stopping" \/ native[process] = "clean")
    ELSE UNCHANGED <<process, listed, screenState>>

\* get_state and is_running, of the GUI or of another thread.
GetState ==
    /\ LockFree
    /\ Exited(process)
    /\ Refresh
    /\ Crosses
    /\ UNCHANGED <<stopInProgress, nativeVars, startVars, stopVars>>

\* _handle_startup_exit_check
StartupExitCheck(p) ==
    /\ LockFree
    /\ p \in checks
    /\ checks' = checks \ {p}
    /\ IF p = process /\ Exited(p) /\ ~stopInProgress
       THEN LetGo(native[p] = "clean")
       ELSE UNCHANGED <<process, listed, screenState>>
    /\ UNCHANGED <<stopInProgress, nativeVars, starter, started, stopVars, crossed>>

-----------------------------------------------------------------------------
(* start_receiver and start_sender, on the GUI's thread. *)

\* _stop_is_active
StartChecks ==
    /\ LockFree
    /\ starter = "rest" /\ started < MaxStarts
    /\ ~stopInProgress /\ screenState \notin StopStates
    /\ starter' = "allowed"
    /\ UNCHANGED <<sharedVars, nativeVars, started, checks, stopVars, crossed>>

\* The first half of _has_running_process, under the lock ...
StartRefreshes ==
    /\ LockFree
    /\ starter = "allowed"
    /\ Refresh
    /\ starter' = "refreshed"
    /\ UNCHANGED <<stopInProgress, nativeVars, started, checks, stopVars, crossed>>

\* ... and the second, which reads _process again without it.
StartPolls ==
    /\ starter = "refreshed"
    /\ starter' = IF Alive(process) THEN "rest" ELSE "free"
    /\ UNCHANGED <<sharedVars, nativeVars, started, checks, stopVars, crossed>>

\* Any of the checks before the process is created fails: _set_error.
StartRefused ==
    /\ starter = "free"
    /\ screenState' = "error"
    /\ starter' = "rest"
    /\ UNCHANGED <<process, stopInProgress, listed, nativeVars, started, checks, stopVars,
                   crossed>>

\* _start_native_process up to the start of the reader threads.
StartCreates ==
    /\ starter = "free"
    /\ started' = started + 1
    /\ native' = [native EXCEPT ![started'] = "alive"]
    /\ readersOn' = readersOn \cup {started'}
    /\ starter' = "created"
    /\ UNCHANGED <<sharedVars, faults, checks, stopVars, crossed>>

\* The end of _start_native_output_threads: the list is replaced.
StartLists ==
    /\ LockFree
    /\ starter = "created"
    /\ listed' = {started}
    /\ starter' = "listed"
    /\ UNCHANGED <<screenState, process, stopInProgress, nativeVars, started, checks, stopVars,
                   crossed>>

StartAssigns ==
    /\ starter = "listed"
    /\ process' = started
    /\ starter' = "assigned"
    /\ UNCHANGED <<screenState, stopInProgress, listed, nativeVars, started, checks, stopVars,
                   crossed>>

\* The state, and the startup check of the process that is held then.
StartEnds ==
    /\ starter = "assigned"
    /\ screenState' = "sharing"
    /\ checks' = IF process = NoProcess THEN checks ELSE checks \cup {process}
    /\ starter' = "rest"
    /\ UNCHANGED <<process, stopInProgress, listed, nativeVars, started, stopVars, crossed>>

StartStep == \/ StartChecks \/ StartRefreshes \/ StartPolls \/ StartRefused \/ StartCreates
             \/ StartLists \/ StartAssigns \/ StartEnds

-----------------------------------------------------------------------------
(* stop() *)

GoesTo(s, where) == stopper' = [stopper EXCEPT ![s] = where]

\* The call: it waits for a stop in progress, takes the early path when no process
\* runs, or asks the process to stop.
StopCalled(s) ==
    /\ LockFree
    /\ stopper[s] = "rest"
    /\ Crosses
    /\ \/ /\ stopInProgress
          /\ GoesTo(s, "waiting")
          /\ UNCHANGED <<sharedVars, target, locked>>
       \/ /\ ~stopInProgress /\ ~Alive(process)
          /\ Refresh
          /\ GoesTo(s, "early")
          /\ locked' = {s}
          /\ UNCHANGED <<stopInProgress, target>>
       \/ /\ ~stopInProgress /\ Alive(process)
          /\ stopInProgress' = TRUE
          /\ screenState' = "stop_requested"
          /\ target' = [target EXCEPT ![s] = process]
          /\ GoesTo(s, "requested")
          /\ UNCHANGED <<process, listed, locked>>
    /\ UNCHANGED <<nativeVars, startVars, joining>>

EarlyClears(s) ==
    /\ stopper[s] = "early"
    /\ process' = NoProcess
    /\ GoesTo(s, "cleared")
    /\ UNCHANGED <<screenState, stopInProgress, listed, nativeVars, startVars, target, joining,
                   locked, crossed>>

EarlyIdles(s) ==
    /\ stopper[s] = "cleared"
    /\ listed' = Unjoined(listed)
    /\ screenState' = "idle"
    /\ locked' = {}
    /\ GoesTo(s, "rest")
    /\ UNCHANGED <<process, stopInProgress, nativeVars, startVars, target, joining, crossed>>

\* A call that found a stop in progress returns when that is over, or when it has
\* waited as long as its three deadlines allow.
StopReturns(s) ==
    /\ LockFree
    /\ stopper[s] = "waiting"
    /\ Refresh
    /\ Crosses
    /\ GoesTo(s, "rest")
    /\ UNCHANGED <<stopInProgress, nativeVars, startVars, target, joining, locked>>

\* LOCAL_STOP is written to the process.
StopAsks(s) ==
    /\ stopper[s] = "requested"
    /\ screenState' = "stopping"
    /\ GoesTo(s, "asked")
    /\ UNCHANGED <<process, stopInProgress, listed, nativeVars, startVars, target, joining,
                   locked, crossed>>

\* The process has not exited in time: terminate, then kill.
StopEscalates(s) ==
    /\ Alive(target[s])
    /\ \/ stopper[s] = "asked"      /\ GoesTo(s, "terminated")
       \/ stopper[s] = "terminated" /\ GoesTo(s, "killed")
    /\ UNCHANGED <<sharedVars, nativeVars, startVars, target, joining, locked, crossed>>

\* The wait is over, one way or the other: the readers are taken to be joined.
StopTakesReaders(s) ==
    /\ LockFree
    /\ \/ stopper[s] \in {"asked", "terminated"} /\ Exited(target[s])
       \/ stopper[s] = "killed"
    /\ joining' = [joining EXCEPT ![s] = listed]
    /\ listed' = {}
    /\ GoesTo(s, "joining")
    /\ UNCHANGED <<screenState, process, stopInProgress, nativeVars, startVars, target, locked,
                   crossed>>

\* The rest of the finally block.
StopEnds(s) ==
    /\ LockFree
    /\ stopper[s] = "joining"
    /\ listed' = listed \cup Unjoined(joining[s])
    /\ joining' = [joining EXCEPT ![s] = {}]
    /\ process' = IF process = target[s] /\ Exited(process) THEN NoProcess ELSE process
    /\ screenState' = IF Exited(target[s]) THEN "idle" ELSE "error"
    /\ stopInProgress' = FALSE
    /\ target' = [target EXCEPT ![s] = NoProcess]
    /\ GoesTo(s, "rest")
    /\ UNCHANGED <<nativeVars, startVars, locked, crossed>>

StopSteps(s) == \/ EarlyClears(s) \/ EarlyIdles(s) \/ StopAsks(s) \/ StopEscalates(s)
                \/ StopTakesReaders(s) \/ StopEnds(s)

-----------------------------------------------------------------------------
(* The native process and the readers of its output. *)

\* It exits by itself or because it was made to, having said so or not.
NativeExits(p) ==
    /\ native[p] = "alive"
    /\ \E code \in {"clean", "failed"} : native' = [native EXCEPT ![p] = code]
    /\ UNCHANGED <<sharedVars, readersOn, faults, startVars, stopVars, crossed>>

NativeReportsError(p) ==
    /\ native[p] = "alive"
    /\ faults' = faults \cup {p}
    /\ UNCHANGED <<sharedVars, native, readersOn, startVars, stopVars, crossed>>

\* _handle_native_event, of an event whose reader may be that of an older process.
ErrorIsRead(p) ==
    /\ p \in readersOn \cap faults
    /\ faults' = faults \ {p}
    /\ screenState' = "error"
    /\ UNCHANGED <<process, stopInProgress, listed, native, readersOn, startVars, stopVars,
                   crossed>>

\* The output ends after the process has, when nothing is left of it.
ReaderEnds(p) ==
    /\ p \in readersOn \ faults
    /\ native[p] # "alive"
    /\ readersOn' = readersOn \ {p}
    /\ UNCHANGED <<sharedVars, native, faults, startVars, stopVars, crossed>>

RuntimeNext ==
    \/ GetState \/ StartStep
    \/ \E s \in StopThreads : StopCalled(s) \/ StopReturns(s) \/ StopSteps(s)
    \/ \E p \in Processes : \/ StartupExitCheck(p) \/ NativeExits(p) \/ NativeReportsError(p)
                            \/ ErrorIsRead(p) \/ ReaderEnds(p)

RuntimeSpec == RuntimeInit /\ [][RuntimeNext]_runtimeVars

-----------------------------------------------------------------------------
RuntimeTypeOK ==
    /\ screenState \in {"idle", "sharing", "error"} \cup StopStates
    /\ process \in {NoProcess} \cup Processes /\ started \in {0} \cup Processes
    /\ stopInProgress \in BOOLEAN /\ crossed \in BOOLEAN
    /\ listed \subseteq Processes /\ readersOn \subseteq Processes
    /\ faults \subseteq Processes /\ checks \subseteq Processes
    /\ \A p \in Processes : native[p] \in {"none", "alive", "clean", "failed"}
    /\ starter \in {"rest", "allowed", "refreshed", "free", "created", "listed", "assigned"}
    /\ \A s \in StopThreads :
          /\ stopper[s] \in {"rest", "waiting", "early", "cleared", "requested", "asked",
                             "terminated", "killed", "joining"}
          /\ target[s] \in {NoProcess} \cup Processes
          /\ joining[s] \subseteq Processes
    /\ locked \subseteq StopThreads

\* Whoever's threads meet, a stop is dealt with by one thread, and while none deals
\* with one the state does not say that one is under way, which would refuse every start.
OneStop ==
    /\ stopInProgress <=> Cardinality({s \in StopThreads : target[s] # NoProcess}) = 1
    /\ ~stopInProgress => screenState \notin StopStates

\* Unless another thread's section fell into the middle of a start, no native process
\* runs on unheld: it is the one stop() would end, or the start at work has it.
NoneRunsUnheld ==
    ~crossed => \A p \in Processes :
        native[p] = "alive" => process = p \/ (started = p /\ starter \in {"created", "listed"})

\* Nor, then, is the application idle over a process that runs, nor the list without
\* the readers of the process it holds.
IdleIsOver ==
    ~crossed /\ starter = "rest" =>
        /\ screenState = "idle" => \A p \in Processes : native[p] # "alive"
        /\ screenState = "sharing" => process # NoProcess
        /\ Alive(process) => \/ process \in listed
                             \/ \E s \in StopThreads : process \in joining[s]

RuntimeSafety == OneStop /\ NoneRunsUnheld /\ IdleIsOver
=============================================================================
