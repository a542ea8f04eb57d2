----------------------------- MODULE SenderProofs -----------------------------
(***************************************************************************)
(* What the sender of a screen share keeps, for every value of the         *)
(* constants: the cleanup of the capture, the frames, rates and keyframes  *)
(* of the encode pipeline, the sessions and the cache of the paced         *)
(* sending, the order of the sound's sessions and the stamps of its        *)
(* samples, and the evidence of the quality controller; and of the parts   *)
(* together, their types among it.                                         *)
(***************************************************************************)
EXTENDS MCScreenSender, SequenceTheorems, FiniteSetTheorems, WellFoundedInduction, TLAPS

-----------------------------------------------------------------------------
(* The cleanup of the capture.                                               *)

Inside == {"inside", "holding", "leaving"}

\* The two functions of the state, which is all the proof needs of the types.
Shape ==
    /\ callback \in [Callbacks -> Inside \cup {"idle", "raised", "gone"}]
    /\ frame \in [Callbacks -> {"none", "callback", "queued", "worker", "closed"}]

\* A lease for each callback that is inside; a callback holds the frame it took.
Leased ==
    /\ leases = {c \in Callbacks : callback[c] \in Inside}
    /\ \A c \in Callbacks : frame[c] = "callback" => callback[c] = "holding"

\* The barrier has been closed, is empty, and the frames are back.
Sealed ==
    /\ ~accepting
    /\ leases = {}
    /\ \A c \in Callbacks : frame[c] \in {"none", "closed"}

\* What the thread has done at each place; resources_closed remembers the first
\* close for the second one.
Progress ==
    /\ worker \in Closing \ {"refuse"} => ~accepting
    /\ worker \in {"drain", "session", "pool"} => leases = {}
    /\ worker \in {"session", "pool"} => Sealed
    /\ session = "closed" => Sealed
    /\ resources => Sealed
    /\ \A c \in Callbacks : frame[c] = "worker" => worker = "frame"
    /\ \A c, d \in Callbacks : frame[c] = "worker" /\ frame[d] = "worker" => c = d

\* Before StartCapture there was no callback; without one nothing need be closed.
Unstarted ==
    /\ session \in {"none", "created"}
          => \A c \in Callbacks : callback[c] = "idle" /\ frame[c] = "none"
    /\ worker = "setup" => session = "none"
    /\ worker \in {"register", "start"} => session = "created"
    /\ worker \in {"return", "done"} => resources \/ session \in {"none", "created"}
    /\ resources => dropping

FenceInv == Shape /\ Leased /\ Progress /\ Unstarted

\* Before the capture starts there is nothing to close.
LEMMA FenceInit == Init => FenceInv
<1>. SUFFICES ASSUME Init PROVE FenceInv
  OBVIOUS
<1>1. Shape /\ Leased
  BY DEF Init, Shape, Leased, Inside
<1>2. Progress /\ Unstarted
  BY DEF Init, Progress, Sealed, Unstarted, Closing
<1>. QED  BY <1>1, <1>2 DEF FenceInv

\* What the cleanup has come to says that no callback is inside and every frame is back.
LEMMA FenceImplies == FenceInv => CallbackFenced /\ FramesReturned
<1>. SUFFICES ASSUME FenceInv, Closed PROVE CallbackFenced /\ FramesReturned
  BY DEF CallbackFenced, FramesReturned
<1>1. CASE Sealed
  BY <1>1 DEF FenceInv, Leased, Sealed, CallbackFenced, FramesReturned, Inside
<1>2. CASE ~Sealed
  BY <1>2 DEF FenceInv, Closed, Progress, Unstarted, CallbackFenced, FramesReturned
<1>. QED  BY <1>1, <1>2

\* The owner sets a flag and joins; it touches nothing the callbacks use.
LEMMA OwnerKeepsFence ==
    ASSUME FenceInv, OwnerStep \/ UNCHANGED vars
    PROVE  FenceInv'
<1>1. UNCHANGED <<workerVars, windowsVars, callbackVars>>
  BY DEF OwnerStep, StartSucceeds, StartFails, StopOrDrop, Join, JoinTimesOut, vars
<1>2. (Shape /\ Leased)'
  BY <1>1 DEF FenceInv, Shape, Leased, callbackVars
<1>3. (Progress /\ Unstarted)'
  BY <1>1 DEF FenceInv, Progress, Sealed, Unstarted, workerVars, windowsVars,
              callbackVars
<1>. QED  BY <1>2, <1>3 DEF FenceInv

\* The capture thread until its loop is over.
LEMMA RunKeepsFence ==
    ASSUME FenceInv,
           \/ Setup \/ Register \/ StartCapture \/ Announce \/ LeaveLoop
           \/ \E c \in Callbacks : TakeFrame(c) \/ CloseFrame(c)
    PROVE  FenceInv'
<1>. USE DEF FenceInv, callbackVars, windowsVars, Closing
<1>1. CASE Setup \/ Register \/ StartCapture \/ Announce \/ LeaveLoop
  <2>1. UNCHANGED callbackVars
    BY <1>1 DEF Setup, Register, StartCapture, Announce, LeaveLoop
  <2>2. (Shape /\ Leased)'
    BY <2>1 DEF Shape, Leased
  <2>3. Progress'
    BY <1>1, <2>1 DEF Progress, Sealed, Unstarted, Setup, Register, StartCapture,
                      Announce, LeaveLoop, Abandon
  <2>4. Unstarted'
    BY <1>1, <2>1 DEF Unstarted, Setup, Register, StartCapture, Announce, LeaveLoop,
                      Abandon
  <2>. QED  BY <2>2, <2>3, <2>4
<1>2. ASSUME NEW c \in Callbacks, TakeFrame(c) \/ CloseFrame(c) PROVE FenceInv'
  <2>1. /\ UNCHANGED <<leases, accepting, callback, session, resources, dropping>>
        /\ worker \in {"loop", "frame"} /\ worker' \in {"loop", "frame"}
        /\ frame[c] \in {"queued", "worker"} /\ frame'[c] \in {"worker", "closed"}
        /\ frame'[c] = "worker" => worker' = "frame"
        /\ \A d \in Callbacks : d # c => frame'[d] = frame[d]
        /\ frame' \in [Callbacks -> {"none", "callback", "queued", "worker", "closed"}]
    BY <1>2 DEF TakeFrame, CloseFrame, Shape
  <2>2. (Shape /\ Leased)'
    BY <2>1 DEF Shape, Leased
  <2>3. Unstarted'
    BY <2>1 DEF Unstarted
  <2>4. ~Sealed
    BY <2>1 DEF Sealed
  <2>5. /\ \A d \in Callbacks : frame'[d] = "worker" => worker' = "frame"
        /\ \A d, e \in Callbacks :
              frame'[d] = "worker" /\ frame'[e] = "worker" => d = e
    BY <1>2, <2>1 DEF TakeFrame, CloseFrame, Progress
  <2>6. Progress'
    BY <2>1, <2>4, <2>5 DEF Progress
  <2>. QED  BY <2>2, <2>3, <2>6
<1>. QED  BY <1>1, <1>2

\* The two closes: the barrier is empty before the queue is, and both are before
\* anything is closed.
LEMMA CloseKeepsFence ==
    ASSUME FenceInv, CloseStep \/ Return
    PROVE  FenceInv'
<1>. USE DEF FenceInv, Closing, Following
<1>1. CASE Refuse
  <2>1. (Shape /\ Leased /\ Unstarted)'
    BY <1>1 DEF Refuse, Shape, Leased, Unstarted, windowsVars
  <2>2. Progress'
    BY <1>1 DEF Refuse, Progress, Sealed, windowsVars
  <2>. QED  BY <2>1, <2>2
<1>2. CASE RemoveHandler
  <2>1. (Shape /\ Leased /\ Unstarted)'
    BY <1>2 DEF RemoveHandler, Shape, Leased, Unstarted, callbackVars
  <2>2. Progress'
    BY <1>2 DEF RemoveHandler, Progress, Sealed, callbackVars
  <2>. QED  BY <2>1, <2>2
<1>3. CASE WaitUntilIdle
  <2>1. (Shape /\ Leased /\ Unstarted)'
    BY <1>3 DEF WaitUntilIdle, Shape, Leased, Unstarted, callbackVars, windowsVars
  <2>2. Progress'
    BY <1>3 DEF WaitUntilIdle, Idle, Progress, Sealed, callbackVars, windowsVars
  <2>. QED  BY <2>1, <2>2
<1>4. CASE DrainPending
  <2>1. /\ UNCHANGED <<leases, accepting, callback, session, resources, dropping>>
        /\ worker = "drain" /\ worker' = "session"
        /\ frame' = [c \in Callbacks |-> IF frame[c] = "queued" THEN "closed"
                                                               ELSE frame[c]]
    BY <1>4 DEF DrainPending, Queued, windowsVars
  <2>2. (Shape /\ Leased /\ Unstarted)'
    BY <2>1 DEF Shape, Leased, Unstarted
  <2>3. \A c \in Callbacks : frame[c] \in {"none", "queued", "closed"}
    <3>1. \A c \in Callbacks : callback[c] \notin Inside
      BY <2>1 DEF Leased, Progress
    <3>. QED  BY <2>1, <3>1 DEF Shape, Leased, Progress, Inside
  <2>4. Sealed'
    BY <2>1, <2>3 DEF Sealed, Progress
  <2>5. Progress'
    BY <2>1, <2>4 DEF Progress, Sealed
  <2>. QED  BY <2>2, <2>5
<1>5. CASE CloseSession
  <2>1. /\ UNCHANGED <<callbackVars, resources, dropping>>
        /\ worker = "session" /\ worker' = "pool" /\ Sealed
        /\ session' \in {"closed", session}
    BY <1>5 DEF CloseSession, Progress
  <2>2. (Shape /\ Leased /\ Unstarted)'
    BY <2>1 DEF Shape, Leased, Unstarted, callbackVars
  <2>3. Progress'
    BY <2>1 DEF Progress, Sealed, callbackVars
  <2>. QED  BY <2>2, <2>3
<1>6. CASE ClosePool
  <2>1. /\ UNCHANGED <<callbackVars, session>>
        /\ resources' = TRUE /\ dropping' = TRUE
        /\ worker = "pool" /\ worker' \in {"return", "refuse"} /\ Sealed
    BY <1>6 DEF ClosePool, Progress
  <2>2. (Shape /\ Leased)'
    BY <2>1 DEF Shape, Leased, callbackVars
  <2>3. (Progress /\ Unstarted)'
    BY <2>1 DEF Progress, Unstarted, Sealed, callbackVars
  <2>. QED  BY <2>2, <2>3
<1>7. CASE Return
  <2>1. (Shape /\ Leased)'
    BY <1>7 DEF Return, Shape, Leased, callbackVars, windowsVars
  <2>2. (Progress /\ Unstarted)'
    BY <1>7 DEF Return, Progress, Unstarted, Sealed, callbackVars, windowsVars
  <2>. QED  BY <2>1, <2>2
<1>. QED  BY <1>1, <1>2, <1>3, <1>4, <1>5, <1>6, <1>7 DEF CloseStep

\* The callbacks: none of them is inside a closed barrier, or gets in.
LEMMA CallbackKeepsFence ==
    ASSUME FenceInv, NEW c \in Callbacks, Raise(c) \/ CallbackStep(c)
    PROVE  FenceInv'
<1>. USE DEF FenceInv, Closing, MoveTo
<1>1. CASE Raise(c)
  <2>1. /\ callback' = [callback EXCEPT ![c] = "raised"] /\ callback[c] = "idle"
        /\ UNCHANGED <<accepting, leases, frame, workerVars, session>>
        /\ session = "started"
    BY <1>1 DEF Raise, windowsVars
  <2>2. (Shape /\ Leased)'
    BY <2>1 DEF Shape, Leased, Inside
  <2>3. (Progress /\ Unstarted)'
    BY <2>1 DEF Progress, Unstarted, Sealed, workerVars
  <2>. QED  BY <2>2, <2>3
<1>2. CASE TryEnter(c)
  <2>1. /\ UNCHANGED <<accepting, frame, workerVars, session>>
        /\ callback[c] = "raised"
        /\ \/ /\ accepting /\ leases' = leases \cup {c}
              /\ callback' = [callback EXCEPT ![c] = "inside"]
           \/ UNCHANGED leases /\ callback' = [callback EXCEPT ![c] = "gone"]
    BY <1>2 DEF TryEnter, windowsVars
  <2>2. Shape'
    BY <2>1 DEF Shape, Inside
  <2>3. Leased'
    BY <2>1 DEF Shape, Leased, Inside
  <2>4. Progress'
    BY <2>1 DEF Progress, Sealed, workerVars
  <2>5. Unstarted'
    BY <2>1 DEF Unstarted, workerVars
  <2>. QED  BY <2>2, <2>3, <2>4, <2>5
<1>3. CASE GetFrame(c) \/ SendFrame(c)
  <2>1. /\ UNCHANGED <<accepting, leases, workerVars, session>>
        /\ callback[c] \in {"inside", "holding"}
        /\ \/ /\ callback' = [callback EXCEPT ![c] = "holding"]
              /\ frame' = [frame EXCEPT ![c] = "callback"]
           \/ callback' = [callback EXCEPT ![c] = "leaving"] /\ UNCHANGED frame
              /\ callback[c] = "inside"
           \/ callback' = [callback EXCEPT ![c] = "leaving"]
              /\ \E f \in {"queued", "closed"} : frame' = [frame EXCEPT ![c] = f]
    BY <1>3 DEF GetFrame, SendFrame, Refused, windowsVars
  <2>2. leases # {} /\ ~Sealed
    BY <2>1 DEF Leased, Inside, Sealed
  <2>3. Shape'
    BY <2>1 DEF Shape, Inside
  <2>4. Leased'
    BY <2>1 DEF Shape, Leased, Inside
  <2>5. Progress'
    BY <2>1, <2>2 DEF Progress, Sealed, Shape, workerVars
  <2>6. Unstarted'
    BY <2>1 DEF Unstarted, workerVars
  <2>. QED  BY <2>3, <2>4, <2>5, <2>6
<1>4. CASE LeaveBarrier(c)
  <2>1. /\ UNCHANGED <<accepting, frame, resources, dropping, session>>
        /\ leases' = leases \ {c}
        /\ callback[c] = "leaving" /\ callback' = [callback EXCEPT ![c] = "gone"]
        /\ worker' = worker \/ (worker = "asleep" /\ worker' = "wait")
    BY <1>4 DEF LeaveBarrier, Woken, windowsVars
  <2>2. leases # {} /\ ~Sealed
    BY <2>1 DEF Leased, Inside, Sealed
  <2>3. Shape'
    BY <2>1 DEF Shape
  <2>4. Leased'
    BY <2>1 DEF Shape, Leased, Inside
  <2>5. Progress'
    BY <2>1, <2>2 DEF Progress
  <2>6. Unstarted'
    BY <2>1 DEF Unstarted
  <2>. QED  BY <2>3, <2>4, <2>5, <2>6
<1>. QED  BY <1>1, <1>2, <1>3, <1>4 DEF CallbackStep

\* The barrier works: closing waits for every callback that came in before.
THEOREM FenceInvariant == Spec => []FenceInv
<1>1. FenceInv /\ [Next]_vars => FenceInv'
  BY OwnerKeepsFence, RunKeepsFence, CloseKeepsFence, CallbackKeepsFence
     DEF Next, WorkerStep
<1>. QED  BY <1>1, FenceInit, PTL DEF Spec

\* No callback is inside when the session or the pool is closed.
THEOREM CallbacksAreFenced == Spec => []CallbackFenced
<1>1. FenceInv => CallbackFenced
  BY FenceImplies
<1>. QED  BY <1>1, FenceInvariant, PTL

\* Every frame is back when the session or the pool is closed.
THEOREM FramesAreReturned == Spec => []FramesReturned
<1>1. FenceInv => FramesReturned
  BY FenceImplies
<1>. QED  BY <1>1, FenceInvariant, PTL

\* What it means at each place of the thread that nothing has failed.
NoFailure ==
    ~failed =>
        /\ resources => dropping
        /\ worker \in {"setup", "register", "start", "announce", "loop", "frame"}
              => ~dropping
        /\ worker \in {"start", "announce", "loop", "frame", "refuse", "remove"}
              => token \/ dropping
        /\ worker \in {"wait", "asleep", "drain", "session", "pool"} \/ dropping
              => ~handler /\ ~token
        /\ worker = "pool" \/ dropping => session = "closed"
        /\ dropping => ~pool /\ resources
        /\ worker \in {"return", "done"} => dropping

\* A failure is reported before the thread can be joined.
Reported ==
    /\ worker = "done" /\ failed => error
    /\ outcome = "ok" =>
          owner = "ended" /\ handle = "joined" /\ worker = "done" /\ ~failed

CleanInv == NoFailure /\ Reported

\* Nothing has failed yet.
LEMMA CleanInit == Init => CleanInv
BY DEF Init, CleanInv, NoFailure, Reported

\* The owner believes a thread it has joined, and nothing else.
LEMMA OwnerKeepsClean ==
    ASSUME CleanInv, OwnerStep \/ UNCHANGED vars
    PROVE  CleanInv'
<1>. USE DEF CleanInv, workerVars, windowsVars
<1>1. NoFailure'
  BY DEF NoFailure, OwnerStep, StartSucceeds, StartFails, StopOrDrop, Join,
         JoinTimesOut, vars
<1>2. Reported'
  <2>1. CASE StartSucceeds \/ StartFails
             \/ StopOrDrop("stopping") \/ StopOrDrop("dropping")
    BY <2>1 DEF Reported, StartSucceeds, StartFails, StopOrDrop
  <2>2. CASE Join
    BY <2>2 DEF Reported, Join, Joining, Returns
  <2>3. CASE JoinTimesOut
    BY <2>3 DEF Reported, JoinTimesOut, Joining, Returns
  <2>4. CASE UNCHANGED vars
    BY <2>4 DEF Reported, vars, ownerVars
  <2>. QED  BY <2>1, <2>2, <2>3, <2>4 DEF OwnerStep
<1>. QED  BY <1>1, <1>2

\* The thread.
LEMMA WorkerKeepsClean ==
    ASSUME CleanInv, WorkerStep
    PROVE  CleanInv'
<1>. USE DEF CleanInv, ownerVars, callbackVars, windowsVars, Following, Abandon
<1>1. worker # "done" /\ UNCHANGED <<owner, handle, outcome>>
  BY DEF WorkerStep, CloseStep, Setup, Register, StartCapture, Announce, LeaveLoop,
         Refuse, RemoveHandler, WaitUntilIdle, DrainPending, CloseSession, ClosePool,
         Return, TakeFrame, CloseFrame
<1>2. Reported'
  <2>1. CASE Return
    BY <1>1, <2>1 DEF Reported, Return, ErrorOf
  <2>2. CASE ~Return
    <3>1. worker' # "done"
      BY <1>1, <2>2
         DEF WorkerStep, CloseStep, Setup, Register, StartCapture, Announce,
             LeaveLoop, Refuse, RemoveHandler, WaitUntilIdle, DrainPending,
             CloseSession, ClosePool, TakeFrame, CloseFrame
    <3>. QED  BY <1>1, <3>1 DEF Reported
  <2>. QED  BY <2>1, <2>2
<1>3. NoFailure'
  <2>0. CallFails /\ ~failed' => ~failed /\ dropping
    BY Zenon DEF CallFails
  <2>1. CASE Setup \/ Register \/ StartCapture \/ Announce \/ LeaveLoop
    BY <2>1 DEF NoFailure, Setup, Register, StartCapture, Announce, LeaveLoop
  <2>2. CASE \E c \in Callbacks : TakeFrame(c) \/ CloseFrame(c)
    BY <2>2 DEF NoFailure, TakeFrame, CloseFrame
  <2>3. CASE Refuse \/ WaitUntilIdle
    BY <2>3 DEF NoFailure, Refuse, WaitUntilIdle
  <2>4. CASE RemoveHandler
    BY <2>0, <2>4 DEF NoFailure, RemoveHandler
  <2>5. CASE CloseSession
    BY <2>0, <2>5 DEF NoFailure, CloseSession
  <2>6. CASE ClosePool
    BY <2>0, <2>6 DEF NoFailure, ClosePool
  <2>7. CASE DrainPending
    BY <2>0, <2>7 DEF NoFailure, DrainPending
  <2>8. CASE Return
    BY <2>8 DEF NoFailure, Return
  <2>. QED  BY <2>1, <2>2, <2>3, <2>4, <2>5, <2>6, <2>7, <2>8 DEF WorkerStep, CloseStep
<1>. QED  BY <1>2, <1>3

\* The callbacks only wake the thread.
LEMMA CallbackKeepsClean ==
    ASSUME CleanInv, NEW c \in Callbacks, Raise(c) \/ CallbackStep(c)
    PROVE  CleanInv'
<1>1. /\ UNCHANGED <<ownerVars, dropping, failed, token, resources, error, handler,
                     session, pool>>
      /\ worker' = worker \/ (worker = "asleep" /\ worker' = "wait")
  BY DEF Raise, CallbackStep, TryEnter, GetFrame, SendFrame, LeaveBarrier, Woken,
         workerVars, windowsVars
<1>. QED  BY <1>1 DEF CleanInv, NoFailure, Reported, ownerVars

\* A stop() that returns Ok has removed the handler and closed the session and the
\* pool, with no callback inside.
THEOREM StopLeavesNothing == Spec => []StopIsClean
<1>1. CleanInv /\ [Next]_vars => CleanInv'
  BY OwnerKeepsClean, WorkerKeepsClean, CallbackKeepsClean DEF Next
<1>2. FenceInv /\ CleanInv => StopIsClean
  BY DEF CleanInv, NoFailure, Reported, FenceInv, Progress, Sealed, StopIsClean
<1>. QED  BY <1>1, <1>2, CleanInit, FenceInvariant, PTL DEF Spec

\* The cleanup keeps all it promises: no callback outlives what it uses, no frame its
\* pool, and a stop() that returns Ok leaves nothing behind.
THEOREM CaptureIsSafe == Spec => []CaptureSafety
<1>1. CallbackFenced /\ FramesReturned /\ StopIsClean => CaptureSafety
  BY DEF CaptureSafety
<1>. QED  BY <1>1, CallbacksAreFenced, FramesAreReturned, StopLeavesNothing, PTL

-----------------------------------------------------------------------------
(* The types of the capture, and the bound of its channel of frames.         *)

\* The types of the capture, and a queue of frames that is never longer than its bound.
QueueFits == IsFiniteSet(Queued) /\ Cardinality(Queued) <= QueueCapacity
LifeInv   == Types /\ QueueFits

\* The capture begins so.
LEMMA LifeInitially == Init => LifeInv
<1>. SUFFICES ASSUME Init PROVE LifeInv
  OBVIOUS
<1>1. Types
  BY DEF Init, Types
<1>2. Queued = {}
  BY DEF Init, Queued
<1>3. QueueFits
  BY <1>2, FS_EmptySet, QueueCapacityAssumption DEF QueueFits
<1>. QED  BY <1>1, <1>3 DEF LifeInv

\* A queue that has lost frames fits.
LEMMA ShorterQueueFits ==
    ASSUME QueueFits, Queued' \subseteq Queued
    PROVE  QueueFits'
<1>1. IsFiniteSet(Queued') /\ Cardinality(Queued') <= Cardinality(Queued)
  BY FS_Subset DEF QueueFits
<1>2. Cardinality(Queued) \in Nat /\ Cardinality(Queued') \in Nat
  BY <1>1, FS_CardinalityType DEF QueueFits
<1>. QED  BY <1>1, <1>2, QueueCapacityAssumption DEF QueueFits

\* The flags, and the places of the threads, the callbacks and the frames.
Flags ==
    /\ stop \in BOOLEAN /\ dropping \in BOOLEAN /\ failed \in BOOLEAN /\ error \in BOOLEAN
    /\ token \in BOOLEAN /\ resources \in BOOLEAN /\ handler \in BOOLEAN
    /\ pool \in BOOLEAN /\ accepting \in BOOLEAN

Places ==
    /\ owner \in {"starting", "aborting", "running", "stopping", "dropping", "ended"}
    /\ handle \in {"owned", "joined", "retained"}
    /\ outcome \in {"none", "ok", "error"}
    /\ ready \in {"none", "ok", "err", "gone"}
    /\ worker \in Closing \cup
          {"setup", "register", "start", "announce", "loop", "frame", "return", "done"}
    /\ session \in {"none", "created", "started", "closed"}
    /\ leases \in SUBSET Callbacks
    /\ callback \in [Callbacks -> {"idle", "raised", "inside", "holding", "leaving", "gone"}]
    /\ frame \in [Callbacks -> {"none", "callback", "queued", "worker", "closed"}]

\* The types are those of both.
LEMMA TypesAre == (Types <=> Flags /\ Places) /\ (Types <=> Flags /\ Places)'
BY DEF Types, Flags, Places

\* A flag is set, cleared, or takes in another.
LEMMA ThreadsKeepFlags ==
    ASSUME Flags, OwnerStep \/ WorkerStep \/ UNCHANGED vars
    PROVE  Flags'
<1>. USE DEF Flags, ownerVars, workerVars, windowsVars, callbackVars
<1>1. CASE OwnerStep
  <2>1. CASE StartSucceeds
    BY <2>1, Zenon DEF StartSucceeds
  <2>2. CASE StartFails
    BY <2>2, Zenon DEF StartFails
  <2>3. CASE StopOrDrop("stopping") \/ StopOrDrop("dropping")
    BY <2>3, Zenon DEF StopOrDrop
  <2>4. CASE Join
    BY <2>4, Zenon DEF Join, Returns
  <2>5. CASE JoinTimesOut
    BY <2>5, Zenon DEF JoinTimesOut, Returns
  <2>. QED  BY <1>1, <2>1, <2>2, <2>3, <2>4, <2>5 DEF OwnerStep
<1>2. CASE WorkerStep
  <2>1. CASE Setup
    BY <2>1, Zenon DEF Setup
  <2>2. CASE Register
    BY <2>2, Zenon DEF Register
  <2>3. CASE StartCapture
    BY <2>3, Zenon DEF StartCapture, Abandon
  <2>4. CASE Announce
    BY <2>4, Zenon DEF Announce, Abandon
  <2>5. CASE LeaveLoop
    BY <2>5, Zenon DEF LeaveLoop
  <2>6. CASE Refuse
    BY <2>6, Zenon DEF Refuse
  <2>7. CASE WaitUntilIdle
    BY <2>7, Zenon DEF WaitUntilIdle
  <2>8. CASE RemoveHandler
    BY <2>8, Zenon DEF RemoveHandler, CallFails
  <2>9. CASE DrainPending
    BY <2>9, Zenon DEF DrainPending, CallFails
  <2>10. CASE CloseSession
    BY <2>10, Zenon DEF CloseSession, CallFails
  <2>11. CASE ClosePool
    BY <2>11, Zenon DEF ClosePool, CallFails
  <2>12. CASE Return
    BY <2>12, Zenon DEF Return, ErrorOf
  <2>13. CASE \E c \in Callbacks : TakeFrame(c) \/ CloseFrame(c)
    BY <2>13, Zenon DEF TakeFrame, CloseFrame
  <2>. QED
    BY <1>2, <2>1, <2>2, <2>3, <2>4, <2>5, <2>6, <2>7, <2>8, <2>9, <2>10, <2>11, <2>12, <2>13
       DEF WorkerStep, CloseStep
<1>3. CASE UNCHANGED vars
  BY <1>3, Zenon DEF vars
<1>. QED  BY <1>1, <1>2, <1>3

\* The owner and the capture thread go from place to place.
LEMMA ThreadsKeepPlaces ==
    ASSUME Places, OwnerStep \/ WorkerStep \/ UNCHANGED vars
    PROVE  Places'
<1>. USE DEF Places, ownerVars, workerVars, windowsVars, callbackVars, Closing
<1>1. CASE OwnerStep
  <2>1. CASE StartSucceeds \/ StartFails
    BY <2>1 DEF StartSucceeds, StartFails
  <2>2. CASE StopOrDrop("stopping") \/ StopOrDrop("dropping")
    BY <2>2 DEF StopOrDrop
  <2>3. CASE Join \/ JoinTimesOut
    BY <2>3 DEF Join, JoinTimesOut, Returns
  <2>. QED  BY <1>1, <2>1, <2>2, <2>3 DEF OwnerStep
<1>2. CASE WorkerStep
  <2>1. CASE Setup \/ Register
    BY <2>1 DEF Setup, Register
  <2>2. CASE StartCapture \/ Announce
    BY <2>2 DEF StartCapture, Announce, Abandon
  <2>3. CASE LeaveLoop \/ Refuse \/ WaitUntilIdle
    BY <2>3 DEF LeaveLoop, Refuse, WaitUntilIdle, Following
  <2>4. CASE RemoveHandler
    BY <2>4 DEF RemoveHandler, Following
  <2>5. CASE DrainPending
    BY <2>5 DEF DrainPending, Following
  <2>6. CASE CloseSession
    BY <2>6 DEF CloseSession, Following
  <2>7. CASE ClosePool
    BY <2>7 DEF ClosePool
  <2>8. CASE Return
    BY <2>8 DEF Return
  <2>9. CASE \E c \in Callbacks : TakeFrame(c) \/ CloseFrame(c)
    BY <2>9 DEF TakeFrame, CloseFrame
  <2>. QED  BY <1>2, <2>1, <2>2, <2>3, <2>4, <2>5, <2>6, <2>7, <2>8, <2>9 DEF WorkerStep, CloseStep
<1>3. CASE UNCHANGED vars
  BY <1>3 DEF vars
<1>. QED  BY <1>1, <1>2, <1>3

\* They put no frame in the queue.
LEMMA ThreadsAddNoFrame ==
    ASSUME Types, OwnerStep \/ WorkerStep \/ UNCHANGED vars
    PROVE  Queued' \subseteq Queued
<1>1. CASE OwnerStep \/ UNCHANGED vars
  <2>1. frame' = frame
    BY <1>1 DEF OwnerStep, StartSucceeds, StartFails, StopOrDrop, Join, JoinTimesOut, callbackVars, vars
  <2>. QED  BY <2>1 DEF Queued
<1>2. CASE DrainPending
  <2>1. \A c \in Callbacks : frame'[c] # "queued"
    BY <1>2 DEF DrainPending, Queued
  <2>. QED  BY <2>1 DEF Queued
<1>3. CASE \E c \in Callbacks : TakeFrame(c) \/ CloseFrame(c)
  <2>1. PICK c \in Callbacks, f \in {"worker", "closed"} : frame' = [frame EXCEPT ![c] = f]
    BY <1>3 DEF TakeFrame, CloseFrame
  <2>. QED  BY <2>1 DEF Types, Queued
<1>4. CASE \/ Setup \/ Register \/ StartCapture \/ Announce \/ LeaveLoop \/ Return
           \/ Refuse \/ RemoveHandler \/ WaitUntilIdle \/ CloseSession \/ ClosePool
  <2>1. frame' = frame
    BY <1>4 DEF Setup, Register, StartCapture, Announce, LeaveLoop, Return, Refuse, RemoveHandler,
                WaitUntilIdle, CloseSession, ClosePool, callbackVars
  <2>. QED  BY <2>1 DEF Queued
<1>. QED  BY <1>1, <1>2, <1>3, <1>4 DEF WorkerStep, CloseStep

\* A callback puts a frame in the queue only when there is room for it.
LEMMA CallbackKeepsLife ==
    ASSUME LifeInv, NEW c \in Callbacks, Raise(c) \/ CallbackStep(c)
    PROVE  LifeInv'
<1>. USE DEF ownerVars, workerVars, windowsVars, callbackVars
<1>1. Types'
  <2>. USE DEF LifeInv, Types, MoveTo, Closing
  <2>1. CASE Raise(c)
    BY <2>1 DEF Raise
  <2>2. CASE TryEnter(c)
    BY <2>2 DEF TryEnter
  <2>3. CASE GetFrame(c)
    BY <2>3 DEF GetFrame
  <2>4. CASE SendFrame(c)
    BY <2>4 DEF SendFrame, Refused
  <2>5. CASE LeaveBarrier(c)
    BY <2>5 DEF LeaveBarrier, Woken
  <2>. QED  BY <2>1, <2>2, <2>3, <2>4, <2>5 DEF CallbackStep
<1>2. CASE frame' = frame \/ \E f \in {"callback", "closed"} : frame' = [frame EXCEPT ![c] = f]
  <2>1. Queued' \subseteq Queued
    BY <1>2 DEF LifeInv, Types, Queued
  <2>. QED  BY <1>1, <2>1, ShorterQueueFits DEF LifeInv
<1>3. CASE HasRoom /\ frame' = [frame EXCEPT ![c] = "queued"]
  <2>1. Queued' = Queued \cup {c}
    BY <1>3 DEF LifeInv, Types, Queued
  <2>2. IsFiniteSet(Queued) /\ Cardinality(Queued) < QueueCapacity
    BY <1>3 DEF LifeInv, QueueFits, HasRoom
  <2>3. /\ IsFiniteSet(Queued \cup {c})
        /\ Cardinality(Queued \cup {c}) = IF c \in Queued THEN Cardinality(Queued) ELSE Cardinality(Queued) + 1
    BY <2>2, FS_AddElement
  <2>4. Cardinality(Queued) \in Nat
    BY <2>2, FS_CardinalityType
  <2>5. Cardinality(Queued \cup {c}) <= QueueCapacity
    BY <2>2, <2>3, <2>4, QueueCapacityAssumption
  <2>. QED  BY <1>1, <2>1, <2>3, <2>5 DEF LifeInv, QueueFits
<1>. QED  BY <1>2, <1>3 DEF CallbackStep, Raise, TryEnter, GetFrame, SendFrame, LeaveBarrier, Refused

\* Every step keeps the types and the bound of the queue.
LEMMA LifeKeeps == LifeInv /\ [Next]_vars => LifeInv'
<1>1. ASSUME LifeInv, OwnerStep \/ WorkerStep \/ UNCHANGED vars PROVE LifeInv'
  <2>1. Types /\ QueueFits
    BY <1>1 DEF LifeInv
  <2>2. Types'
    BY <1>1, <2>1, TypesAre, ThreadsKeepFlags, ThreadsKeepPlaces
  <2>3. Queued' \subseteq Queued
    BY <1>1, <2>1, ThreadsAddNoFrame
  <2>. QED  BY <2>1, <2>2, <2>3, ShorterQueueFits DEF LifeInv
<1>. QED  BY <1>1, CallbackKeepsLife DEF Next

\* The frames that wait in the channel of the capture are never more than it holds,
\* whatever the callbacks and the thread do.
THEOREM CaptureTypes == Spec => []TypeOK
<1>1. LifeInv => TypeOK
  BY DEF LifeInv, QueueFits, TypeOK
<1>. QED  BY <1>1, LifeInitially, LifeKeeps, PTL DEF Spec

-----------------------------------------------------------------------------
(* The encode pipeline: sequences.                                           *)

\* What the encoder makes of a frame.
Sample == [frame : Nat, key : BOOLEAN]

\* A sample is a keyframe where one is due: at the interval, and where it was asked for.
Fits(x, f, R) == (f /\ x.frame % KeyInterval = 0 => x.key) /\ (x.frame \in R => x.key)

\* The samples are those of the frames k, k + 1, ..., and keyframes where one is due.
Stretch(s, k, f, R) == \A i \in 1..Len(s) : s[i].frame = k + i - 1 /\ Fits(s[i], f, R)

\* What is delivered, pending, ready and inside is one stretch from frame 0.
FlowOf(d, p, r, i, f, R) ==
    /\ Stretch(d, 0, f, R)
    /\ Stretch(p, Len(d), f, R)
    /\ Stretch(r, Len(d) + Len(p), f, R)
    /\ Stretch(i, Len(d) + Len(p) + Len(r), f, R)

\* How many samples are delivered, pending, ready or inside the transform.
Held(d, p, r, i) == Len(d) + Len(p) + Len(r) + Len(i)

\* Nothing is a stretch from anywhere.
LEMMA StretchEmpty == ASSUME NEW f, NEW R, NEW k \in Nat PROVE Stretch(<<>>, k, f, R)
BY DEF Stretch

\* A stretch stays one when less is asked for.
LEMMA StretchWeaken ==
  ASSUME NEW f, NEW R, NEW g, NEW Q, NEW k \in Nat, NEW s \in Seq(Sample),
         Stretch(s, k, f, R), g => f, Q \subseteq R
  PROVE  Stretch(s, k, g, Q)
BY DEF Stretch, Fits

\* A keyframe asked for behind a stretch asks nothing of the stretch.
LEMMA StretchRequest ==
  ASSUME NEW f, NEW R, NEW k \in Nat, NEW s \in Seq(Sample), NEW e \in Nat,
         Stretch(s, k, f, R), k + Len(s) <= e
  PROVE  Stretch(s, k, f, R \cup {e})
<1>. SUFFICES ASSUME NEW i \in 1..Len(s)
             PROVE  s[i].frame = k + i - 1 /\ Fits(s[i], f, R \cup {e})
  BY DEF Stretch
<1>1. s[i].frame = k + i - 1 /\ Fits(s[i], f, R)
  BY DEF Stretch
<1>2. s[i].frame # e
  BY <1>1
<1>. QED  BY <1>1, <1>2 DEF Fits

\* The next frame prolongs a stretch.
LEMMA StretchAppend ==
  ASSUME NEW f, NEW R, NEW k \in Nat, NEW s \in Seq(Sample), NEW x \in Sample,
         Stretch(s, k, f, R), x.frame = k + Len(s), Fits(x, f, R)
  PROVE  Append(s, x) \in Seq(Sample) /\ Len(Append(s, x)) = Len(s) + 1
         /\ Stretch(Append(s, x), k, f, R)
<1>1. Append(s, x) \in Seq(Sample) /\ Len(Append(s, x)) = Len(s) + 1
  OBVIOUS
<1>2. ASSUME NEW i \in 1..Len(Append(s, x))
      PROVE  Append(s, x)[i].frame = k + i - 1 /\ Fits(Append(s, x)[i], f, R)
  <2>1. CASE i = Len(s) + 1
    BY <2>1
  <2>2. CASE i # Len(s) + 1
    <3>1. i \in 1..Len(s) /\ Append(s, x)[i] = s[i]
      BY <2>2, <1>1
    <3>. QED  BY <3>1 DEF Stretch
  <2>. QED  BY <2>1, <2>2
<1>. QED  BY <1>1, <1>2 DEF Stretch

\* Without its first sample a stretch begins one frame later.
LEMMA StretchTail ==
  ASSUME NEW f, NEW R, NEW k \in Nat, NEW s \in Seq(Sample), s # <<>>, Stretch(s, k, f, R)
  PROVE  /\ Head(s) \in Sample /\ Head(s).frame = k /\ Fits(Head(s), f, R)
         /\ Tail(s) \in Seq(Sample) /\ Len(Tail(s)) = Len(s) - 1 /\ Len(s) >= 1
         /\ Stretch(Tail(s), k + 1, f, R)
<1>1. /\ Len(s) \in Nat /\ Len(s) >= 1 /\ Head(s) = s[1] /\ s[1] \in Sample
      /\ Tail(s) \in Seq(Sample) /\ Len(Tail(s)) = Len(s) - 1
      /\ \A i \in 1..Len(Tail(s)) : Tail(s)[i] = s[i + 1]
  OBVIOUS
<1>2. Head(s).frame = k /\ Fits(Head(s), f, R)
  BY <1>1 DEF Stretch
<1>3. ASSUME NEW i \in 1..Len(Tail(s))
      PROVE  Tail(s)[i].frame = k + 1 + i - 1 /\ Fits(Tail(s)[i], f, R)
  <2>1. i + 1 \in 1..Len(s) /\ Tail(s)[i] = s[i + 1]
    BY <1>1
  <2>2. s[i + 1].frame = k + (i + 1) - 1 /\ Fits(s[i + 1], f, R)
    BY <2>1 DEF Stretch
  <2>. QED  BY <2>1, <2>2
<1>. QED  BY <1>1, <1>2, <1>3 DEF Stretch

\* A stretch and the one that follows it are one.
LEMMA StretchConcat ==
  ASSUME NEW f, NEW R, NEW k \in Nat, NEW s \in Seq(Sample), NEW t \in Seq(Sample),
         Stretch(s, k, f, R), Stretch(t, k + Len(s), f, R)
  PROVE  s \o t \in Seq(Sample) /\ Len(s \o t) = Len(s) + Len(t) /\ Stretch(s \o t, k, f, R)
<1>1. /\ s \o t \in Seq(Sample) /\ Len(s \o t) = Len(s) + Len(t)
      /\ \A i \in 1..(Len(s) + Len(t)) :
            (s \o t)[i] = IF i <= Len(s) THEN s[i] ELSE t[i - Len(s)]
  BY ConcatProperties
<1>2. ASSUME NEW i \in 1..Len(s \o t)
      PROVE  (s \o t)[i].frame = k + i - 1 /\ Fits((s \o t)[i], f, R)
  <2>1. CASE i <= Len(s)
    <3>1. i \in 1..Len(s) /\ (s \o t)[i] = s[i]
      BY <2>1, <1>1
    <3>. QED  BY <3>1 DEF Stretch
  <2>2. CASE ~(i <= Len(s))
    <3>1. i - Len(s) \in 1..Len(t) /\ (s \o t)[i] = t[i - Len(s)]
      BY <2>2, <1>1
    <3>2. t[i - Len(s)].frame = k + Len(s) + (i - Len(s)) - 1 /\ Fits(t[i - Len(s)], f, R)
      BY <3>1 DEF Stretch
    <3>. QED  BY <3>1, <3>2
  <2>. QED  BY <2>1, <2>2
<1>. QED  BY <1>1, <1>2 DEF Stretch

\* A stretch may be cut anywhere.
LEMMA StretchSplit ==
  ASSUME NEW f, NEW R, NEW k \in Nat, NEW s \in Seq(Sample), NEW n \in 0..Len(s),
         Stretch(s, k, f, R)
  PROVE  /\ SubSeq(s, 1, n) \in Seq(Sample) /\ Len(SubSeq(s, 1, n)) = n
         /\ Stretch(SubSeq(s, 1, n), k, f, R)
         /\ SubSeq(s, n + 1, Len(s)) \in Seq(Sample) /\ Len(SubSeq(s, n + 1, Len(s))) = Len(s) - n
         /\ Stretch(SubSeq(s, n + 1, Len(s)), k + n, f, R)
<1>1. Len(s) \in Nat /\ \A i \in 1..Len(s) : s[i] \in Sample
  OBVIOUS
<1>2. /\ SubSeq(s, 1, n) \in Seq(Sample) /\ Len(SubSeq(s, 1, n)) = n
      /\ \A i \in 1..n : SubSeq(s, 1, n)[i] = s[i]
  OBVIOUS
<1>3. /\ SubSeq(s, n + 1, Len(s)) \in Seq(Sample)
      /\ Len(SubSeq(s, n + 1, Len(s))) = Len(s) - n
      /\ \A i \in 1..(Len(s) - n) : SubSeq(s, n + 1, Len(s))[i] = s[n + i]
  OBVIOUS
<1>4. Stretch(SubSeq(s, 1, n), k, f, R)
  BY <1>1, <1>2 DEF Stretch
<1>5. ASSUME NEW i \in 1..(Len(s) - n)
      PROVE  /\ SubSeq(s, n + 1, Len(s))[i].frame = k + n + i - 1
             /\ Fits(SubSeq(s, n + 1, Len(s))[i], f, R)
  <2>1. n + i \in 1..Len(s)
    BY <1>1
  <2>2. s[n + i].frame = k + (n + i) - 1 /\ Fits(s[n + i], f, R)
    BY <2>1 DEF Stretch
  <2>. QED  BY <2>1, <2>2, <1>3
<1>. QED  BY <1>2, <1>3, <1>4, <1>5 DEF Stretch

\* The lengths of what is held are numbers.
LEMMA FlowLengths ==
  ASSUME NEW d \in Seq(Sample), NEW p \in Seq(Sample), NEW r \in Seq(Sample), NEW i \in Seq(Sample)
  PROVE  /\ Len(d) \in Nat /\ Len(p) \in Nat /\ Len(r) \in Nat /\ Len(i) \in Nat
         /\ Held(d, p, r, i) \in Nat
BY DEF Held

\* The flow stays one when less is asked for.
LEMMA FlowWeaken ==
  ASSUME NEW d \in Seq(Sample), NEW p \in Seq(Sample), NEW r \in Seq(Sample), NEW i \in Seq(Sample),
         NEW f, NEW R, NEW g, NEW Q, FlowOf(d, p, r, i, f, R), g => f, Q \subseteq R
  PROVE  FlowOf(d, p, r, i, g, Q)
<1>1. /\ 0 \in Nat /\ Len(d) \in Nat /\ Len(d) + Len(p) \in Nat
      /\ Len(d) + Len(p) + Len(r) \in Nat
  OBVIOUS
<1>2. Stretch(d, 0, g, Q)
  <2>1. Stretch(d, 0, f, R)  BY DEF FlowOf
  <2>. QED  BY <1>1, <2>1, StretchWeaken
<1>3. Stretch(p, Len(d), g, Q)
  <2>1. Stretch(p, Len(d), f, R)  BY DEF FlowOf
  <2>. QED  BY <1>1, <2>1, StretchWeaken
<1>4. Stretch(r, Len(d) + Len(p), g, Q)
  <2>1. Stretch(r, Len(d) + Len(p), f, R)  BY DEF FlowOf
  <2>. QED  BY <1>1, <2>1, StretchWeaken
<1>5. Stretch(i, Len(d) + Len(p) + Len(r), g, Q)
  <2>1. Stretch(i, Len(d) + Len(p) + Len(r), f, R)  BY DEF FlowOf
  <2>. QED  BY <1>1, <2>1, StretchWeaken
<1>. QED  BY <1>2, <1>3, <1>4, <1>5 DEF FlowOf

\* A keyframe may be asked for of the frame that comes next.
LEMMA FlowRequest ==
  ASSUME NEW d \in Seq(Sample), NEW p \in Seq(Sample), NEW r \in Seq(Sample), NEW i \in Seq(Sample),
         NEW f, NEW R, FlowOf(d, p, r, i, f, R)
  PROVE  FlowOf(d, p, r, i, f, R \cup {Held(d, p, r, i)})
<1>. DEFINE e == Held(d, p, r, i)
<1>1. /\ Len(d) \in Nat /\ Len(p) \in Nat /\ Len(r) \in Nat /\ Len(i) \in Nat /\ e \in Nat
      /\ e = Len(d) + Len(p) + Len(r) + Len(i)
  BY FlowLengths DEF Held
<1>. HIDE DEF e
<1>2. Stretch(d, 0, f, R \cup {e})
  <2>1. 0 \in Nat /\ 0 + Len(d) <= e  BY <1>1
  <2>. QED  BY <1>1, <2>1, StretchRequest DEF FlowOf
<1>3. Stretch(p, Len(d), f, R \cup {e})
  <2>1. Len(d) + Len(p) <= e  BY <1>1
  <2>. QED  BY <1>1, <2>1, StretchRequest DEF FlowOf
<1>4. Stretch(r, Len(d) + Len(p), f, R \cup {e})
  <2>1. Len(d) + Len(p) \in Nat /\ Len(d) + Len(p) + Len(r) <= e  BY <1>1
  <2>. QED  BY <1>1, <2>1, StretchRequest DEF FlowOf
<1>5. Stretch(i, Len(d) + Len(p) + Len(r), f, R \cup {e})
  <2>1. Len(d) + Len(p) + Len(r) \in Nat /\ Len(d) + Len(p) + Len(r) + Len(i) <= e  BY <1>1
  <2>. QED  BY <1>1, <2>1, StretchRequest DEF FlowOf
<1>. QED  BY <1>2, <1>3, <1>4, <1>5 DEF FlowOf, e

\* What a drained synchronous transform gives at once keeps its order.
LEMMA FlowDrain ==
  ASSUME NEW d \in Seq(Sample), NEW p \in Seq(Sample), NEW i \in Seq(Sample),
         NEW f, NEW R, NEW n \in 0..Len(i), FlowOf(d, p, <<>>, i, f, R)
  PROVE  /\ p \o SubSeq(i, 1, n) \in Seq(Sample) /\ SubSeq(i, n + 1, Len(i)) \in Seq(Sample)
         /\ Len(SubSeq(i, n + 1, Len(i))) = Len(i) - n
         /\ Held(d, p \o SubSeq(i, 1, n), <<>>, SubSeq(i, n + 1, Len(i))) = Held(d, p, <<>>, i)
         /\ FlowOf(d, p \o SubSeq(i, 1, n), <<>>, SubSeq(i, n + 1, Len(i)), f, R)
<1>. DEFINE a == SubSeq(i, 1, n)  b == SubSeq(i, n + 1, Len(i))  c == p \o a
<1>1. <<>> \in Seq(Sample) /\ Len(<<>>) = 0
  OBVIOUS
<1>2. Len(d) \in Nat /\ Len(p) \in Nat /\ Len(i) \in Nat /\ Len(d) + Len(p) \in Nat
  OBVIOUS
<1>3. Stretch(d, 0, f, R) /\ Stretch(p, Len(d), f, R) /\ Stretch(i, Len(d) + Len(p), f, R)
  <2>1. Len(d) + Len(p) + Len(<<>>) = Len(d) + Len(p)
    BY <1>1, <1>2
  <2>. QED  BY <2>1 DEF FlowOf
<1>4. /\ a \in Seq(Sample) /\ Len(a) = n /\ Stretch(a, Len(d) + Len(p), f, R)
      /\ b \in Seq(Sample) /\ Len(b) = Len(i) - n /\ Stretch(b, Len(d) + Len(p) + n, f, R)
  BY <1>2, <1>3, StretchSplit
<1>. HIDE DEF a, b
<1>5. c \in Seq(Sample) /\ Len(c) = Len(p) + n /\ Stretch(c, Len(d), f, R)
  <2>1. c \in Seq(Sample) /\ Len(c) = Len(p) + Len(a) /\ Stretch(c, Len(d), f, R)
    BY <1>2, <1>3, <1>4, StretchConcat
  <2>. QED  BY <2>1, <1>4
<1>. HIDE DEF c
<1>6. Stretch(<<>>, Len(d) + Len(c), f, R)
  BY <1>2, <1>5, StretchEmpty
<1>7. Len(d) + Len(c) + Len(<<>>) = Len(d) + Len(p) + n
  BY <1>1, <1>2, <1>5
<1>8. FlowOf(d, c, <<>>, b, f, R)
  BY <1>3, <1>4, <1>5, <1>6, <1>7 DEF FlowOf
<1>9. Held(d, c, <<>>, b) = Held(d, p, <<>>, i)
  BY <1>1, <1>2, <1>4, <1>5 DEF Held
<1>. QED  BY <1>4, <1>5, <1>8, <1>9 DEF a, b, c

\* Fetching the first ready sample keeps the order.
LEMMA FlowFetch ==
  ASSUME NEW d \in Seq(Sample), NEW p \in Seq(Sample), NEW r \in Seq(Sample), NEW i \in Seq(Sample),
         NEW f, NEW R, FlowOf(d, p, r, i, f, R), r # <<>>
  PROVE  /\ Append(p, Head(r)) \in Seq(Sample) /\ Tail(r) \in Seq(Sample)
         /\ Held(d, Append(p, Head(r)), Tail(r), i) = Held(d, p, r, i)
         /\ FlowOf(d, Append(p, Head(r)), Tail(r), i, f, R)
<1>. DEFINE x == Head(r)  q == Append(p, x)  t == Tail(r)
<1>1. /\ Len(d) \in Nat /\ Len(p) \in Nat /\ Len(r) \in Nat /\ Len(i) \in Nat
      /\ Len(d) + Len(p) \in Nat
  OBVIOUS
<1>2. /\ x \in Sample /\ x.frame = Len(d) + Len(p) /\ Fits(x, f, R)
      /\ t \in Seq(Sample) /\ Len(t) = Len(r) - 1 /\ Stretch(t, Len(d) + Len(p) + 1, f, R)
  <2>. DEFINE k == Len(d) + Len(p)
  <2>1. k \in Nat /\ Stretch(r, k, f, R)
    BY <1>1 DEF FlowOf
  <2>. HIDE DEF k
  <2>2. /\ Head(r) \in Sample /\ Head(r).frame = k /\ Fits(Head(r), f, R)
        /\ Tail(r) \in Seq(Sample) /\ Len(Tail(r)) = Len(r) - 1 /\ Stretch(Tail(r), k + 1, f, R)
    BY <2>1, StretchTail
  <2>. QED  BY <2>2 DEF k
<1>. HIDE DEF x, t
<1>3. q \in Seq(Sample) /\ Len(q) = Len(p) + 1 /\ Stretch(q, Len(d), f, R)
  BY <1>1, <1>2, StretchAppend DEF FlowOf
<1>. HIDE DEF q
<1>4. /\ Len(d) + Len(q) = Len(d) + Len(p) + 1
      /\ Len(d) + Len(q) + Len(t) = Len(d) + Len(p) + Len(r)
  BY <1>1, <1>2, <1>3
<1>5. FlowOf(d, q, t, i, f, R)
  BY <1>2, <1>3, <1>4 DEF FlowOf
<1>6. Held(d, q, t, i) = Held(d, p, r, i)
  BY <1>4 DEF Held
<1>. QED  BY <1>2, <1>3, <1>5, <1>6 DEF x, t, q

\* The transform finishing its first frame keeps the order.
LEMMA FlowOutput ==
  ASSUME NEW d \in Seq(Sample), NEW p \in Seq(Sample), NEW r \in Seq(Sample), NEW i \in Seq(Sample),
         NEW f, NEW R, FlowOf(d, p, r, i, f, R), i # <<>>
  PROVE  /\ Append(r, Head(i)) \in Seq(Sample) /\ Tail(i) \in Seq(Sample)
         /\ Len(Tail(i)) = Len(i) - 1 /\ Len(Append(r, Head(i))) = Len(r) + 1
         /\ Held(d, p, Append(r, Head(i)), Tail(i)) = Held(d, p, r, i)
         /\ FlowOf(d, p, Append(r, Head(i)), Tail(i), f, R)
<1>. DEFINE x == Head(i)  q == Append(r, x)  t == Tail(i)
<1>1. /\ Len(d) \in Nat /\ Len(p) \in Nat /\ Len(r) \in Nat /\ Len(i) \in Nat
      /\ Len(d) + Len(p) \in Nat /\ Len(d) + Len(p) + Len(r) \in Nat
  OBVIOUS
<1>2. /\ x \in Sample /\ x.frame = Len(d) + Len(p) + Len(r) /\ Fits(x, f, R)
      /\ t \in Seq(Sample) /\ Len(t) = Len(i) - 1
      /\ Stretch(t, Len(d) + Len(p) + Len(r) + 1, f, R)
  <2>. DEFINE k == Len(d) + Len(p) + Len(r)
  <2>1. k \in Nat /\ Stretch(i, k, f, R)
    BY <1>1 DEF FlowOf
  <2>. HIDE DEF k
  <2>2. /\ Head(i) \in Sample /\ Head(i).frame = k /\ Fits(Head(i), f, R)
        /\ Tail(i) \in Seq(Sample) /\ Len(Tail(i)) = Len(i) - 1 /\ Stretch(Tail(i), k + 1, f, R)
    BY <2>1, StretchTail
  <2>. QED  BY <2>2 DEF k
<1>. HIDE DEF x, t
<1>3. q \in Seq(Sample) /\ Len(q) = Len(r) + 1 /\ Stretch(q, Len(d) + Len(p), f, R)
  BY <1>1, <1>2, StretchAppend DEF FlowOf
<1>. HIDE DEF q
<1>4. Len(d) + Len(p) + Len(q) = Len(d) + Len(p) + Len(r) + 1
  BY <1>1, <1>3
<1>5. FlowOf(d, p, q, t, f, R)
  BY <1>2, <1>3, <1>4 DEF FlowOf
<1>6. Held(d, p, q, t) = Held(d, p, r, i)
  BY <1>1, <1>2, <1>3 DEF Held
<1>. QED  BY <1>2, <1>3, <1>5, <1>6 DEF x, t, q

\* Giving the next frame to the transform keeps the order.
LEMMA FlowAccept ==
  ASSUME NEW d \in Seq(Sample), NEW p \in Seq(Sample), NEW r \in Seq(Sample), NEW i \in Seq(Sample),
         NEW f, NEW R, FlowOf(d, p, r, i, f, R), NEW x \in Sample,
         x.frame = Held(d, p, r, i), Fits(x, f, R)
  PROVE  /\ Append(i, x) \in Seq(Sample) /\ Len(Append(i, x)) = Len(i) + 1
         /\ Held(d, p, r, Append(i, x)) = Held(d, p, r, i) + 1
         /\ FlowOf(d, p, r, Append(i, x), f, R)
<1>. DEFINE q == Append(i, x)
<1>1. /\ Len(d) \in Nat /\ Len(p) \in Nat /\ Len(r) \in Nat /\ Len(i) \in Nat
      /\ Len(d) + Len(p) + Len(r) \in Nat
  OBVIOUS
<1>2. x.frame = Len(d) + Len(p) + Len(r) + Len(i)
  BY DEF Held
<1>3. q \in Seq(Sample) /\ Len(q) = Len(i) + 1 /\ Stretch(q, Len(d) + Len(p) + Len(r), f, R)
  BY <1>1, <1>2, StretchAppend DEF FlowOf
<1>. HIDE DEF q
<1>4. FlowOf(d, p, r, q, f, R)
  BY <1>3 DEF FlowOf
<1>5. Held(d, p, r, q) = Held(d, p, r, i) + 1
  BY <1>1, <1>3 DEF Held
<1>. QED  BY <1>3, <1>4, <1>5 DEF q

\* Delivering what is pending keeps the order.
LEMMA FlowEmit ==
  ASSUME NEW d \in Seq(Sample), NEW p \in Seq(Sample), NEW r \in Seq(Sample), NEW i \in Seq(Sample),
         NEW f, NEW R, FlowOf(d, p, r, i, f, R)
  PROVE  /\ d \o p \in Seq(Sample) /\ Len(d \o p) = Len(d) + Len(p)
         /\ Held(d \o p, <<>>, r, i) = Held(d, p, r, i)
         /\ FlowOf(d \o p, <<>>, r, i, f, R)
<1>. DEFINE q == d \o p
<1>1. /\ Len(d) \in Nat /\ Len(p) \in Nat /\ Len(r) \in Nat /\ Len(i) \in Nat /\ Len(<<>>) = 0
      /\ 0 \in Nat /\ 0 + Len(d) = Len(d)
  OBVIOUS
<1>2. q \in Seq(Sample) /\ Len(q) = Len(d) + Len(p) /\ Stretch(q, 0, f, R)
  BY <1>1, StretchConcat DEF FlowOf
<1>. HIDE DEF q
<1>3. Len(q) + Len(<<>>) = Len(d) + Len(p) /\ Len(q) \in Nat
  BY <1>1, <1>2
<1>4. Stretch(<<>>, Len(q), f, R)
  BY <1>3, StretchEmpty
<1>5. FlowOf(q, <<>>, r, i, f, R)
  BY <1>2, <1>3, <1>4 DEF FlowOf
<1>6. Held(q, <<>>, r, i) = Held(d, p, r, i)
  BY <1>1, <1>2 DEF Held
<1>. QED  BY <1>2, <1>5, <1>6 DEF q

\* The places of the event e in s, in their order.
Enumerates(g, s, e, n) ==
    /\ \A i \in 1..n : s[g[i]] = e
    /\ \A i, j \in 1..n : i < j => g[i] < g[j]
    /\ \A k \in 1..Len(s) : s[k] = e => \E i \in 1..n : g[i] = k

\* The event e occurs n times in s.
Occurs(s, e, n) == n \in Nat /\ \E g \in [1..n -> 1..Len(s)] : Enumerates(g, s, e, n)

\* The events of an asynchronous transform.
Events == {"need", "have", "drained", "error"}

\* No event occurs in an empty queue.
LEMMA OccursEmpty == ASSUME NEW e PROVE Occurs(<<>>, e, 0)
<1>. DEFINE g == [i \in 1..0 |-> 1]
<1>1. g \in [1..0 -> 1..Len(<<>>)]
  OBVIOUS
<1>2. Enumerates(g, <<>>, e, 0)
  BY DEF Enumerates
<1>. QED  BY <1>1, <1>2 DEF Occurs

\* An event that is nowhere in the queue occurs no time.
LEMMA OccursNone ==
  ASSUME NEW s \in Seq(Events), NEW e, NEW n, Occurs(s, e, n), \A i \in 1..Len(s) : s[i] # e
  PROVE  n = 0
<1>1. PICK g \in [1..n -> 1..Len(s)] : Enumerates(g, s, e, n)
  BY DEF Occurs
<1>2. n \in Nat
  BY DEF Occurs
<1>3. ASSUME n >= 1 PROVE FALSE
  <2>1. 1 \in 1..n
    BY <1>2, <1>3
  <2>2. g[1] \in 1..Len(s) /\ s[g[1]] = e
    BY <1>1, <2>1 DEF Enumerates
  <2>. QED  BY <2>2
<1>. QED  BY <1>2, <1>3

\* An event that is queued occurs once more.
LEMMA OccursAppend ==
  ASSUME NEW s \in Seq(Events), NEW e, NEW n, Occurs(s, e, n), NEW x \in Events
  PROVE  /\ x = e => Occurs(Append(s, x), e, n + 1)
         /\ x # e => Occurs(Append(s, x), e, n)
<1>. DEFINE t == Append(s, x)
<1>1. /\ t \in Seq(Events) /\ Len(s) \in Nat /\ Len(t) = Len(s) + 1 /\ t[Len(s) + 1] = x
      /\ \A i \in 1..Len(s) : t[i] = s[i]
  OBVIOUS
<1>2. PICK g \in [1..n -> 1..Len(s)] : Enumerates(g, s, e, n)
  BY DEF Occurs
<1>3. n \in Nat
  BY DEF Occurs
<1>4. /\ \A i \in 1..n : g[i] \in 1..Len(s) /\ s[g[i]] = e
      /\ \A i, j \in 1..n : i < j => g[i] < g[j]
      /\ \A k \in 1..Len(s) : s[k] = e => \E i \in 1..n : g[i] = k
  BY <1>2 DEF Enumerates
<1>. HIDE DEF t
<1>5. ASSUME x = e PROVE Occurs(t, e, n + 1)
  <2>. DEFINE h == [i \in 1..(n + 1) |-> IF i = n + 1 THEN Len(s) + 1 ELSE g[i]]
  <2>1. \A i \in 1..n : i \in 1..(n + 1) /\ h[i] = g[i]
    BY <1>3
  <2>2. h[n + 1] = Len(s) + 1 /\ n + 1 \in 1..(n + 1)
    BY <1>3
  <2>3. \A i \in 1..(n + 1) : i = n + 1 \/ i \in 1..n
    BY <1>3
  <2>4. h \in [1..(n + 1) -> 1..Len(t)]
    <3>1. ASSUME NEW i \in 1..(n + 1) PROVE (IF i = n + 1 THEN Len(s) + 1 ELSE g[i]) \in 1..Len(t)
      BY <2>3, <1>4, <1>1
    <3>. QED  BY <3>1
  <2>. HIDE DEF h
  <2>5. \A i \in 1..(n + 1) : t[h[i]] = e
    BY <2>1, <2>2, <2>3, <1>1, <1>4, <1>5
  <2>6. ASSUME NEW i \in 1..(n + 1), NEW j \in 1..(n + 1), i < j PROVE h[i] < h[j]
    <3>1. i \in 1..n
      BY <2>6, <1>3
    <3>2. CASE j = n + 1
      BY <3>1, <3>2, <2>1, <2>2, <1>4, <1>1
    <3>3. CASE j \in 1..n
      BY <3>1, <3>3, <2>1, <1>4, <2>6
    <3>. QED  BY <3>2, <3>3, <2>3
  <2>7. ASSUME NEW k \in 1..Len(t), t[k] = e PROVE \E i \in 1..(n + 1) : h[i] = k
    <3>1. CASE k = Len(s) + 1
      BY <3>1, <2>2
    <3>2. CASE k # Len(s) + 1
      <4>1. k \in 1..Len(s) /\ s[k] = e
        BY <3>2, <1>1, <2>7
      <4>2. PICK i \in 1..n : g[i] = k
        BY <4>1, <1>4
      <4>. QED  BY <4>2, <2>1
    <3>. QED  BY <3>1, <3>2
  <2>8. Enumerates(h, t, e, n + 1)
    BY <2>5, <2>6, <2>7 DEF Enumerates
  <2>9. n + 1 \in Nat
    BY <1>3
  <2>. QED  BY <2>4, <2>8, <2>9 DEF Occurs
<1>6. ASSUME x # e PROVE Occurs(t, e, n)
  <2>1. g \in [1..n -> 1..Len(t)]
    <3>1. 1..Len(s) \subseteq 1..Len(t)
      BY <1>1
    <3>. QED  BY <3>1, <1>2
  <2>2. \A i \in 1..n : t[g[i]] = e
    BY <1>1, <1>4
  <2>3. ASSUME NEW k \in 1..Len(t), t[k] = e PROVE \E i \in 1..n : g[i] = k
    <3>1. k \in 1..Len(s) /\ s[k] = e
      BY <1>1, <2>3, <1>6
    <3>. QED  BY <3>1, <1>4
  <2>4. Enumerates(g, t, e, n)
    BY <1>4, <2>2, <2>3 DEF Enumerates
  <2>. QED  BY <2>1, <2>4, <1>3 DEF Occurs
<1>. QED  BY <1>5, <1>6 DEF t

\* An event that is taken occurs once less.
LEMMA OccursTail ==
  ASSUME NEW s \in Seq(Events), NEW e, NEW n, Occurs(s, e, n), s # <<>>
  PROVE  /\ Head(s) = e => n >= 1 /\ Occurs(Tail(s), e, n - 1)
         /\ Head(s) # e => Occurs(Tail(s), e, n)
<1>. DEFINE t == Tail(s)
<1>1. /\ t \in Seq(Events) /\ Len(s) \in Nat /\ Len(s) >= 1 /\ Len(t) = Len(s) - 1
      /\ Head(s) = s[1] /\ \A i \in 1..Len(t) : t[i] = s[i + 1]
  OBVIOUS
<1>2. PICK g \in [1..n -> 1..Len(s)] : Enumerates(g, s, e, n)
  BY DEF Occurs
<1>3. n \in Nat
  BY DEF Occurs
<1>4. /\ \A i \in 1..n : g[i] \in 1..Len(s) /\ s[g[i]] = e
      /\ \A i, j \in 1..n : i < j => g[i] < g[j]
      /\ \A k \in 1..Len(s) : s[k] = e => \E i \in 1..n : g[i] = k
  BY <1>2 DEF Enumerates
<1>. HIDE DEF t
<1>5. ASSUME Head(s) = e PROVE n >= 1 /\ Occurs(t, e, n - 1)
  <2>1. PICK a \in 1..n : g[a] = 1
    <3>1. 1 \in 1..Len(s) /\ s[1] = e
      BY <1>1, <1>5
    <3>. QED  BY <3>1, <1>4
  <2>2. n >= 1 /\ 1 \in 1..n /\ n - 1 \in Nat
    BY <2>1, <1>3
  <2>3. g[1] = 1
    <3>1. ASSUME a # 1 PROVE FALSE
      <4>1. 1 < a
        BY <3>1, <2>1
      <4>2. g[1] < g[a] /\ g[1] \in 1..Len(s)
        BY <4>1, <2>1, <2>2, <1>4
      <4>. QED  BY <4>2, <2>1, <1>1
    <3>. QED  BY <3>1, <2>1
  <2>. DEFINE h == [i \in 1..(n - 1) |-> g[i + 1] - 1]
  <2>4. \A i \in 1..(n - 1) : i + 1 \in 1..n /\ 1 < i + 1
    BY <2>2, <1>3
  <2>5. ASSUME NEW i \in 1..(n - 1)
        PROVE  g[i + 1] - 1 \in 1..Len(t) /\ t[g[i + 1] - 1] = e
    <3>1. g[1] < g[i + 1] /\ g[i + 1] \in 1..Len(s) /\ s[g[i + 1]] = e
      BY <2>4, <2>2, <1>4
    <3>2. g[i + 1] - 1 \in 1..Len(t) /\ (g[i + 1] - 1) + 1 = g[i + 1]
      BY <3>1, <2>3, <1>1
    <3>. QED  BY <3>1, <3>2, <1>1
  <2>6. h \in [1..(n - 1) -> 1..Len(t)] /\ \A i \in 1..(n - 1) : h[i] = g[i + 1] - 1
    BY <2>5
  <2>. HIDE DEF h
  <2>7. \A i \in 1..(n - 1) : t[h[i]] = e
    BY <2>5, <2>6
  <2>8. ASSUME NEW i \in 1..(n - 1), NEW j \in 1..(n - 1), i < j PROVE h[i] < h[j]
    <3>1. i + 1 \in 1..n /\ j + 1 \in 1..n /\ i + 1 < j + 1
      BY <2>4, <2>8
    <3>2. g[i + 1] < g[j + 1] /\ g[i + 1] \in 1..Len(s) /\ g[j + 1] \in 1..Len(s)
      BY <3>1, <1>4
    <3>. QED  BY <3>2, <2>6, <1>1
  <2>9. ASSUME NEW k \in 1..Len(t), t[k] = e PROVE \E i \in 1..(n - 1) : h[i] = k
    <3>1. k + 1 \in 1..Len(s) /\ s[k + 1] = e
      BY <1>1, <2>9
    <3>2. PICK i \in 1..n : g[i] = k + 1
      BY <3>1, <1>4
    <3>3. i # 1
      BY <3>2, <2>3, <1>1
    <3>4. i - 1 \in 1..(n - 1) /\ (i - 1) + 1 = i
      BY <3>2, <3>3, <1>3
    <3>5. h[i - 1] = (k + 1) - 1
      BY <3>4, <3>2, <2>6
    <3>. QED  BY <3>4, <3>5, <1>1
  <2>10. Enumerates(h, t, e, n - 1)
    BY <2>7, <2>8, <2>9 DEF Enumerates
  <2>. QED  BY <2>2, <2>6, <2>10 DEF Occurs
<1>6. ASSUME Head(s) # e PROVE Occurs(t, e, n)
  <2>. DEFINE h == [i \in 1..n |-> g[i] - 1]
  <2>1. ASSUME NEW i \in 1..n PROVE g[i] - 1 \in 1..Len(t) /\ t[g[i] - 1] = e
    <3>1. g[i] \in 1..Len(s) /\ s[g[i]] = e
      BY <1>4
    <3>2. g[i] # 1
      BY <3>1, <1>1, <1>6
    <3>3. g[i] - 1 \in 1..Len(t) /\ (g[i] - 1) + 1 = g[i]
      BY <3>1, <3>2, <1>1
    <3>. QED  BY <3>1, <3>3, <1>1
  <2>2. h \in [1..n -> 1..Len(t)] /\ \A i \in 1..n : h[i] = g[i] - 1
    BY <2>1
  <2>. HIDE DEF h
  <2>3. \A i \in 1..n : t[h[i]] = e
    BY <2>1, <2>2
  <2>4. ASSUME NEW i \in 1..n, NEW j \in 1..n, i < j PROVE h[i] < h[j]
    <3>1. g[i] < g[j] /\ g[i] \in 1..Len(s) /\ g[j] \in 1..Len(s)
      BY <1>4, <2>4
    <3>. QED  BY <3>1, <2>2, <1>1
  <2>5. ASSUME NEW k \in 1..Len(t), t[k] = e PROVE \E i \in 1..n : h[i] = k
    <3>1. k + 1 \in 1..Len(s) /\ s[k + 1] = e
      BY <1>1, <2>5
    <3>2. PICK i \in 1..n : g[i] = k + 1
      BY <3>1, <1>4
    <3>3. h[i] = (k + 1) - 1
      BY <3>2, <2>2
    <3>. QED  BY <3>3, <1>1
  <2>6. Enumerates(h, t, e, n)
    BY <2>3, <2>4, <2>5 DEF Enumerates
  <2>. QED  BY <2>2, <2>6, <1>3 DEF Occurs
<1>. QED  BY <1>5, <1>6 DEF t

-----------------------------------------------------------------------------
(* The encode pipeline: the invariant and its steps.                         *)

\* Types of the pipeline: the encode thread, the encoder, the transform.
Phases == {"idle", "prepared", "tick", "submit", "pump", "emit", "report", "closing",
           "finish", "drain", "tail", "ended"}
EncoderType == [alive : BOOLEAN, async : BOOLEAN, credits : Nat, drained : BOOLEAN,
                pending : Seq(Sample)]
TransformType == [asked : Nat, events : Seq(Events), inside : Seq(Sample), ready : Seq(Sample),
                  force : BOOLEAN, rate : Rates, draining : BOOLEAN]

\* The type of every variable of the pipeline, with its bounds.
PipeTypes ==
    /\ phase \in Phases
    /\ runtime \in [thread : Joins \cup {"none", "running"}, failed : BOOLEAN]
    /\ screen \in Nat /\ screen <= Pictures /\ seen \in Nat /\ seen <= screen
    /\ encoder \in EncoderType /\ mft \in TransformType
    /\ encoded \in Nat /\ encoded <= EncodedFrames
    /\ forcing \in BOOLEAN /\ requests \subseteq Nat /\ rate \in Rates
    /\ waited \in Nat /\ waited <= WaitPolls
    /\ pipeStop \in {"none", "duration", "cancel"}
    /\ delivered \in Seq(Sample)
    /\ pipeResult \in {"none", "done", "error", "discarded"}

\* What is delivered, pending, ready and inside, in this order.
FlowNow == FlowOf(delivered, encoder.pending, mft.ready, mft.inside, forcing, requests)

\* How many that are.
HeldNow == Held(delivered, encoder.pending, mft.ready, mft.inside)

\* No sample is missing or out of order, wherever the samples are; one is in the
\* thread's hands while it waits for the transform after giving it a frame.
FlowInv ==
    /\ Stretch(delivered, 0, forcing, requests)
    /\ phase # "ended" => FlowNow
    /\ phase \notin {"pump", "ended"} => HeldNow = encoded
    /\ phase = "pump" => HeldNow = encoded + 1

\* The events in the queue are those the encoder and the transform owe each other: one
\* "have" per ready sample, one "need" per input asked for and not taken note of; and
\* after "drained" nothing comes any more.
TalkOf(e, m) ==
    /\ Occurs(m.events, "have", Len(m.ready))
    /\ e.credits <= m.asked /\ Occurs(m.events, "need", m.asked - e.credits)
    /\ ~e.async => m.events = <<>> /\ m.ready = <<>>
    /\ Len(m.inside) <= TransformDepth
    /\ e.async => m.asked + Len(m.inside) <= TransformDepth
    /\ \A i \in 1..Len(m.events) : m.events[i] = "drained" =>
          /\ m.draining /\ m.inside = <<>>
          /\ \A j \in 1..Len(m.events) : i < j => m.events[j] # "have"
    /\ e.drained => m.draining /\ m.inside = <<>> /\ m.ready = <<>>

\* What the thread has done at each place.
Where ==
    /\ phase \in {"idle", "prepared", "tick", "submit", "pump", "emit", "report"} => rate = mft.rate
    /\ phase \in {"submit", "pump"} => encoded < EncodedFrames
    /\ phase = "submit" => (forcing /\ encoded % KeyInterval = 0 => mft.force)
    /\ phase \in {"pump", "drain"} => encoder.async
    /\ phase \in {"idle", "finish", "drain", "tail", "ended"} => runtime.thread # "running"
    /\ phase \in {"idle", "ended"} => ~encoder.alive
    /\ phase = "idle" => /\ encoder = NoEncoder /\ mft = NewTransform
                         /\ encoded = 0 /\ delivered = <<>> /\ requests = {}
    /\ mft.draining => phase \in {"drain", "tail", "ended"}
    /\ phase = "tail" /\ pipeStop # "cancel" => mft.ready = <<>> /\ mft.inside = <<>>

\* Nothing delivered was asked for as a keyframe and is not one; and a run that ended
\* well has delivered all.
Owed ==
    /\ Len(delivered) <= encoded
    /\ \A r \in requests : Len(delivered) <= r /\ r <= encoded
    /\ phase \notin {"pump", "ended"} => (encoded \in requests => mft.force)
    /\ pipeResult # "none" => phase = "ended"
    /\ pipeResult = "done" /\ pipeStop # "cancel" => Len(delivered) = encoded

\* The invariant of the pipeline.
PipeInv == PipeTypes /\ FlowInv /\ TalkOf(encoder, mft) /\ Where /\ Owed

\* The pipeline begins so.
LEMMA PipeInitially == PipeInit => PipeInv
<1>. SUFFICES ASSUME PipeInit PROVE PipeInv
  OBVIOUS
<1>. USE PipelineAssumption, KeyIntervalAssumption
<1>1. <<>> \in Seq(Sample) /\ <<>> \in Seq(Events) /\ Len(<<>>) = 0
  OBVIOUS
<1>2. encoder \in EncoderType /\ mft \in TransformType
  BY <1>1 DEF PipeInit, EncoderType, TransformType, NoEncoder, NewTransform
<1>3. PipeTypes
  <2>1. runtime \in [thread : Joins \cup {"none", "running"}, failed : BOOLEAN]
    BY DEF PipeInit
  <2>2. /\ screen \in Nat /\ screen <= Pictures /\ seen \in Nat /\ seen <= screen
        /\ encoded \in Nat /\ encoded <= EncodedFrames /\ waited \in Nat /\ waited <= WaitPolls
    BY DEF PipeInit
  <2>3. /\ phase \in Phases /\ forcing \in BOOLEAN /\ requests \subseteq Nat /\ rate \in Rates
        /\ pipeStop \in {"none", "duration", "cancel"} /\ delivered \in Seq(Sample)
        /\ pipeResult \in {"none", "done", "error", "discarded"}
    BY <1>1 DEF PipeInit, Phases
  <2>. QED  BY <1>2, <2>1, <2>2, <2>3 DEF PipeTypes
<1>4. /\ delivered = <<>> /\ encoder.pending = <<>> /\ mft.ready = <<>> /\ mft.inside = <<>>
      /\ mft.events = <<>> /\ mft.asked = 0 /\ encoder.credits = 0 /\ ~encoder.drained
      /\ encoded = 0 /\ phase = "idle" /\ requests = {} /\ ~encoder.async /\ ~encoder.alive
      /\ mft.rate = rate /\ ~mft.draining /\ pipeResult = "none"
      /\ encoder = NoEncoder /\ mft = NewTransform
  BY DEF PipeInit, NoEncoder, NewTransform
<1>5. FlowInv
  <2>1. FlowNow
    BY <1>1, <1>4, StretchEmpty DEF FlowNow, FlowOf
  <2>2. HeldNow = 0
    BY <1>1, <1>4 DEF HeldNow, Held
  <2>. QED  BY <1>4, <2>1, <2>2 DEF FlowInv, FlowNow, FlowOf
<1>6. TalkOf(encoder, mft)
  <2>1. Occurs(mft.events, "have", Len(mft.ready)) /\ Occurs(mft.events, "need", mft.asked - encoder.credits)
    BY <1>1, <1>4, OccursEmpty
  <2>. QED  BY <1>1, <1>4, <2>1 DEF TalkOf
<1>7. Where /\ Owed
  <2>1. runtime.thread # "running"
    BY DEF PipeInit
  <2>. QED  BY <1>1, <1>4, <2>1 DEF Where, Owed
<1>. QED  BY <1>3, <1>5, <1>6, <1>7 DEF PipeInv

\* A step that neither moves a sample nor talks to the transform.
Quiet ==
    /\ mft' = mft /\ UNCHANGED <<delivered, encoded, forcing, requests>>
    /\ encoder' \in EncoderType
    /\ encoder'.async = encoder.async /\ encoder'.credits = encoder.credits
    /\ encoder'.drained = encoder.drained /\ encoder'.pending = encoder.pending
    /\ phase' = phase \/ (phase \notin {"pump", "ended"} /\ phase' # "pump") \/ phase' = "ended"

\* Then the flow and the talk are as they were.
LEMMA QuietKeeps == ASSUME PipeInv, Quiet PROVE FlowInv' /\ TalkOf(encoder, mft)'
<1>1. FlowInv'
  <2>1. FlowNow' = FlowNow /\ HeldNow' = HeldNow
    BY DEF Quiet, FlowNow, HeldNow
  <2>2. Stretch(delivered, 0, forcing, requests)'
    BY DEF Quiet, PipeInv, FlowInv
  <2>. QED  BY <2>1, <2>2 DEF Quiet, PipeInv, FlowInv
<1>2. TalkOf(encoder, mft)'
  BY DEF Quiet, PipeInv, TalkOf
<1>. QED  BY <1>1, <1>2

\* Every way out of the pipeline stops the capture and releases the encoder.
LEMMA LeaveKeeps ==
  ASSUME PipeInv, NEW result \in {"error", "discarded"}, Leave(result), phase # "ended",
         UNCHANGED <<outside, seen, mft, tracked, waited, failing, delivered>>
  PROVE  PipeInv'
<1>. USE DEF outside, tracked
<1>1. PICK join \in Joins : Stops(join)
  BY DEF Leave
<1>2. encoder' \in EncoderType /\ ~encoder'.alive
  BY DEF Leave, PipeInv, PipeTypes, EncoderType
<1>3. runtime' \in [thread : Joins \cup {"none", "running"}, failed : BOOLEAN] /\ runtime'.thread # "running"
  BY <1>1 DEF Stops, PipeInv, PipeTypes, Joins
<1>4. PipeTypes'
  BY <1>2, <1>3 DEF PipeInv, PipeTypes, Leave, Phases
<1>5. Quiet
  BY <1>2 DEF Quiet, Leave, PipeInv, PipeTypes, EncoderType
<1>6. Where'
  BY <1>2, <1>3, <1>5 DEF Where, PipeInv, Leave, Quiet
<1>7. Owed'
  BY <1>5 DEF Owed, PipeInv, Leave, Quiet
<1>. QED  BY <1>4, <1>5, <1>6, <1>7, QuietKeeps DEF PipeInv

\* Whether the encoder that was chosen is asynchronous is known.
LEMMA EncoderMade ==
  ASSUME NEW choice \in EncoderChoices, NEW machine
  PROVE  NewEncoder(choice, machine).async \in BOOLEAN
<1>1. ASSUME NEW entries PROVE Selected(entries).async \in BOOLEAN
  BY DEF Selected
<1>. QED  BY <1>1, PipelineAssumption DEF NewEncoder

\* Preparing the pipeline, at each step of which something may fail.
LEMMA PreparationKeeps ==
  ASSUME PipeInv, PrepareStart PROVE PipeInv'
<1>. USE DEF outside
<1>1. PICK backend \in ConvertBackends, gpu \in GpuStarts, cpuStarts \in BOOLEAN,
           choice \in EncoderChoices, machine \in Machines, force \in BOOLEAN :
        \E source \in {StartSource(backend, gpu, cpuStarts)}, made \in {NewEncoder(choice, machine)} :
            IF source = "none"
            THEN /\ phase' = "ended" /\ pipeResult' = "error"
                 /\ UNCHANGED <<runtime, encoder, forcing>>
            ELSE /\ \E join \in Joins :
                       runtime' = [failed |-> FALSE,
                                   thread |-> IF made.ok THEN "running" ELSE join]
                 /\ IF made.ok
                    THEN /\ phase' = "prepared" /\ pipeResult' = pipeResult
                         /\ encoder' = [NoEncoder EXCEPT !.alive = TRUE, !.async = made.async]
                         /\ forcing' = force
                    ELSE /\ phase' = "ended" /\ pipeResult' = "error"
                         /\ UNCHANGED <<encoder, forcing>>
  BY DEF PrepareStart
<1>2. /\ phase = "idle" /\ encoder = NoEncoder /\ mft = NewTransform /\ pipeResult = "none"
      /\ UNCHANGED <<screen, pipeStop, seen, mft, encoded, requests, rate, waited, failing, delivered>>
  BY DEF PrepareStart, PipeInv, Where, Owed
<1>3. CASE phase' = "prepared"
  <2>1. PICK made \in {NewEncoder(choice, machine)} :
           /\ encoder' = [NoEncoder EXCEPT !.alive = TRUE, !.async = made.async]
           /\ forcing' = force /\ pipeResult' = pipeResult
           /\ \E join \in Joins : runtime' = [failed |-> FALSE, thread |-> IF made.ok THEN "running" ELSE join]
    BY <1>1, <1>3
  <2>2. made.async \in BOOLEAN
    BY EncoderMade
  <2>3. /\ encoder' = [alive |-> TRUE, async |-> made.async, credits |-> 0, drained |-> FALSE,
                       pending |-> <<>>]
    BY <2>1 DEF NoEncoder
  <2>4. encoder' \in EncoderType
    BY <2>2, <2>3 DEF EncoderType
  <2>5. runtime' \in [thread : Joins \cup {"none", "running"}, failed : BOOLEAN]
    BY <2>1
  <2>6. PipeTypes'
    BY <2>1, <2>4, <2>5, <1>2, <1>3 DEF PipeInv, PipeTypes, Phases
  <2>7. /\ delivered = <<>> /\ encoder.pending = <<>> /\ mft.ready = <<>> /\ mft.inside = <<>>
        /\ mft.events = <<>> /\ mft.asked = 0 /\ mft.draining = FALSE /\ encoded = 0 /\ requests = {}
    <3>1. /\ encoder.pending = <<>> /\ mft.ready = <<>> /\ mft.inside = <<>>
          /\ mft.events = <<>> /\ mft.asked = 0 /\ mft.draining = FALSE
      BY <1>2 DEF NoEncoder, NewTransform
    <3>. QED  BY <3>1, <1>2 DEF PipeInv, Where
  <2>8. FlowInv'
    <3>1. Len(<<>>) = 0 /\ encoder'.pending = <<>>
      BY <2>3
    <3>2. FlowNow'
      BY <1>2, <2>7, <3>1, StretchEmpty DEF FlowNow, FlowOf
    <3>3. HeldNow' = 0
      BY <1>2, <2>7, <3>1 DEF HeldNow, Held
    <3>. QED  BY <1>2, <1>3, <2>7, <3>2, <3>3 DEF FlowInv, FlowNow, FlowOf
  <2>9. TalkOf(encoder, mft)'
    <3>1. encoder'.credits = 0 /\ ~encoder'.drained /\ Len(<<>>) = 0
      BY <2>3
    <3>2. /\ Occurs(mft.events, "have", Len(mft.ready))'
          /\ Occurs(mft.events, "need", mft.asked - encoder.credits)'
      BY <1>2, <2>7, <3>1, OccursEmpty
    <3>. QED  BY <1>2, <2>7, <3>1, <3>2, PipelineAssumption DEF TalkOf
  <2>10. Where' /\ Owed'
    BY <1>2, <1>3, <2>1, <2>7 DEF Where, Owed, PipeInv
  <2>. QED  BY <2>6, <2>8, <2>9, <2>10 DEF PipeInv
<1>4. CASE phase' = "ended"
  <2>1. pipeResult' = "error" /\ UNCHANGED <<encoder, forcing>>
    BY <1>1, <1>4
  <2>2. /\ runtime' \in [thread : Joins \cup {"none", "running"}, failed : BOOLEAN]
        /\ runtime'.thread # "running"
    <3>1. \/ UNCHANGED runtime
          \/ \E join \in Joins : runtime' = [failed |-> FALSE, thread |-> join]
      BY <1>1, <1>4
    <3>2. /\ runtime \in [thread : Joins \cup {"none", "running"}, failed : BOOLEAN]
          /\ runtime.thread # "running"
      BY <1>2 DEF PipeInv, PipeTypes, Where
    <3>3. ASSUME NEW join \in Joins, runtime' = [failed |-> FALSE, thread |-> join]
          PROVE  /\ runtime' \in [thread : Joins \cup {"none", "running"}, failed : BOOLEAN]
                 /\ runtime'.thread # "running"
      BY <3>3 DEF Joins
    <3>. QED  BY <3>1, <3>2, <3>3
  <2>3. Quiet
    BY <2>1, <1>2, <1>4 DEF Quiet, PipeInv, PipeTypes
  <2>4. PipeTypes'
    BY <1>2, <1>4, <2>1, <2>2 DEF PipeInv, PipeTypes, Phases
  <2>5. Where' /\ Owed'
    BY <1>2, <1>4, <2>1, <2>2 DEF PipeInv, Where, Owed
  <2>. QED  BY <2>3, <2>4, <2>5, QuietKeeps DEF PipeInv
<1>5. phase' \in {"prepared", "ended"}
  BY <1>1
<1>. QED  BY <1>3, <1>4, <1>5

\* The capture thread of the pipeline.
RuntimeType == [thread : Joins \cup {"none", "running"}, failed : BOOLEAN]

\* Stopping the capture, joined or not.
LEMMA StopsKeeps ==
  ASSUME runtime \in RuntimeType, NEW join \in Joins, Stops(join)
  PROVE  runtime' \in RuntimeType /\ runtime'.thread # "running"
BY DEF Stops, RuntimeType, Joins

\* The steps that only move the thread.
Idles ==
    \/ phase = "prepared" /\ phase' = "tick"
    \/ phase = "report" /\ phase' \in {"tick", "closing"}
    \/ phase = "tick" /\ phase' = "closing"

\* They keep everything.
LEMMA IdlesKeeps ==
  ASSUME PipeInv, Idles,
         UNCHANGED <<runtime, outside, seen, encoder, mft, tracked, waited, failing, delivered,
                     pipeResult>>
  PROVE  PipeInv'
<1>. USE DEF outside, tracked
<1>1. Quiet
  BY DEF Quiet, Idles, PipeInv, PipeTypes
<1>2. PipeTypes'
  BY DEF Idles, PipeInv, PipeTypes, Phases
<1>3. Where'
  BY DEF Idles, PipeInv, Where
<1>4. Owed'
  BY DEF Idles, PipeInv, Owed
<1>. QED  BY <1>1, <1>2, <1>3, <1>4, QuietKeeps DEF PipeInv

\* A report that fails ends the run.
LEMMA ReportFailsKeeps == ASSUME PipeInv, ReportFails PROVE PipeInv'
<1>. USE DEF outside, tracked, ReportFails
<1>1. runtime' \in RuntimeType /\ runtime'.thread # "running"
  BY StopsKeeps DEF PipeInv, PipeTypes, RuntimeType
<1>2. Quiet
  BY DEF Quiet, PipeInv, PipeTypes
<1>3. PipeTypes'
  BY <1>1 DEF PipeInv, PipeTypes, Phases, RuntimeType
<1>4. Where'
  BY <1>1 DEF PipeInv, Where
<1>5. Owed'
  BY DEF PipeInv, Owed
<1>. QED  BY <1>2, <1>3, <1>4, <1>5, QuietKeeps DEF PipeInv

\* The capture is stopped before the encoder is drained.
LEMMA StopCaptureKeeps == ASSUME PipeInv, StopCapture PROVE PipeInv'
<1>. USE DEF outside, tracked, StopCapture
<1>1. runtime' \in RuntimeType /\ runtime'.thread # "running"
  BY StopsKeeps DEF PipeInv, PipeTypes, RuntimeType, Joins
<1>2. /\ encoder' \in EncoderType /\ encoder'.async = encoder.async
      /\ encoder'.credits = encoder.credits /\ encoder'.drained = encoder.drained
      /\ encoder'.pending = encoder.pending /\ (phase' = "ended" => ~encoder'.alive)
  BY DEF PipeInv, PipeTypes, EncoderType
<1>3. Quiet
  BY <1>2 DEF Quiet
<1>4. PipeTypes'
  BY <1>1, <1>2 DEF PipeInv, PipeTypes, Phases, RuntimeType
<1>5. Where'
  BY <1>1, <1>2 DEF PipeInv, Where
<1>6. Owed'
  BY DEF PipeInv, Owed
<1>. QED  BY <1>3, <1>4, <1>5, <1>6, QuietKeeps DEF PipeInv

\* The screen changes.
LEMMA NewPictureKeeps == ASSUME PipeInv, NewPicture PROVE PipeInv'
<1>. USE DEF NewPicture, inner, tracked
<1>1. Quiet
  BY DEF Quiet, PipeInv, PipeTypes
<1>2. PipeTypes'
  BY PipelineAssumption DEF PipeInv, PipeTypes
<1>3. Where' /\ Owed'
  BY DEF PipeInv, Where, Owed
<1>. QED  BY <1>1, <1>2, <1>3, QuietKeeps DEF PipeInv

\* The capture fails.
LEMMA CaptureErrsKeeps == ASSUME PipeInv, CaptureErrs PROVE PipeInv'
<1>. USE DEF CaptureErrs, inner, tracked, outside
<1>1. Quiet
  BY DEF Quiet, PipeInv, PipeTypes
<1>2. runtime' \in RuntimeType /\ runtime'.thread = runtime.thread
  BY DEF PipeInv, PipeTypes, RuntimeType
<1>3. PipeTypes'
  BY <1>2 DEF PipeInv, PipeTypes, RuntimeType
<1>4. Where' /\ Owed'
  BY <1>2 DEF PipeInv, Where, Owed
<1>. QED  BY <1>1, <1>3, <1>4, QuietKeeps DEF PipeInv

\* A stop arrives.
LEMMA StopArrivesKeeps == ASSUME PipeInv, StopArrives PROVE PipeInv'
<1>. USE DEF StopArrives, inner, tracked
<1>1. Quiet
  BY DEF Quiet, PipeInv, PipeTypes
<1>2. PipeTypes'
  BY DEF PipeInv, PipeTypes
<1>3. Where' /\ Owed'
  BY DEF PipeInv, Where, Owed
<1>. QED  BY <1>1, <1>2, <1>3, QuietKeeps DEF PipeInv

\* A request for the next frame, which the transform is told of.
LEMMA RequestKeeps ==
  ASSUME PipeInv, phase \in {"tick", "report"},
         UNCHANGED <<encoder, delivered, encoded, forcing>>,
         mft' \in TransformType, mft'.force = TRUE,
         mft'.inside = mft.inside, mft'.ready = mft.ready, mft'.asked = mft.asked,
         mft'.events = mft.events, mft'.draining = mft.draining,
         requests' = requests \cup {encoded}, phase' \notin {"pump", "ended"}
  PROVE  FlowInv' /\ TalkOf(encoder, mft)'
<1>1. /\ delivered \in Seq(Sample) /\ encoder.pending \in Seq(Sample)
      /\ mft.ready \in Seq(Sample) /\ mft.inside \in Seq(Sample)
  BY DEF PipeInv, PipeTypes, EncoderType, TransformType
<1>2. FlowNow /\ HeldNow = encoded
  BY DEF PipeInv, FlowInv
<1>3. FlowOf(delivered, encoder.pending, mft.ready, mft.inside, forcing, requests \cup {encoded})
  BY <1>1, <1>2, FlowRequest DEF FlowNow, HeldNow
<1>4. FlowNow' /\ HeldNow' = HeldNow
  BY <1>3 DEF FlowNow, HeldNow
<1>5. FlowInv'
  BY <1>2, <1>4 DEF FlowInv, FlowNow, FlowOf
<1>6. TalkOf(encoder, mft)'
  BY DEF PipeInv, TalkOf
<1>. QED  BY <1>5, <1>6

\* A tick of the pipeline: a picture is submitted, or the loop is left.
LEMMA TickKeeps == ASSUME PipeInv, Tick PROVE PipeInv'
<1>. USE DEF outside
<1>1. /\ phase = "tick" /\ encoded < EncodedFrames /\ seen' = screen /\ waited' = 0
      /\ UNCHANGED <<outside, runtime, encoder, encoded, rate, failing, delivered, pipeResult>>
  BY DEF Tick
<1>2. CASE UNCHANGED <<mft, requests, forcing>> /\ phase' = "report"
  <2>1. Quiet
    BY <1>1, <1>2 DEF Quiet, PipeInv, PipeTypes
  <2>2. PipeTypes'
    BY <1>1, <1>2, PipelineAssumption DEF PipeInv, PipeTypes, Phases
  <2>3. Where' /\ Owed'
    BY <1>1, <1>2 DEF PipeInv, Where, Owed
  <2>. QED  BY <2>1, <2>2, <2>3, QuietKeeps DEF PipeInv
<1>3. CASE UNCHANGED <<mft, requests, forcing>> /\ phase' = "submit" /\ ~(Due(screen # seen) /\ forcing)
  <2>1. Quiet
    BY <1>1, <1>3 DEF Quiet, PipeInv, PipeTypes
  <2>2. PipeTypes'
    BY <1>1, <1>3, PipelineAssumption DEF PipeInv, PipeTypes, Phases
  <2>3. Where' /\ Owed'
    BY <1>1, <1>3 DEF PipeInv, Where, Owed, Due
  <2>. QED  BY <2>1, <2>2, <2>3, QuietKeeps DEF PipeInv
<1>4. CASE phase' = "submit" /\ mft' = [mft EXCEPT !.force = TRUE]
           /\ requests' = requests \cup {encoded} /\ UNCHANGED forcing
  <2>1. /\ mft' \in TransformType /\ mft'.force = TRUE /\ mft'.rate = mft.rate
        /\ mft'.inside = mft.inside /\ mft'.ready = mft.ready /\ mft'.asked = mft.asked
        /\ mft'.events = mft.events /\ mft'.draining = mft.draining
    BY <1>4 DEF PipeInv, PipeTypes, TransformType
  <2>2. FlowInv' /\ TalkOf(encoder, mft)'
    BY <1>1, <1>4, <2>1, RequestKeeps
  <2>3. PipeTypes'
    BY <1>1, <1>4, <2>1, PipelineAssumption DEF PipeInv, PipeTypes, Phases
  <2>4. Where'
    BY <1>1, <1>4, <2>1 DEF PipeInv, Where
  <2>5. Owed'
    <3>1. Len(delivered) \in Nat /\ encoded \in Nat /\ requests \subseteq Nat
      BY DEF PipeInv, PipeTypes
    <3>. QED  BY <1>1, <1>4, <2>1, <3>1 DEF PipeInv, Owed
  <2>. QED  BY <2>2, <2>3, <2>4, <2>5 DEF PipeInv
<1>5. CASE phase' = "submit" /\ forcing' = FALSE /\ UNCHANGED <<mft, requests>>
  <2>1. /\ delivered \in Seq(Sample) /\ encoder.pending \in Seq(Sample)
        /\ mft.ready \in Seq(Sample) /\ mft.inside \in Seq(Sample)
    BY DEF PipeInv, PipeTypes, EncoderType, TransformType
  <2>2. FlowNow /\ HeldNow = encoded
    BY <1>1 DEF PipeInv, FlowInv
  <2>3. FlowOf(delivered, encoder.pending, mft.ready, mft.inside, FALSE, requests)
    BY <2>1, <2>2, FlowWeaken DEF FlowNow
  <2>4. FlowNow' /\ HeldNow' = HeldNow
    BY <1>1, <1>5, <2>3 DEF FlowNow, HeldNow
  <2>5. FlowInv'
    BY <1>1, <1>5, <2>2, <2>4 DEF FlowInv, FlowNow, FlowOf
  <2>6. TalkOf(encoder, mft)'
    BY <1>1, <1>5 DEF PipeInv, TalkOf
  <2>7. PipeTypes'
    <3>1. forcing' \in BOOLEAN
      BY <1>5
    <3>2. phase' = "submit" /\ UNCHANGED <<mft, requests>>
      BY <1>5
    <3>. QED  BY <1>1, <3>1, <3>2, PipelineAssumption DEF PipeInv, PipeTypes, Phases
  <2>8. Where' /\ Owed'
    BY <1>1, <1>5 DEF PipeInv, Where, Owed
  <2>. QED  BY <2>5, <2>6, <2>7, <2>8 DEF PipeInv
<1>. QED  BY <1>2, <1>3, <1>4, <1>5 DEF Tick, RequestKeyframe

\* The bitrate is set in the running encoder, which may refuse, or take it and refuse
\* the keyframe that belongs to it.
LEMMA UpdateBitrateKeeps == ASSUME PipeInv, UpdateBitrate PROVE PipeInv'
<1>. USE DEF outside
<1>1. PICK r \in Rates \ {rate} :
        \/ OnBitrateUpdateError /\ UNCHANGED <<mft, rate, requests>>
        \/ /\ OnBitrateUpdateError
           /\ mft' = [mft EXCEPT !.rate = r] /\ UNCHANGED <<rate, requests>>
        \/ /\ phase' = "tick" /\ rate' = r
           /\ mft' = [mft EXCEPT !.rate = r, !.force = TRUE]
           /\ requests' = requests \cup {encoded}
  BY DEF UpdateBitrate
<1>2. /\ phase = "report"
      /\ UNCHANGED <<runtime, outside, seen, encoder, encoded, forcing, waited, failing, delivered,
                     pipeResult>>
  BY DEF UpdateBitrate
<1>3. CASE OnBitrateUpdateError /\ UNCHANGED <<mft, rate, requests>>
  <2>1. Idles /\ UNCHANGED <<runtime, outside, seen, encoder, mft, tracked, waited, failing, delivered,
                     pipeResult>>
    BY <1>2, <1>3 DEF Idles, OnBitrateUpdateError, tracked
  <2>. QED  BY <2>1, IdlesKeeps
<1>4. CASE /\ OnBitrateUpdateError
           /\ mft' = [mft EXCEPT !.rate = r] /\ UNCHANGED <<rate, requests>>
  <2>1. /\ mft' \in TransformType /\ mft'.force = mft.force
        /\ mft'.inside = mft.inside /\ mft'.ready = mft.ready /\ mft'.asked = mft.asked
        /\ mft'.events = mft.events /\ mft'.draining = mft.draining /\ phase' = "closing"
    BY <1>4 DEF PipeInv, PipeTypes, TransformType, OnBitrateUpdateError
  <2>2. FlowNow' = FlowNow /\ HeldNow' = HeldNow
    BY <1>2, <1>4, <2>1 DEF FlowNow, HeldNow
  <2>3. FlowInv' /\ TalkOf(encoder, mft)'
    BY <1>2, <1>4, <2>1, <2>2 DEF PipeInv, FlowInv, TalkOf
  <2>4. PipeTypes'
    BY <1>2, <1>4, <2>1 DEF PipeInv, PipeTypes, Phases
  <2>5. Where' /\ Owed'
    BY <1>2, <1>4, <2>1 DEF PipeInv, Where, Owed
  <2>. QED  BY <2>3, <2>4, <2>5 DEF PipeInv
<1>5. CASE /\ phase' = "tick" /\ rate' = r
           /\ mft' = [mft EXCEPT !.rate = r, !.force = TRUE]
           /\ requests' = requests \cup {encoded}
  <2>1. /\ mft' \in TransformType /\ mft'.force = TRUE /\ mft'.rate = r
        /\ mft'.inside = mft.inside /\ mft'.ready = mft.ready /\ mft'.asked = mft.asked
        /\ mft'.events = mft.events /\ mft'.draining = mft.draining
    BY <1>5 DEF PipeInv, PipeTypes, TransformType
  <2>2. FlowInv' /\ TalkOf(encoder, mft)'
    BY <1>2, <1>5, <2>1, RequestKeeps
  <2>3. PipeTypes'
    BY <1>2, <1>5, <2>1 DEF PipeInv, PipeTypes, Phases
  <2>4. Where'
    BY <1>2, <1>5, <2>1 DEF PipeInv, Where
  <2>5. Owed'
    <3>1. Len(delivered) \in Nat /\ encoded \in Nat /\ requests \subseteq Nat
      BY DEF PipeInv, PipeTypes
    <3>. QED  BY <1>2, <1>5, <2>1, <3>1 DEF PipeInv, Owed
  <2>. QED  BY <2>2, <2>3, <2>4, <2>5 DEF PipeInv
<1>. QED  BY <1>1, <1>3, <1>4, <1>5

\* The frame the transform takes is the one the pipeline counts next, and is an IDR
\* whenever it must be.
LEMMA AcceptKeeps ==
  ASSUME NEW m \in TransformType, NEW d \in Seq(Sample), NEW p \in Seq(Sample),
         encoded \in Nat, forcing \in BOOLEAN, FlowOf(d, p, m.ready, m.inside, forcing, requests),
         Held(d, p, m.ready, m.inside) = encoded,
         forcing /\ encoded % KeyInterval = 0 => m.force, encoded \in requests => m.force
  PROVE  /\ Accept(m) \in TransformType
         /\ Accept(m).asked = m.asked /\ Accept(m).events = m.events
         /\ Accept(m).ready = m.ready /\ Accept(m).rate = m.rate
         /\ Accept(m).draining = m.draining
         /\ Len(Accept(m).inside) = Len(m.inside) + 1
         /\ Held(d, p, Accept(m).ready, Accept(m).inside) = encoded + 1
         /\ FlowOf(d, p, Accept(m).ready, Accept(m).inside, forcing, requests)
<1>. DEFINE x == [frame |-> encoded, key |-> m.force \/ encoded = 0]
<1>1. /\ m.ready \in Seq(Sample) /\ m.inside \in Seq(Sample) /\ m.force \in BOOLEAN
  BY DEF TransformType
<1>2. (m.force \/ encoded = 0) \in BOOLEAN
  OBVIOUS
<1>3. x \in Sample /\ x.frame = encoded /\ (m.force => x.key)
  BY <1>2 DEF Sample
<1>4. Fits(x, forcing, requests)
  BY <1>3 DEF Fits
<1>. HIDE DEF x
<1>5. /\ Append(m.inside, x) \in Seq(Sample) /\ Len(Append(m.inside, x)) = Len(m.inside) + 1
      /\ Held(d, p, m.ready, Append(m.inside, x)) = encoded + 1
      /\ FlowOf(d, p, m.ready, Append(m.inside, x), forcing, requests)
  BY <1>1, <1>3, <1>4, FlowAccept
<1>6. Accept(m) = [m EXCEPT !.inside = Append(m.inside, x), !.force = FALSE]
  BY DEF Accept, x, TransformType
<1>7. /\ Accept(m) \in TransformType
      /\ Accept(m).asked = m.asked /\ Accept(m).events = m.events
      /\ Accept(m).ready = m.ready /\ Accept(m).rate = m.rate
      /\ Accept(m).draining = m.draining
      /\ Accept(m).inside = Append(m.inside, x)
  BY <1>5, <1>6 DEF TransformType
<1>. QED  BY <1>5, <1>7

\* The events of the transform are taken in their order, each with what it stands for.
LEMMA PumpKeeps ==
  ASSUME encoder \in EncoderType, mft \in TransformType, TalkOf(encoder, mft),
         delivered \in Seq(Sample), FlowNow, mft.events # <<>>, ~EventFails
  PROVE  /\ PumpOne \in EncoderType /\ Pumped \in TransformType /\ TalkOf(PumpOne, Pumped)
         /\ PumpOne.alive = encoder.alive /\ PumpOne.async = encoder.async
         /\ Pumped.asked = mft.asked /\ Pumped.inside = mft.inside /\ Pumped.force = mft.force
         /\ Pumped.rate = mft.rate /\ Pumped.draining = mft.draining
         /\ Head(mft.events) = "need" => PumpOne.credits >= 1
         /\ FlowOf(delivered, PumpOne.pending, Pumped.ready, Pumped.inside, forcing, requests)
         /\ Held(delivered, PumpOne.pending, Pumped.ready, Pumped.inside) = HeldNow
<1>. DEFINE ev == mft.events  tl == Tail(mft.events)  hd == Head(mft.events)
<1>1. /\ encoder.pending \in Seq(Sample) /\ encoder.credits \in Nat
      /\ encoder.alive \in BOOLEAN /\ encoder.async \in BOOLEAN /\ encoder.drained \in BOOLEAN
      /\ mft.asked \in Nat /\ ev \in Seq(Events) /\ mft.inside \in Seq(Sample)
      /\ mft.ready \in Seq(Sample)
  BY DEF EncoderType, TransformType
<1>2. /\ tl \in Seq(Events) /\ Len(ev) \in Nat /\ Len(ev) >= 1 /\ Len(tl) = Len(ev) - 1
      /\ hd = ev[1] /\ \A i \in 1..Len(tl) : tl[i] = ev[i + 1]
  BY <1>1
<1>3. hd \in {"need", "have", "drained"}
  BY <1>1, <1>2 DEF Events, EventFails
<1>4. \A i \in 1..Len(tl) : tl[i] = "drained" =>
          /\ mft.draining /\ mft.inside = <<>>
          /\ \A j \in 1..Len(tl) : i < j => tl[j] # "have"
  <2>1. SUFFICES ASSUME NEW i \in 1..Len(tl), tl[i] = "drained"
                 PROVE  /\ mft.draining /\ mft.inside = <<>>
                        /\ \A j \in 1..Len(tl) : i < j => tl[j] # "have"
    OBVIOUS
  <2>2. i + 1 \in 1..Len(ev) /\ ev[i + 1] = "drained"
    BY <1>2, <2>1
  <2>3. /\ mft.draining /\ mft.inside = <<>>
        /\ \A j \in 1..Len(ev) : i + 1 < j => ev[j] # "have"
    BY <2>2 DEF TalkOf
  <2>4. ASSUME NEW j \in 1..Len(tl), i < j PROVE tl[j] # "have"
    <3>1. j + 1 \in 1..Len(ev) /\ i + 1 < j + 1 /\ tl[j] = ev[j + 1]
      BY <1>2, <2>4
    <3>. QED  BY <2>3, <3>1
  <2>. QED  BY <2>3, <2>4
<1>5. /\ Occurs(ev, "have", Len(mft.ready)) /\ encoder.credits <= mft.asked
      /\ Occurs(ev, "need", mft.asked - encoder.credits)
      /\ encoder.async
      /\ Len(mft.inside) <= TransformDepth
      /\ mft.asked + Len(mft.inside) <= TransformDepth
      /\ (encoder.drained => mft.draining /\ mft.inside = <<>> /\ mft.ready = <<>>)
  BY DEF TalkOf
<1>6. CASE hd = "need"
  <2>1. PumpOne = [encoder EXCEPT !.credits = encoder.credits + 1]
    BY <1>6 DEF PumpOne
  <2>2. Pumped = [mft EXCEPT !.events = tl, !.ready = mft.ready]
    BY <1>6 DEF Pumped, TransformType
  <2>3. /\ PumpOne \in EncoderType /\ PumpOne.alive = encoder.alive /\ PumpOne.async = encoder.async
        /\ PumpOne.credits = encoder.credits + 1 /\ PumpOne.pending = encoder.pending
        /\ PumpOne.drained = encoder.drained
    <3>. DEFINE c == encoder.credits + 1
    <3>1. c \in Nat
      BY <1>1
    <3>. HIDE DEF c
    <3>2. PumpOne = [encoder EXCEPT !.credits = c]
      BY <2>1 DEF c
    <3>3. /\ PumpOne \in EncoderType /\ PumpOne.alive = encoder.alive
          /\ PumpOne.async = encoder.async /\ PumpOne.credits = c
          /\ PumpOne.pending = encoder.pending /\ PumpOne.drained = encoder.drained
      BY <3>1, <3>2 DEF EncoderType
    <3>. QED  BY <3>3 DEF c
  <2>4. /\ Pumped \in TransformType /\ Pumped.events = tl /\ Pumped.ready = mft.ready
        /\ Pumped.asked = mft.asked /\ Pumped.inside = mft.inside /\ Pumped.force = mft.force
        /\ Pumped.rate = mft.rate /\ Pumped.draining = mft.draining
    BY <2>2, <1>1, <1>2 DEF TransformType
  <2>5. /\ mft.asked - encoder.credits >= 1
        /\ Occurs(tl, "need", mft.asked - encoder.credits - 1)
    BY <1>1, <1>5, <1>6, OccursTail
  <2>6. Occurs(tl, "have", Len(mft.ready))
    BY <1>1, <1>5, <1>6, OccursTail
  <2>7. PumpOne.credits <= mft.asked /\ mft.asked - PumpOne.credits = mft.asked - encoder.credits - 1
    BY <2>3, <2>5, <1>1
  <2>8. TalkOf(PumpOne, Pumped)
    BY <1>4, <1>5, <2>3, <2>4, <2>5, <2>6, <2>7 DEF TalkOf
  <2>9. /\ FlowOf(delivered, PumpOne.pending, Pumped.ready, Pumped.inside, forcing, requests)
        /\ Held(delivered, PumpOne.pending, Pumped.ready, Pumped.inside) = HeldNow
    BY <2>3, <2>4 DEF FlowNow, HeldNow
  <2>. QED  BY <2>3, <2>4, <2>8, <2>9, <1>1
<1>7. CASE hd = "have"
  <2>1. PumpOne = [encoder EXCEPT !.pending = Append(encoder.pending, Head(mft.ready))]
    BY <1>7 DEF PumpOne, EncoderType
  <2>2. Pumped = [mft EXCEPT !.events = tl, !.ready = Tail(mft.ready)]
    BY <1>7 DEF Pumped, TransformType
  <2>3. Len(mft.ready) >= 1 /\ Occurs(tl, "have", Len(mft.ready) - 1)
    BY <1>1, <1>5, <1>7, OccursTail
  <2>4. mft.ready # <<>> /\ Len(Tail(mft.ready)) = Len(mft.ready) - 1
    BY <2>3, <1>1
  <2>5. /\ Append(encoder.pending, Head(mft.ready)) \in Seq(Sample) /\ Tail(mft.ready) \in Seq(Sample)
        /\ Held(delivered, Append(encoder.pending, Head(mft.ready)), Tail(mft.ready), mft.inside) = HeldNow
        /\ FlowOf(delivered, Append(encoder.pending, Head(mft.ready)), Tail(mft.ready), mft.inside,
                  forcing, requests)
    BY <1>1, <2>4, FlowFetch DEF FlowNow, HeldNow
  <2>6. /\ PumpOne \in EncoderType /\ PumpOne.alive = encoder.alive /\ PumpOne.async = encoder.async
        /\ PumpOne.credits = encoder.credits /\ PumpOne.drained = encoder.drained
        /\ PumpOne.pending = Append(encoder.pending, Head(mft.ready))
    BY <2>1, <2>5, <1>1 DEF EncoderType
  <2>7. /\ Pumped \in TransformType /\ Pumped.events = tl /\ Pumped.ready = Tail(mft.ready)
        /\ Pumped.asked = mft.asked /\ Pumped.inside = mft.inside /\ Pumped.force = mft.force
        /\ Pumped.rate = mft.rate /\ Pumped.draining = mft.draining
    BY <2>2, <2>5, <1>1, <1>2 DEF TransformType
  <2>8. Occurs(tl, "need", mft.asked - encoder.credits)
    BY <1>1, <1>5, <1>7, OccursTail
  <2>9. ~encoder.drained
    BY <2>4, <1>5
  <2>10. TalkOf(PumpOne, Pumped)
    BY <1>4, <1>5, <2>3, <2>4, <2>6, <2>7, <2>8, <2>9 DEF TalkOf
  <2>. QED  BY <1>7, <2>5, <2>6, <2>7, <2>10
<1>8. CASE hd = "drained"
  <2>1. PumpOne = [encoder EXCEPT !.drained = TRUE]
    BY <1>8 DEF PumpOne
  <2>2. Pumped = [mft EXCEPT !.events = tl, !.ready = mft.ready]
    BY <1>8 DEF Pumped, TransformType
  <2>3. /\ PumpOne \in EncoderType /\ PumpOne.alive = encoder.alive /\ PumpOne.async = encoder.async
        /\ PumpOne.credits = encoder.credits /\ PumpOne.pending = encoder.pending
    BY <2>1, <1>1 DEF EncoderType
  <2>4. /\ Pumped \in TransformType /\ Pumped.events = tl /\ Pumped.ready = mft.ready
        /\ Pumped.asked = mft.asked /\ Pumped.inside = mft.inside /\ Pumped.force = mft.force
        /\ Pumped.rate = mft.rate /\ Pumped.draining = mft.draining
    BY <2>2, <1>1, <1>2 DEF TransformType
  <2>5. /\ Occurs(tl, "need", mft.asked - encoder.credits)
        /\ Occurs(tl, "have", Len(mft.ready))
    BY <1>1, <1>5, <1>8, OccursTail
  <2>6. mft.draining /\ mft.inside = <<>> /\ mft.ready = <<>>
    <3>1. 1 \in 1..Len(ev) /\ ev[1] = "drained"
      BY <1>2, <1>8
    <3>2. /\ mft.draining /\ mft.inside = <<>>
          /\ \A j \in 1..Len(ev) : 1 < j => ev[j] # "have"
      BY <3>1 DEF TalkOf
    <3>3. \A j \in 1..Len(ev) : ev[j] # "have"
      BY <3>1, <3>2, <1>2
    <3>4. Len(mft.ready) = 0
      BY <3>3, <1>1, <1>5, OccursNone
    <3>. QED  BY <3>2, <3>4, <1>1
  <2>7. TalkOf(PumpOne, Pumped)
    BY <1>4, <1>5, <2>3, <2>4, <2>5, <2>6 DEF TalkOf
  <2>8. /\ FlowOf(delivered, PumpOne.pending, Pumped.ready, Pumped.inside, forcing, requests)
        /\ Held(delivered, PumpOne.pending, Pumped.ready, Pumped.inside) = HeldNow
    BY <2>3, <2>4 DEF FlowNow, HeldNow
  <2>. QED  BY <1>8, <2>3, <2>4, <2>7, <2>8
<1>. QED  BY <1>3, <1>6, <1>7, <1>8

\* What every action may use of the samples and their places.
LEMMA PipeParts ==
  ASSUME PipeInv
  PROVE  /\ encoder \in EncoderType /\ mft \in TransformType /\ delivered \in Seq(Sample)
         /\ encoder.pending \in Seq(Sample) /\ mft.ready \in Seq(Sample)
         /\ mft.inside \in Seq(Sample) /\ mft.events \in Seq(Events)
         /\ encoded \in Nat /\ Len(delivered) \in Nat /\ Len(mft.inside) \in Nat
         /\ forcing \in BOOLEAN /\ mft.asked \in Nat /\ encoder.credits \in Nat
         /\ requests \subseteq Nat
BY DEF PipeInv, PipeTypes, EncoderType, TransformType

\* A synchronous transform takes a frame and may give samples at once.
LEMMA SubmitSyncKeeps == ASSUME PipeInv, SubmitSync PROVE PipeInv'
<1>. USE DEF outside
<1>1. /\ phase = "submit" /\ ~encoder.async
      /\ UNCHANGED <<outside, seen, forcing, requests, rate, waited, failing, delivered>>
  BY DEF SubmitSync
<1>2. /\ mft.events = <<>> /\ mft.ready = <<>> /\ ~mft.draining /\ ~encoder.drained
      /\ encoder.credits <= mft.asked /\ Occurs(<<>>, "have", 0)
      /\ Occurs(mft.events, "need", mft.asked - encoder.credits)
      /\ Len(mft.inside) <= TransformDepth
  BY <1>1, OccursEmpty DEF PipeInv, TalkOf, Where
<1>3. /\ HeldNow = encoded /\ FlowNow /\ encoded < EncodedFrames
      /\ (forcing /\ encoded % KeyInterval = 0 => mft.force)
      /\ (encoded \in requests => mft.force)
  BY <1>1 DEF PipeInv, FlowInv, Where, Owed
<1>4. CASE EncodeFails /\ UNCHANGED <<mft, encoded>>
  BY <1>1, <1>4, LeaveKeeps DEF EncodeFails, tracked
<1>5. ASSUME NEW pending \in Seq(Sample), NEW inside \in Seq(Sample),
             mft' \in TransformType, mft'.inside = inside, mft'.events = mft.events,
             mft'.ready = mft.ready, mft'.rate = mft.rate, mft'.draining = mft.draining,
             mft'.asked = mft.asked,
             encoder' = [encoder EXCEPT !.pending = pending],
             phase' = "emit", encoded' = encoded + 1, UNCHANGED <<runtime, pipeResult>>,
             Held(delivered, pending, <<>>, inside) = encoded + 1,
             Len(inside) <= TransformDepth,
             FlowOf(delivered, pending, <<>>, inside, forcing, requests)
      PROVE  PipeInv'
  <2>1. /\ encoder' \in EncoderType /\ encoder'.pending = pending
        /\ encoder'.async = encoder.async /\ encoder'.alive = encoder.alive
        /\ encoder'.credits = encoder.credits /\ encoder'.drained = encoder.drained
    BY <1>5, PipeParts DEF EncoderType
  <2>2. FlowNow' /\ HeldNow' = encoded'
    BY <1>1, <1>2, <1>5, <2>1 DEF FlowNow, HeldNow
  <2>3. FlowInv'
    BY <1>5, <2>2 DEF FlowInv, FlowNow, FlowOf
  <2>4. TalkOf(encoder, mft)'
    <3>1. Len(mft'.ready) = 0 /\ Len(mft'.events) = 0
      BY <1>2, <1>5
    <3>. QED  BY <1>1, <1>2, <1>5, <2>1, <3>1 DEF TalkOf
  <2>5. PipeTypes'
    <3>1. encoded' \in Nat /\ encoded' <= EncodedFrames
      BY <1>3, <1>5, PipeParts, PipelineAssumption
    <3>. QED  BY <1>1, <1>5, <2>1, <3>1 DEF PipeInv, PipeTypes, Phases
  <2>6. Where'
    BY <1>1, <1>2, <1>5, <2>1 DEF PipeInv, Where
  <2>7. Owed'
    <3>1. /\ Len(delivered) <= encoded' /\ encoded' # encoded
          /\ \A r \in requests : Len(delivered) <= r /\ r <= encoded' /\ r # encoded'
      BY <1>5, PipeParts DEF PipeInv, Owed
    <3>. QED  BY <1>1, <1>5, <3>1 DEF PipeInv, Owed
  <2>. QED  BY <2>3, <2>4, <2>5, <2>6, <2>7 DEF PipeInv
<1>6. CASE Len(mft.inside) = TransformDepth
  <2>1. PICK n \in 0..TransformDepth :
            IF n = 0 THEN EncodeFails /\ UNCHANGED <<mft, encoded>>
            ELSE /\ mft' = Accept([mft EXCEPT !.inside = SubSeq(@, n + 1, Len(@))])
                 /\ encoder' = [encoder EXCEPT !.pending = @ \o SubSeq(mft.inside, 1, n)]
                 /\ phase' = "emit" /\ encoded' = encoded + 1
                 /\ UNCHANGED <<runtime, pipeResult>>
    BY <1>6 DEF SubmitSync
  <2>2. CASE n # 0
    <3>. DEFINE rest == SubSeq(mft.inside, n + 1, Len(mft.inside))
                out  == encoder.pending \o SubSeq(mft.inside, 1, n)
                m    == [mft EXCEPT !.inside = rest]
    <3>1. n \in 0..Len(mft.inside)
      BY <1>6
    <3>2. FlowOf(delivered, encoder.pending, <<>>, mft.inside, forcing, requests)
      BY <1>2, <1>3 DEF FlowNow
    <3>3. /\ out \in Seq(Sample) /\ rest \in Seq(Sample) /\ Len(rest) = Len(mft.inside) - n
          /\ Held(delivered, out, <<>>, rest) = Held(delivered, encoder.pending, <<>>, mft.inside)
          /\ FlowOf(delivered, out, <<>>, rest, forcing, requests)
      BY <3>1, <3>2, PipeParts, FlowDrain
    <3>4. /\ encoder' = [encoder EXCEPT !.pending = out] /\ mft' = Accept(m)
          /\ phase' = "emit" /\ encoded' = encoded + 1 /\ UNCHANGED <<runtime, pipeResult>>
      BY <2>1, <2>2 DEF EncoderType, TransformType
    <3>. HIDE DEF rest, out
    <3>5. /\ m \in TransformType /\ m.inside = rest /\ m.ready = <<>> /\ m.force = mft.force
          /\ m.asked = mft.asked /\ m.events = mft.events /\ m.rate = mft.rate
          /\ m.draining = mft.draining
      BY <3>3, <1>2, PipeParts DEF TransformType
    <3>. HIDE DEF m
    <3>6. Held(delivered, out, m.ready, m.inside) = encoded
      BY <1>2, <1>3, <3>3, <3>5 DEF HeldNow
    <3>7. /\ Accept(m) \in TransformType
          /\ Accept(m).asked = m.asked /\ Accept(m).events = m.events
          /\ Accept(m).ready = m.ready /\ Accept(m).rate = m.rate
          /\ Accept(m).draining = m.draining
          /\ Len(Accept(m).inside) = Len(m.inside) + 1
          /\ Held(delivered, out, Accept(m).ready, Accept(m).inside) = encoded + 1
          /\ FlowOf(delivered, out, Accept(m).ready, Accept(m).inside, forcing, requests)
      BY <1>3, <3>3, <3>5, <3>6, PipeParts, AcceptKeeps
    <3>8. Accept(m).inside \in Seq(Sample)
      BY <3>7 DEF TransformType
    <3>9. Len(Accept(m).inside) <= TransformDepth
      BY <1>6, <2>2, <3>3, <3>5, <3>7, PipelineAssumption
    <3>. QED  BY <1>2, <1>5, <3>3, <3>4, <3>5, <3>7, <3>8, <3>9
  <2>. QED  BY <2>1, <2>2, <1>4
<1>7. CASE Len(mft.inside) # TransformDepth
  <2>1. PICK n \in 0..(Len(mft.inside) + 1) : \E full \in {Accept(mft)} :
                /\ mft' = [full EXCEPT !.inside = SubSeq(@, n + 1, Len(@))]
                /\ encoder' = [encoder EXCEPT !.pending = @ \o SubSeq(full.inside, 1, n)]
                /\ phase' = "emit" /\ encoded' = encoded + 1
                /\ UNCHANGED <<runtime, pipeResult>>
    BY <1>7 DEF SubmitSync
  <2>. DEFINE full == Accept(mft)
              rest == SubSeq(full.inside, n + 1, Len(full.inside))
              out  == encoder.pending \o SubSeq(full.inside, 1, n)
  <2>2. /\ full \in TransformType
        /\ full.asked = mft.asked /\ full.events = mft.events
        /\ full.ready = mft.ready /\ full.rate = mft.rate /\ full.draining = mft.draining
        /\ Len(full.inside) = Len(mft.inside) + 1
        /\ Held(delivered, encoder.pending, full.ready, full.inside) = encoded + 1
        /\ FlowOf(delivered, encoder.pending, full.ready, full.inside, forcing, requests)
    BY <1>3, PipeParts, AcceptKeeps DEF FlowNow, HeldNow
  <2>. HIDE DEF full
  <2>3. full.inside \in Seq(Sample) /\ n \in 0..Len(full.inside)
    BY <2>2 DEF TransformType
  <2>4. /\ FlowOf(delivered, encoder.pending, <<>>, full.inside, forcing, requests)
        /\ Held(delivered, encoder.pending, <<>>, full.inside) = encoded + 1
    BY <1>2, <2>2
  <2>5. /\ out \in Seq(Sample) /\ rest \in Seq(Sample) /\ Len(rest) = Len(full.inside) - n
        /\ Held(delivered, out, <<>>, rest) = Held(delivered, encoder.pending, <<>>, full.inside)
        /\ FlowOf(delivered, out, <<>>, rest, forcing, requests)
    <3>. DEFINE i == full.inside  p == encoder.pending
    <3>1. /\ delivered \in Seq(Sample) /\ p \in Seq(Sample) /\ i \in Seq(Sample) /\ n \in 0..Len(i)
          /\ FlowOf(delivered, p, <<>>, i, forcing, requests)
      BY <2>3, <2>4, PipeParts
    <3>. HIDE DEF i, p
    <3>2. /\ p \o SubSeq(i, 1, n) \in Seq(Sample) /\ SubSeq(i, n + 1, Len(i)) \in Seq(Sample)
          /\ Len(SubSeq(i, n + 1, Len(i))) = Len(i) - n
          /\ Held(delivered, p \o SubSeq(i, 1, n), <<>>, SubSeq(i, n + 1, Len(i)))
                = Held(delivered, p, <<>>, i)
          /\ FlowOf(delivered, p \o SubSeq(i, 1, n), <<>>, SubSeq(i, n + 1, Len(i)), forcing, requests)
      BY <3>1, FlowDrain
    <3>. QED  BY <3>2 DEF i, p
  <2>6. /\ encoder' = [encoder EXCEPT !.pending = out] /\ mft' = [full EXCEPT !.inside = rest]
        /\ phase' = "emit" /\ encoded' = encoded + 1 /\ UNCHANGED <<runtime, pipeResult>>
    BY <2>1, <2>2, PipeParts DEF full, EncoderType, TransformType
  <2>. HIDE DEF rest, out
  <2>7. /\ mft' \in TransformType /\ mft'.inside = rest /\ mft'.events = mft.events
        /\ mft'.ready = mft.ready /\ mft'.rate = mft.rate /\ mft'.draining = mft.draining
        /\ mft'.asked = mft.asked
    BY <2>2, <2>5, <2>6 DEF TransformType
  <2>8. Len(rest) <= TransformDepth
    BY <1>2, <1>7, <2>2, <2>5, PipeParts, PipelineAssumption
  <2>. QED  BY <1>5, <2>4, <2>5, <2>6, <2>7, <2>8
<1>. QED  BY <1>6, <1>7

\* A frame given to an asynchronous transform against a credit.
LEMMA SubmitKeeps ==
  ASSUME PipeInv, phase = "submit", encoder.async,
         NEW e \in EncoderType, NEW m \in TransformType, Submit(e, m), TalkOf(e, m),
         e.credits >= 1, e.async, e.alive = encoder.alive,
         m.force = mft.force, m.rate = mft.rate, m.draining = mft.draining,
         FlowOf(delivered, e.pending, m.ready, m.inside, forcing, requests),
         Held(delivered, e.pending, m.ready, m.inside) = encoded,
         UNCHANGED <<runtime, pipeResult, waited, outside, seen, tracked, failing, delivered>>
  PROVE  PipeInv'
<1>. USE DEF outside, tracked
<1>. DEFINE a == Accept(m)
<1>1. /\ (forcing /\ encoded % KeyInterval = 0 => m.force) /\ (encoded \in requests => m.force)
      /\ encoded < EncodedFrames /\ ~mft.draining /\ rate = mft.rate
  BY DEF PipeInv, Where, Owed
<1>2. e.pending \in Seq(Sample) /\ e.credits \in Nat /\ m.asked \in Nat
  BY DEF EncoderType, TransformType
<1>3. /\ a \in TransformType /\ a.asked = m.asked /\ a.events = m.events
      /\ a.ready = m.ready /\ a.rate = m.rate /\ a.draining = m.draining
      /\ Len(a.inside) = Len(m.inside) + 1
      /\ Held(delivered, e.pending, a.ready, a.inside) = encoded + 1
      /\ FlowOf(delivered, e.pending, a.ready, a.inside, forcing, requests)
  BY <1>1, <1>2, PipeParts, AcceptKeeps
<1>. HIDE DEF a
<1>. DEFINE c == e.credits - 1  k == m.asked - 1
<1>4. c \in Nat /\ k \in Nat /\ c <= k /\ k - c = m.asked - e.credits /\ k = m.asked - 1
  BY <1>2 DEF TalkOf
<1>. HIDE DEF c, k
<1>5. encoder' = [e EXCEPT !.credits = c] /\ mft' = [a EXCEPT !.asked = k] /\ phase' = "pump"
  BY <1>3 DEF Submit, a, c, k, EncoderType, TransformType
<1>6. /\ encoder' \in EncoderType /\ encoder'.credits = c /\ encoder'.pending = e.pending
      /\ encoder'.async = e.async /\ encoder'.alive = e.alive /\ encoder'.drained = e.drained
  BY <1>4, <1>5 DEF EncoderType
<1>7. /\ mft' \in TransformType /\ mft'.asked = k /\ mft'.events = m.events
      /\ mft'.ready = m.ready /\ mft'.rate = m.rate /\ mft'.draining = m.draining
      /\ mft'.inside = a.inside
  BY <1>3, <1>4, <1>5 DEF TransformType
<1>8. FlowNow' /\ HeldNow' = encoded' + 1
  BY <1>3, <1>6, <1>7 DEF FlowNow, HeldNow
<1>9. FlowInv'
  BY <1>5, <1>8 DEF FlowInv, FlowNow, FlowOf
<1>10. TalkOf(encoder, mft)'
  <2>1. Occurs(m.events, "have", Len(m.ready)) /\ Occurs(m.events, "need", k - c)
    BY <1>4 DEF TalkOf
  <2>2. k + Len(a.inside) <= TransformDepth /\ Len(a.inside) <= TransformDepth
    <3>1. m.asked + Len(m.inside) <= TransformDepth /\ Len(m.inside) \in Nat
      BY DEF TalkOf, TransformType
    <3>. QED  BY <3>1, <1>2, <1>3, <1>4, PipelineAssumption
  <2>3. ~m.draining
    BY <1>1
  <2>4. /\ \A i \in 1..Len(m.events) : m.events[i] # "drained"
        /\ ~e.drained
    BY <2>3 DEF TalkOf
  <2>. QED  BY <1>4, <1>6, <1>7, <2>1, <2>2, <2>4 DEF TalkOf
<1>11. PipeTypes'
  BY <1>5, <1>6, <1>7 DEF PipeInv, PipeTypes, Phases
<1>12. Where'
  BY <1>1, <1>5, <1>6, <1>7, <1>3 DEF PipeInv, Where
<1>13. Owed'
  BY <1>5 DEF PipeInv, Owed
<1>. QED  BY <1>9, <1>10, <1>11, <1>12, <1>13 DEF PipeInv

\* An event that is taken while the thread stays where it is.
LEMMA TakeKeeps ==
  ASSUME PipeInv, phase \in {"submit", "pump", "drain"},
         mft.events # <<>>, ~EventFails, encoder' = PumpOne, mft' = Pumped,
         waited' \in Nat, waited' <= WaitPolls,
         UNCHANGED <<phase, runtime, pipeResult, outside, seen, tracked, failing, delivered>>
  PROVE  PipeInv'
<1>. USE DEF outside, tracked
<1>1. /\ FlowNow /\ TalkOf(encoder, mft)
  BY DEF PipeInv, FlowInv
<1>2. /\ PumpOne \in EncoderType /\ Pumped \in TransformType /\ TalkOf(PumpOne, Pumped)
      /\ PumpOne.alive = encoder.alive /\ PumpOne.async = encoder.async
      /\ Pumped.asked = mft.asked /\ Pumped.inside = mft.inside /\ Pumped.force = mft.force
      /\ Pumped.rate = mft.rate /\ Pumped.draining = mft.draining
      /\ FlowOf(delivered, PumpOne.pending, Pumped.ready, Pumped.inside, forcing, requests)
      /\ Held(delivered, PumpOne.pending, Pumped.ready, Pumped.inside) = HeldNow
  BY <1>1, PipeParts, PumpKeeps
<1>3. FlowNow' /\ HeldNow' = HeldNow
  BY <1>2 DEF FlowNow, HeldNow
<1>4. FlowInv'
  BY <1>3 DEF PipeInv, FlowInv
<1>5. TalkOf(encoder, mft)'
  BY <1>2
<1>6. PipeTypes'
  BY <1>2 DEF PipeInv, PipeTypes
<1>7. Where'
  BY <1>2 DEF PipeInv, Where
<1>8. Owed'
  BY <1>2 DEF PipeInv, Owed
<1>. QED  BY <1>4, <1>5, <1>6, <1>7, <1>8 DEF PipeInv

\* A poll that finds nothing.
LEMMA WaitKeeps ==
  ASSUME PipeInv, waited' \in Nat, waited' <= WaitPolls,
         UNCHANGED <<encoder, mft, phase, runtime, pipeResult, outside, seen, tracked, failing, delivered>>
  PROVE  PipeInv'
<1>. USE DEF outside, tracked
<1>1. Quiet
  BY DEF Quiet, PipeInv, PipeTypes
<1>2. PipeTypes'
  BY DEF PipeInv, PipeTypes
<1>3. Where' /\ Owed'
  BY DEF PipeInv, Where, Owed
<1>. QED  BY <1>1, <1>2, <1>3, QuietKeeps DEF PipeInv

\* The polls are counted up to their bound.
LEMMA PollBound == ASSUME PipeInv, waited # WaitPolls PROVE waited + 1 \in Nat /\ waited + 1 <= WaitPolls
BY PipelineAssumption DEF PipeInv, PipeTypes

\* The thread waits until the transform asks for input, or its polls are used up.
LEMMA SubmitAsyncKeeps == ASSUME PipeInv, SubmitAsync PROVE PipeInv'
<1>1. /\ phase = "submit" /\ encoder.async
      /\ UNCHANGED <<outside, seen, tracked, failing, delivered>>
  BY DEF SubmitAsync
<1>2. FlowNow /\ HeldNow = encoded /\ TalkOf(encoder, mft)
  BY <1>1 DEF PipeInv, FlowInv
<1>3. CASE EncodeFails /\ UNCHANGED <<mft, waited>>
  BY <1>1, <1>3, LeaveKeeps DEF EncodeFails
<1>4. CASE /\ encoder.credits > 0 /\ Submit(encoder, mft) /\ UNCHANGED <<runtime, pipeResult, waited>>
  <2>1. encoder.credits >= 1
    BY <1>4, PipeParts
  <2>. QED  BY <1>1, <1>2, <1>4, <2>1, PipeParts, SubmitKeeps DEF FlowNow, HeldNow
<1>5. CASE /\ ~EventFails /\ mft.events # <<>> /\ Head(mft.events) = "need"
           /\ Submit(PumpOne, Pumped) /\ UNCHANGED <<runtime, pipeResult, waited>>
  <2>1. /\ PumpOne \in EncoderType /\ Pumped \in TransformType /\ TalkOf(PumpOne, Pumped)
        /\ PumpOne.alive = encoder.alive /\ PumpOne.async = encoder.async
        /\ Pumped.force = mft.force
        /\ Pumped.rate = mft.rate /\ Pumped.draining = mft.draining
        /\ PumpOne.credits >= 1
        /\ FlowOf(delivered, PumpOne.pending, Pumped.ready, Pumped.inside, forcing, requests)
        /\ Held(delivered, PumpOne.pending, Pumped.ready, Pumped.inside) = HeldNow
    BY <1>2, <1>5, PipeParts, PumpKeeps
  <2>. DEFINE e == PumpOne  m == Pumped
  <2>2. /\ e \in EncoderType /\ m \in TransformType /\ Submit(e, m) /\ TalkOf(e, m)
        /\ e.credits >= 1 /\ e.async /\ e.alive = encoder.alive
        /\ m.force = mft.force /\ m.rate = mft.rate /\ m.draining = mft.draining
        /\ FlowOf(delivered, e.pending, m.ready, m.inside, forcing, requests)
        /\ Held(delivered, e.pending, m.ready, m.inside) = encoded
    BY <1>1, <1>2, <1>5, <2>1
  <2>. HIDE DEF e, m
  <2>. QED  BY <1>1, <1>5, <2>2, SubmitKeeps
<1>6. CASE /\ ~EventFails /\ waited # WaitPolls /\ waited' = waited + 1
           /\ IF mft.events = <<>> THEN UNCHANGED <<encoder, mft>>
              ELSE encoder' = PumpOne /\ mft' = Pumped
           /\ UNCHANGED <<phase, runtime, pipeResult>>
  <2>1. waited' \in Nat /\ waited' <= WaitPolls
    BY <1>6, PollBound
  <2>2. CASE mft.events = <<>>
    BY <1>1, <1>6, <2>1, <2>2, WaitKeeps
  <2>3. CASE mft.events # <<>>
    BY <1>1, <1>6, <2>1, <2>3, TakeKeeps
  <2>. QED  BY <2>2, <2>3
<1>. QED  BY <1>3, <1>4, <1>5, <1>6 DEF SubmitAsync

\* After a submission the events that are there are taken.
LEMMA PumpEventsKeeps == ASSUME PipeInv, PumpEvents PROVE PipeInv'
<1>. USE DEF outside
<1>1. /\ phase = "pump"
      /\ UNCHANGED <<outside, seen, forcing, requests, rate, waited, failing, delivered>>
  BY DEF PumpEvents
<1>2. CASE /\ mft.events = <<>> /\ phase' = "emit" /\ encoded' = encoded + 1
           /\ UNCHANGED <<runtime, encoder, mft, pipeResult>>
  <2>1. HeldNow = encoded + 1 /\ FlowNow /\ FlowNow' = FlowNow /\ HeldNow' = HeldNow
    BY <1>1, <1>2 DEF PipeInv, FlowInv, FlowNow, HeldNow
  <2>2. FlowInv' /\ TalkOf(encoder, mft)'
    BY <1>1, <1>2, <2>1 DEF PipeInv, FlowInv, TalkOf
  <2>3. encoded' \in Nat /\ encoded' <= EncodedFrames
    BY <1>1, <1>2, PipeParts, PipelineAssumption DEF PipeInv, Where
  <2>4. PipeTypes'
    BY <1>1, <1>2, <2>3 DEF PipeInv, PipeTypes, Phases
  <2>5. Where'
    BY <1>1, <1>2 DEF PipeInv, Where
  <2>6. Owed'
    <3>1. /\ Len(delivered) <= encoded' /\ encoded' \notin requests
          /\ \A r \in requests : Len(delivered) <= r /\ r <= encoded'
      BY <1>2, PipeParts DEF PipeInv, Owed
    <3>. QED  BY <1>1, <1>2, <3>1 DEF PipeInv, Owed
  <2>. QED  BY <2>2, <2>4, <2>5, <2>6 DEF PipeInv
<1>3. CASE EncodeFails /\ UNCHANGED <<mft, encoded>>
  BY <1>1, <1>3, LeaveKeeps DEF EncodeFails, tracked
<1>4. CASE /\ mft.events # <<>> /\ ~EventFails /\ encoder' = PumpOne /\ mft' = Pumped
           /\ UNCHANGED <<phase, runtime, encoded, pipeResult>>
  <2>1. waited' \in Nat /\ waited' <= WaitPolls
    BY <1>1 DEF PipeInv, PipeTypes
  <2>. QED  BY <1>1, <1>4, <2>1, TakeKeeps DEF tracked
<1>. QED  BY <1>2, <1>3, <1>4 DEF PumpEvents

\* A request that is kept is for a frame behind the samples that were delivered.
LEMMA AnswersKeep ==
  ASSUME PipeInv, phase # "ended", NEW r \in Answered(encoder.pending)
  PROVE  r \in requests /\ r \in Nat /\ Len(delivered) + Len(encoder.pending) <= r
<1>. DEFINE p == encoder.pending
<1>1. /\ r \in requests /\ \A s \in ToSet(p) : s.key => r > s.frame
  BY DEF Answered
<1>2. r \in Nat /\ Len(delivered) <= r /\ Len(delivered) \in Nat /\ p \in Seq(Sample) /\ Len(p) \in Nat
  BY <1>1, PipeParts DEF PipeInv, Owed
<1>3. Stretch(p, Len(delivered), forcing, requests)
  BY DEF PipeInv, FlowInv, FlowNow, FlowOf
<1>. HIDE DEF p
<1>4. ASSUME r < Len(delivered) + Len(p) PROVE FALSE
  <2>. DEFINE i == r - Len(delivered) + 1
  <2>1. i \in 1..Len(p) /\ Len(delivered) + i - 1 = r
    BY <1>2, <1>4
  <2>. HIDE DEF i
  <2>2. p[i].frame = Len(delivered) + i - 1 /\ Fits(p[i], forcing, requests)
    BY <1>3, <2>1 DEF Stretch
  <2>3. p[i].frame = r /\ p[i].key
    BY <1>1, <2>1, <2>2 DEF Fits
  <2>4. p[i] \in ToSet(p)
    BY <2>1, <1>2 DEF ToSet
  <2>5. r > r
    BY <1>1, <2>3, <2>4
  <2>. QED  BY <2>5, <1>2
<1>. QED  BY <1>1, <1>2, <1>4 DEF p

\* Delivering the pending samples answers the requests for them, and no other.
LEMMA EmissionKeeps ==
  ASSUME PipeInv, phase # "ended", EmitSamples
  PROVE  /\ delivered' \in Seq(Sample) /\ Len(delivered') = Len(delivered) + Len(encoder.pending)
         /\ requests' \subseteq requests
         /\ \A r \in requests' : Len(delivered') <= r
         /\ FlowOf(delivered', <<>>, mft.ready, mft.inside, forcing, requests')
         /\ Held(delivered', <<>>, mft.ready, mft.inside) = HeldNow
<1>1. delivered' = delivered \o encoder.pending /\ requests' = Answered(encoder.pending)
  BY DEF EmitSamples
<1>2. FlowOf(delivered, encoder.pending, mft.ready, mft.inside, forcing, requests)
  BY DEF PipeInv, FlowInv, FlowNow
<1>3. /\ delivered' \in Seq(Sample) /\ Len(delivered') = Len(delivered) + Len(encoder.pending)
      /\ Held(delivered', <<>>, mft.ready, mft.inside) = HeldNow
      /\ FlowOf(delivered', <<>>, mft.ready, mft.inside, forcing, requests)
  BY <1>1, <1>2, PipeParts, FlowEmit DEF HeldNow
<1>4. requests' \subseteq requests
  BY <1>1 DEF Answered
<1>5. \A r \in requests' : Len(delivered') <= r
  BY <1>1, <1>3, AnswersKeep
<1>6. FlowOf(delivered', <<>>, mft.ready, mft.inside, forcing, requests')
  <2>1. <<>> \in Seq(Sample)
    OBVIOUS
  <2>. QED  BY <1>3, <1>4, <2>1, PipeParts, FlowWeaken
<1>. QED  BY <1>3, <1>4, <1>5, <1>6

\* What is delivered and pending is part of what is held.
LEMMA PendingIsHeld ==
  ASSUME NEW d \in Seq(Sample), NEW p \in Seq(Sample), NEW r \in Seq(Sample), NEW i \in Seq(Sample)
  PROVE  Len(d) + Len(p) <= Held(d, p, r, i)
<1>1. /\ Len(d) \in Nat /\ Len(p) \in Nat /\ Len(r) \in Nat /\ Len(i) \in Nat
  OBVIOUS
<1>. QED  BY <1>1 DEF Held

\* The pending samples are delivered.
LEMMA EmitKeeps == ASSUME PipeInv, Emit PROVE PipeInv'
<1>. USE DEF outside
<1>1. /\ phase = "emit"
      /\ UNCHANGED <<outside, seen, mft, encoded, forcing, rate, waited, failing>>
  BY DEF Emit
<1>2. CASE /\ EmitSamples /\ encoder' = [encoder EXCEPT !.pending = <<>>]
           /\ phase' = "report" /\ UNCHANGED <<runtime, pipeResult>>
  <2>1. /\ delivered' \in Seq(Sample) /\ Len(delivered') = Len(delivered) + Len(encoder.pending)
        /\ requests' \subseteq requests
        /\ \A r \in requests' : Len(delivered') <= r
        /\ FlowOf(delivered', <<>>, mft.ready, mft.inside, forcing, requests')
        /\ Held(delivered', <<>>, mft.ready, mft.inside) = HeldNow
    BY <1>1, <1>2, EmissionKeeps
  <2>2. /\ encoder' \in EncoderType /\ encoder'.async = encoder.async
        /\ encoder'.credits = encoder.credits /\ encoder'.drained = encoder.drained
        /\ encoder'.pending = <<>> /\ encoder'.alive = encoder.alive
    <3>1. <<>> \in Seq(Sample)
      OBVIOUS
    <3>. QED  BY <1>2, <3>1, PipeParts DEF EncoderType
  <2>3. HeldNow = encoded
    BY <1>1 DEF PipeInv, FlowInv
  <2>4. FlowNow' /\ HeldNow' = encoded'
    BY <1>1, <2>1, <2>2, <2>3 DEF FlowNow, HeldNow
  <2>5. FlowInv'
    BY <1>2, <2>4 DEF FlowInv, FlowNow, FlowOf
  <2>6. TalkOf(encoder, mft)'
    BY <1>1, <2>2 DEF PipeInv, TalkOf
  <2>7. PipeTypes'
    BY <1>1, <1>2, <2>1, <2>2, PipeParts DEF PipeInv, PipeTypes, Phases
  <2>8. Where'
    BY <1>1, <1>2, <2>2 DEF PipeInv, Where
  <2>9. Owed'
    <3>1. Len(delivered') <= encoded'
      <4>1. Len(delivered) + Len(encoder.pending) <= HeldNow
        BY PipeParts, PendingIsHeld DEF HeldNow
      <4>. QED  BY <4>1, <2>1, <2>3, <1>1
    <3>. QED  BY <1>1, <1>2, <2>1, <3>1 DEF PipeInv, Owed
  <2>. QED  BY <2>5, <2>6, <2>7, <2>8, <2>9 DEF PipeInv
<1>3. CASE Leave("error") /\ UNCHANGED <<delivered, requests>>
  BY <1>1, <1>3, LeaveKeeps DEF tracked
<1>. QED  BY <1>2, <1>3 DEF Emit

\* What the end of the pipeline has in its hands is no longer part of the flow.
LEMMA EndKeeps ==
  ASSUME PipeInv, phase \notin {"ended", "idle", "prepared"}, phase' = "ended",
         runtime.thread # "running",
         encoder' \in EncoderType, ~encoder'.alive, encoder'.async = encoder.async,
         encoder'.credits = encoder.credits, encoder'.drained = encoder.drained,
         pipeResult' = "error",
         UNCHANGED <<runtime, outside, seen, mft, tracked, waited, failing, delivered>>
  PROVE  PipeInv'
<1>. USE DEF outside, tracked
<1>1. FlowInv'
  BY DEF PipeInv, FlowInv
<1>2. TalkOf(encoder, mft)'
  BY DEF PipeInv, TalkOf
<1>3. PipeTypes'
  BY DEF PipeInv, PipeTypes, Phases
<1>4. Where' /\ Owed'
  BY DEF PipeInv, Where, Owed
<1>. QED  BY <1>1, <1>2, <1>3, <1>4 DEF PipeInv

\* After the loop the transform is drained, at once or by events.
LEMMA FinishKeeps == ASSUME PipeInv, Finish PROVE PipeInv'
<1>. USE DEF outside, tracked
<1>1. /\ phase = "finish" /\ waited' = 0
      /\ UNCHANGED <<runtime, outside, seen, tracked, failing, delivered, pipeResult>>
  BY DEF Finish
<1>2. FlowNow /\ HeldNow = encoded
  BY <1>1 DEF PipeInv, FlowInv
<1>3. CASE encoder.async
  <2>1. /\ phase' = "drain" /\ encoder' = [encoder EXCEPT !.drained = FALSE]
        /\ mft' = [mft EXCEPT !.draining = TRUE]
    BY <1>3 DEF Finish
  <2>2. /\ encoder' \in EncoderType /\ encoder'.async = encoder.async
        /\ encoder'.credits = encoder.credits /\ encoder'.drained = FALSE
        /\ encoder'.pending = encoder.pending /\ encoder'.alive = encoder.alive
    BY <2>1, PipeParts DEF EncoderType
  <2>3. /\ mft' \in TransformType /\ mft'.asked = mft.asked /\ mft'.events = mft.events
        /\ mft'.inside = mft.inside /\ mft'.ready = mft.ready /\ mft'.force = mft.force
        /\ mft'.rate = mft.rate /\ mft'.draining = TRUE
    BY <2>1, PipeParts DEF TransformType
  <2>4. FlowNow' /\ HeldNow' = encoded'
    BY <1>1, <1>2, <2>2, <2>3 DEF FlowNow, HeldNow
  <2>5. FlowInv'
    BY <2>1, <2>4 DEF FlowInv, FlowNow, FlowOf
  <2>6. TalkOf(encoder, mft)'
    BY <2>2, <2>3 DEF PipeInv, TalkOf
  <2>7. PipeTypes'
    BY <1>1, <2>1, <2>2, <2>3, PipelineAssumption DEF PipeInv, PipeTypes, Phases
  <2>8. Where' /\ Owed'
    BY <1>1, <1>3, <2>1, <2>2, <2>3 DEF PipeInv, Where, Owed
  <2>. QED  BY <2>5, <2>6, <2>7, <2>8 DEF PipeInv
<1>4. CASE ~encoder.async
  <2>. DEFINE out == encoder.pending \o mft.inside
  <2>1. /\ phase' = "tail" /\ encoder' = [encoder EXCEPT !.pending = out]
        /\ mft' = [mft EXCEPT !.inside = <<>>]
    BY <1>4, PipeParts DEF Finish, EncoderType, TransformType
  <2>2. mft.ready = <<>> /\ mft.events = <<>>
    BY <1>4 DEF PipeInv, TalkOf
  <2>3. /\ out \in Seq(Sample)
        /\ FlowOf(delivered, out, <<>>, <<>>, forcing, requests)
        /\ Held(delivered, out, <<>>, <<>>) = encoded
    <3>. DEFINE i == mft.inside  p == encoder.pending  n == Len(i)
    <3>1. /\ delivered \in Seq(Sample) /\ p \in Seq(Sample) /\ i \in Seq(Sample) /\ n \in 0..Len(i)
          /\ FlowOf(delivered, p, <<>>, i, forcing, requests)
          /\ Held(delivered, p, <<>>, i) = encoded
      BY <1>2, <2>2, PipeParts DEF FlowNow, HeldNow
    <3>. HIDE DEF i, p
    <3>2. /\ p \o SubSeq(i, 1, n) \in Seq(Sample) /\ SubSeq(i, n + 1, Len(i)) \in Seq(Sample)
          /\ Held(delivered, p \o SubSeq(i, 1, n), <<>>, SubSeq(i, n + 1, Len(i))) = encoded
          /\ FlowOf(delivered, p \o SubSeq(i, 1, n), <<>>, SubSeq(i, n + 1, Len(i)), forcing, requests)
          /\ Len(SubSeq(i, n + 1, Len(i))) = Len(i) - n
      BY <3>1, FlowDrain
    <3>3. SubSeq(i, 1, n) = i
      BY <3>1, SubSeqFull
    <3>4. SubSeq(i, n + 1, Len(i)) = <<>>
      BY <3>1, <3>2
    <3>. QED  BY <3>2, <3>3, <3>4 DEF i, p
  <2>. HIDE DEF out
  <2>4. /\ encoder' \in EncoderType /\ encoder'.async = encoder.async
        /\ encoder'.credits = encoder.credits /\ encoder'.drained = encoder.drained
        /\ encoder'.pending = out /\ encoder'.alive = encoder.alive
    BY <2>1, <2>3, PipeParts DEF EncoderType
  <2>5. /\ mft' \in TransformType /\ mft'.asked = mft.asked /\ mft'.events = mft.events
        /\ mft'.inside = <<>> /\ mft'.ready = mft.ready /\ mft'.force = mft.force
        /\ mft'.rate = mft.rate /\ mft'.draining = mft.draining
    <3>1. <<>> \in Seq(Sample)
      OBVIOUS
    <3>. QED  BY <2>1, <3>1, PipeParts DEF TransformType
  <2>6. FlowNow' /\ HeldNow' = encoded'
    BY <1>1, <2>2, <2>3, <2>4, <2>5 DEF FlowNow, HeldNow
  <2>7. FlowInv'
    BY <2>1, <2>6 DEF FlowInv, FlowNow, FlowOf
  <2>8. TalkOf(encoder, mft)'
    <3>1. Len(mft'.inside) <= TransformDepth /\ Len(<<>>) = 0
      BY <2>5, PipelineAssumption
    <3>. QED  BY <1>4, <2>2, <2>4, <2>5, <3>1 DEF PipeInv, TalkOf
  <2>9. PipeTypes'
    BY <1>1, <2>1, <2>4, <2>5, PipelineAssumption DEF PipeInv, PipeTypes, Phases
  <2>10. Where' /\ Owed'
    BY <1>1, <1>4, <2>1, <2>2, <2>4, <2>5 DEF PipeInv, Where, Owed
  <2>. QED  BY <2>7, <2>8, <2>9, <2>10 DEF PipeInv
<1>. QED  BY <1>3, <1>4

\* The events of the drain are taken until the transform says it is drained.
LEMMA DrainKeeps == ASSUME PipeInv, Drain PROVE PipeInv'
<1>1. /\ phase = "drain" /\ UNCHANGED <<runtime, outside, seen, tracked, failing, delivered>>
  BY DEF Drain
<1>2. CASE /\ pipeStop = "cancel" \/ encoder.drained
           /\ phase' = "tail" /\ UNCHANGED <<encoder, mft, waited, pipeResult>>
  <2>. USE DEF outside, tracked
  <2>1. Quiet
    BY <1>1, <1>2 DEF Quiet, PipeInv, PipeTypes
  <2>2. PipeTypes'
    BY <1>1, <1>2 DEF PipeInv, PipeTypes, Phases
  <2>3. pipeStop # "cancel" => mft.ready = <<>> /\ mft.inside = <<>>
    BY <1>2 DEF PipeInv, TalkOf
  <2>4. Where' /\ Owed'
    BY <1>1, <1>2, <2>3 DEF PipeInv, Where, Owed
  <2>. QED  BY <2>1, <2>2, <2>4, QuietKeeps DEF PipeInv
<1>3. CASE FinishFails /\ UNCHANGED <<mft, waited>>
  <2>1. /\ encoder' \in EncoderType /\ ~encoder'.alive /\ encoder'.async = encoder.async
        /\ encoder'.credits = encoder.credits /\ encoder'.drained = encoder.drained
    BY <1>3, PipeParts DEF FinishFails, EncoderType
  <2>2. runtime.thread # "running"
    BY <1>1 DEF PipeInv, Where
  <2>. QED  BY <1>1, <1>3, <2>1, <2>2, EndKeeps DEF FinishFails
<1>4. CASE /\ ~EventFails /\ waited' = (IF waited = WaitPolls THEN waited ELSE waited + 1)
           /\ IF mft.events = <<>> THEN UNCHANGED <<encoder, mft>>
              ELSE encoder' = PumpOne /\ mft' = Pumped
           /\ UNCHANGED <<phase, pipeResult>>
  <2>1. waited' \in Nat /\ waited' <= WaitPolls
    BY <1>4, PollBound DEF PipeInv, PipeTypes
  <2>2. CASE mft.events = <<>>
    BY <1>1, <1>4, <2>1, <2>2, WaitKeeps
  <2>3. CASE mft.events # <<>>
    BY <1>1, <1>4, <2>1, <2>3, TakeKeeps
  <2>. QED  BY <2>2, <2>3
<1>. QED  BY <1>2, <1>3, <1>4 DEF Drain

\* The tail is delivered, and the run ends.
LEMMA EmitTailKeeps == ASSUME PipeInv, EmitTail PROVE PipeInv'
<1>. USE DEF outside
<1>1. /\ phase = "tail" /\ phase' = "ended"
      /\ encoder' = [encoder EXCEPT !.alive = FALSE, !.pending = <<>>]
      /\ UNCHANGED <<runtime, outside, seen, mft, encoded, forcing, rate, waited, failing>>
  BY DEF EmitTail
<1>2. /\ encoder' \in EncoderType /\ ~encoder'.alive /\ encoder'.async = encoder.async
      /\ encoder'.credits = encoder.credits /\ encoder'.drained = encoder.drained
  <2>1. <<>> \in Seq(Sample)
    OBVIOUS
  <2>. QED  BY <1>1, <2>1, PipeParts DEF EncoderType
<1>3. runtime.thread # "running"
  BY <1>1 DEF PipeInv, Where
<1>4. CASE EmitSamples /\ pipeResult' = "done"
  <2>1. /\ delivered' \in Seq(Sample) /\ Len(delivered') = Len(delivered) + Len(encoder.pending)
        /\ requests' \subseteq requests
        /\ \A r \in requests' : Len(delivered') <= r
        /\ FlowOf(delivered', <<>>, mft.ready, mft.inside, forcing, requests')
        /\ Held(delivered', <<>>, mft.ready, mft.inside) = HeldNow
    BY <1>1, <1>4, EmissionKeeps
  <2>2. HeldNow = encoded
    BY <1>1 DEF PipeInv, FlowInv
  <2>3. FlowInv'
    BY <1>1, <2>1 DEF FlowInv, FlowOf
  <2>4. TalkOf(encoder, mft)'
    BY <1>1, <1>2 DEF PipeInv, TalkOf
  <2>5. PipeTypes'
    BY <1>1, <1>2, <1>4, <2>1, PipeParts DEF PipeInv, PipeTypes, Phases
  <2>6. Where'
    BY <1>1, <1>2, <1>3 DEF PipeInv, Where
  <2>7. Len(delivered') <= encoded'
    <3>1. Len(delivered) + Len(encoder.pending) <= HeldNow
      BY PipeParts, PendingIsHeld DEF HeldNow
    <3>. QED  BY <3>1, <2>1, <2>2, <1>1
  <2>8. pipeStop # "cancel" => Len(delivered') = encoded'
    <3>1. SUFFICES ASSUME pipeStop # "cancel" PROVE Len(delivered') = encoded'
      OBVIOUS
    <3>2. Len(mft.ready) = 0 /\ Len(mft.inside) = 0
      BY <1>1, <3>1 DEF PipeInv, Where
    <3>. QED  BY <1>1, <2>1, <2>2, <3>2, PipeParts DEF HeldNow, Held
  <2>9. Owed'
    BY <1>1, <1>4, <2>1, <2>7, <2>8 DEF PipeInv, Owed
  <2>. QED  BY <2>3, <2>4, <2>5, <2>6, <2>9 DEF PipeInv
<1>5. CASE pipeResult' = "error" /\ UNCHANGED <<delivered, requests>>
  BY <1>1, <1>2, <1>3, <1>5, EndKeeps DEF tracked
<1>. QED  BY <1>4, <1>5 DEF EmitTail

\* The transform asks for input, while it has room.
LEMMA AsksInputKeeps == ASSUME PipeInv, AsksInput PROVE PipeInv'
<1>. USE DEF inner, tracked, outside
<1>1. /\ encoder.alive /\ encoder.async /\ ~mft.draining
      /\ mft.asked + Len(mft.inside) < TransformDepth
      /\ UNCHANGED <<inner, outside, runtime, encoder>>
  BY DEF AsksInput
<1>. DEFINE evs == Append(mft.events, "need")  k == mft.asked + 1
<1>2. evs \in Seq(Events) /\ k \in Nat /\ k = mft.asked + 1
  BY PipeParts DEF Events
<1>3. Occurs(evs, "have", Len(mft.ready)) /\ Occurs(evs, "need", mft.asked - encoder.credits + 1)
  <2>1. /\ Occurs(mft.events, "have", Len(mft.ready))
        /\ Occurs(mft.events, "need", mft.asked - encoder.credits)
    BY DEF PipeInv, TalkOf
  <2>2. "need" \in Events
    BY DEF Events
  <2>. QED  BY <2>1, <2>2, PipeParts, OccursAppend
<1>4. ASSUME NEW i \in 1..Len(evs) PROVE evs[i] # "drained"
  <2>1. \A j \in 1..Len(mft.events) : mft.events[j] # "drained"
    BY <1>1 DEF PipeInv, TalkOf
  <2>2. (i \in 1..Len(mft.events) /\ evs[i] = mft.events[i]) \/ evs[i] = "need"
    BY PipeParts
  <2>. QED  BY <2>1, <2>2
<1>. HIDE DEF evs, k
<1>5. mft' = [mft EXCEPT !.asked = k, !.events = evs]
  BY PipeParts DEF AsksInput, evs, k, TransformType
<1>6. /\ mft' \in TransformType /\ mft'.asked = k /\ mft'.events = evs
      /\ mft'.inside = mft.inside /\ mft'.ready = mft.ready /\ mft'.force = mft.force
      /\ mft'.rate = mft.rate /\ mft'.draining = mft.draining
  BY <1>2, <1>5, PipeParts DEF TransformType
<1>7. FlowNow' = FlowNow /\ HeldNow' = HeldNow
  BY <1>1, <1>6 DEF FlowNow, HeldNow
<1>8. FlowInv'
  BY <1>1, <1>7 DEF PipeInv, FlowInv
<1>9. TalkOf(encoder, mft)'
  <2>1. /\ encoder.credits <= k /\ k - encoder.credits = mft.asked - encoder.credits + 1
        /\ k + Len(mft.inside) <= TransformDepth
    <3>1. encoder.credits <= mft.asked
      BY DEF PipeInv, TalkOf
    <3>2. mft.asked + Len(mft.inside) < TransformDepth
      BY <1>1
    <3>3. encoder.credits \in Nat /\ mft.asked \in Nat /\ Len(mft.inside) \in Nat
      BY PipeParts
    <3>. QED  BY <1>2, <3>1, <3>2, <3>3, PipelineAssumption
  <2>2. ~encoder.drained
    BY <1>1 DEF PipeInv, TalkOf
  <2>. QED  BY <1>1, <1>3, <1>4, <1>6, <2>1, <2>2 DEF PipeInv, TalkOf
<1>10. PipeTypes'
  BY <1>1, <1>6 DEF PipeInv, PipeTypes
<1>11. Where' /\ Owed'
  BY <1>1, <1>6 DEF PipeInv, Where, Owed
<1>. QED  BY <1>8, <1>9, <1>10, <1>11 DEF PipeInv

\* The transform has finished its first frame.
LEMMA HasOutputKeeps == ASSUME PipeInv, HasOutput PROVE PipeInv'
<1>. USE DEF inner, tracked, outside
<1>1. /\ encoder.alive /\ encoder.async /\ mft.inside # <<>>
      /\ UNCHANGED <<inner, outside, runtime, encoder>>
  BY DEF HasOutput
<1>. DEFINE evs == Append(mft.events, "have")  rdy == Append(mft.ready, Head(mft.inside))
            rest == Tail(mft.inside)
<1>2. evs \in Seq(Events)
  BY PipeParts DEF Events
<1>3. phase # "ended" /\ FlowNow
  BY <1>1 DEF PipeInv, Where, FlowInv
<1>4. /\ rdy \in Seq(Sample) /\ rest \in Seq(Sample)
      /\ Len(rest) = Len(mft.inside) - 1 /\ Len(rdy) = Len(mft.ready) + 1
      /\ Held(delivered, encoder.pending, rdy, rest) = HeldNow
      /\ FlowOf(delivered, encoder.pending, rdy, rest, forcing, requests)
  BY <1>1, <1>3, PipeParts, FlowOutput DEF FlowNow, HeldNow
<1>5. Occurs(evs, "have", Len(mft.ready) + 1) /\ Occurs(evs, "need", mft.asked - encoder.credits)
  <2>1. /\ Occurs(mft.events, "have", Len(mft.ready))
        /\ Occurs(mft.events, "need", mft.asked - encoder.credits)
    BY DEF PipeInv, TalkOf
  <2>2. "have" \in Events
    BY DEF Events
  <2>. QED  BY <2>1, <2>2, PipeParts, OccursAppend
<1>6. ASSUME NEW i \in 1..Len(evs) PROVE evs[i] # "drained"
  <2>1. \A j \in 1..Len(mft.events) : mft.events[j] # "drained"
    BY <1>1 DEF PipeInv, TalkOf
  <2>2. (i \in 1..Len(mft.events) /\ evs[i] = mft.events[i]) \/ evs[i] = "have"
    BY PipeParts
  <2>. QED  BY <2>1, <2>2
<1>. HIDE DEF evs, rdy, rest
<1>7. mft' = [mft EXCEPT !.ready = rdy, !.inside = rest, !.events = evs]
  BY PipeParts DEF HasOutput, evs, rdy, rest, TransformType
<1>8. /\ mft' \in TransformType /\ mft'.asked = mft.asked /\ mft'.events = evs
      /\ mft'.inside = rest /\ mft'.ready = rdy /\ mft'.force = mft.force
      /\ mft'.rate = mft.rate /\ mft'.draining = mft.draining
  BY <1>2, <1>4, <1>7, PipeParts DEF TransformType
<1>9. FlowNow' /\ HeldNow' = HeldNow
  BY <1>1, <1>4, <1>8 DEF FlowNow, HeldNow
<1>10. FlowInv'
  BY <1>1, <1>9 DEF PipeInv, FlowInv
<1>11. TalkOf(encoder, mft)'
  <2>1. Len(rest) <= TransformDepth /\ mft.asked + Len(rest) <= TransformDepth
    <3>1. Len(mft.inside) <= TransformDepth /\ mft.asked + Len(mft.inside) <= TransformDepth
      BY <1>1 DEF PipeInv, TalkOf
    <3>. QED  BY <1>4, <3>1, PipeParts, PipelineAssumption
  <2>2. ~encoder.drained
    BY <1>1 DEF PipeInv, TalkOf
  <2>. QED  BY <1>1, <1>4, <1>5, <1>6, <1>8, <2>1, <2>2 DEF PipeInv, TalkOf
<1>12. PipeTypes'
  BY <1>1, <1>8 DEF PipeInv, PipeTypes
<1>13. Where' /\ Owed'
  <2>1. ~(phase = "tail" /\ pipeStop # "cancel") /\ phase # "idle"
    BY <1>1 DEF PipeInv, Where
  <2>. QED  BY <1>1, <1>8, <2>1 DEF PipeInv, Where, Owed
<1>. QED  BY <1>10, <1>11, <1>12, <1>13 DEF PipeInv

\* The transform is drained, or fails.
LEMMA EndsOrErrsKeeps == ASSUME PipeInv, EndsOrErrs PROVE PipeInv'
<1>. USE DEF inner, tracked, outside
<1>1. encoder.alive /\ encoder.async /\ UNCHANGED <<inner, outside, runtime, encoder>>
  BY DEF EndsOrErrs
<1>2. PICK e \in {"drained", "error"} :
        /\ e = "drained" => mft.draining /\ mft.inside = <<>> /\ ~encoder.drained
        /\ mft' = [mft EXCEPT !.events = Append(@, e)]
  BY DEF EndsOrErrs
<1>. DEFINE evs == Append(mft.events, e)
<1>3. evs \in Seq(Events) /\ e \in Events /\ Len(evs) = Len(mft.events) + 1 /\ Len(mft.events) \in Nat
  BY PipeParts DEF Events
<1>4. Occurs(evs, "have", Len(mft.ready)) /\ Occurs(evs, "need", mft.asked - encoder.credits)
  <2>1. /\ Occurs(mft.events, "have", Len(mft.ready))
        /\ Occurs(mft.events, "need", mft.asked - encoder.credits)
    BY DEF PipeInv, TalkOf
  <2>2. e # "have" /\ e # "need"
    BY <1>2
  <2>. QED  BY <1>3, <2>1, <2>2, PipeParts, OccursAppend
<1>5. ASSUME NEW i \in 1..Len(evs), evs[i] = "drained"
      PROVE  /\ mft.draining /\ mft.inside = <<>>
             /\ \A j \in 1..Len(evs) : i < j => evs[j] # "have"
  <2>1. CASE i \in 1..Len(mft.events)
    <3>1. mft.events[i] = "drained"
      BY <2>1, <1>5, PipeParts
    <3>2. /\ mft.draining /\ mft.inside = <<>>
          /\ \A j \in 1..Len(mft.events) : i < j => mft.events[j] # "have"
      BY <2>1, <3>1 DEF PipeInv, TalkOf
    <3>3. ASSUME NEW j \in 1..Len(evs), i < j PROVE evs[j] # "have"
      <4>1. (j \in 1..Len(mft.events) /\ evs[j] = mft.events[j]) \/ evs[j] = e
        BY PipeParts
      <4>. QED  BY <3>2, <3>3, <4>1, <1>2
    <3>. QED  BY <3>2, <3>3
  <2>2. CASE i \notin 1..Len(mft.events)
    <3>1. i = Len(evs) /\ evs[i] = e
      BY <2>2, <1>3, PipeParts
    <3>2. \A j \in 1..Len(evs) : ~(i < j)
      BY <3>1, <1>3
    <3>. QED  BY <3>1, <3>2, <1>2, <1>5
  <2>. QED  BY <2>1, <2>2
<1>. HIDE DEF evs
<1>6. mft' = [mft EXCEPT !.events = evs]
  BY <1>2, PipeParts DEF evs, TransformType
<1>7. /\ mft' \in TransformType /\ mft'.asked = mft.asked /\ mft'.events = evs
      /\ mft'.inside = mft.inside /\ mft'.ready = mft.ready /\ mft'.force = mft.force
      /\ mft'.rate = mft.rate /\ mft'.draining = mft.draining
  BY <1>3, <1>6, PipeParts DEF TransformType
<1>8. FlowNow' = FlowNow /\ HeldNow' = HeldNow
  BY <1>1, <1>7 DEF FlowNow, HeldNow
<1>9. FlowInv'
  BY <1>1, <1>8 DEF PipeInv, FlowInv
<1>10. TalkOf(encoder, mft)'
  BY <1>1, <1>4, <1>5, <1>7 DEF PipeInv, TalkOf
<1>11. PipeTypes'
  BY <1>1, <1>7 DEF PipeInv, PipeTypes
<1>12. Where' /\ Owed'
  <2>1. phase # "idle"
    BY <1>1 DEF PipeInv, Where
  <2>. QED  BY <1>1, <1>7, <2>1 DEF PipeInv, Where, Owed
<1>. QED  BY <1>9, <1>10, <1>11, <1>12 DEF PipeInv

\* Every step of the pipeline keeps the invariant.
LEMMA PipeSteps == PipeInv /\ [PipeNext]_pipeVars => PipeInv'
<1>. SUFFICES ASSUME PipeInv, [PipeNext]_pipeVars PROVE PipeInv'
  OBVIOUS
<1>1. CASE PrepareStart
  BY <1>1, PreparationKeeps
<1>2. CASE Discard
  BY <1>2, LeaveKeeps DEF Discard
<1>3. CASE Started
  <2>1. CASE Leave("error")
    BY <1>3, <2>1, LeaveKeeps DEF Started
  <2>2. CASE phase' = "tick" /\ UNCHANGED <<runtime, encoder, pipeResult>>
    BY <1>3, <2>2, IdlesKeeps DEF Started, Idles
  <2>. QED  BY <1>3, <2>1, <2>2 DEF Started
<1>4. CASE Tick
  BY <1>4, TickKeeps
<1>5. CASE TickFails
  BY <1>5, LeaveKeeps DEF TickFails
<1>6. CASE SubmitSync
  BY <1>6, SubmitSyncKeeps
<1>7. CASE SubmitAsync
  BY <1>7, SubmitAsyncKeeps
<1>8. CASE PumpEvents
  BY <1>8, PumpEventsKeeps
<1>9. CASE Emit
  BY <1>9, EmitKeeps
<1>10. CASE Continue \/ Restart \/ LoopEnds
  BY <1>10, IdlesKeeps DEF Continue, Restart, LoopEnds, Idles
<1>11. CASE ReportFails
  BY <1>11, ReportFailsKeeps
<1>12. CASE UpdateBitrate
  BY <1>12, UpdateBitrateKeeps
<1>13. CASE StopCapture
  BY <1>13, StopCaptureKeeps
<1>14. CASE Finish
  BY <1>14, FinishKeeps
<1>15. CASE Drain
  BY <1>15, DrainKeeps
<1>16. CASE EmitTail
  BY <1>16, EmitTailKeeps
<1>17. CASE AsksInput \/ HasOutput \/ EndsOrErrs
  BY <1>17, AsksInputKeeps, HasOutputKeeps, EndsOrErrsKeeps
<1>18. CASE NewPicture \/ CaptureErrs \/ StopArrives
  BY <1>18, NewPictureKeeps, CaptureErrsKeeps, StopArrivesKeeps
<1>19. CASE UNCHANGED pipeVars
  <2>1. waited' \in Nat /\ waited' <= WaitPolls
    BY <1>19 DEF pipeVars, PipeInv, PipeTypes
  <2>. QED  BY <1>19, <2>1, WaitKeeps DEF pipeVars, outside, tracked
<1>. QED  BY <1>1, <1>2, <1>3, <1>4, <1>5, <1>6, <1>7, <1>8, <1>9, <1>10, <1>11, <1>12, <1>13,
             <1>14, <1>15, <1>16, <1>17, <1>18, <1>19 DEF PipeNext, PipelineStep

\* Division with remainder.
LEMMA Divides ==
  ASSUME NEW n \in Nat, NEW K \in Nat \ {0}
  PROVE  n = K * (n \div K) + (n % K) /\ n % K \in 0..(K - 1) /\ n \div K \in Nat
OBVIOUS

\* The remainder is determined.
LEMMA RemainderIsOne ==
  ASSUME NEW q \in Int, NEW p \in Int, NEW K \in Nat \ {0},
         NEW r \in 0..(K - 1), NEW s \in 0..(K - 1), K * q + r = K * p + s
  PROVE  r = s
<1>1. CASE q < p
  <2>1. p - q - 1 \in Nat
    BY <1>1
  <2>2. K * (p - q - 1) >= 0
    BY <2>1
  <2>3. K * p - K * q = K * (p - q - 1) + K
    OBVIOUS
  <2>. QED  BY <2>2, <2>3
<1>2. CASE p < q
  <2>1. q - p - 1 \in Nat
    BY <1>2
  <2>2. K * (q - p - 1) >= 0
    BY <2>1
  <2>3. K * q - K * p = K * (q - p - 1) + K
    OBVIOUS
  <2>. QED  BY <2>2, <2>3
<1>. QED  BY <1>1, <1>2

\* Below every number is a multiple of the interval.
LEMMA LastMultiple ==
  ASSUME NEW n \in Nat, NEW K \in Nat \ {0}
  PROVE  n - (n % K) \in Nat /\ (n - (n % K)) % K = 0 /\ n % K \in 0..(K - 1)
<1>. DEFINE a == K * (n \div K)  b == n % K  m == n - b
<1>1. n = a + b /\ b \in 0..(K - 1) /\ a \in Nat /\ n \div K \in Nat
  <2>1. n = K * (n \div K) + (n % K) /\ n % K \in 0..(K - 1) /\ n \div K \in Nat
    BY Divides
  <2>2. a >= 0 /\ a \in Int
    BY <2>1
  <2>. QED  BY <2>1, <2>2
<1>2. m = a /\ m \in Nat
  <2>. HIDE DEF a, b
  <2>. QED  BY <1>1
<1>. HIDE DEF m
<1>3. m = K * (m \div K) + (m % K) /\ m % K \in 0..(K - 1) /\ m \div K \in Nat
  BY <1>2, Divides
<1>. DEFINE q == n \div K  p == m \div K  s == m % K
<1>4. q \in Int /\ p \in Int /\ s \in 0..(K - 1) /\ 0 \in 0..(K - 1) /\ K * q + 0 = K * p + s
  BY <1>1, <1>2, <1>3
<1>. HIDE DEF q, p, s
<1>5. 0 = s
  BY <1>4, RemainderIsOne
<1>. QED  BY <1>1, <1>2, <1>5 DEF s, m

\* What the invariant is for: the samples delivered are frames 0, 1, ... with their
\* keyframes, and at each multiple of the interval is one.
LEMMA PipeInvImplies == PipeInv => PipelineSafety /\ PipeTypeOK
<1>. SUFFICES ASSUME PipeInv PROVE PipelineSafety /\ PipeTypeOK
  OBVIOUS
<1>1. /\ Stretch(delivered, 0, forcing, requests)
      /\ Len(delivered) \in Nat /\ delivered \in Seq(Sample)
  BY PipeParts DEF PipeInv, FlowInv
<1>2. \A i \in 1..Len(delivered) :
         /\ delivered[i].frame = i - 1 /\ Fits(delivered[i], forcing, requests)
         /\ delivered[i] \in Sample
  BY <1>1 DEF Stretch
<1>3. NoFrameIsLost
  BY <1>2 DEF NoFrameIsLost, PipeInv, Owed
<1>4. CaptureIsReleased /\ RateIsKnown
  BY DEF CaptureIsReleased, RateIsKnown, PipeInv, Where
<1>5. IdrWithinInterval
  <2>1. SUFFICES ASSUME forcing, NEW i \in 1..Len(delivered)
                 PROVE  \E j \in 1..i : delivered[j].key /\ i - j < KeyInterval
    BY DEF IdrWithinInterval
  <2>2. i - 1 \in Nat /\ KeyInterval \in Nat \ {0}
    BY KeyIntervalAssumption
  <2>. DEFINE n == i - 1  b == n % KeyInterval  m == n - b
  <2>3. m \in Nat /\ m % KeyInterval = 0 /\ b \in 0..(KeyInterval - 1) /\ n \in Nat
    BY <2>2, LastMultiple
  <2>4. n = i - 1 /\ m = n - b
    OBVIOUS
  <2>. HIDE DEF n, b, m
  <2>5. m + 1 \in 1..i /\ i - (m + 1) < KeyInterval /\ m + 1 \in 1..Len(delivered)
    BY <2>2, <2>3, <2>4, <1>1
  <2>6. delivered[m + 1].frame = m
    BY <1>2, <2>3, <2>5
  <2>7. delivered[m + 1].key
    BY <1>2, <2>1, <2>3, <2>5, <2>6 DEF Fits
  <2>. QED  BY <2>5, <2>7
<1>6. RequestsAreAnswered
  BY DEF RequestsAreAnswered, PipeInv, Owed
<1>7. PipelineSafety
  BY <1>3, <1>4, <1>5, <1>6 DEF PipelineSafety
<1>8. Range(delivered) \subseteq Samples
  <2>1. ASSUME NEW i \in 1..Len(delivered) PROVE delivered[i] \in Samples
    <3>1. delivered[i].frame \in 0..EncodedFrames
      BY <1>1, <1>2, PipelineAssumption DEF PipeInv, Owed, PipeTypes
    <3>2. delivered[i] \in Sample
      BY <1>2
    <3>. QED  BY <3>1, <3>2 DEF Sample, Samples
  <2>2. DOMAIN delivered = 1..Len(delivered)
    BY <1>1
  <2>. QED  BY <2>1, <2>2 DEF Range
<1>9. PipeTypeOK
  <2>1. /\ phase \in {"idle", "prepared", "tick", "submit", "pump", "emit", "report", "closing",
                  "finish", "drain", "tail", "ended"}
        /\ runtime.thread \in Joins \cup {"none", "running"}
        /\ forcing \in BOOLEAN /\ rate \in Rates
        /\ pipeStop \in {"none", "duration", "cancel"}
        /\ pipeResult \in {"none", "done", "error", "discarded"}
    BY DEF PipeInv, PipeTypes, Phases
  <2>2. /\ screen \in 0..Pictures /\ seen \in 0..screen /\ encoded \in 0..EncodedFrames
        /\ waited \in 0..WaitPolls
    BY PipelineAssumption DEF PipeInv, PipeTypes
  <2>3. encoder.credits >= 0
    BY PipeParts
  <2>4. Len(mft.inside) <= TransformDepth /\ (encoder.async => mft.asked >= encoder.credits)
    BY PipeParts DEF PipeInv, TalkOf
  <2>. QED  BY <1>8, <2>1, <2>2, <2>3, <2>4 DEF PipeTypeOK
<1>. QED  BY <1>7, <1>9

\* Whatever the transform does and refuses, the pipeline loses no frame, leaves no
\* capture behind, knows its rate, and gives a keyframe in every interval and for every
\* request.
THEOREM PipelineIsSafe == PipeSpec => []PipelineSafety
<1>. QED  BY PipeInitially, PipeSteps, PipeInvImplies, PTL DEF PipeSpec

\* The types and bounds of the pipeline: it waits no longer than its polls, and the
\* transform is given no frame it has not asked for.
THEOREM PipelineTypes == PipeSpec => []PipeTypeOK
<1>. QED  BY PipeInitially, PipeSteps, PipeInvImplies, PTL DEF PipeSpec

-----------------------------------------------------------------------------
(* The paced sending of video: maps, queues and the cache.                   *)

\* A set of path numbers that is not empty has a least member.
LEMMA MinIsMember ==
    ASSUME NEW n \in Nat, NEW S \in SUBSET (1 .. n), S # {}
    PROVE  Min(S) \in S /\ \A j \in S : Min(S) <= j
<1> DEFINE T == {1 .. i : i \in S}
           R == StrictSubsetOrdering(1 .. n)
<1>1. IsWellFoundedOn(R, SUBSET (1 .. n))
    <2>1. IsFiniteSet(1 .. n)
        BY FS_Interval
    <2>2. FiniteSubsetsOf(1 .. n) = SUBSET (1 .. n)
        BY <2>1, FS_FiniteSubsetsOfFinite
    <2>3. IsWellFoundedOn(R, FiniteSubsetsOf(1 .. n))
        BY FS_StrictSubsetOrderingWellFounded
    <2> QED BY <2>2, <2>3
<1>2. T \subseteq SUBSET (1 .. n) /\ T # {}
    <2>1. \A i \in S : 1 .. i \in SUBSET (1 .. n)
        OBVIOUS
    <2> QED BY <2>1
<1>3. PICK x \in T : \A y \in T : <<y, x>> \notin R
    <2> HIDE DEF T, R
    <2> QED BY <1>1, <1>2, WFMin
<1>4. PICK i \in S : x = 1 .. i
    OBVIOUS
<1>5. ASSUME NEW j \in S
      PROVE  i <= j
    <2>1. CASE j < i
        <3>1. 1 .. j \in T /\ (1 .. j) \subseteq (1 .. i) /\ i \in 1 .. i /\ i \notin 1 .. j
            BY <2>1
        <3>2. <<1 .. j, 1 .. i>> \in R
            BY <3>1, <1>4, <1>2 DEF StrictSubsetOrdering
        <3> QED BY <3>1, <3>2, <1>3, <1>4
    <2> QED BY <2>1
<1> QED BY <1>5 DEF Min

\* An entry of a queue that evicts by age; an age past the limit stops growing.
Entries(most) == [key : Keys, age : 0..(most + 1)]

\* What is evicted from the front of the queue is older than the limit.
LEMMA ExpiredAre ==
  ASSUME NEW most \in Nat, NEW order \in Seq(Entries(most))
  PROVE  /\ Expired(order, most) \in 0..Len(order)
         /\ \A m \in 1..Expired(order, most) : order[m].age > most
<1>. DEFINE young == {i \in 1..Len(order) : order[i].age <= most}
<1>1. Len(order) \in Nat /\ young \in SUBSET (1..Len(order))
  OBVIOUS
<1>2. SelectInSeq(order, LAMBDA e : e.age <= most) = IF young # {} THEN Min(young) ELSE 0
  BY DEF SelectInSeq
<1>. DEFINE n == SelectInSeq(order, LAMBDA e : e.age <= most)
<1>3. Expired(order, most) = IF n = 0 THEN Len(order) ELSE n - 1
  BY DEF Expired
<1>. HIDE DEF n
<1>4. CASE young = {}
  <2>1. n = 0
    BY <1>2, <1>4 DEF n
  <2>2. ASSUME NEW m \in 1..Len(order) PROVE order[m].age > most
    <3>1. order[m] \in Entries(most)
      OBVIOUS
    <3>2. order[m].age \in Nat
      BY <3>1 DEF Entries
    <3>3. ~(order[m].age <= most)
      BY <1>4
    <3>. QED  BY <3>2, <3>3
  <2>. QED  BY <1>1, <1>3, <2>1, <2>2
<1>5. CASE young # {}
  <2>1. n \in young /\ \A y \in young : n <= y
    <3>. HIDE DEF young
    <3>1. Min(young) \in young /\ \A y \in young : Min(young) <= y
      BY <1>1, <1>5, MinIsMember
    <3>. QED  BY <3>1, <1>2, <1>5 DEF n
  <2>2. n \in 1..Len(order)
    BY <2>1
  <2>3. Expired(order, most) = n - 1 /\ n - 1 \in 0..Len(order)
    BY <2>2, <1>1, <1>3
  <2>4. ASSUME NEW m \in 1..(n - 1) PROVE order[m].age > most
    <3>1. m \in 1..Len(order) /\ ~(n <= m)
      BY <2>2, <1>1
    <3>2. order[m] \in Entries(most)
      BY <3>1
    <3>3. order[m].age \in Nat
      BY <3>2 DEF Entries
    <3>4. m \notin young
      BY <3>1, <2>1
    <3>5. ~(order[m].age <= most)
      BY <3>1, <3>4
    <3>. QED  BY <3>3, <3>5
  <2>. QED  BY <2>3, <2>4
<1>. QED  BY <1>4, <1>5

\* Maps from some of the keys.
Maps(S) == UNION {[D -> S] : D \in SUBSET Keys}

\* A packet of the cache.
Packets == [session : 1..VideoSessions, age : 0..(CacheTtl + 1)]

\* The RepairCache.
CacheType == [held : Maps(Packets), order : Seq(Entries(CacheTtl)), bytes : Nat]

\* The RepairSuppression.
SuppType == [last : Maps(0..(Retention + 1)), order : Seq(Entries(Retention))]

\* Every key of the map has an entry of its age.
Listed(ages, order) ==
    \A k \in DOMAIN ages : \E n \in 1..Len(order) : order[n] = [key |-> k, age |-> ages[k]]

\* The ages of what the cache holds.
Ages(held) == [k \in DOMAIN held |-> held[k].age]

\* The cache counts what it holds and has an entry for each.
CacheOK(c) ==
    /\ c \in CacheType
    /\ c.bytes = Cardinality(DOMAIN c.held)
    /\ Listed(Ages(c.held), c.order)

\* The suppression has an entry for each key.
SuppOK(s) == s \in SuppType /\ Listed(s.last, s.order)

\* Membership in Maps, taken apart.
LEMMA MapsAre ==
  ASSUME NEW S, NEW map
  PROVE  map \in Maps(S) <=> (DOMAIN map \subseteq Keys /\ map \in [DOMAIN map -> S])
BY DEF Maps

\* There are finitely many keys.
LEMMA KeysAreFinite == IsFiniteSet(Keys)
<1>1. IsFiniteSet(0..(VideoFrames - 1)) /\ IsFiniteSet(0..(DataPackets - 1))
  BY FS_Interval, VideoAssumption
<1>. QED  BY <1>1, FS_Product DEF Keys

\* What is listed stays listed when the front of the queue is evicted with the keys
\* whose entry is there.
LEMMA ListedBehind ==
  ASSUME NEW most \in Nat, NEW order \in Seq(Entries(most)), NEW n \in 0..Len(order),
         NEW ages, NEW left, Listed(ages, order), DOMAIN left \subseteq DOMAIN ages,
         \A k \in DOMAIN left : left[k] = ages[k],
         \A k \in DOMAIN left : ~(\E m \in 1..n : order[m] = [key |-> k, age |-> ages[k]])
  PROVE  /\ SubSeq(order, n + 1, Len(order)) \in Seq(Entries(most))
         /\ Listed(left, SubSeq(order, n + 1, Len(order)))
<1>. DEFINE rest == SubSeq(order, n + 1, Len(order))
<1>1. /\ rest \in Seq(Entries(most)) /\ Len(rest) = Len(order) - n /\ Len(order) \in Nat
      /\ \A i \in 1..(Len(order) - n) : rest[i] = order[n + i]
  OBVIOUS
<1>. HIDE DEF rest
<1>2. ASSUME NEW k \in DOMAIN left
      PROVE  \E i \in 1..Len(rest) : rest[i] = [key |-> k, age |-> left[k]]
  <2>1. PICK m \in 1..Len(order) : order[m] = [key |-> k, age |-> ages[k]]
    BY DEF Listed
  <2>2. m \notin 1..n
    BY <2>1
  <2>3. m - n \in 1..Len(rest) /\ n + (m - n) = m
    BY <2>2, <1>1
  <2>4. rest[m - n] = order[m]
    BY <2>3, <1>1
  <2>5. rest[m - n] = [key |-> k, age |-> left[k]]
    BY <2>1, <2>4
  <2>. QED  BY <2>3, <2>5
<1>. QED  BY <1>1, <1>2 DEF Listed, rest

\* A new entry lists its key, and what was listed stays so.
LEMMA ListedAppend ==
  ASSUME NEW most \in Nat, NEW order \in Seq(Entries(most)), NEW k \in Keys,
         NEW ages, NEW more, Listed(ages, order),
         DOMAIN more \subseteq DOMAIN ages \cup {k}, more[k] = 0,
         \A x \in DOMAIN more : x # k => more[x] = ages[x]
  PROVE  /\ Append(order, [key |-> k, age |-> 0]) \in Seq(Entries(most))
         /\ Listed(more, Append(order, [key |-> k, age |-> 0]))
<1>. DEFINE e == [key |-> k, age |-> 0]  longer == Append(order, e)
<1>1. e \in Entries(most)
  BY DEF Entries
<1>. HIDE DEF e
<1>2. /\ longer \in Seq(Entries(most)) /\ Len(longer) = Len(order) + 1 /\ Len(order) \in Nat
      /\ longer[Len(order) + 1] = e /\ \A i \in 1..Len(order) : longer[i] = order[i]
  BY <1>1
<1>. HIDE DEF longer
<1>3. ASSUME NEW x \in DOMAIN more
      PROVE  \E i \in 1..Len(longer) : longer[i] = [key |-> x, age |-> more[x]]
  <2>1. CASE x = k
    <3>1. Len(order) + 1 \in 1..Len(longer) /\ longer[Len(order) + 1] = [key |-> x, age |-> more[x]]
      BY <2>1, <1>2 DEF e
    <3>. QED  BY <3>1
  <2>2. CASE x # k
    <3>1. PICK m \in 1..Len(order) : order[m] = [key |-> x, age |-> ages[x]]
      BY <2>2 DEF Listed
    <3>2. m \in 1..Len(longer) /\ longer[m] = [key |-> x, age |-> more[x]]
      BY <2>2, <3>1, <1>2
    <3>. QED  BY <3>2
  <2>. QED  BY <2>1, <2>2
<1>. QED  BY <1>2, <1>3 DEF Listed, longer, e

\* The queue and the map grow older together.
LEMMA ListedAged ==
  ASSUME NEW most \in Nat, NEW order \in Seq(Entries(most)), NEW ages, NEW older,
         Listed(ages, order), DOMAIN older = DOMAIN ages,
         \A k \in DOMAIN older : older[k] = Older(ages[k], most + 1)
  PROVE  Aged(order, most + 1) \in Seq(Entries(most)) /\ Listed(older, Aged(order, most + 1))
<1>. DEFINE aged == Aged(order, most + 1)
<1>1. /\ DOMAIN order = 1..Len(order) /\ Len(order) \in Nat
      /\ \A n \in 1..Len(order) : order[n] \in Entries(most)
  OBVIOUS
<1>2. ASSUME NEW n \in 1..Len(order)
      PROVE  /\ [order[n] EXCEPT !.age = Older(@, most + 1)]
                    = [key |-> order[n].key, age |-> Older(order[n].age, most + 1)]
             /\ [order[n] EXCEPT !.age = Older(@, most + 1)] \in Entries(most)
  <2>1. order[n].key \in Keys /\ order[n].age \in 0..(most + 1) /\ order[n] \in Entries(most)
    BY <1>1 DEF Entries
  <2>2. Older(order[n].age, most + 1) \in 0..(most + 1)
    BY <2>1 DEF Older
  <2>. QED  BY <2>1, <2>2 DEF Entries
<1>3. aged = [n \in 1..Len(order) |-> [order[n] EXCEPT !.age = Older(@, most + 1)]]
  BY <1>1 DEF Aged
<1>. HIDE DEF aged
<1>4. aged \in Seq(Entries(most)) /\ Len(aged) = Len(order)
  <2>1. aged \in [1..Len(order) -> Entries(most)]
    BY <1>2, <1>3
  <2>. QED  BY <2>1, <1>1, IsASeq, LenProperties
<1>5. ASSUME NEW k \in DOMAIN older
      PROVE  \E n \in 1..Len(aged) : aged[n] = [key |-> k, age |-> older[k]]
  <2>1. PICK n \in 1..Len(order) : order[n] = [key |-> k, age |-> ages[k]]
    BY DEF Listed
  <2>2. aged[n] = [key |-> order[n].key, age |-> Older(order[n].age, most + 1)]
    BY <1>2, <1>3
  <2>3. aged[n] = [key |-> k, age |-> older[k]]
    BY <2>1, <2>2
  <2>. QED  BY <2>3, <1>4
<1>. QED  BY <1>4, <1>5 DEF Listed, aged

\* Evicting old entries forgets no packet that has been cached again since.
LEMMA EvictCacheKeeps ==
  ASSUME NEW c, CacheOK(c)
  PROVE  /\ CacheOK(EvictCache(c))
         /\ DOMAIN EvictCache(c).held \subseteq DOMAIN c.held
         /\ \A k \in DOMAIN EvictCache(c).held : EvictCache(c).held[k] = c.held[k]
<1>. USE VideoAssumption
<1>. DEFINE n    == Expired(c.order, CacheTtl)
            gone == {k \in DOMAIN c.held :
                        \E m \in 1..n : c.order[m] = [key |-> k, age |-> c.held[k].age]}
            kept == Drop(c.held, gone)
            rest == SubSeq(c.order, n + 1, Len(c.order))
<1>1. /\ c.held \in Maps(Packets) /\ c.order \in Seq(Entries(CacheTtl)) /\ c.bytes \in Nat
      /\ c.bytes = Cardinality(DOMAIN c.held) /\ Listed(Ages(c.held), c.order)
  BY DEF CacheOK, CacheType
<1>2. n \in 0..Len(c.order)
  BY <1>1, ExpiredAre
<1>3. EvictCache(c) = [held |-> kept, order |-> rest, bytes |-> c.bytes - Cardinality(gone)]
  BY DEF EvictCache
<1>4. gone \subseteq DOMAIN c.held
  OBVIOUS
<1>5. ASSUME NEW k \in DOMAIN c.held, k \notin gone
      PROVE  ~(\E m \in 1..n : c.order[m] = [key |-> k, age |-> c.held[k].age])
  BY <1>5
<1>. HIDE DEF n, gone
<1>6. /\ DOMAIN kept = DOMAIN c.held \ gone /\ \A k \in DOMAIN kept : kept[k] = c.held[k]
  BY DEF Drop
<1>7. DOMAIN c.held \subseteq Keys /\ c.held \in [DOMAIN c.held -> Packets]
  BY <1>1, MapsAre
<1>8. kept \in Maps(Packets)
  <2>1. kept \in [DOMAIN kept -> Packets]
    BY <1>6, <1>7 DEF Drop
  <2>. HIDE DEF kept
  <2>. QED  BY <2>1, <1>6, <1>7, MapsAre
<1>. HIDE DEF kept
<1>9. IsFiniteSet(DOMAIN c.held) /\ IsFiniteSet(gone)
  BY <1>4, <1>7, KeysAreFinite, FS_Subset
<1>10. c.bytes - Cardinality(gone) = Cardinality(DOMAIN kept) /\ Cardinality(DOMAIN kept) \in Nat
  <2>1. Cardinality(DOMAIN c.held \ gone) = Cardinality(DOMAIN c.held) - Cardinality(DOMAIN c.held \cap gone)
    BY <1>9, FS_Difference
  <2>2. DOMAIN c.held \cap gone = gone
    BY <1>4
  <2>3. IsFiniteSet(DOMAIN kept)
    BY <1>6, <1>9, FS_Subset
  <2>4. Cardinality(DOMAIN kept) \in Nat
    BY <2>3, FS_CardinalityType
  <2>. QED  BY <2>1, <2>2, <2>4, <1>1, <1>6
<1>11. rest \in Seq(Entries(CacheTtl)) /\ Listed(Ages(kept), rest)
  <2>1. /\ DOMAIN Ages(kept) = DOMAIN kept /\ DOMAIN Ages(c.held) = DOMAIN c.held
        /\ \A k \in DOMAIN kept : Ages(kept)[k] = kept[k].age
        /\ \A k \in DOMAIN c.held : Ages(c.held)[k] = c.held[k].age
    BY DEF Ages
  <2>2. \A k \in DOMAIN Ages(kept) : Ages(kept)[k] = Ages(c.held)[k]
    BY <2>1, <1>6
  <2>3. \A k \in DOMAIN Ages(kept) :
            ~(\E m \in 1..n : c.order[m] = [key |-> k, age |-> Ages(c.held)[k]])
    BY <2>1, <1>5, <1>6
  <2>4. DOMAIN Ages(kept) \subseteq DOMAIN Ages(c.held)
    BY <2>1, <1>6
  <2>. QED  BY <2>2, <2>3, <2>4, <1>1, <1>2, ListedBehind
<1>. HIDE DEF rest
<1>12. /\ EvictCache(c).held = kept /\ EvictCache(c).order = rest
       /\ EvictCache(c).bytes = Cardinality(DOMAIN kept) /\ EvictCache(c) \in CacheType
  BY <1>3, <1>8, <1>10, <1>11 DEF CacheType
<1>. QED  BY <1>6, <1>11, <1>12 DEF CacheOK

\* A packet that is inserted is of its session; the others are as they were.
LEMMA InsertCacheKeeps ==
  ASSUME NEW c, CacheOK(c), NEW k \in Keys, NEW n \in 1..VideoSessions
  PROVE  /\ CacheOK(InsertCache(c, k, n))
         /\ \A x \in DOMAIN InsertCache(c, k, n).held :
               \/ InsertCache(c, k, n).held[x].session = n
               \/ x \in DOMAIN c.held /\ InsertCache(c, k, n).held[x] = c.held[x]
<1>. USE VideoAssumption
<1>. DEFINE e == EvictCache(c)  p == [session |-> n, age |-> 0]
            held == Put(e.held, k, p)  order == Append(e.order, [key |-> k, age |-> 0])
            bytes == e.bytes + (IF k \in DOMAIN e.held THEN 0 ELSE 1)
<1>1. /\ CacheOK(e) /\ DOMAIN e.held \subseteq DOMAIN c.held
      /\ \A x \in DOMAIN e.held : e.held[x] = c.held[x]
  BY EvictCacheKeeps
<1>2. InsertCache(c, k, n) = [held |-> held, order |-> order, bytes |-> bytes]
  BY DEF InsertCache
<1>. HIDE DEF e
<1>3. /\ e.held \in Maps(Packets) /\ e.order \in Seq(Entries(CacheTtl)) /\ e.bytes \in Nat
      /\ e.bytes = Cardinality(DOMAIN e.held) /\ Listed(Ages(e.held), e.order)
  BY <1>1 DEF CacheOK, CacheType
<1>4. DOMAIN e.held \subseteq Keys /\ e.held \in [DOMAIN e.held -> Packets]
  BY <1>3, MapsAre
<1>5. p \in Packets /\ p.session = n /\ p.age = 0
  BY DEF Packets
<1>. HIDE DEF p
<1>6. /\ DOMAIN held = DOMAIN e.held \cup {k} /\ held[k] = p
      /\ \A x \in DOMAIN held : x # k => x \in DOMAIN e.held /\ held[x] = e.held[x]
  BY DEF Put
<1>7. held \in Maps(Packets)
  <2>1. held \in [DOMAIN e.held \cup {k} -> Packets]
    BY <1>4, <1>5 DEF Put
  <2>. HIDE DEF held
  <2>2. DOMAIN held \subseteq Keys
    BY <1>4, <1>6
  <2>3. held \in [DOMAIN held -> Packets]
    BY <2>1, <1>6
  <2>. QED  BY <2>2, <2>3, MapsAre
<1>. HIDE DEF held
<1>8. IsFiniteSet(DOMAIN e.held)
  BY <1>4, KeysAreFinite, FS_Subset
<1>9. bytes = Cardinality(DOMAIN held) /\ bytes \in Nat
  <2>1. Cardinality(DOMAIN e.held \cup {k})
          = IF k \in DOMAIN e.held THEN Cardinality(DOMAIN e.held) ELSE Cardinality(DOMAIN e.held) + 1
    BY <1>8, FS_AddElement
  <2>2. bytes = IF k \in DOMAIN e.held THEN e.bytes ELSE e.bytes + 1
    BY <1>3
  <2>. QED  BY <2>1, <2>2, <1>3, <1>6
<1>. HIDE DEF bytes
<1>10. order \in Seq(Entries(CacheTtl)) /\ Listed(Ages(held), order)
  <2>1. /\ DOMAIN Ages(held) = DOMAIN held /\ DOMAIN Ages(e.held) = DOMAIN e.held
        /\ \A x \in DOMAIN held : Ages(held)[x] = held[x].age
        /\ \A x \in DOMAIN e.held : Ages(e.held)[x] = e.held[x].age
    BY DEF Ages
  <2>2. DOMAIN Ages(held) \subseteq DOMAIN Ages(e.held) \cup {k} /\ Ages(held)[k] = 0
    BY <2>1, <1>5, <1>6
  <2>3. \A x \in DOMAIN Ages(held) : x # k => Ages(held)[x] = Ages(e.held)[x]
    BY <2>1, <1>6
  <2>. QED  BY <2>2, <2>3, <1>3, ListedAppend
<1>. HIDE DEF order
<1>11. /\ InsertCache(c, k, n).held = held /\ InsertCache(c, k, n).order = order
       /\ InsertCache(c, k, n).bytes = bytes /\ InsertCache(c, k, n) \in CacheType
  BY <1>2, <1>7, <1>9, <1>10 DEF CacheType
<1>12. \A x \in DOMAIN held : held[x].session = n \/ (x \in DOMAIN c.held /\ held[x] = c.held[x])
  BY <1>1, <1>5, <1>6
<1>. QED  BY <1>9, <1>10, <1>11, <1>12 DEF CacheOK

\* Evicting old entries forgets no key that was allowed within the retention.
LEMMA EvictSuppressionKeeps ==
  ASSUME NEW s, SuppOK(s)
  PROVE  /\ SuppOK(EvictSuppression(s))
         /\ DOMAIN EvictSuppression(s).last \subseteq DOMAIN s.last
         /\ \A k \in DOMAIN EvictSuppression(s).last : EvictSuppression(s).last[k] = s.last[k]
         /\ \A k \in DOMAIN s.last : s.last[k] <= Retention => k \in DOMAIN EvictSuppression(s).last
<1>. DEFINE n    == Expired(s.order, Retention)
            gone == {k \in DOMAIN s.last :
                        \E m \in 1..n : s.order[m] = [key |-> k, age |-> s.last[k]]}
            kept == Drop(s.last, gone)
            rest == SubSeq(s.order, n + 1, Len(s.order))
<1>0. Retention \in Nat
  BY VideoAssumption DEF Retention
<1>1. /\ s.last \in Maps(0..(Retention + 1)) /\ s.order \in Seq(Entries(Retention))
      /\ Listed(s.last, s.order)
  BY DEF SuppOK, SuppType
<1>2. n \in 0..Len(s.order) /\ \A m \in 1..n : s.order[m].age > Retention
  BY <1>0, <1>1, ExpiredAre
<1>3. EvictSuppression(s) = [last |-> kept, order |-> rest]
  BY DEF EvictSuppression
<1>4. DOMAIN s.last \subseteq Keys /\ s.last \in [DOMAIN s.last -> 0..(Retention + 1)]
  BY <1>1, MapsAre
<1>5. \A k \in gone : k \in DOMAIN s.last /\ s.last[k] > Retention
  <2>1. SUFFICES ASSUME NEW k \in gone PROVE k \in DOMAIN s.last /\ s.last[k] > Retention
    OBVIOUS
  <2>2. PICK m \in 1..n : s.order[m] = [key |-> k, age |-> s.last[k]]
    OBVIOUS
  <2>3. s.order[m].age > Retention /\ s.order[m].age = s.last[k]
    BY <2>2, <1>2
  <2>. QED  BY <2>3
<1>6. ASSUME NEW k \in DOMAIN s.last, k \notin gone
      PROVE  ~(\E m \in 1..n : s.order[m] = [key |-> k, age |-> s.last[k]])
  BY <1>6
<1>. HIDE DEF n, gone
<1>7. DOMAIN kept = DOMAIN s.last \ gone /\ \A k \in DOMAIN kept : kept[k] = s.last[k]
  BY DEF Drop
<1>8. kept \in Maps(0..(Retention + 1))
  <2>1. kept \in [DOMAIN kept -> 0..(Retention + 1)]
    BY <1>4, <1>7 DEF Drop
  <2>. HIDE DEF kept
  <2>. QED  BY <2>1, <1>4, <1>7, MapsAre
<1>. HIDE DEF kept
<1>9. rest \in Seq(Entries(Retention)) /\ Listed(kept, rest)
  BY <1>0, <1>1, <1>2, <1>6, <1>7, ListedBehind
<1>. HIDE DEF rest
<1>10. /\ EvictSuppression(s).last = kept /\ EvictSuppression(s).order = rest
       /\ EvictSuppression(s) \in SuppType
  BY <1>3, <1>8, <1>9 DEF SuppType
<1>11. ASSUME NEW k \in DOMAIN s.last, s.last[k] <= Retention PROVE k \in DOMAIN kept
  <2>1. s.last[k] \in Nat
    BY <1>4
  <2>. QED  BY <2>1, <1>0, <1>5, <1>7, <1>11
<1>. QED  BY <1>7, <1>9, <1>10, <1>11 DEF SuppOK

\* A key that is allowed now is noted with age 0.
LEMMA NoteSentKeeps ==
  ASSUME NEW s, SuppOK(s), NEW k \in Keys
  PROVE  /\ SuppOK(NoteSent(s, k))
         /\ DOMAIN NoteSent(s, k).last = DOMAIN s.last \cup {k} /\ NoteSent(s, k).last[k] = 0
         /\ \A x \in DOMAIN s.last : x # k => NoteSent(s, k).last[x] = s.last[x]
<1>. DEFINE last == Put(s.last, k, 0)  order == Append(s.order, [key |-> k, age |-> 0])
<1>0. Retention \in Nat
  BY VideoAssumption DEF Retention
<1>1. /\ s.last \in Maps(0..(Retention + 1)) /\ s.order \in Seq(Entries(Retention))
      /\ Listed(s.last, s.order)
  BY DEF SuppOK, SuppType
<1>2. DOMAIN s.last \subseteq Keys /\ s.last \in [DOMAIN s.last -> 0..(Retention + 1)]
  BY <1>1, MapsAre
<1>3. /\ DOMAIN last = DOMAIN s.last \cup {k} /\ last[k] = 0
      /\ \A x \in DOMAIN last : x # k => x \in DOMAIN s.last /\ last[x] = s.last[x]
  BY DEF Put
<1>4. last \in Maps(0..(Retention + 1))
  <2>1. last \in [DOMAIN s.last \cup {k} -> 0..(Retention + 1)]
    BY <1>0, <1>2 DEF Put
  <2>. HIDE DEF last
  <2>2. DOMAIN last \subseteq Keys /\ last \in [DOMAIN last -> 0..(Retention + 1)]
    BY <2>1, <1>2, <1>3
  <2>. QED  BY <2>2, MapsAre
<1>. HIDE DEF last
<1>5. order \in Seq(Entries(Retention)) /\ Listed(last, order)
  BY <1>0, <1>1, <1>3, ListedAppend
<1>. HIDE DEF order
<1>6. NoteSent(s, k) = [last |-> last, order |-> order]
  BY DEF NoteSent, last, order
<1>7. NoteSent(s, k).last = last /\ NoteSent(s, k).order = order /\ NoteSent(s, k) \in SuppType
  BY <1>4, <1>5, <1>6 DEF SuppType
<1>. QED  BY <1>3, <1>5, <1>7 DEF SuppOK

-----------------------------------------------------------------------------
(* The paced sending of video: the threads.                                  *)

\* The frames the channel carries.
Jobs == [session : 1..VideoSessions, frame : 0..(VideoFrames - 1)]

\* The types of the sender of video, with the cache and the suppression in order.
VideoShape ==
    /\ enc \in [at : {"run", "barrier", "clear", "publish", "ended"},
                session : 1..VideoSessions, frame : 0..VideoFrames]
    /\ chan \in Seq(Jobs \cup {Barrier}) /\ Len(chan) <= SendQueueDepth
    /\ pacer \in [at : {"recv", "send", "barrier", "dead"}, job : Jobs \cup {Barrier},
                  next : 0..DataPackets, error : BOOLEAN]
    /\ pacer.at = "send" => pacer.job \in Jobs
    /\ ctrl \in [at : {"recv", "lookup", "resend"}, key : Keys \cup {NoKey}, found : 0..VideoSessions]
    /\ ctrl.at = "lookup" => ctrl.key \in Keys
    /\ gap \in [Keys -> 0..SuppressFor]
    /\ CacheOK(cache) /\ SuppOK(supp)

\* Where the session's last frame and the barrier behind it are.
InOrder ==
    /\ enc.at = "run" => /\ \A n \in 1..Len(chan) : chan[n] # Barrier
                         /\ pacer.at # "barrier"
    /\ enc.at = "barrier" =>
          /\ \A n \in 1..Len(chan) : chan[n] = Barrier <=> n = Len(chan)
          /\ pacer.at = "barrier" => chan = <<>>
          /\ chan = <<>> => pacer.at \in {"barrier", "dead"}
    /\ enc.at \in {"clear", "publish"} => chan = <<>> /\ pacer.at = "recv"
    /\ enc.at = "publish" => DOMAIN cache.held = {}
    /\ enc.at \in {"clear", "publish"} => enc.session < VideoSessions
    /\ enc.at = "barrier" => enc.session < VideoSessions

\* A packet that was just resent is remembered by the suppression.
Remembered ==
    \A k \in Keys : gap[k] < SuppressFor => k \in DOMAIN supp.last /\ supp.last[k] <= gap[k]

\* The invariant of the paced sending.
VideoInv == VideoShape /\ InOrder /\ PacedInSession /\ Remembered

\* The barrier is told from a frame.
LEMMA BarrierIsNoJob == Barrier \notin Jobs /\ Barrier.session = 0
BY VideoAssumption DEF Barrier, Jobs

\* What the steps need of the types.
LEMMA VideoParts ==
  ASSUME VideoInv
  PROVE  /\ enc.session \in 1..VideoSessions /\ enc.frame \in 0..VideoFrames
         /\ chan \in Seq(Jobs \cup {Barrier}) /\ Len(chan) \in Nat /\ DOMAIN chan = 1..Len(chan)
         /\ CacheOK(cache) /\ SuppOK(supp) /\ gap \in [Keys -> 0..SuppressFor]
BY DEF VideoInv, VideoShape

\* The sending begins so.
LEMMA VideoInitially == VideoSenderInit => VideoInv
<1>. SUFFICES ASSUME VideoSenderInit PROVE VideoInv
  OBVIOUS
<1>. USE VideoAssumption
<1>1. <<>> \in Seq(Jobs \cup {Barrier}) /\ Len(<<>>) = 0 /\ DOMAIN <<>> = {}
      /\ <<>> \in Seq(Entries(CacheTtl)) /\ <<>> \in Seq(Entries(Retention))
  OBVIOUS
<1>2. \A S : Nothing \in Maps(S) /\ DOMAIN Nothing = {}
  <2>1. ASSUME NEW S PROVE Nothing \in [DOMAIN Nothing -> S] /\ DOMAIN Nothing = {}
    BY DEF Nothing
  <2>. QED  BY <2>1, MapsAre
<1>3. CacheOK(cache)
  <2>1. cache = [held |-> Nothing, order |-> <<>>, bytes |-> 0]
    BY DEF VideoSenderInit, EmptyCache
  <2>2. cache \in CacheType
    BY <2>1, <1>1, <1>2 DEF CacheType
  <2>3. Cardinality(DOMAIN cache.held) = 0
    BY <2>1, <1>2, FS_EmptySet
  <2>4. Listed(Ages(cache.held), cache.order)
    BY <2>1, <1>2 DEF Listed, Ages
  <2>. QED  BY <2>1, <2>2, <2>3, <2>4 DEF CacheOK
<1>4. SuppOK(supp)
  <2>1. supp = [last |-> Nothing, order |-> <<>>]
    BY DEF VideoSenderInit
  <2>. QED  BY <2>1, <1>1, <1>2 DEF SuppOK, SuppType, Listed
<1>5. VideoShape
  <2>1. enc \in [at : {"run", "barrier", "clear", "publish", "ended"},
                session : 1..VideoSessions, frame : 0..VideoFrames]
    BY DEF VideoSenderInit
  <2>2. chan \in Seq(Jobs \cup {Barrier}) /\ Len(chan) <= SendQueueDepth
    BY <1>1 DEF VideoSenderInit
  <2>3. pacer \in [at : {"recv", "send", "barrier", "dead"}, job : Jobs \cup {Barrier},
                  next : 0..DataPackets, error : BOOLEAN] /\ pacer.at = "recv"
    BY DEF VideoSenderInit
  <2>4. ctrl \in [at : {"recv", "lookup", "resend"}, key : Keys \cup {NoKey}, found : 0..VideoSessions]
        /\ ctrl.at = "recv"
    BY DEF VideoSenderInit
  <2>5. gap \in [Keys -> 0..SuppressFor]
    BY DEF VideoSenderInit
  <2>. QED  BY <1>3, <1>4, <2>1, <2>2, <2>3, <2>4, <2>5 DEF VideoShape
<1>6. InOrder
  BY <1>1 DEF VideoSenderInit, InOrder
<1>7. PacedInSession
  BY <1>1, <1>2 DEF VideoSenderInit, PacedInSession, EmptyCache
<1>8. Remembered
  BY DEF VideoSenderInit, Remembered
<1>. QED  BY <1>5, <1>6, <1>7, <1>8 DEF VideoInv

\* A frame of the running session enters the channel.
LEMMA OnSampleKeeps == ASSUME VideoInv, OnSample PROVE VideoInv'
<1>. USE VideoAssumption
<1>. DEFINE job == [session |-> enc.session, frame |-> enc.frame]
<1>1. /\ enc.at = "run" /\ enc.frame < VideoFrames /\ pacer.at # "dead" /\ Len(chan) < SendQueueDepth
      /\ chan' = Append(chan, job) /\ UNCHANGED <<pacer, cache, supp, ctrl, gap>>
  BY DEF OnSample, Enqueue
<1>2. job \in Jobs /\ job.session = enc.session
  BY <1>1, VideoParts DEF Jobs
<1>. HIDE DEF job
<1>3. /\ chan' \in Seq(Jobs \cup {Barrier}) /\ Len(chan') = Len(chan) + 1 /\ DOMAIN chan' = 1..Len(chan')
      /\ \A n \in 1..Len(chan') : chan'[n] = job \/ (n \in 1..Len(chan) /\ chan'[n] = chan[n])
  BY <1>1, <1>2, VideoParts
<1>4. /\ enc' \in [at : {"run", "barrier", "clear", "publish", "ended"},
                   session : 1..VideoSessions, frame : 0..VideoFrames]
      /\ enc'.at = "run" /\ enc'.session = enc.session
  <2>1. enc.frame + 1 \in 0..VideoFrames
    BY <1>1, VideoParts
  <2>. QED  BY <1>1, <2>1 DEF OnSample, VideoInv, VideoShape
<1>5. VideoShape'
  <2>1. Len(chan') <= SendQueueDepth
    BY <1>1, <1>3, VideoParts
  <2>. QED  BY <1>1, <1>3, <1>4, <2>1 DEF VideoInv, VideoShape
<1>6. InOrder'
  BY <1>1, <1>2, <1>3, <1>4, BarrierIsNoJob DEF VideoInv, InOrder
<1>7. PacedInSession'
  BY <1>1, <1>2, <1>3, <1>4, VideoParts DEF VideoInv, PacedInSession
<1>8. Remembered'
  BY <1>1 DEF VideoInv, Remembered
<1>. QED  BY <1>5, <1>6, <1>7, <1>8 DEF VideoInv

\* The encode thread moves, and nothing else does.
LEMMA EncodeMoves ==
  ASSUME VideoInv, NEW at \in {"run", "barrier", "clear", "publish", "ended"},
         enc' = [enc EXCEPT !.at = at]
  PROVE  /\ enc' \in [at : {"run", "barrier", "clear", "publish", "ended"},
                      session : 1..VideoSessions, frame : 0..VideoFrames]
         /\ enc'.at = at /\ enc'.session = enc.session
BY DEF VideoInv, VideoShape

\* The stream ends.
LEMMA EncodeEndsKeeps == ASSUME VideoInv, OnPacerError \/ FlushFails PROVE VideoInv'
<1>1. enc' = [enc EXCEPT !.at = "ended"] /\ UNCHANGED <<chan, pacer, cache, supp, ctrl, gap>>
  BY DEF OnPacerError, FlushFails
<1>2. /\ enc' \in [at : {"run", "barrier", "clear", "publish", "ended"},
                   session : 1..VideoSessions, frame : 0..VideoFrames]
      /\ enc'.at = "ended"
  BY <1>1, EncodeMoves
<1>. QED  BY <1>1, <1>2 DEF VideoInv, VideoShape, InOrder, PacedInSession, Remembered

\* The barrier enters the channel behind the last frame of the session.
LEMMA BeginFlushKeeps == ASSUME VideoInv, BeginFlush PROVE VideoInv'
<1>. USE VideoAssumption
<1>1. /\ enc.at = "run" /\ enc.session < VideoSessions /\ pacer.at # "dead" /\ Len(chan) < SendQueueDepth
      /\ chan' = Append(chan, Barrier) /\ UNCHANGED <<pacer, cache, supp, ctrl, gap>>
  BY DEF BeginFlush, Enqueue
<1>2. /\ enc' \in [at : {"run", "barrier", "clear", "publish", "ended"},
                   session : 1..VideoSessions, frame : 0..VideoFrames]
      /\ enc'.at = "barrier" /\ enc'.session = enc.session
  BY EncodeMoves DEF BeginFlush
<1>3. /\ chan' \in Seq(Jobs \cup {Barrier}) /\ Len(chan') = Len(chan) + 1 /\ DOMAIN chan' = 1..Len(chan')
      /\ chan'[Len(chan) + 1] = Barrier /\ \A n \in 1..Len(chan) : chan'[n] = chan[n]
      /\ chan' # <<>>
  BY <1>1, VideoParts
<1>4. VideoShape'
  <2>1. Len(chan') <= SendQueueDepth
    BY <1>1, <1>3, VideoParts
  <2>. QED  BY <1>1, <1>2, <1>3, <2>1 DEF VideoInv, VideoShape
<1>5. \A n \in 1..Len(chan') : n = Len(chan') \/ n \in 1..Len(chan)
  BY <1>3, VideoParts
<1>6. InOrder'
  <2>1. \A n \in 1..Len(chan) : chan[n] # Barrier
    BY <1>1 DEF VideoInv, InOrder
  <2>2. \A n \in 1..Len(chan') : chan'[n] = Barrier <=> n = Len(chan')
    <3>1. ASSUME NEW n \in 1..Len(chan') PROVE chan'[n] = Barrier <=> n = Len(chan')
      <4>1. CASE n = Len(chan')
        BY <4>1, <1>3
      <4>2. CASE n # Len(chan')
        <5>1. n \in 1..Len(chan) /\ chan'[n] = chan[n]
          BY <4>2, <1>3, <1>5
        <5>. QED  BY <4>2, <5>1, <2>1
      <4>. QED  BY <4>1, <4>2
    <3>. QED  BY <3>1
  <2>3. pacer.at # "barrier"
    BY <1>1 DEF VideoInv, InOrder
  <2>. QED  BY <1>1, <1>2, <1>3, <2>2, <2>3 DEF InOrder
<1>7. PacedInSession'
  <2>1. \A n \in DOMAIN chan' : chan'[n].session \in {0, enc'.session}
    <3>1. \A n \in 1..Len(chan) : chan[n].session \in {0, enc.session}
      BY <1>1, VideoParts DEF VideoInv, PacedInSession
    <3>. QED  BY <1>2, <1>3, <1>5, <3>1, BarrierIsNoJob
  <2>. QED  BY <1>1, <1>2, <2>1 DEF VideoInv, PacedInSession
<1>8. Remembered'
  BY <1>1 DEF VideoInv, Remembered
<1>. QED  BY <1>4, <1>6, <1>7, <1>8 DEF VideoInv

\* The threads meet at the barrier: the channel is empty.
LEMMA FlushedKeeps == ASSUME VideoInv, Flushed PROVE VideoInv'
<1>1. /\ enc.at = "barrier" /\ pacer.at = "barrier" /\ pacer' = [pacer EXCEPT !.at = "recv"]
      /\ UNCHANGED <<chan, cache, supp, ctrl, gap>>
  BY DEF Flushed
<1>2. /\ enc' \in [at : {"run", "barrier", "clear", "publish", "ended"},
                   session : 1..VideoSessions, frame : 0..VideoFrames]
      /\ enc'.at = "clear" /\ enc'.session = enc.session
  BY EncodeMoves DEF Flushed
<1>3. /\ pacer' \in [at : {"recv", "send", "barrier", "dead"}, job : Jobs \cup {Barrier},
                     next : 0..DataPackets, error : BOOLEAN]
      /\ pacer'.at = "recv"
  BY <1>1 DEF VideoInv, VideoShape
<1>4. VideoShape'
  BY <1>1, <1>2, <1>3 DEF VideoInv, VideoShape
<1>5. InOrder' /\ PacedInSession' /\ Remembered'
  BY <1>1, <1>2, <1>3 DEF VideoInv, InOrder, PacedInSession, Remembered
<1>. QED  BY <1>4, <1>5 DEF VideoInv

\* The cache is cleared while the pacer waits for the next command.
LEMMA ClearCacheKeeps == ASSUME VideoInv, ClearCache PROVE VideoInv'
<1>1. enc.at = "clear" /\ cache' = EmptyCache /\ UNCHANGED <<chan, pacer, supp, ctrl, gap>>
  BY DEF ClearCache
<1>2. /\ enc' \in [at : {"run", "barrier", "clear", "publish", "ended"},
                   session : 1..VideoSessions, frame : 0..VideoFrames]
      /\ enc'.at = "publish" /\ enc'.session = enc.session
  BY EncodeMoves DEF ClearCache
<1>3. CacheOK(EmptyCache) /\ DOMAIN EmptyCache.held = {}
  <2>0. <<>> \in Seq(Entries(CacheTtl))
    OBVIOUS
  <2>1. Nothing \in Maps(Packets) /\ DOMAIN Nothing = {}
    <3>1. Nothing \in [DOMAIN Nothing -> Packets] /\ DOMAIN Nothing = {}
      BY DEF Nothing
    <3>. QED  BY <3>1, MapsAre
  <2>2. EmptyCache \in CacheType /\ EmptyCache.held = Nothing /\ EmptyCache.bytes = 0
    BY <2>0, <2>1 DEF EmptyCache, CacheType
  <2>3. Cardinality(DOMAIN Nothing) = 0
    BY <2>1, FS_EmptySet
  <2>. QED  BY <2>1, <2>2, <2>3 DEF CacheOK, Listed, Ages
<1>4. VideoShape'
  BY <1>1, <1>2, <1>3 DEF VideoInv, VideoShape
<1>5. InOrder' /\ PacedInSession' /\ Remembered'
  BY <1>1, <1>2, <1>3 DEF VideoInv, InOrder, PacedInSession, Remembered
<1>. QED  BY <1>4, <1>5 DEF VideoInv

\* The next session begins with nothing of the last one left.
LEMMA PublishKeeps == ASSUME VideoInv, PublishSession PROVE VideoInv'
<1>. USE VideoAssumption
<1>1. /\ enc.at = "publish" /\ enc' = [at |-> "run", session |-> enc.session + 1, frame |-> 0]
      /\ UNCHANGED <<chan, pacer, cache, supp, ctrl, gap>>
  BY DEF PublishSession
<1>2. chan = <<>> /\ pacer.at = "recv" /\ DOMAIN cache.held = {} /\ enc.session < VideoSessions
  BY <1>1 DEF VideoInv, InOrder
<1>3. /\ enc' \in [at : {"run", "barrier", "clear", "publish", "ended"},
                   session : 1..VideoSessions, frame : 0..VideoFrames]
      /\ enc'.at = "run"
  <2>1. enc.session + 1 \in 1..VideoSessions /\ 0 \in 0..VideoFrames
    BY <1>2, VideoParts
  <2>. QED  BY <1>1, <2>1
<1>4. VideoShape'
  BY <1>1, <1>3 DEF VideoInv, VideoShape
<1>5. Len(<<>>) = 0 /\ DOMAIN <<>> = {}
  OBVIOUS
<1>6. InOrder' /\ PacedInSession' /\ Remembered'
  BY <1>1, <1>2, <1>3, <1>5 DEF VideoInv, InOrder, PacedInSession, Remembered
<1>. QED  BY <1>4, <1>6 DEF VideoInv

\* The pacer thread.
PacerShape == [at : {"recv", "send", "barrier", "dead"}, job : Jobs \cup {Barrier},
               next : 0..DataPackets, error : BOOLEAN]

\* The pacer takes a frame, or the barrier, which is the last in the channel.
LEMMA PacerReceivesKeeps == ASSUME VideoInv, PacerReceives PROVE VideoInv'
<1>. USE VideoAssumption
<1>1. /\ pacer.at = "recv" /\ chan # <<>> /\ chan' = Tail(chan)
      /\ pacer' = [pacer EXCEPT !.at = IF Head(chan) = Barrier THEN "barrier" ELSE "send",
                                !.job = Head(chan), !.next = 0]
      /\ UNCHANGED <<enc, cache, supp, ctrl, gap>>
  BY DEF PacerReceives
<1>2. /\ chan' \in Seq(Jobs \cup {Barrier}) /\ Len(chan') = Len(chan) - 1 /\ DOMAIN chan' = 1..Len(chan')
      /\ \A n \in 1..Len(chan') : chan'[n] = chan[n + 1]
      /\ Len(chan) >= 1 /\ Head(chan) = chan[1] /\ Head(chan) \in Jobs \cup {Barrier}
      /\ (chan' = <<>>) <=> Len(chan) = 1
  <2>. DEFINE All == Jobs \cup {Barrier}
  <2>1. chan \in Seq(All) /\ Len(chan) \in Nat
    BY VideoParts
  <2>. HIDE DEF All
  <2>2. Head(chan) = chan[1] /\ Head(chan) \in All /\ Tail(chan) \in Seq(All) /\ Len(chan) >= 1
    BY <1>1, <2>1
  <2>3. Len(Tail(chan)) = Len(chan) - 1 /\ \A n \in 1..Len(chan) - 1 : Tail(chan)[n] = chan[n + 1]
    BY <1>1, <2>1
  <2>4. DOMAIN Tail(chan) = 1..Len(Tail(chan))
    BY <2>2
  <2>5. (Tail(chan) = <<>>) <=> Len(Tail(chan)) = 0
    BY <2>2, EmptySeq
  <2>6. (Tail(chan) = <<>>) <=> Len(chan) = 1
    BY <2>1, <2>3, <2>5
  <2>. QED  BY <1>1, <2>2, <2>3, <2>4, <2>6 DEF All
<1>3. /\ pacer' \in PacerShape /\ pacer'.job = Head(chan)
      /\ pacer'.at = IF Head(chan) = Barrier THEN "barrier" ELSE "send"
  <2>1. pacer \in PacerShape
    BY DEF VideoInv, VideoShape, PacerShape
  <2>2. 0 \in 0..DataPackets
    OBVIOUS
  <2>. QED  BY <1>1, <1>2, <2>1, <2>2 DEF PacerShape
<1>4. VideoShape'
  <2>1. Len(chan') <= SendQueueDepth
    BY <1>2, VideoParts DEF VideoInv, VideoShape
  <2>2. pacer'.at = "send" => pacer'.job \in Jobs
    BY <1>2, <1>3
  <2>. QED  BY <1>1, <1>2, <1>3, <2>1, <2>2 DEF VideoInv, VideoShape, PacerShape
<1>5. \A n \in 1..Len(chan') : n + 1 \in 1..Len(chan) /\ (n = Len(chan') <=> n + 1 = Len(chan))
  BY <1>2, VideoParts
<1>6. 1 \in 1..Len(chan)
  BY <1>2, VideoParts
<1>7. enc.at \notin {"clear", "publish"}
  BY <1>1 DEF VideoInv, InOrder
<1>8. InOrder'
  <2>1. CASE enc.at = "run"
    <3>1. \A n \in 1..Len(chan) : chan[n] # Barrier
      BY <2>1 DEF VideoInv, InOrder
    <3>2. Head(chan) # Barrier /\ \A n \in 1..Len(chan') : chan'[n] # Barrier
      BY <3>1, <1>2, <1>5, <1>6
    <3>3. pacer'.at = "send"
      BY <3>2, <1>3
    <3>. QED  BY <1>1, <2>1, <3>2, <3>3 DEF InOrder
  <2>2. CASE enc.at = "barrier"
    <3>1. \A n \in 1..Len(chan) : chan[n] = Barrier <=> n = Len(chan)
      BY <2>2 DEF VideoInv, InOrder
    <3>2. \A n \in 1..Len(chan') : chan'[n] = Barrier <=> n = Len(chan')
      BY <3>1, <1>2, <1>5
    <3>3. Head(chan) = Barrier <=> chan' = <<>>
      BY <3>1, <1>2, <1>6
    <3>4. /\ pacer'.at = "barrier" => chan' = <<>>
          /\ chan' = <<>> => pacer'.at \in {"barrier", "dead"}
      BY <3>3, <1>3
    <3>5. enc.session < VideoSessions
      BY <2>2 DEF VideoInv, InOrder
    <3>. QED  BY <1>1, <2>2, <3>2, <3>4, <3>5 DEF InOrder
  <2>3. CASE enc.at \notin {"run", "barrier"}
    BY <1>1, <1>7, <2>3 DEF InOrder
  <2>. QED  BY <2>1, <2>2, <2>3
<1>9. PacedInSession'
  <2>1. SUFFICES ASSUME enc.at \in {"run", "barrier"}
                 PROVE  /\ \A n \in DOMAIN chan' : chan'[n].session \in {0, enc.session}
                        /\ pacer'.at = "send" => pacer'.job.session = enc.session
                        /\ \A k \in DOMAIN cache.held : cache.held[k].session = enc.session
    BY <1>1 DEF PacedInSession
  <2>2. /\ \A n \in 1..Len(chan) : chan[n].session \in {0, enc.session}
        /\ \A k \in DOMAIN cache.held : cache.held[k].session = enc.session
    BY <2>1, VideoParts DEF VideoInv, PacedInSession
  <2>3. pacer'.at = "send" => pacer'.job \in Jobs
    BY <1>2, <1>3
  <2>4. \A j \in Jobs : j.session # 0
    BY DEF Jobs
  <2>5. pacer'.job.session \in {0, enc.session}
    BY <1>2, <1>3, <1>6, <2>2
  <2>6. \A n \in DOMAIN chan' : chan'[n].session \in {0, enc.session}
    BY <1>2, <1>5, <2>2
  <2>. QED  BY <2>2, <2>3, <2>4, <2>5, <2>6
<1>10. Remembered'
  BY <1>1 DEF VideoInv, Remembered
<1>. QED  BY <1>4, <1>8, <1>9, <1>10 DEF VideoInv

\* Nobody waits at the barrier any more.
LEMMA BarrierAbandonedKeeps == ASSUME VideoInv, BarrierAbandoned PROVE VideoInv'
<1>1. /\ pacer.at = "barrier" /\ enc.at # "barrier" /\ pacer' = [pacer EXCEPT !.at = "recv"]
      /\ UNCHANGED <<enc, chan, cache, supp, ctrl, gap>>
  BY DEF BarrierAbandoned
<1>2. pacer' \in PacerShape /\ pacer'.at = "recv"
  BY <1>1 DEF VideoInv, VideoShape, PacerShape
<1>3. VideoShape'
  BY <1>1, <1>2 DEF VideoInv, VideoShape, PacerShape
<1>4. InOrder' /\ PacedInSession' /\ Remembered'
  BY <1>1, <1>2 DEF VideoInv, InOrder, PacedInSession, Remembered
<1>. QED  BY <1>3, <1>4 DEF VideoInv

\* A packet is sent, and a data packet is cached in the session of its frame.
LEMMA PacerSendsKeeps == ASSUME VideoInv, PacerSends PROVE VideoInv'
<1>. USE VideoAssumption
<1>1. pacer.at = "send" /\ UNCHANGED <<enc, chan, supp, ctrl, gap>>
  BY DEF PacerSends
<1>2. pacer \in PacerShape /\ pacer.job \in Jobs
  BY <1>1 DEF VideoInv, VideoShape, PacerShape
<1>3. /\ pacer.job.session \in 1..VideoSessions /\ pacer.job.frame \in 0..(VideoFrames - 1)
      /\ pacer.next \in 0..DataPackets
  BY <1>2 DEF Jobs, PacerShape
<1>4. pacer' \in PacerShape /\ pacer'.at \in {"send", "recv"} /\ pacer'.job = pacer.job
  <2>1. CASE pacer.next < DataPackets
    <3>1. pacer' = [pacer EXCEPT !.next = @ + 1] /\ pacer.next + 1 \in 0..DataPackets
      BY <2>1, <1>3 DEF PacerSends
    <3>. QED  BY <1>1, <1>2, <3>1 DEF PacerShape
  <2>2. CASE ~(pacer.next < DataPackets)
    <3>1. pacer' = [pacer EXCEPT !.at = "recv"]
      BY <2>2 DEF PacerSends
    <3>. QED  BY <1>2, <3>1 DEF PacerShape
  <2>. QED  BY <2>1, <2>2
<1>5. /\ CacheOK(cache')
      /\ \A x \in DOMAIN cache'.held :
            \/ cache'.held[x].session = pacer.job.session
            \/ x \in DOMAIN cache.held /\ cache'.held[x] = cache.held[x]
  <2>1. CASE pacer.next < DataPackets
    <3>1. <<pacer.job.frame, pacer.next>> \in Keys
      BY <2>1, <1>3 DEF Keys
    <3>2. cache' = InsertCache(cache, <<pacer.job.frame, pacer.next>>, pacer.job.session)
      BY <2>1 DEF PacerSends
    <3>. QED  BY <3>1, <3>2, <1>3, VideoParts, InsertCacheKeeps
  <2>2. CASE ~(pacer.next < DataPackets)
    <3>1. cache' = cache
      BY <2>2 DEF PacerSends
    <3>. QED  BY <3>1, VideoParts
  <2>. QED  BY <2>1, <2>2
<1>6. VideoShape'
  BY <1>1, <1>2, <1>4, <1>5 DEF VideoInv, VideoShape, PacerShape
<1>7. enc.at \notin {"clear", "publish"}
  BY <1>1 DEF VideoInv, InOrder
<1>8. InOrder'
  BY <1>1, <1>4, <1>7 DEF VideoInv, InOrder
<1>9. PacedInSession'
  <2>1. SUFFICES ASSUME enc.at \in {"run", "barrier"}
                 PROVE  /\ \A n \in DOMAIN chan : chan[n].session \in {0, enc.session}
                        /\ pacer'.at = "send" => pacer'.job.session = enc.session
                        /\ \A k \in DOMAIN cache'.held : cache'.held[k].session = enc.session
    BY <1>1 DEF PacedInSession
  <2>2. /\ \A n \in DOMAIN chan : chan[n].session \in {0, enc.session}
        /\ pacer.job.session = enc.session
        /\ \A k \in DOMAIN cache.held : cache.held[k].session = enc.session
    BY <1>1, <2>1 DEF VideoInv, PacedInSession
  <2>. QED  BY <2>2, <1>4, <1>5
<1>10. Remembered'
  BY <1>1 DEF VideoInv, Remembered
<1>. QED  BY <1>6, <1>8, <1>9, <1>10 DEF VideoInv

\* The pacer dies with its channel.
LEMMA PacerFailsKeeps == ASSUME VideoInv, PacerFails PROVE VideoInv'
<1>. USE VideoAssumption
<1>1. /\ pacer.at = "send" /\ pacer' = [pacer EXCEPT !.at = "dead", !.error = TRUE]
      /\ chan' = <<>> /\ UNCHANGED <<enc, cache, supp, ctrl, gap>>
  BY DEF PacerFails
<1>2. pacer' \in PacerShape /\ pacer'.at = "dead"
  BY <1>1 DEF VideoInv, VideoShape, PacerShape
<1>3. <<>> \in Seq(Jobs \cup {Barrier}) /\ Len(<<>>) = 0 /\ 1..0 = {} /\ DOMAIN <<>> = {}
  OBVIOUS
<1>4. VideoShape'
  BY <1>1, <1>2, <1>3 DEF VideoInv, VideoShape, PacerShape
<1>5. enc.at \notin {"clear", "publish"}
  BY <1>1 DEF VideoInv, InOrder
<1>6. InOrder' /\ PacedInSession' /\ Remembered'
  BY <1>1, <1>2, <1>3, <1>5 DEF VideoInv, InOrder, PacedInSession, Remembered
<1>. QED  BY <1>4, <1>6 DEF VideoInv

\* The control thread.
CtrlShape == [at : {"recv", "lookup", "resend"}, key : Keys \cup {NoKey}, found : 0..VideoSessions]

\* A packet that was resent lately is suppressed.
LEMMA RecentIsSuppressed ==
  ASSUME VideoInv, NEW k \in Keys, gap[k] < SuppressFor
  PROVE  Suppressed(EvictSuppression(supp), k)
<1>1. k \in DOMAIN supp.last /\ supp.last[k] <= gap[k]
  BY DEF VideoInv, Remembered
<1>2. gap[k] \in 0..SuppressFor /\ supp.last[k] \in Nat
  <2>1. supp.last \in Maps(0..(Retention + 1)) /\ Retention \in Nat
    BY VideoParts, VideoAssumption DEF SuppOK, SuppType, Retention
  <2>2. supp.last[k] \in 0..(Retention + 1)
    BY <2>1, <1>1, MapsAre
  <2>. QED  BY <2>1, <2>2, VideoParts
<1>3. supp.last[k] <= Retention /\ supp.last[k] < SuppressFor
  BY <1>1, <1>2, VideoAssumption DEF Retention
<1>4. SuppOK(supp)
  BY VideoParts
<1>. QED  BY <1>1, <1>3, <1>4, EvictSuppressionKeeps DEF Suppressed

\* A NACK: the packet is allowed only when its last time is the interval ago.
LEMMA NackKeeps ==
  ASSUME VideoInv, NEW n \in 1..VideoSessions, NEW k \in NackKeys, NackArrives(n, k)
  PROVE  VideoInv' /\ (ctrl'.at = "lookup" => ctrl'.key = k /\ gap[k] >= SuppressFor)
<1>. USE VideoAssumption
<1>. DEFINE s == EvictSuppression(supp)
<1>1. k \in Keys /\ ctrl.at = "recv" /\ UNCHANGED <<enc, chan, pacer, cache>>
  BY DEF NackArrives
<1>2. \/ Suppressed(s, k) /\ supp' = s /\ UNCHANGED <<ctrl, gap>>
      \/ /\ ~Suppressed(s, k) /\ supp' = NoteSent(s, k)
         /\ ctrl' = [ctrl EXCEPT !.at = "lookup", !.key = k]
         /\ gap' = [gap EXCEPT ![k] = 0]
  BY DEF NackArrives
<1>3. /\ SuppOK(s) /\ DOMAIN s.last \subseteq DOMAIN supp.last
      /\ \A x \in DOMAIN s.last : s.last[x] = supp.last[x]
  BY VideoParts, EvictSuppressionKeeps
<1>4. \A x \in Keys : gap[x] < SuppressFor => x \in DOMAIN s.last /\ s.last[x] <= gap[x] /\ s.last[x] < SuppressFor
  <2>1. ASSUME NEW x \in Keys, gap[x] < SuppressFor
        PROVE  x \in DOMAIN s.last /\ s.last[x] <= gap[x] /\ s.last[x] < SuppressFor
    <3>1. x \in DOMAIN s.last /\ s.last[x] < SuppressFor
      BY <2>1, RecentIsSuppressed DEF Suppressed
    <3>2. supp.last[x] <= gap[x]
      BY <2>1 DEF VideoInv, Remembered
    <3>. QED  BY <3>1, <3>2, <1>3
  <2>. QED  BY <2>1
<1>5. InOrder' /\ PacedInSession'
  BY <1>1 DEF VideoInv, InOrder, PacedInSession
<1>6. CASE Suppressed(s, k)
  <2>1. supp' = s /\ UNCHANGED <<ctrl, gap>>
    BY <1>2, <1>6
  <2>. HIDE DEF s
  <2>2. VideoShape'
    BY <1>1, <1>3, <2>1 DEF VideoInv, VideoShape
  <2>3. Remembered'
    BY <1>4, <2>1 DEF Remembered
  <2>. QED  BY <1>1, <1>5, <2>1, <2>2, <2>3 DEF VideoInv
<1>7. CASE ~Suppressed(s, k)
  <2>1. /\ supp' = NoteSent(s, k) /\ ctrl' = [ctrl EXCEPT !.at = "lookup", !.key = k]
        /\ gap' = [gap EXCEPT ![k] = 0]
    BY <1>2, <1>7
  <2>2. gap[k] \in 0..SuppressFor /\ gap \in [Keys -> 0..SuppressFor]
    BY <1>1, VideoParts
  <2>3. ~(gap[k] < SuppressFor)
    BY <1>1, <1>7, RecentIsSuppressed
  <2>4. gap[k] >= SuppressFor
    BY <2>2, <2>3
  <2>. HIDE DEF s
  <2>5. /\ SuppOK(supp') /\ DOMAIN supp'.last = DOMAIN s.last \cup {k} /\ supp'.last[k] = 0
        /\ \A x \in DOMAIN s.last : x # k => supp'.last[x] = s.last[x]
    BY <1>1, <1>3, <2>1, NoteSentKeeps
  <2>6. ctrl' \in CtrlShape /\ ctrl'.at = "lookup" /\ ctrl'.key = k
    BY <1>1, <2>1 DEF VideoInv, VideoShape, CtrlShape
  <2>7. gap' \in [Keys -> 0..SuppressFor] /\ gap'[k] = 0 /\ \A x \in Keys : x # k => gap'[x] = gap[x]
    <3>1. 0 \in 0..SuppressFor
      OBVIOUS
    <3>. QED  BY <1>1, <2>1, <2>2, <3>1
  <2>8. VideoShape'
    BY <1>1, <2>5, <2>6, <2>7 DEF VideoInv, VideoShape, CtrlShape
  <2>9. Remembered'
    <3>1. ASSUME NEW x \in Keys, gap'[x] < SuppressFor
          PROVE  x \in DOMAIN supp'.last /\ supp'.last[x] <= gap'[x]
      <4>1. CASE x = k
        BY <4>1, <2>5, <2>7
      <4>2. CASE x # k
        <5>1. x \in DOMAIN s.last /\ s.last[x] <= gap[x]
          BY <3>1, <4>2, <2>7, <1>4
        <5>. QED  BY <4>2, <5>1, <2>5, <2>7
      <4>. QED  BY <4>1, <4>2
    <3>. QED  BY <3>1 DEF Remembered
  <2>. QED  BY <1>5, <2>4, <2>6, <2>8, <2>9 DEF VideoInv
<1>. QED  BY <1>6, <1>7

\* The packet is looked up among what has not expired.
LEMMA LookUpKeeps == ASSUME VideoInv, LookUp PROVE VideoInv' /\ ctrl'.at # "lookup"
<1>. USE VideoAssumption
<1>1. /\ ctrl.at = "lookup" /\ cache' = EvictCache(cache) /\ UNCHANGED <<enc, chan, pacer, supp, gap>>
  BY DEF LookUp
<1>2. /\ CacheOK(cache') /\ DOMAIN cache'.held \subseteq DOMAIN cache.held
      /\ \A k \in DOMAIN cache'.held : cache'.held[k] = cache.held[k]
  BY <1>1, VideoParts, EvictCacheKeeps
<1>3. ctrl' \in CtrlShape /\ ctrl'.at \in {"recv", "resend"}
  <2>0. ctrl \in CtrlShape
    BY DEF VideoInv, VideoShape, CtrlShape
  <2>1. CASE ctrl.key \in DOMAIN cache'.held
    <3>1. ctrl' = [ctrl EXCEPT !.at = "resend", !.found = cache'.held[ctrl.key].session]
      BY <2>1 DEF LookUp
    <3>2. cache'.held \in Maps(Packets)
      BY <1>2 DEF CacheOK, CacheType
    <3>3. cache'.held[ctrl.key] \in Packets
      BY <3>2, <2>1, MapsAre
    <3>4. cache'.held[ctrl.key].session \in 0..VideoSessions
      BY <3>3 DEF Packets
    <3>. QED  BY <2>0, <3>1, <3>4 DEF CtrlShape
  <2>2. CASE ctrl.key \notin DOMAIN cache'.held
    <3>1. ctrl' = [ctrl EXCEPT !.at = "recv"]
      BY <2>2 DEF LookUp
    <3>. QED  BY <2>0, <3>1 DEF CtrlShape
  <2>. QED  BY <2>1, <2>2
<1>4. VideoShape'
  BY <1>1, <1>2, <1>3 DEF VideoInv, VideoShape, CtrlShape
<1>5. InOrder' /\ Remembered'
  BY <1>1, <1>2 DEF VideoInv, InOrder, Remembered
<1>6. PacedInSession'
  BY <1>1, <1>2 DEF VideoInv, PacedInSession
<1>. QED  BY <1>3, <1>4, <1>5, <1>6 DEF VideoInv

\* The packet is sent again.
LEMMA ResendKeeps == ASSUME VideoInv, Resend PROVE VideoInv' /\ ctrl'.at # "lookup"
<1>1. ctrl' = [at |-> "recv", key |-> NoKey, found |-> 0] /\ UNCHANGED <<enc, chan, pacer, cache, supp, gap>>
  BY DEF Resend
<1>2. ctrl' \in CtrlShape /\ ctrl'.at = "recv"
  BY <1>1, VideoAssumption DEF CtrlShape
<1>. QED  BY <1>1, <1>2 DEF VideoInv, VideoShape, CtrlShape, InOrder, PacedInSession, Remembered

\* Time passes: all ages grow together.
LEMMA SenderTickKeeps == ASSUME VideoInv, SenderTick PROVE VideoInv'
<1>. USE VideoAssumption
<1>. DEFINE held == [k \in DOMAIN cache.held |-> [cache.held[k] EXCEPT !.age = Older(@, CacheTtl + 1)]]
            last == [k \in DOMAIN supp.last |-> Older(supp.last[k], Retention + 1)]
<1>1. /\ cache' = [cache EXCEPT !.held = [k \in DOMAIN cache.held |->
                                           [cache.held[k] EXCEPT !.age = Older(@, CacheTtl + 1)]],
                                  !.order = Aged(@, CacheTtl + 1)]
      /\ supp' = [last |-> last, order |-> Aged(supp.order, Retention + 1)]
      /\ gap' = [k \in Keys |-> Older(gap[k], SuppressFor)]
      /\ UNCHANGED <<enc, chan, pacer, ctrl>>
  BY DEF SenderTick
<1>2. /\ cache \in CacheType /\ cache.held \in Maps(Packets) /\ cache.order \in Seq(Entries(CacheTtl))
      /\ cache.bytes \in Nat
      /\ cache.bytes = Cardinality(DOMAIN cache.held) /\ Listed(Ages(cache.held), cache.order)
  BY VideoParts DEF CacheOK, CacheType
<1>3. /\ supp.last \in Maps(0..(Retention + 1)) /\ supp.order \in Seq(Entries(Retention))
      /\ Listed(supp.last, supp.order) /\ Retention \in Nat
  BY VideoParts DEF SuppOK, SuppType, Retention
<1>4. DOMAIN cache.held \subseteq Keys /\ cache.held \in [DOMAIN cache.held -> Packets]
  BY <1>2, MapsAre
<1>5. DOMAIN supp.last \subseteq Keys /\ supp.last \in [DOMAIN supp.last -> 0..(Retention + 1)]
  BY <1>3, MapsAre
<1>6. ASSUME NEW k \in DOMAIN cache.held
      PROVE  /\ held[k] \in Packets /\ held[k].session = cache.held[k].session
             /\ held[k].age = Older(cache.held[k].age, CacheTtl + 1)
  <2>1. cache.held[k] \in Packets
    BY <1>4
  <2>2. Older(cache.held[k].age, CacheTtl + 1) \in 0..(CacheTtl + 1)
    BY <2>1 DEF Packets, Older
  <2>. QED  BY <2>1, <2>2 DEF Packets
<1>7. held \in Maps(Packets) /\ DOMAIN held = DOMAIN cache.held
  <2>1. held \in [DOMAIN cache.held -> Packets] /\ DOMAIN held = DOMAIN cache.held
    BY <1>6
  <2>. HIDE DEF held
  <2>. QED  BY <2>1, <1>4, MapsAre
<1>71. /\ cache'.held = held /\ cache'.order = Aged(cache.order, CacheTtl + 1)
       /\ cache'.bytes = cache.bytes
       /\ cache' = [held |-> cache'.held, order |-> cache'.order, bytes |-> cache'.bytes]
  <2>. DEFINE H == [k \in DOMAIN cache.held |-> [cache.held[k] EXCEPT !.age = Older(@, CacheTtl + 1)]]
  <2>1. H = held
    OBVIOUS
  <2>2. cache = [held |-> cache.held, order |-> cache.order, bytes |-> cache.bytes]
    BY <1>2 DEF CacheType
  <2>3. cache' = [cache EXCEPT !.held = H, !.order = Aged(cache.order, CacheTtl + 1)]
    BY <1>1
  <2>. HIDE DEF H, held
  <2>4. cache' = [held |-> H, order |-> Aged(cache.order, CacheTtl + 1), bytes |-> cache.bytes]
    BY <2>2, <2>3
  <2>. QED  BY <2>1, <2>4
<1>. HIDE DEF held
<1>8. /\ Aged(cache.order, CacheTtl + 1) \in Seq(Entries(CacheTtl))
      /\ Listed(Ages(held), Aged(cache.order, CacheTtl + 1))
  <2>1. /\ DOMAIN Ages(held) = DOMAIN Ages(cache.held)
        /\ \A k \in DOMAIN Ages(held) : Ages(held)[k] = Older(Ages(cache.held)[k], CacheTtl + 1)
    BY <1>6, <1>7 DEF Ages
  <2>. QED  BY <2>1, <1>2, ListedAged
<1>9. /\ cache' \in CacheType /\ cache'.held = held /\ cache'.bytes = cache.bytes
      /\ cache'.order = Aged(cache.order, CacheTtl + 1)
  BY <1>2, <1>7, <1>71, <1>8 DEF CacheType
<1>10. CacheOK(cache')
  BY <1>2, <1>7, <1>8, <1>9 DEF CacheOK
<1>11. ASSUME NEW k \in DOMAIN supp.last PROVE last[k] \in 0..(Retention + 1)
  <2>1. supp.last[k] \in 0..(Retention + 1)
    BY <1>5
  <2>. QED  BY <1>3, <2>1 DEF Older
<1>12. last \in Maps(0..(Retention + 1)) /\ DOMAIN last = DOMAIN supp.last
  <2>1. last \in [DOMAIN supp.last -> 0..(Retention + 1)] /\ DOMAIN last = DOMAIN supp.last
    BY <1>11
  <2>. HIDE DEF last
  <2>. QED  BY <2>1, <1>5, MapsAre
<1>13. \A k \in DOMAIN last : last[k] = Older(supp.last[k], Retention + 1)
  OBVIOUS
<1>. HIDE DEF last
<1>14. /\ Aged(supp.order, Retention + 1) \in Seq(Entries(Retention))
       /\ Listed(last, Aged(supp.order, Retention + 1))
  BY <1>3, <1>12, <1>13, ListedAged
<1>15. SuppOK(supp') /\ supp'.last = last
  BY <1>1, <1>12, <1>14 DEF SuppOK, SuppType
<1>16. gap' \in [Keys -> 0..SuppressFor] /\ \A k \in Keys : gap'[k] = Older(gap[k], SuppressFor)
  <2>1. ASSUME NEW k \in Keys PROVE Older(gap[k], SuppressFor) \in 0..SuppressFor
    <3>1. gap[k] \in 0..SuppressFor
      BY VideoParts
    <3>. QED  BY <3>1 DEF Older
  <2>. QED  BY <1>1, <2>1
<1>17. VideoShape'
  BY <1>1, <1>10, <1>15, <1>16 DEF VideoInv, VideoShape
<1>18. InOrder'
  BY <1>1, <1>7, <1>9 DEF VideoInv, InOrder
<1>19. PacedInSession'
  BY <1>1, <1>6, <1>7, <1>9 DEF VideoInv, PacedInSession
<1>20. Remembered'
  <2>1. ASSUME NEW k \in Keys, gap'[k] < SuppressFor
        PROVE  k \in DOMAIN supp'.last /\ supp'.last[k] <= gap'[k]
    <3>1. gap[k] \in 0..SuppressFor /\ gap'[k] = Older(gap[k], SuppressFor)
      BY <1>16, VideoParts
    <3>2. gap[k] < SuppressFor /\ gap'[k] = gap[k] + 1
      BY <2>1, <3>1 DEF Older
    <3>3. k \in DOMAIN supp.last /\ supp.last[k] <= gap[k]
      BY <3>2 DEF VideoInv, Remembered
    <3>4. supp.last[k] \in 0..(Retention + 1)
      BY <3>3, <1>5
    <3>5. last[k] = Older(supp.last[k], Retention + 1)
      BY <3>3, <1>12, <1>13
    <3>6. last[k] <= gap[k] + 1
      BY <1>3, <3>1, <3>3, <3>4, <3>5 DEF Older
    <3>. QED  BY <3>2, <3>3, <3>6, <1>12, <1>15
  <2>. QED  BY <2>1 DEF Remembered
<1>. QED  BY <1>17, <1>18, <1>19, <1>20 DEF VideoInv

\* Every step keeps the invariant, and a packet is allowed once per interval.
LEMMA VideoKeeps ==
  ASSUME VideoInv, VideoSenderNext \/ UNCHANGED senderVars
  PROVE  /\ VideoInv'
         /\ ctrl.at = "recv" /\ ctrl'.at = "lookup" => gap[ctrl'.key] >= SuppressFor
<1>1. CASE EncodeThread
  <2>1. VideoInv'
    BY <1>1, OnSampleKeeps, EncodeEndsKeeps, BeginFlushKeeps, FlushedKeeps, ClearCacheKeeps,
       PublishKeeps DEF EncodeThread
  <2>2. ctrl' = ctrl
    BY <1>1 DEF EncodeThread, OnSample, OnPacerError, BeginFlush, Flushed, FlushFails,
                ClearCache, PublishSession
  <2>. QED  BY <2>1, <2>2
<1>2. CASE PacerThread
  <2>1. VideoInv'
    BY <1>2, PacerReceivesKeeps, BarrierAbandonedKeeps, PacerSendsKeeps, PacerFailsKeeps
       DEF PacerThread
  <2>2. ctrl' = ctrl
    BY <1>2 DEF PacerThread, PacerReceives, BarrierAbandoned, PacerSends, PacerFails
  <2>. QED  BY <2>1, <2>2
<1>3. CASE ControlThread
  <2>1. CASE LookUp \/ Resend
    BY <2>1, LookUpKeeps, ResendKeeps
  <2>2. CASE \E n \in 1..VideoSessions, k \in NackKeys : NackArrives(n, k)
    BY <2>2, NackKeeps
  <2>. QED  BY <1>3, <2>1, <2>2 DEF ControlThread
<1>4. CASE SenderTick
  <2>1. ctrl' = ctrl
    BY <1>4 DEF SenderTick
  <2>. QED  BY <1>4, <2>1, SenderTickKeeps
<1>5. CASE UNCHANGED senderVars
  BY <1>5 DEF senderVars, VideoInv, VideoShape, InOrder, PacedInSession, Remembered
<1>. QED  BY <1>1, <1>2, <1>3, <1>4, <1>5 DEF VideoSenderNext

\* What the invariant is for.
LEMMA VideoInvImplies == VideoInv => PacedInSession /\ CacheEvictable /\ VideoSenderTypeOK
<1>. SUFFICES ASSUME VideoInv PROVE CacheEvictable /\ VideoSenderTypeOK
  BY DEF VideoInv
<1>. USE VideoAssumption
<1>1. /\ cache.held \in Maps(Packets) /\ cache.order \in Seq(Entries(CacheTtl))
      /\ cache.bytes = Cardinality(DOMAIN cache.held) /\ Listed(Ages(cache.held), cache.order)
  BY VideoParts DEF CacheOK, CacheType
<1>2. /\ supp.last \in Maps(0..(Retention + 1)) /\ supp.order \in Seq(Entries(Retention))
      /\ Listed(supp.last, supp.order)
  BY VideoParts DEF SuppOK, SuppType
<1>3. DOMAIN cache.order = 1..Len(cache.order) /\ DOMAIN supp.order = 1..Len(supp.order)
  BY <1>1, <1>2
<1>4. CacheEvictable
  <2>1. \A k \in DOMAIN cache.held : \E n \in DOMAIN cache.order :
            cache.order[n] = [key |-> k, age |-> cache.held[k].age]
    <3>1. DOMAIN Ages(cache.held) = DOMAIN cache.held
          /\ \A k \in DOMAIN cache.held : Ages(cache.held)[k] = cache.held[k].age
      BY DEF Ages
    <3>. QED  BY <3>1, <1>1, <1>3 DEF Listed
  <2>2. \A k \in DOMAIN supp.last : \E n \in DOMAIN supp.order :
            supp.order[n] = [key |-> k, age |-> supp.last[k]]
    BY <1>2, <1>3 DEF Listed
  <2>. QED  BY <2>1, <2>2, <1>1 DEF CacheEvictable
<1>5. DOMAIN cache.held \subseteq Keys /\ DOMAIN supp.last \subseteq Keys
  BY <1>1, <1>2, MapsAre
<1>6. VideoSenderTypeOK
  <2>1. /\ enc.at \in {"run", "barrier", "clear", "publish", "ended"}
        /\ enc.session \in 1..VideoSessions /\ enc.frame \in 0..VideoFrames
    BY DEF VideoInv, VideoShape
  <2>2. pacer.at \in {"recv", "send", "barrier", "dead"}
        /\ pacer.next \in 0..DataPackets /\ pacer.error \in BOOLEAN
    BY DEF VideoInv, VideoShape
  <2>3. Len(chan) <= SendQueueDepth /\ ctrl.at \in {"recv", "lookup", "resend"}
        /\ gap \in [Keys -> 0..SuppressFor]
    BY DEF VideoInv, VideoShape
  <2>. QED  BY <2>1, <2>2, <2>3, <1>5 DEF VideoSenderTypeOK
<1>. QED  BY <1>4, <1>6

\* Only the worker of the session that the owner runs sends.
SoundInv ==
    /\ sending \in [Workers -> [at : {"none", "run", "done", "failed"}, seq : Nat]]
    /\ audioOwner \in [at : {"run", "close", "join", "aborted"}, session : Workers]
    /\ \A s \in Workers : sending[s].at = "run" => s = audioOwner.session
    /\ sent.session \in 0..audioOwner.session

\* The sound begins so.
LEMMA SoundInitially == AudioCaptureInit => SoundInv
<1>. SUFFICES ASSUME AudioCaptureInit PROVE SoundInv
  OBVIOUS
<1>1. 1 \in Workers /\ Workers \subseteq Nat
  BY CaptureAssumption DEF Workers
<1>2. sending \in [Workers -> [at : {"none", "run", "done", "failed"}, seq : Nat]]
  BY DEF AudioCaptureInit
<1>3. audioOwner \in [at : {"run", "close", "join", "aborted"}, session : Workers]
      /\ audioOwner.session = 1
  BY <1>1 DEF AudioCaptureInit
<1>4. \A s \in Workers : sending[s].at = "run" => s = 1
  BY DEF AudioCaptureInit
<1>5. sent.session = 0
  BY DEF AudioCaptureInit
<1>. QED  BY <1>2, <1>3, <1>4, <1>5 DEF SoundInv

\* Every step keeps this, and the sessions that send do not go back.
LEMMA SoundKeeps ==
  ASSUME SoundInv, AudioCaptureNext \/ UNCHANGED captureVars
  PROVE  SoundInv' /\ sent'.session >= sent.session
<1>0. Workers \subseteq Nat /\ \A s \in Workers : s >= 1 /\ (s < CaptureSessions => s + 1 \in Workers)
  BY CaptureAssumption DEF Workers
<1>01. audioOwner.session \in Workers /\ sent.session \in 0..audioOwner.session
  BY DEF SoundInv
<1>02. sent.session >= sent.session
  BY <1>0, <1>01
<1>1. CASE UNCHANGED <<sending, audioOwner, sent>>
  BY <1>1, <1>02 DEF SoundInv
<1>2. CASE DeviceCaptures \/ UNCHANGED captureVars
  <2>1. UNCHANGED <<sending, audioOwner, sent>>
    BY <1>2 DEF DeviceCaptures, captureVars
  <2>. QED  BY <2>1, <1>1
<1>3. ASSUME NEW s \in Workers, WorkerNext(s)
      PROVE  SoundInv' /\ sent'.session >= sent.session
  <2>1. CASE CapturePass(s) \/ CaptureStops(s) \/ CaptureFails(s)
    <3>1. UNCHANGED <<sending, audioOwner, sent>>
      BY <2>1 DEF CapturePass, CaptureStops, CaptureFails, CaptureEnds
    <3>. QED  BY <3>1, <1>1
  <2>2. CASE SendSound(s)
    <3>1. /\ sending[s].at = "run" /\ sending' = [sending EXCEPT ![s].seq = @ + 1]
          /\ audioOwner' = audioOwner /\ sent'.session = s
      BY <2>2 DEF SendSound
    <3>2. s = audioOwner.session
      BY <3>1 DEF SoundInv
    <3>3. sending' \in [Workers -> [at : {"none", "run", "done", "failed"}, seq : Nat]]
          /\ \A x \in Workers : sending'[x].at = sending[x].at
      BY <3>1 DEF SoundInv
    <3>4. sent'.session \in 0..audioOwner.session /\ sent'.session >= sent.session
      BY <3>1, <3>2, <1>0, <1>01
    <3>. QED  BY <3>1, <3>3, <3>4 DEF SoundInv
  <2>3. CASE SendFails(s) \/ SendEnds(s)
    <3>1. PICK a \in {"done", "failed"} : sending' = [sending EXCEPT ![s].at = a]
      BY <2>3 DEF SendFails, SendEnds
    <3>2. audioOwner' = audioOwner /\ sent' = sent
      BY <2>3 DEF SendFails, SendEnds
    <3>3. sending' \in [Workers -> [at : {"none", "run", "done", "failed"}, seq : Nat]]
          /\ \A x \in Workers : sending'[x].at = "run" => sending[x].at = "run"
      BY <3>1 DEF SoundInv
    <3>. QED  BY <3>2, <3>3, <1>02 DEF SoundInv
  <2>. QED  BY <1>3, <2>1, <2>2, <2>3 DEF WorkerNext
<1>4. CASE OwnerStops \/ OwnerCloses \/ OwnerGivesUp
  <2>1. PICK a \in {"close", "join", "aborted"} : audioOwner' = [audioOwner EXCEPT !.at = a]
    BY <1>4 DEF OwnerStops, OwnerCloses, OwnerGivesUp
  <2>2. sending' = sending /\ sent' = sent
    BY <1>4 DEF OwnerStops, OwnerCloses, OwnerGivesUp
  <2>3. audioOwner' \in [at : {"run", "close", "join", "aborted"}, session : Workers]
        /\ audioOwner'.session = audioOwner.session
    BY <2>1 DEF SoundInv
  <2>. QED  BY <2>2, <2>3, <1>02 DEF SoundInv
<1>5. CASE OwnerRestarts
  <2>. DEFINE o == audioOwner.session  s == audioOwner.session + 1
  <2>1. /\ Joined(o) /\ o < CaptureSessions /\ sent' = sent
        /\ audioOwner' = [at |-> "run", session |-> s]
        /\ sending' = [sending EXCEPT ![s].at = "run"]
    BY <1>5 DEF OwnerRestarts
  <2>2. s \in Workers /\ o \in Workers /\ s # o
    BY <2>1, <1>0, <1>01
  <2>. HIDE DEF s
  <2>3. sending[o].at # "run"
    BY <2>1 DEF Joined, Ended
  <2>4. \A x \in Workers : sending[x].at # "run"
    BY <2>3 DEF SoundInv
  <2>5. sending' \in [Workers -> [at : {"none", "run", "done", "failed"}, seq : Nat]]
        /\ \A x \in Workers : sending'[x].at = "run" => x = s
    BY <2>1, <2>2, <2>4 DEF SoundInv
  <2>6. audioOwner' \in [at : {"run", "close", "join", "aborted"}, session : Workers]
        /\ audioOwner'.session = s
    BY <2>1, <2>2
  <2>7. sent'.session \in 0..s
    BY <2>1, <1>0, <1>01 DEF s
  <2>. QED  BY <2>1, <2>5, <2>6, <2>7, <1>02 DEF SoundInv
<1>. QED  BY <1>2, <1>3, <1>4, <1>5 DEF AudioCaptureNext

-----------------------------------------------------------------------------
(* The stamps of the sound: what the capture worker has of a device's units.  *)

\* What the device gives, and what the capture worker has of it.
Units    == [time : Nat, qpc : BOOLEAN, gap : BOOLEAN]
Mappings == {m \in [qpc : Nat, media : Nat] : m.media >= m.qpc}
Captures == [at : {"none", "run", "done"}, units : Seq(Nat), first : Nat \cup {NoTime},
             mapper : {NoMapper} \cup Mappings, exact : BOOLEAN]

\* A frame whose units all had a position carries the time of its first sample.
SoundFrames == {f \in [stamp : Int, time : Int, exact : BOOLEAN] : f.exact => f.stamp = f.time}

\* The units that wait for a frame to be full follow each other.
InARow(u) == \A i \in DOMAIN u : u[i] = u[1] + (i - 1)

\* The pending units: their stamp is the time of the first, by the mapper.
PendingOK(c) ==
    /\ c \in Captures
    /\ InARow(c.units)
    /\ (c.first = NoTime) <=> (c.units = <<>>)
    /\ c.exact /\ c.units # <<>> => c.mapper # NoMapper /\ c.first = OnScale(c)

\* A unit is the next one, or the device says that it is not.
Follows(t, u) == u.gap \/ u.time = t + 1
FitsUnits(units, u) == units # <<>> => Follows(units[Len(units)], u)

\* The queue of frames.
SoundQueues == [items : Seq(SoundFrames), closed : BOOLEAN]
FrameQueueOK(q) == q \in SoundQueues /\ Len(q.items) <= AudioQueueDepth

\* One step of the two loops of a pass.
ReadStep(none, c, u) == ReadUnit(c, u)
CutStep(none, w, i)  == CutFrame(w, i)
RS == INSTANCE FoldLemmas WITH Op <- ReadStep
CS == INSTANCE FoldLemmas WITH Op <- CutStep

\* The two changes that a pass makes to the record of the pending units.
Pending(c, units, first) == [c EXCEPT !.units = units, !.first = first]
Read(c, mapper, e)       == [c EXCEPT !.mapper = mapper, !.exact = @ /\ e]

\* What they leave.
LEMMA PendingRecord ==
  ASSUME NEW c \in Captures, NEW units \in Seq(Nat), NEW first \in Nat \cup {NoTime}
  PROVE  /\ Pending(c, units, first) \in Captures
         /\ Pending(c, units, first).at = c.at
         /\ Pending(c, units, first).units = units
         /\ Pending(c, units, first).first = first
         /\ Pending(c, units, first).mapper = c.mapper
         /\ Pending(c, units, first).exact = c.exact
BY DEF Captures, Pending

\* What they leave.
LEMMA ReadRecord ==
  ASSUME NEW c \in Captures, NEW mapper \in {NoMapper} \cup Mappings, NEW e \in BOOLEAN
  PROVE  /\ Read(c, mapper, e) \in Captures
         /\ Read(c, mapper, e).at = c.at
         /\ Read(c, mapper, e).units = c.units
         /\ Read(c, mapper, e).first = c.first
         /\ Read(c, mapper, e).mapper = mapper
         /\ Read(c, mapper, e).exact = (c.exact /\ e)
BY DEF Captures, Read

\* The units behind the first n.
Behind(u, n) == SubSeq(u, n + 1, Len(u))

\* They are in a row as well, and begin n units later.
LEMMA BehindIs ==
  ASSUME NEW u \in Seq(Nat), InARow(u), NEW n \in Nat \ {0}, n <= Len(u)
  PROVE  /\ Behind(u, n) \in Seq(Nat) /\ Len(Behind(u, n)) = Len(u) - n
         /\ InARow(Behind(u, n))
         /\ n = Len(u) <=> Behind(u, n) = <<>>
         /\ Behind(u, n) # <<>> => /\ Behind(u, n)[1] = u[1] + n
                                   /\ Behind(u, n)[Len(Behind(u, n))] = u[Len(u)]
<1>. DEFINE r == Behind(u, n)  l == Len(u)
<1>1. l \in Nat /\ DOMAIN u = 1..l /\ n \in Nat /\ n >= 1 /\ l - n \in Nat
  OBVIOUS
<1>2. \A i \in (n + 1)..l : u[i] \in Nat
  BY <1>1
<1>3. n + 1 \in Int /\ l \in Int /\ l - (n + 1) + 1 = l - n
  BY <1>1
<1>4. r \in Seq(Nat) /\ Len(r) = l - n /\ \A i \in 1..(l - n) : r[i] = u[(n + 1) + i - 1]
  <2>1. /\ SubSeq(u, n + 1, l) \in Seq(Nat)
        /\ Len(SubSeq(u, n + 1, l)) = IF n + 1 <= l THEN l - (n + 1) + 1 ELSE 0
        /\ \A i \in 1 .. l - (n + 1) + 1 : SubSeq(u, n + 1, l)[i] = u[(n + 1) + i - 1]
    <3>. HIDE DEF l
    <3>. QED  BY <1>2, <1>3, SubSeqProperties
  <2>2. r = SubSeq(u, n + 1, l)
    BY DEF Behind
  <2>. HIDE DEF r, l
  <2>. QED  BY <2>1, <2>2, <1>1, <1>3
<1>. HIDE DEF r
<1>5. DOMAIN r = 1..(l - n)
  BY <1>4
<1>6. \A i \in 1..l : u[i] = u[1] + (i - 1)
  BY <1>1 DEF InARow
<1>7. \A i \in 1..(l - n) : r[i] = u[1] + (n + i - 1) /\ u[1] \in Nat
  <2>1. ASSUME NEW i \in 1..(l - n) PROVE r[i] = u[1] + (n + i - 1) /\ u[1] \in Nat
    <3>1. (n + 1) + i - 1 = n + i /\ n + i \in 1..l /\ 1 \in 1..l
      BY <1>1
    <3>2. r[i] = u[n + i]
      BY <1>4, <3>1
    <3>3. u[n + i] = u[1] + (n + i - 1)
      BY <1>6, <3>1
    <3>. QED  BY <3>1, <3>2, <3>3
  <2>. QED  BY <2>1
<1>8. InARow(r)
  <2>1. ASSUME NEW i \in 1..(l - n) PROVE r[i] = r[1] + (i - 1)
    <3>1. 1 \in 1..(l - n) /\ i \in Nat
      BY <1>1
    <3>2. r[i] = u[1] + (n + i - 1) /\ r[1] = u[1] + (n + 1 - 1) /\ u[1] \in Nat
      BY <1>7, <3>1
    <3>. QED  BY <1>1, <3>1, <3>2
  <2>. QED  BY <2>1, <1>5 DEF InARow
<1>9. n = l <=> r = <<>>
  <2>1. r = <<>> <=> Len(r) = 0
    BY <1>4
  <2>2. Len(r) = l - n
    BY <1>4
  <2>. HIDE DEF l
  <2>. QED  BY <1>1, <2>1, <2>2
<1>10. r # <<>> => r[1] = u[1] + n /\ r[Len(r)] = u[l]
  <2>. SUFFICES ASSUME r # <<>> PROVE r[1] = u[1] + n /\ r[Len(r)] = u[l]
    OBVIOUS
  <2>1. 1 \in 1..(l - n) /\ l - n \in 1..(l - n)
    <3>1. n # l
      BY <1>9
    <3>. HIDE DEF l
    <3>. QED  BY <1>1, <3>1
  <2>2. r[1] = u[1] + (n + 1 - 1) /\ r[l - n] = u[(n + 1) + (l - n) - 1] /\ u[1] \in Nat
    BY <1>4, <1>7, <2>1
  <2>3. n + 1 - 1 = n /\ (n + 1) + (l - n) - 1 = l
    BY <1>1
  <2>. QED  BY <1>4, <2>2, <2>3
<1>. QED  BY <1>4, <1>8, <1>9, <1>10 DEF r

\* One unit is read: it is the last of the pending ones, which are as good as before.
LEMMA ReadOne ==
  ASSUME NEW c, PendingOK(c), NEW u \in Units, now \in Nat, u.time < now, FitsUnits(c.units, u)
  PROVE  LET r == ReadUnit(c, u)
         IN  /\ PendingOK(r) /\ r.at = c.at
             /\ r.units # <<>> /\ r.units[Len(r.units)] = u.time
<1>. DEFINE mapper == Anchored(c.mapper, u)
            stamp  == Mapped(mapper, u)
            units  == IF u.gap THEN <<u.time>> ELSE Append(c.units, u.time)
            first  == IF u.gap \/ c.units = <<>> THEN stamp ELSE c.first
            r      == ReadUnit(c, u)
<1>0. c \in Captures
  BY DEF PendingOK
<1>1. /\ c.units \in Seq(Nat)
      /\ c.first \in Nat \cup {NoTime} /\ c.mapper \in {NoMapper} \cup Mappings
      /\ c.exact \in BOOLEAN
  BY <1>0 DEF Captures
<1>2. u.time \in Nat /\ u.qpc \in BOOLEAN /\ u.gap \in BOOLEAN
  BY DEF Units
<1>4. mapper \in {NoMapper} \cup Mappings /\ (u.qpc => mapper # NoMapper /\ mapper \in Mappings)
  <2>1. CASE u.qpc /\ c.mapper = NoMapper
    <3>1. mapper = [qpc |-> u.time, media |-> now - 1]
      BY <2>1 DEF Anchored
    <3>2. u.time \in Nat /\ now - 1 \in Nat /\ now - 1 >= u.time
      BY <1>2
    <3>3. mapper \in Mappings /\ mapper.qpc # NoTime
      BY <3>1, <3>2 DEF Mappings, NoTime
    <3>. HIDE DEF mapper
    <3>. QED  BY <3>3 DEF NoMapper
  <2>2. CASE ~(u.qpc /\ c.mapper = NoMapper)
    <3>1. mapper = c.mapper
      BY <2>2 DEF Anchored
    <3>. HIDE DEF mapper
    <3>. QED  BY <1>1, <2>2, <3>1
  <2>. QED  BY <2>1, <2>2
<1>5. stamp \in Nat /\ (u.qpc => stamp = u.time + (mapper.media - mapper.qpc))
  <2>. HIDE DEF mapper
  <2>1. CASE u.qpc
    <3>1. mapper.media \in Nat /\ mapper.qpc \in Nat /\ mapper.media >= mapper.qpc
      BY <2>1, <1>4 DEF Mappings
    <3>2. stamp = mapper.media + (u.time - mapper.qpc)
      BY <2>1 DEF Mapped
    <3>. QED  BY <1>2, <3>1, <3>2
  <2>2. CASE ~u.qpc
    <3>1. stamp = now - 1
      BY <2>2 DEF Mapped
    <3>. QED  BY <2>2, <1>2, <3>1
  <2>. QED  BY <2>1, <2>2
<1>6. /\ units \in Seq(Nat) /\ units # <<>> /\ units[Len(units)] = u.time
      /\ (u.gap \/ c.units = <<>> => units[1] = u.time)
      /\ (~u.gap /\ c.units # <<>> => units[1] = c.units[1])
  <2>1. CASE u.gap
    BY <1>2, <2>1
  <2>2. CASE ~u.gap
    <3>1. units = Append(c.units, u.time)
      BY <2>2
    <3>2. Len(c.units) \in Nat /\ (c.units # <<>> => Len(c.units) > 0)
          /\ (c.units = <<>> => Len(c.units) = 0)
      BY <1>1
    <3>. HIDE DEF units
    <3>. QED  BY <1>1, <1>2, <2>2, <3>1, <3>2
  <2>. QED  BY <2>1, <2>2
<1>7. InARow(units)
  <2>1. CASE u.gap
    BY <2>1, <1>2 DEF InARow
  <2>2. CASE ~u.gap
    <3>1. units = Append(c.units, u.time) /\ Len(c.units) \in Nat
          /\ Len(units) = Len(c.units) + 1 /\ DOMAIN units = 1..Len(units)
      BY <1>1, <1>2, <2>2
    <3>. HIDE DEF units
    <3>2. ASSUME NEW i \in DOMAIN units PROVE units[i] = units[1] + (i - 1)
      <4>1. CASE c.units = <<>>
        <5>1. i = 1 /\ Len(units) = 1 /\ units[1] = u.time
          BY <3>1, <4>1, <1>2
        <5>. QED  BY <5>1, <1>2
      <4>2. CASE c.units # <<>>
        <5>1. Len(c.units) \in 1..Len(c.units) /\ 1 \in 1..Len(c.units) /\ DOMAIN c.units = 1..Len(c.units)
          BY <4>2, <1>1
        <5>2. c.units[1] \in Nat /\ c.units[Len(c.units)] = c.units[1] + (Len(c.units) - 1)
          BY <5>1, <1>1 DEF PendingOK, InARow
        <5>3. u.time = c.units[Len(c.units)] + 1
          BY <2>2, <4>2 DEF FitsUnits, Follows
        <5>4. units[1] = c.units[1]
          BY <1>6, <2>2, <4>2
        <5>5. CASE i = Len(c.units) + 1
          <6>1. units[i] = u.time
            BY <5>5, <3>1, <1>6
          <6>. QED  BY <5>2, <5>3, <5>4, <5>5, <6>1, <3>1
        <5>6. CASE i \in 1..Len(c.units)
          <6>1. units[i] = c.units[i]
            BY <5>6, <3>1, <1>1, <1>2
          <6>2. c.units[i] = c.units[1] + (i - 1)
            BY <5>6, <5>1 DEF PendingOK, InARow
          <6>. QED  BY <6>1, <6>2, <5>4
        <5>7. i = Len(c.units) + 1 \/ i \in 1..Len(c.units)
          BY <3>1
        <5>. QED  BY <5>5, <5>6, <5>7
      <4>. QED  BY <4>1, <4>2
    <3>. QED  BY <3>2 DEF InARow
  <2>. QED  BY <2>1, <2>2
<1>8. first \in Nat
  <2>1. CASE u.gap \/ c.units = <<>>
    <3>. HIDE DEF stamp
    <3>. QED  BY <2>1, <1>5
  <2>2. CASE ~u.gap /\ c.units # <<>>
    <3>1. first = c.first /\ c.first # NoTime
      BY <2>2 DEF PendingOK
    <3>. HIDE DEF first
    <3>. QED  BY <1>1, <3>1
  <2>. QED  BY <2>1, <2>2
<1>9. c.exact /\ u.qpc => mapper # NoMapper /\ first = units[1] + (mapper.media - mapper.qpc)
  <2>. SUFFICES ASSUME c.exact, u.qpc
                PROVE  mapper # NoMapper /\ first = units[1] + (mapper.media - mapper.qpc)
    OBVIOUS
  <2>1. CASE u.gap \/ c.units = <<>>
    <3>1. units[1] = u.time /\ first = stamp
      BY <2>1, <1>6
    <3>. HIDE DEF units, first, stamp, mapper
    <3>. QED  BY <1>4, <1>5, <3>1
  <2>2. CASE ~u.gap /\ c.units # <<>>
    <3>1. c.mapper # NoMapper /\ c.first = OnScale(c)
      BY <2>2 DEF PendingOK
    <3>2. mapper = c.mapper
      BY <3>1 DEF Anchored
    <3>3. units[1] = c.units[1] /\ first = c.first
      BY <2>2, <1>6
    <3>4. c.first = c.units[1] + (c.mapper.media - c.mapper.qpc)
      BY <3>1 DEF OnScale
    <3>. HIDE DEF units, first, mapper
    <3>. QED  BY <3>1, <3>2, <3>3, <3>4
  <2>. QED  BY <2>1, <2>2
<1>10. r = Read(Pending(c, units, first), mapper, u.qpc)
  <2>. DEFINE b == AppendUnit(c, u, stamp)
  <2>1. b = Pending(c, units, first)
    <3>. HIDE DEF stamp
    <3>1. b = [c EXCEPT !.units = IF u.gap THEN <<u.time>> ELSE Append(c.units, u.time),
                        !.first = IF u.gap \/ c.units = <<>> THEN stamp ELSE c.first]
      BY DEF AppendUnit
    <3>. QED  BY <3>1 DEF Pending
  <2>2. r = Read(b, mapper, u.qpc)
    BY DEF ReadUnit, Read
  <2>. HIDE DEF r, b
  <2>. QED  BY <2>1, <2>2
<1>. HIDE DEF mapper, stamp, units, first, r
<1>11. /\ r \in Captures /\ r.at = c.at /\ r.units = units /\ r.first = first /\ r.mapper = mapper
       /\ r.exact = (c.exact /\ u.qpc)
  <2>. DEFINE b == Pending(c, units, first)
  <2>1. /\ b \in Captures
        /\ b.at = c.at /\ b.units = units /\ b.first = first /\ b.mapper = c.mapper
        /\ b.exact = c.exact
    BY <1>0, <1>6, <1>8, PendingRecord
  <2>2. r = Read(b, mapper, u.qpc)
    BY <1>10
  <2>. HIDE DEF b
  <2>3. /\ r \in Captures
        /\ r.at = b.at /\ r.units = b.units /\ r.first = b.first /\ r.mapper = mapper
        /\ r.exact = (b.exact /\ u.qpc)
    BY <1>2, <1>4, <2>1, <2>2, ReadRecord
  <2>. QED  BY <2>1, <2>3
<1>12. r.first # NoTime /\ r.units # <<>>
  BY <1>6, <1>8, <1>11 DEF NoTime
<1>13. PendingOK(r)
  <2>1. InARow(r.units)
    BY <1>7, <1>11
  <2>2. r.exact => r.mapper # NoMapper /\ r.first = OnScale(r)
    <3>1. mapper # NoMapper => OnScale(r) = units[1] + (mapper.media - mapper.qpc)
      BY <1>11 DEF OnScale
    <3>. QED  BY <1>9, <1>11, <3>1
  <2>3. (r.first = NoTime) <=> (r.units = <<>>)
    BY <1>12
  <2>. QED  BY <1>11, <2>1, <2>2, <2>3 DEF PendingOK
<1>14. r.at = c.at /\ r.units # <<>> /\ r.units[Len(r.units)] = u.time
  BY <1>6, <1>11
<1>. QED  BY <1>13, <1>14 DEF r

\* One frame is cut, or there are not units enough for one.
LEMMA CutOne ==
  ASSUME NEW w, w = [capture |-> w.capture, queue |-> w.queue], NEW i,
         PendingOK(w.capture), FrameQueueOK(w.queue)
  PROVE  LET x == CutFrame(w, i)
         IN  /\ x = [capture |-> x.capture, queue |-> x.queue]
             /\ PendingOK(x.capture) /\ x.capture.at = w.capture.at
             /\ FrameQueueOK(x.queue)
             /\ x.capture.units # <<>> =>
                    x.capture.units[Len(x.capture.units)] = w.capture.units[Len(w.capture.units)]
                    /\ w.capture.units # <<>>
             /\ Len(x.capture.units) < FrameUnits \/ Len(x.capture.units) + 1 <= Len(w.capture.units)
<1>. DEFINE c == w.capture  n == Len(c.units)
            rest == Behind(c.units, FrameUnits)
            first == IF n = FrameUnits THEN NoTime ELSE c.first + FrameUnits
            d == Pending(c, rest, first)
            f == [stamp |-> c.first, time |-> OnScale(c), exact |-> c.exact]
            x == [queue |-> TryPush(w.queue, f), capture |-> d]
<1>0. c \in Captures
  BY DEF PendingOK
<1>1. /\ c.units \in Seq(Nat)
      /\ c.first \in Nat \cup {NoTime} /\ c.mapper \in {NoMapper} \cup Mappings
      /\ c.exact \in BOOLEAN
  BY <1>0 DEF Captures
<1>2. n \in Nat /\ DOMAIN c.units = 1..n /\ FrameUnits \in Nat /\ FrameUnits >= 1
  BY <1>1, AudioSizesAssumption
<1>3. CASE n < FrameUnits
  <2>1. CutFrame(w, i) = w
    BY <1>3 DEF CutFrame
  <2>2. Len(w.capture.units) < FrameUnits
    BY <1>3
  <2>. HIDE DEF c, n
  <2>. QED  BY <2>1, <2>2
<1>4. CASE ~(n < FrameUnits)
  <2>1. CutFrame(w, i) = x
    <3>1. CutFrame(w, i) = [queue |-> TryPush(w.queue, f),
                            capture |-> [c EXCEPT !.units = SubSeq(@, FrameUnits + 1, Len(@)),
                                !.first = IF Len(c.units) = FrameUnits THEN NoTime ELSE @ + FrameUnits]]
      BY <1>4 DEF CutFrame
    <3>2. [c EXCEPT !.units = SubSeq(@, FrameUnits + 1, Len(@)),
                    !.first = IF Len(c.units) = FrameUnits THEN NoTime ELSE @ + FrameUnits]
             = d
      BY DEF Behind, Pending
    <3>. HIDE DEF d, f, c
    <3>. QED  BY <3>1, <3>2
  <2>2. n >= FrameUnits /\ n > 0 /\ c.units # <<>> /\ n - FrameUnits \in Nat
    BY <1>1, <1>2, <1>4
  <2>3. c.first \in Nat /\ c.first # NoTime
    BY <2>2, <1>1 DEF PendingOK
  <2>4. /\ rest \in Seq(Nat) /\ Len(rest) = n - FrameUnits /\ InARow(rest)
        /\ (n = FrameUnits <=> rest = <<>>)
        /\ rest # <<>> => rest[1] = c.units[1] + FrameUnits /\ rest[Len(rest)] = c.units[n]
    <3>1. InARow(c.units) /\ FrameUnits \in Nat \ {0} /\ FrameUnits <= Len(c.units)
      BY <1>2, <2>2 DEF PendingOK
    <3>. HIDE DEF c
    <3>. QED  BY <1>1, <3>1, BehindIs
  <2>6. c.units[1] \in Nat
    BY <1>1, <1>2, <2>2
  <2>. HIDE DEF rest, c, n
  <2>7. InARow(rest)
    BY <2>4
  <2>8. (n = FrameUnits <=> rest = <<>>) /\ first \in Nat \cup {NoTime}
        /\ (first = NoTime <=> n = FrameUnits)
    <3>1. c.first + FrameUnits \in Nat
      BY <2>3, <1>2
    <3>2. first \in Nat \cup {NoTime} /\ (first = NoTime <=> n = FrameUnits)
      BY <3>1 DEF NoTime
    <3>. QED  BY <2>4, <3>2
  <2>9. rest # <<>> => /\ rest[1] = c.units[1] + FrameUnits
                       /\ rest[Len(rest)] = c.units[n]
                       /\ first = c.first + FrameUnits
    BY <2>4
  <2>10. c.exact => c.mapper # NoMapper /\ c.first = c.units[1] + (c.mapper.media - c.mapper.qpc)
                    /\ c.first = OnScale(c)
    <3>1. c.exact => c.mapper # NoMapper /\ c.first = OnScale(c)
      BY <2>2 DEF PendingOK, c
    <3>2. c.mapper # NoMapper => OnScale(c) = c.units[1] + (c.mapper.media - c.mapper.qpc)
      BY DEF OnScale
    <3>. QED  BY <3>1, <3>2
  <2>11. c.mapper # NoMapper => c.mapper.media \in Nat /\ c.mapper.qpc \in Nat
    BY <1>1 DEF Mappings
  <2>12. c.exact /\ rest # <<>> => first = rest[1] + (c.mapper.media - c.mapper.qpc)
    <3>. SUFFICES ASSUME c.exact, rest # <<>>
                  PROVE  first = rest[1] + (c.mapper.media - c.mapper.qpc)
      OBVIOUS
    <3>1. c.mapper.media \in Nat /\ c.mapper.qpc \in Nat
      BY <2>10, <2>11
    <3>2. (c.units[1] + (c.mapper.media - c.mapper.qpc)) + FrameUnits
             = (c.units[1] + FrameUnits) + (c.mapper.media - c.mapper.qpc)
      <4>. DEFINE a == c.units[1]  m == c.mapper.media  q == c.mapper.qpc
      <4>1. a \in Nat /\ m \in Nat /\ q \in Nat /\ FrameUnits \in Nat
        BY <2>6, <3>1, <1>2
      <4>. HIDE DEF a, m, q
      <4>2. (a + (m - q)) + FrameUnits = (a + FrameUnits) + (m - q)
        BY <4>1
      <4>. QED  BY <4>2 DEF a, m, q
    <3>. QED  BY <2>9, <2>10, <3>2
  <2>13. OnScale(c) \in Int
    <3>1. OnScale(c) = IF c.mapper = NoMapper THEN c.units[1]
                       ELSE c.units[1] + (c.mapper.media - c.mapper.qpc)
      BY DEF OnScale
    <3>. QED  BY <3>1, <2>6, <2>11
  <2>14. f \in SoundFrames
    <3>1. f.stamp \in Int /\ f.time \in Int /\ f.exact \in BOOLEAN
      BY <2>13, <2>3, <1>1
    <3>2. f.exact => f.stamp = f.time
      BY <2>10
    <3>. QED  BY <3>1, <3>2 DEF SoundFrames
  <2>15. FrameQueueOK(TryPush(w.queue, f))
    <3>. HIDE DEF f
    <3>1. w.queue \in SoundQueues /\ w.queue.items \in Seq(SoundFrames)
          /\ Len(w.queue.items) <= AudioQueueDepth /\ Len(w.queue.items) \in Nat
      BY DEF FrameQueueOK, SoundQueues
    <3>2. CASE w.queue.closed \/ Len(w.queue.items) >= AudioQueueDepth
      BY <3>1, <3>2 DEF TryPush, FrameQueueOK
    <3>3. CASE ~(w.queue.closed \/ Len(w.queue.items) >= AudioQueueDepth)
      <4>1. TryPush(w.queue, f) = [w.queue EXCEPT !.items = Append(@, f)]
        BY <3>3 DEF TryPush
      <4>2. Append(w.queue.items, f) \in Seq(SoundFrames)
            /\ Len(Append(w.queue.items, f)) = Len(w.queue.items) + 1
        BY <3>1, <2>14
      <4>3. Len(w.queue.items) + 1 <= AudioQueueDepth
        BY <3>1, <3>3, AudioSizesAssumption
      <4>. QED  BY <4>1, <4>2, <4>3, <3>1 DEF FrameQueueOK, SoundQueues
    <3>. QED  BY <3>2, <3>3
  <2>. HIDE DEF first
  <2>16. /\ d \in Captures /\ d.at = c.at /\ d.units = rest /\ d.first = first
         /\ d.mapper = c.mapper /\ d.exact = c.exact
    BY <1>0, <2>4, <2>8, PendingRecord
  <2>. HIDE DEF d
  <2>17. d.exact /\ d.units # <<>> => d.mapper # NoMapper /\ d.first = OnScale(d)
    <3>1. d.mapper # NoMapper => OnScale(d) = rest[1] + (c.mapper.media - c.mapper.qpc)
      BY <2>16 DEF OnScale
    <3>. QED  BY <3>1, <2>10, <2>12, <2>16
  <2>18. PendingOK(d)
    <3>1. InARow(d.units) /\ ((d.first = NoTime) <=> (d.units = <<>>))
      BY <2>7, <2>8, <2>16
    <3>. QED  BY <2>16, <2>17, <3>1 DEF PendingOK
  <2>19. Len(rest) + 1 <= n
    BY <2>4, <1>2, <2>2
  <2>20. /\ x = [capture |-> x.capture, queue |-> x.queue]
         /\ x.capture = d /\ x.queue = TryPush(w.queue, f) /\ d.at = c.at /\ d.units = rest
    BY <2>16 DEF x
  <2>. HIDE DEF x, f
  <2>21. PendingOK(x.capture) /\ x.capture.at = w.capture.at /\ FrameQueueOK(x.queue)
    BY <2>15, <2>18, <2>20 DEF c
  <2>22. x.capture.units # <<>> =>
            x.capture.units[Len(x.capture.units)] = w.capture.units[Len(w.capture.units)]
            /\ w.capture.units # <<>>
    BY <2>9, <2>20, <2>2 DEF c, n
  <2>23. Len(x.capture.units) + 1 <= Len(w.capture.units)
    BY <2>19, <2>20 DEF c, n
  <2>. QED  BY <2>1, <2>20, <2>21, <2>22, <2>23
<1>. QED  BY <1>3, <1>4

\* A pass reads the units one after the other.
LEMMA ReadSteps ==
  ASSUME NEW c, NEW t \in Seq(Units)
  PROVE  \E g : /\ ReadPackets(c, t) = g[Len(t)]
                /\ g[0] = c
                /\ \A m \in 1..Len(t) : g[m] = ReadUnit(g[m - 1], t[m])
<1>. DEFINE IsRead(f) ==
                f = [s \in SUBSET DOMAIN t |->
                       IF s = {} THEN c ELSE LET x == Max(s) IN ReadUnit(f[s \ {x}], t[x])]
            h == CHOOSE f : IsRead(f)
            n == Len(t)
<1>1. ReadPackets(c, t) = h[DOMAIN t]
  BY DEF ReadPackets, FoldLeft, MapThenFoldSet
<1>2. n \in Nat /\ DOMAIN t = 1..n
  BY LenProperties
<1>3. ASSUME NEW f PROVE RS!IsFold(f, 0, c, t, n) <=> IsRead(f)
  BY <1>2 DEF RS!IsFold, RS!Top, Max, ReadStep
<1>4. \E f : IsRead(f)
  BY <1>2, <1>3, RS!FoldExists
<1>5. IsRead(h)
  BY <1>4
<1>. HIDE DEF IsRead, h, n
<1>6. RS!IsFold(h, 0, c, t, n)
  BY <1>3, <1>5
<1>7. \E g : RS!IsRun(g, h, 0, c, t, n)
  BY <1>2, <1>6, RS!FoldRuns
<1>. QED  BY <1>1, <1>2, <1>7 DEF n, ReadStep, RS!IsRun

\* And cuts a frame for every unit, at most.
LEMMA CutSteps ==
  ASSUME NEW w, NEW t \in Seq(Nat)
  PROVE  \E g : /\ PushFrames(w, t) = g[Len(t)]
                /\ g[0] = w
                /\ \A m \in 1..Len(t) : g[m] = CutFrame(g[m - 1], t[m])
<1>. DEFINE IsCut(f) ==
                f = [s \in SUBSET DOMAIN t |->
                       IF s = {} THEN w ELSE LET x == Max(s) IN CutFrame(f[s \ {x}], t[x])]
            h == CHOOSE f : IsCut(f)
            n == Len(t)
<1>1. PushFrames(w, t) = h[DOMAIN t]
  BY DEF PushFrames, FoldLeft, MapThenFoldSet
<1>2. n \in Nat /\ DOMAIN t = 1..n
  BY LenProperties
<1>3. ASSUME NEW f PROVE CS!IsFold(f, 0, w, t, n) <=> IsCut(f)
  BY <1>2 DEF CS!IsFold, CS!Top, Max, CutStep
<1>4. \E f : IsCut(f)
  BY <1>2, <1>3, CS!FoldExists
<1>5. IsCut(h)
  BY <1>4
<1>. HIDE DEF IsCut, h, n
<1>6. CS!IsFold(h, 0, w, t, n)
  BY <1>3, <1>5
<1>7. \E g : CS!IsRun(g, h, 0, w, t, n)
  BY <1>2, <1>6, CS!FoldRuns
<1>. QED  BY <1>1, <1>2, <1>7 DEF n, CutStep, CS!IsRun

\* The queue of the device: units of times gone by, one after the other or with a gap.
DeviceOK(d, t) ==
    /\ d \in [queue : Seq(Units), lost : BOOLEAN]
    /\ \A m \in 1..Len(d.queue) : d.queue[m].time < t
    /\ \A m \in 1..(Len(d.queue) - 1) : Follows(d.queue[m].time, d.queue[m + 1])

\* All that the device holds is read: the pending units end with the last of it.
LEMMA ReadAll ==
  ASSUME NEW c, PendingOK(c), NEW d, DeviceOK(d, now), now \in Nat, d.queue # <<>>,
         FitsUnits(c.units, d.queue[1])
  PROVE  LET r == ReadPackets(c, d.queue)
         IN  /\ PendingOK(r) /\ r.at = c.at
             /\ r.units # <<>> /\ r.units[Len(r.units)] = d.queue[Len(d.queue)].time
<1>. DEFINE q == d.queue  n == Len(q)
<1>1. q \in Seq(Units) /\ n \in Nat /\ n >= 1 /\ DOMAIN q = 1..n
  BY DEF DeviceOK
<1>2. PICK g : /\ ReadPackets(c, q) = g[n]
               /\ g[0] = c
               /\ \A m \in 1..n : g[m] = ReadUnit(g[m - 1], q[m])
  <2>. HIDE DEF q
  <2>. QED  BY <1>1, ReadSteps
<1>3. /\ \A m \in 1..n : q[m] \in Units /\ q[m].time < now
      /\ \A m \in 1..(n - 1) : Follows(q[m].time, q[m + 1])
  <2>1. \A m \in 1..n : q[m] \in Units
    <3>. HIDE DEF q
    <3>. QED  BY <1>1
  <2>2. \A m \in 1..n : q[m].time < now
    BY DEF DeviceOK
  <2>3. \A m \in 1..(n - 1) : Follows(q[m].time, q[m + 1])
    BY DEF DeviceOK
  <2>. HIDE DEF q
  <2>. QED  BY <2>1, <2>2, <2>3
<1>. DEFINE Good(m) == /\ PendingOK(g[m]) /\ g[m].at = c.at
                       /\ m # 0 => g[m].units # <<>> /\ g[m].units[Len(g[m].units)] = q[m].time
            G == {m \in 0..n : Good(m)}
<1>4. 0 \in G
  BY <1>1, <1>2
<1>5. ASSUME NEW m \in 1..n, m - 1 \in G PROVE m \in G
  <2>1. Good(m - 1) /\ m - 1 \in 0..n /\ m \in 0..n /\ m # 0
    BY <1>5
  <2>2. q[m] \in Units /\ q[m].time < now /\ g[m] = ReadUnit(g[m - 1], q[m])
    BY <1>2, <1>3
  <2>3. FitsUnits(g[m - 1].units, q[m])
    <3>1. CASE m = 1
      <4>1. m - 1 = 0
        BY <3>1
      <4>. HIDE DEF q
      <4>. QED  BY <3>1, <4>1, <1>2 DEF q
    <3>2. CASE m # 1
      <4>1. m - 1 \in 1..(n - 1) /\ (m - 1) + 1 = m /\ m - 1 # 0
        BY <3>2, <1>1
      <4>2. Follows(q[m - 1].time, q[m])
        <5>. HIDE DEF q
        <5>. QED  BY <1>3, <4>1
      <4>. HIDE DEF q
      <4>. QED  BY <2>1, <4>1, <4>2 DEF FitsUnits
    <3>. QED  BY <3>1, <3>2
  <2>. HIDE DEF q
  <2>4. /\ PendingOK(g[m]) /\ g[m].at = g[m - 1].at
        /\ g[m].units # <<>> /\ g[m].units[Len(g[m].units)] = q[m].time
    BY <2>1, <2>2, <2>3, ReadOne
  <2>5. Good(m)
    BY <2>1, <2>4
  <2>. HIDE DEF Good
  <2>. QED  BY <2>1, <2>5
<1>6. Good(n)
  <2>1. \A m \in 0..n : m \in G
    <3>. HIDE DEF G, n
    <3>. QED  BY <1>1, <1>4, <1>5, RS!SegmentInduction
  <2>2. n \in G
    BY <1>1, <2>1
  <2>. HIDE DEF Good
  <2>. QED  BY <2>2
<1>7. n # 0
  BY <1>1
<1>. QED  BY <1>2, <1>6, <1>7

\* The frames are cut until less than one is left.
LEMMA CutAll ==
  ASSUME NEW c, PendingOK(c), NEW q, FrameQueueOK(q)
  PROVE  LET w == PushFrames([capture |-> c, queue |-> q], c.units)
         IN  /\ PendingOK(w.capture) /\ w.capture.at = c.at
             /\ FrameQueueOK(w.queue)
             /\ Len(w.capture.units) < FrameUnits
             /\ w.capture.units # <<>> =>
                    c.units # <<>>
                    /\ w.capture.units[Len(w.capture.units)] = c.units[Len(c.units)]
<1>. DEFINE t == c.units  n == Len(t)  b == [capture |-> c, queue |-> q]
<1>1. t \in Seq(Nat) /\ n \in Nat
  BY DEF PendingOK, Captures
<1>2. PICK g : /\ PushFrames(b, t) = g[n]
               /\ g[0] = b
               /\ \A m \in 1..n : g[m] = CutFrame(g[m - 1], t[m])
  <2>. HIDE DEF b, t
  <2>. QED  BY <1>1, CutSteps
<1>. DEFINE Good(m) ==
              /\ g[m] = [capture |-> g[m].capture, queue |-> g[m].queue]
              /\ PendingOK(g[m].capture) /\ g[m].capture.at = c.at
              /\ FrameQueueOK(g[m].queue)
              /\ g[m].capture.units # <<>> =>
                    c.units # <<>>
                    /\ g[m].capture.units[Len(g[m].capture.units)] = c.units[Len(c.units)]
              /\ Len(g[m].capture.units) < FrameUnits \/ Len(g[m].capture.units) + m <= n
            G == {m \in 0..n : Good(m)}
<1>3. 0 \in G
  <2>1. b = [capture |-> b.capture, queue |-> b.queue] /\ b.capture = c /\ b.queue = q
    OBVIOUS
  <2>2. n + 0 <= n /\ 0 \in 0..n
    BY <1>1
  <2>3. g[0] = b
    BY <1>2
  <2>. HIDE DEF b
  <2>4. Good(0)
    BY <2>1, <2>2, <2>3
  <2>. HIDE DEF Good
  <2>. QED  BY <2>2, <2>4
<1>4. ASSUME NEW m \in 1..n, m - 1 \in G PROVE m \in G
  <2>1. Good(m - 1) /\ m \in 0..n /\ m \in Nat
    BY <1>4
  <2>. DEFINE w == g[m - 1]  x == g[m]
  <2>2. x = CutFrame(w, t[m])
    BY <1>2
  <2>3. /\ w = [capture |-> w.capture, queue |-> w.queue]
        /\ PendingOK(w.capture) /\ FrameQueueOK(w.queue) /\ w.capture.at = c.at
        /\ w.capture.units # <<>> =>
              c.units # <<>>
              /\ w.capture.units[Len(w.capture.units)] = c.units[Len(c.units)]
        /\ Len(w.capture.units) < FrameUnits \/ Len(w.capture.units) + (m - 1) <= n
    BY <2>1
  <2>. HIDE DEF w, x
  <2>4. /\ x = [capture |-> x.capture, queue |-> x.queue]
        /\ PendingOK(x.capture) /\ x.capture.at = w.capture.at
        /\ FrameQueueOK(x.queue)
        /\ x.capture.units # <<>> =>
               x.capture.units[Len(x.capture.units)] = w.capture.units[Len(w.capture.units)]
               /\ w.capture.units # <<>>
        /\ Len(x.capture.units) < FrameUnits \/ Len(x.capture.units) + 1 <= Len(w.capture.units)
    BY <2>2, <2>3, CutOne
  <2>5. Len(x.capture.units) \in Nat /\ Len(w.capture.units) \in Nat
    BY <2>3, <2>4 DEF PendingOK, Captures
  <2>6. Len(x.capture.units) < FrameUnits \/ Len(x.capture.units) + m <= n
    <3>1. Len(w.capture.units) < FrameUnits \/ Len(w.capture.units) + (m - 1) <= n
      BY <2>3
    <3>2. Len(x.capture.units) < FrameUnits \/ Len(x.capture.units) + 1 <= Len(w.capture.units)
      BY <2>4
    <3>3. FrameUnits \in Nat /\ m \in Nat
      BY <2>1, AudioSizesAssumption
    <3>. HIDE DEF n
    <3>. QED  BY <1>1, <2>5, <3>1, <3>2, <3>3
  <2>7. Good(m)
    BY <2>3, <2>4, <2>6 DEF x
  <2>. HIDE DEF Good
  <2>. QED  BY <2>1, <2>7
<1>5. Good(n)
  <2>1. \A m \in 0..n : m \in G
    <3>. HIDE DEF G, n
    <3>. QED  BY <1>1, <1>3, <1>4, CS!SegmentInduction
  <2>2. n \in 0..n
    BY <1>1
  <2>3. n \in G
    <3>. HIDE DEF G, n
    <3>. QED  BY <2>1, <2>2
  <2>. HIDE DEF Good
  <2>. QED  BY <2>3
<1>6. Len(g[n].capture.units) < FrameUnits
  <2>1. Len(g[n].capture.units) < FrameUnits \/ Len(g[n].capture.units) + n <= n
    BY <1>5
  <2>2. Len(g[n].capture.units) \in Nat
    BY <1>5 DEF PendingOK, Captures
  <2>3. FrameUnits \in Nat /\ FrameUnits >= 1
    BY AudioSizesAssumption
  <2>. HIDE DEF n
  <2>. QED  BY <1>1, <2>1, <2>2, <2>3
<1>. QED  BY <1>2, <1>5, <1>6

\* While no unit is lost, the last one that was captured is where the next will follow.
UpToDate(d, c, t) ==
    ~d.lost => /\ d.queue # <<>> => d.queue[Len(d.queue)].time = t - 1
               /\ d.queue = <<>> /\ c.units # <<>> => c.units[Len(c.units)] = t - 1

\* A session: what its device holds goes on from what its worker has, and a worker that
\* does not run has nothing.
SampleOK(d, c, q, t) ==
    /\ DeviceOK(d, t) /\ PendingOK(c) /\ FrameQueueOK(q)
    /\ Len(c.units) < FrameUnits
    /\ c.at # "run" => c.units = <<>> /\ d.queue = <<>>
    /\ d.queue # <<>> => FitsUnits(c.units, d.queue[1])
    /\ UpToDate(d, c, t)

\* The sound: every session, and what was sent last.
SampleInv ==
    /\ now \in 0..CaptureTime
    /\ DOMAIN device = Workers /\ DOMAIN capture = Workers /\ DOMAIN queue = Workers
    /\ \A s \in Workers : SampleOK(device[s], capture[s], queue[s], now)
    /\ sent.exact => sent.stamp = sent.time

\* A session that has not begun, or has ended.
LEMMA NothingIsOK ==
  ASSUME NEW c, c = IdleCapture \/ \E a \in {"run", "done"} : c = [IdleCapture EXCEPT !.at = a],
         NEW q, FrameQueueOK(q), NEW t
  PROVE  SampleOK(Fresh, c, q, t)
<1>1. c.units = <<>> /\ c.first = NoTime /\ c \in Captures
  <2>1. IdleCapture.units = <<>> /\ IdleCapture.first = NoTime
    BY DEF IdleCapture
  <2>2. IdleCapture \in Captures
    BY DEF IdleCapture, Captures
  <2>3. ASSUME NEW a \in {"run", "done"}, c = [IdleCapture EXCEPT !.at = a]
        PROVE  c.units = <<>> /\ c.first = NoTime /\ c \in Captures
    BY <2>1, <2>2, <2>3 DEF Captures
  <2>. QED  BY <2>1, <2>2, <2>3
<1>2. Fresh.queue = <<>> /\ Fresh.lost = FALSE /\ Fresh \in [queue : Seq(Units), lost : BOOLEAN]
      /\ Len(Fresh.queue) = 0
  BY DEF Fresh
<1>3. PendingOK(c)
  <2>1. InARow(c.units)
    BY <1>1 DEF InARow
  <2>. QED  BY <1>1, <2>1 DEF PendingOK
<1>4. DeviceOK(Fresh, t)
  BY <1>2 DEF DeviceOK
<1>5. Len(c.units) < FrameUnits
  <2>1. Len(c.units) = 0
    BY <1>1
  <2>. QED  BY <2>1, AudioSizesAssumption
<1>6. UpToDate(Fresh, c, t)
  BY <1>1, <1>2 DEF UpToDate
<1>. QED  BY <1>1, <1>2, <1>3, <1>4, <1>5, <1>6 DEF SampleOK

\* The sound begins so.
LEMMA SampleInitially == AudioCaptureInit => SampleInv
<1>. SUFFICES ASSUME AudioCaptureInit PROVE SampleInv
  OBVIOUS
<1>1. now \in 0..CaptureTime
  BY AudioSizesAssumption DEF AudioCaptureInit
<1>2. DOMAIN device = Workers /\ DOMAIN capture = Workers /\ DOMAIN queue = Workers
  BY DEF AudioCaptureInit
<1>3. ASSUME NEW s \in Workers PROVE SampleOK(device[s], capture[s], queue[s], now)
  <2>. DEFINE q == [items |-> <<>>, closed |-> FALSE]
  <2>1. FrameQueueOK(q)
    <3>1. q \in SoundQueues
      BY DEF SoundQueues
    <3>2. Len(q.items) = 0
      OBVIOUS
    <3>. HIDE DEF q
    <3>. QED  BY <3>1, <3>2, AudioSizesAssumption DEF FrameQueueOK
  <2>2. device[s] = Fresh /\ queue[s] = q
    BY DEF AudioCaptureInit
  <2>. HIDE DEF q
  <2>3. capture[s] = [IdleCapture EXCEPT !.at = "run"] \/ capture[s] = IdleCapture
    BY DEF AudioCaptureInit
  <2>. QED  BY <2>1, <2>2, <2>3, NothingIsOK
<1>4. sent.exact => sent.stamp = sent.time
  BY DEF AudioCaptureInit
<1>. QED  BY <1>1, <1>2, <1>3, <1>4 DEF SampleInv

\* Time passes for a session.
LEMMA TimeKeepsSample ==
  ASSUME NEW t \in Nat, NEW d, NEW c, NEW q, SampleOK(d, c, q, t), c.at = "run",
         NEW e,
         \/ e = [d EXCEPT !.lost = TRUE]
         \/ \E k \in BOOLEAN :
               e = [queue |-> Append(d.queue, [time |-> t, qpc |-> k, gap |-> d.lost]),
                    lost |-> FALSE]
  PROVE  SampleOK(e, c, q, t + 1)
<1>1. /\ d \in [queue : Seq(Units), lost : BOOLEAN] /\ Len(d.queue) \in Nat
      /\ DOMAIN d.queue = 1..Len(d.queue)
  BY DEF SampleOK, DeviceOK
<1>2. \A m \in 1..Len(d.queue) : d.queue[m] \in Units /\ d.queue[m].time \in Nat
         /\ d.queue[m].time < t
  <2>1. \A m \in 1..Len(d.queue) : d.queue[m] \in Units
    BY <1>1
  <2>2. \A m \in 1..Len(d.queue) : d.queue[m].time < t
    BY DEF SampleOK, DeviceOK
  <2>. QED  BY <2>1, <2>2 DEF Units
<1>3. \A m \in 1..(Len(d.queue) - 1) : Follows(d.queue[m].time, d.queue[m + 1])
  BY DEF SampleOK, DeviceOK
<1>4. PendingOK(c) /\ FrameQueueOK(q) /\ Len(c.units) < FrameUnits
      /\ (d.queue # <<>> => FitsUnits(c.units, d.queue[1]))
  BY DEF SampleOK
<1>5. CASE e = [d EXCEPT !.lost = TRUE]
  <2>1. e.queue = d.queue /\ e.lost = TRUE /\ e \in [queue : Seq(Units), lost : BOOLEAN]
    BY <1>1, <1>5
  <2>2. \A m \in 1..Len(e.queue) : e.queue[m].time < t + 1
    BY <1>2, <2>1
  <2>3. DeviceOK(e, t + 1)
    BY <1>3, <2>1, <2>2 DEF DeviceOK
  <2>4. UpToDate(e, c, t + 1)
    BY <2>1 DEF UpToDate
  <2>. QED  BY <1>4, <2>1, <2>3, <2>4 DEF SampleOK
<1>6. ASSUME NEW k \in BOOLEAN,
             e = [queue |-> Append(d.queue, [time |-> t, qpc |-> k, gap |-> d.lost]),
                  lost |-> FALSE]
      PROVE  SampleOK(e, c, q, t + 1)
  <2>. DEFINE u == [time |-> t, qpc |-> k, gap |-> d.lost]  n == Len(d.queue)
  <2>1. u \in Units /\ u.time = t /\ (d.lost => u.gap)
    BY <1>1 DEF Units
  <2>. HIDE DEF u
  <2>2. e.queue = Append(d.queue, u) /\ ~e.lost /\ e.lost \in BOOLEAN
    BY <1>6 DEF u
  <2>3. /\ e.queue \in Seq(Units) /\ Len(e.queue) = n + 1 /\ e.queue[n + 1] = u
        /\ \A m \in 1..n : e.queue[m] = d.queue[m]
    BY <1>1, <2>1, <2>2
  <2>4. e \in [queue : Seq(Units), lost : BOOLEAN]
    BY <1>6, <2>2, <2>3
  <2>5. n \in Nat /\ (d.queue = <<>> <=> n = 0)
    BY <1>1
  <2>. HIDE DEF n
  <2>6. \A m \in 1..Len(e.queue) : e.queue[m].time < t + 1
    <3>1. ASSUME NEW m \in 1..(n + 1) PROVE e.queue[m].time < t + 1
      <4>1. CASE m = n + 1
        BY <4>1, <2>1, <2>3
      <4>2. CASE m # n + 1
        <5>1. m \in 1..n
          BY <4>2, <2>5
        <5>2. e.queue[m] = d.queue[m] /\ d.queue[m].time \in Nat /\ d.queue[m].time < t
          BY <5>1, <1>2, <2>3 DEF n
        <5>. QED  BY <5>2
      <4>. QED  BY <4>1, <4>2
    <3>. QED  BY <3>1, <2>3
  <2>7. ~d.lost => /\ n # 0 => d.queue[n].time = t - 1
                   /\ n = 0 /\ c.units # <<>> => c.units[Len(c.units)] = t - 1
    BY <2>5 DEF SampleOK, UpToDate, n
  <2>8. \A m \in 1..(Len(e.queue) - 1) : Follows(e.queue[m].time, e.queue[m + 1])
    <3>1. ASSUME NEW m \in 1..n PROVE Follows(e.queue[m].time, e.queue[m + 1])
      <4>1. CASE m = n
        <5>1. n # 0 /\ e.queue[m] = d.queue[n] /\ e.queue[m + 1] = u
          BY <4>1, <2>3, <2>5
        <5>2. d.lost \/ u.time = d.queue[n].time + 1
          BY <5>1, <2>1, <2>7
        <5>. QED  BY <5>1, <5>2, <2>1 DEF Follows
      <4>2. CASE m # n
        <5>1. m \in 1..(n - 1) /\ m \in 1..n /\ m + 1 \in 1..n
          BY <4>2, <2>5
        <5>2. e.queue[m] = d.queue[m] /\ e.queue[m + 1] = d.queue[m + 1]
          BY <5>1, <2>3
        <5>. QED  BY <5>1, <5>2, <1>3 DEF n
      <4>. QED  BY <4>1, <4>2
    <3>2. Len(e.queue) - 1 = n
      BY <2>3, <2>5
    <3>. QED  BY <3>1, <3>2
  <2>9. FitsUnits(c.units, e.queue[1])
    <3>1. CASE n = 0
      <4>1. e.queue[1] = u
        BY <3>1, <2>3
      <4>2. c.units # <<>> => d.lost \/ u.time = c.units[Len(c.units)] + 1
        BY <3>1, <2>1, <2>7
      <4>. QED  BY <4>1, <4>2, <2>1 DEF FitsUnits, Follows
    <3>2. CASE n # 0
      <4>1. e.queue[1] = d.queue[1] /\ d.queue # <<>>
        <5>1. 1 \in 1..n
          BY <3>2, <2>5
        <5>2. e.queue[1] = d.queue[1]
          BY <5>1, <2>3
        <5>. QED  BY <3>2, <2>5, <5>2
      <4>. QED  BY <4>1, <1>4
    <3>. QED  BY <3>1, <3>2
  <2>10. UpToDate(e, c, t + 1)
    <3>1. e.queue # <<>> /\ e.queue[Len(e.queue)].time = (t + 1) - 1
      BY <2>1, <2>3, <2>5
    <3>. QED  BY <3>1 DEF UpToDate
  <2>11. DeviceOK(e, t + 1)
    BY <2>4, <2>6, <2>8 DEF DeviceOK
  <2>. QED  BY <1>4, <2>9, <2>10, <2>11 DEF SampleOK
<1>. QED  BY <1>5, <1>6

\* A pass of the worker.
LEMMA PassKeepsSample ==
  ASSUME NEW d, NEW c, NEW q, SampleOK(d, c, q, now), now \in Nat, d.queue # <<>>
  PROVE  LET read == ReadPackets(c, d.queue)
             w    == PushFrames([capture |-> read, queue |-> q], read.units)
         IN  SampleOK([d EXCEPT !.queue = <<>>], w.capture, w.queue, now)
<1>. DEFINE read == ReadPackets(c, d.queue)
            w    == PushFrames([capture |-> read, queue |-> q], read.units)
            e    == [d EXCEPT !.queue = <<>>]
<1>1. /\ DeviceOK(d, now) /\ PendingOK(c) /\ FrameQueueOK(q) /\ FitsUnits(c.units, d.queue[1])
      /\ UpToDate(d, c, now) /\ (c.at # "run" => d.queue = <<>>)
  BY DEF SampleOK
<1>2. /\ PendingOK(read) /\ read.at = c.at
      /\ read.units # <<>> /\ read.units[Len(read.units)] = d.queue[Len(d.queue)].time
  BY <1>1, ReadAll
<1>3. /\ PendingOK(w.capture) /\ w.capture.at = read.at
      /\ FrameQueueOK(w.queue)
      /\ Len(w.capture.units) < FrameUnits
      /\ w.capture.units # <<>> =>
             read.units # <<>>
             /\ w.capture.units[Len(w.capture.units)] = read.units[Len(read.units)]
  <2>. HIDE DEF read
  <2>. QED  BY <1>1, <1>2, CutAll
<1>4. e.queue = <<>> /\ e.lost = d.lost /\ e \in [queue : Seq(Units), lost : BOOLEAN]
      /\ Len(e.queue) = 0
  <2>1. d \in [queue : Seq(Units), lost : BOOLEAN]
    BY <1>1 DEF DeviceOK
  <2>2. <<>> \in Seq(Units) /\ Len(<<>>) = 0
    OBVIOUS
  <2>. QED  BY <2>1, <2>2
<1>. HIDE DEF read, w, e
<1>5. DeviceOK(e, now)
  BY <1>4 DEF DeviceOK
<1>6. UpToDate(e, w.capture, now)
  <2>1. ~d.lost => d.queue[Len(d.queue)].time = now - 1
    BY <1>1 DEF UpToDate
  <2>. QED  BY <1>2, <1>3, <1>4, <2>1 DEF UpToDate
<1>7. w.capture.at = "run"
  BY <1>1, <1>2, <1>3
<1>8. SampleOK(e, w.capture, w.queue, now)
  BY <1>3, <1>4, <1>5, <1>6, <1>7 DEF SampleOK
<1>. QED  BY <1>8 DEF read, w, e

\* The queue of frames is taken from, or closed.
LEMMA QueueKeepsSample ==
  ASSUME NEW d, NEW c, NEW q, NEW t, SampleOK(d, c, q, t), NEW p,
         \/ p = [q EXCEPT !.closed = TRUE]
         \/ q.items # <<>> /\ p = [q EXCEPT !.items = Tail(@)]
  PROVE  SampleOK(d, c, p, t)
<1>1. q \in SoundQueues /\ Len(q.items) <= AudioQueueDepth /\ q.items \in Seq(SoundFrames)
      /\ Len(q.items) \in Nat
  BY DEF SampleOK, FrameQueueOK, SoundQueues
<1>2. FrameQueueOK(p)
  <2>1. CASE p = [q EXCEPT !.closed = TRUE]
    BY <1>1, <2>1 DEF FrameQueueOK, SoundQueues
  <2>2. CASE q.items # <<>> /\ p = [q EXCEPT !.items = Tail(@)]
    <3>1. Tail(q.items) \in Seq(SoundFrames) /\ Len(Tail(q.items)) = Len(q.items) - 1
      BY <1>1, <2>2
    <3>2. p \in SoundQueues /\ p.items = Tail(q.items)
      BY <1>1, <2>2, <3>1 DEF SoundQueues
    <3>3. Len(p.items) <= AudioQueueDepth
      BY <1>1, <3>1, <3>2, AudioSizesAssumption
    <3>. QED  BY <3>2, <3>3 DEF FrameQueueOK
  <2>. QED  BY <2>1, <2>2
<1>. QED  BY <1>2 DEF SampleOK

\* Every step keeps this.
LEMMA SampleKeeps ==
  ASSUME SampleInv, SoundInv, AudioCaptureNext \/ UNCHANGED captureVars
  PROVE  SampleInv'
<1>1. /\ now \in Nat /\ now \in 0..CaptureTime
      /\ DOMAIN device = Workers /\ DOMAIN capture = Workers /\ DOMAIN queue = Workers
      /\ \A s \in Workers : SampleOK(device[s], capture[s], queue[s], now)
      /\ sent.exact => sent.stamp = sent.time
  BY AudioSizesAssumption DEF SampleInv
<1>2. ASSUME now' = now, sent' = sent, device' = device, capture' = capture,
             NEW s, DOMAIN queue' = Workers,
             \A x \in Workers : x # s => queue'[x] = queue[x],
             s \in Workers => SampleOK(device[s], capture[s], queue'[s], now)
      PROVE  SampleInv'
  BY <1>1, <1>2 DEF SampleInv
<1>3. CASE DeviceCaptures
  <2>1. now < CaptureTime /\ now' = now + 1 /\ UNCHANGED <<capture, queue, sent>>
    BY <1>3 DEF DeviceCaptures
  <2>2. PICK kind \in {"qpc", "none", "lost"} :
          device' = [s \in Workers |->
            IF capture[s].at # "run" THEN device[s]
            ELSE IF kind = "lost" THEN [device[s] EXCEPT !.lost = TRUE]
            ELSE [queue |-> Append(device[s].queue,
                                   [time |-> now, qpc |-> kind = "qpc", gap |-> device[s].lost]),
                  lost |-> FALSE]]
    BY <1>3 DEF DeviceCaptures
  <2>3. ASSUME NEW s \in Workers PROVE SampleOK(device'[s], capture[s], queue[s], now + 1)
    <3>. DEFINE d == device[s]  c == capture[s]  q == queue[s]  e == device'[s]
    <3>1. SampleOK(d, c, q, now)
      BY <1>1
    <3>2. CASE c.at # "run"
      <4>1. e = d
        BY <2>2, <3>2
      <4>. HIDE DEF d, c, q, e
      <4>2. d.queue = <<>> /\ c.units = <<>>
        BY <3>1, <3>2 DEF SampleOK
      <4>3. DeviceOK(d, now + 1) /\ UpToDate(d, c, now + 1)
        <5>1. Len(d.queue) = 0 /\ d \in [queue : Seq(Units), lost : BOOLEAN]
          BY <3>1, <4>2 DEF SampleOK, DeviceOK
        <5>. QED  BY <4>2, <5>1 DEF DeviceOK, UpToDate
      <4>4. SampleOK(d, c, q, now + 1)
        BY <3>1, <4>2, <4>3 DEF SampleOK
      <4>. QED  BY <4>1, <4>4 DEF e, c, q
    <3>3. CASE c.at = "run"
      <4>1. \/ e = [d EXCEPT !.lost = TRUE]
            \/ \E k \in BOOLEAN :
                  e = [queue |-> Append(d.queue, [time |-> now, qpc |-> k, gap |-> d.lost]),
                       lost |-> FALSE]
        <5>1. (kind = "qpc") \in BOOLEAN
          OBVIOUS
        <5>2. CASE kind = "lost"
          BY <2>2, <3>3, <5>2
        <5>3. CASE kind # "lost"
          <6>1. e = [queue |-> Append(d.queue, [time |-> now, qpc |-> kind = "qpc",
                                                gap |-> d.lost]),
                     lost |-> FALSE]
            BY <2>2, <3>3, <5>3
          <6>. HIDE DEF d, e
          <6>. QED  BY <5>1, <6>1
        <5>. QED  BY <5>2, <5>3
      <4>. HIDE DEF d, c, q, e
      <4>2. SampleOK(e, c, q, now + 1)
        BY <1>1, <3>1, <3>3, <4>1, TimeKeepsSample
      <4>. QED  BY <4>2 DEF e, c, q
    <3>. QED  BY <3>2, <3>3
  <2>4. now' \in 0..CaptureTime
    BY <1>1, <2>1, AudioSizesAssumption
  <2>5. DOMAIN device' = Workers
    BY <2>2
  <2>. QED  BY <1>1, <2>1, <2>3, <2>4, <2>5 DEF SampleInv
<1>4. ASSUME NEW s \in Workers, WorkerNext(s) PROVE SampleInv'
  <2>. DEFINE d == device[s]  c == capture[s]  q == queue[s]
  <2>1. SampleOK(d, c, q, now)
    BY <1>1
  <2>2. CASE CapturePass(s)
    <3>. DEFINE read == ReadPackets(c, d.queue)
                w    == PushFrames([capture |-> read, queue |-> q], read.units)
    <3>1. /\ d.queue # <<>> /\ now' = now /\ sent' = sent
          /\ device' = [device EXCEPT ![s].queue = <<>>]
          /\ capture' = [capture EXCEPT ![s] = w.capture]
          /\ queue' = [queue EXCEPT ![s] = w.queue]
      BY <2>2 DEF CapturePass
    <3>2. SampleOK([d EXCEPT !.queue = <<>>], w.capture, w.queue, now)
      <4>. HIDE DEF d, c, q
      <4>. QED  BY <1>1, <2>1, <3>1, PassKeepsSample
    <3>. HIDE DEF w, read
    <3>3. device'[s] = [d EXCEPT !.queue = <<>>] /\ capture'[s] = w.capture /\ queue'[s] = w.queue
          /\ DOMAIN device' = Workers /\ DOMAIN capture' = Workers /\ DOMAIN queue' = Workers
          /\ \A x \in Workers : x # s => device'[x] = device[x] /\ capture'[x] = capture[x]
                                         /\ queue'[x] = queue[x]
      BY <1>1, <3>1
    <3>. HIDE DEF d, c, q
    <3>4. \A x \in Workers : SampleOK(device'[x], capture'[x], queue'[x], now)
      BY <1>1, <3>2, <3>3
    <3>. QED  BY <1>1, <3>1, <3>3, <3>4 DEF SampleInv
  <2>3. CASE CaptureEnds(s)
    <3>1. /\ now' = now /\ sent' = sent
          /\ capture' = [capture EXCEPT ![s] = [IdleCapture EXCEPT !.at = "done"]]
          /\ device' = [device EXCEPT ![s] = Fresh]
          /\ queue' = [queue EXCEPT ![s].closed = TRUE]
      BY <2>3 DEF CaptureEnds
    <3>2. device'[s] = Fresh /\ capture'[s] = [IdleCapture EXCEPT !.at = "done"]
          /\ queue'[s] = [q EXCEPT !.closed = TRUE]
          /\ DOMAIN device' = Workers /\ DOMAIN capture' = Workers /\ DOMAIN queue' = Workers
          /\ \A x \in Workers : x # s => device'[x] = device[x] /\ capture'[x] = capture[x]
                                         /\ queue'[x] = queue[x]
      BY <1>1, <3>1
    <3>3. SampleOK(d, c, [q EXCEPT !.closed = TRUE], now)
      <4>. HIDE DEF d, c, q
      <4>. QED  BY <2>1, QueueKeepsSample
    <3>4. FrameQueueOK(queue'[s])
      BY <3>2, <3>3 DEF SampleOK
    <3>5. SampleOK(device'[s], capture'[s], queue'[s], now)
      BY <3>2, <3>4, NothingIsOK
    <3>6. \A x \in Workers : SampleOK(device'[x], capture'[x], queue'[x], now)
      BY <1>1, <3>2, <3>5
    <3>. QED  BY <1>1, <3>1, <3>2, <3>6 DEF SampleInv
  <2>4. ASSUME q.items # <<>>, queue' = [queue EXCEPT ![s].items = Tail(@)],
               now' = now, device' = device, capture' = capture,
               sent'.exact => sent'.stamp = sent'.time
        PROVE  SampleInv'
    <3>1. queue'[s] = [q EXCEPT !.items = Tail(@)] /\ DOMAIN queue' = Workers
          /\ \A x \in Workers : x # s => queue'[x] = queue[x]
      BY <1>1, <2>4
    <3>2. SampleOK(d, c, queue'[s], now)
      <4>. HIDE DEF d, c, q
      <4>. QED  BY <2>1, <2>4, <3>1, QueueKeepsSample
    <3>3. \A x \in Workers : SampleOK(device[x], capture[x], queue'[x], now)
      BY <1>1, <3>1, <3>2
    <3>. QED  BY <1>1, <2>4, <3>1, <3>3 DEF SampleInv
  <2>5. CASE SendSound(s)
    <3>. DEFINE f == Head(q.items)
    <3>1. /\ q.items # <<>> /\ queue' = [queue EXCEPT ![s].items = Tail(@)]
          /\ now' = now /\ device' = device /\ capture' = capture
          /\ sent' = [session |-> s, seq |-> sending[s].seq, stamp |-> f.stamp,
                      time |-> f.time, exact |-> f.exact]
      BY <2>5 DEF SendSound
    <3>2. f \in SoundFrames
      <4>1. q.items \in Seq(SoundFrames)
        BY <2>1 DEF SampleOK, FrameQueueOK, SoundQueues
      <4>. HIDE DEF q
      <4>. QED  BY <3>1, <4>1
    <3>. HIDE DEF f
    <3>3. sent'.exact => sent'.stamp = sent'.time
      BY <3>1, <3>2 DEF SoundFrames
    <3>. QED  BY <2>4, <3>1, <3>3
  <2>6. CASE SendFails(s)
    <3>1. /\ q.items # <<>> /\ queue' = [queue EXCEPT ![s].items = Tail(@)]
          /\ now' = now /\ device' = device /\ capture' = capture /\ sent' = sent
      BY <2>6 DEF SendFails
    <3>. QED  BY <1>1, <2>4, <3>1
  <2>7. CASE SendEnds(s)
    BY <1>1, <2>7 DEF SendEnds, SampleInv
  <2>. QED  BY <1>4, <2>2, <2>3, <2>5, <2>6, <2>7 DEF WorkerNext, CaptureStops, CaptureFails
<1>5. CASE OwnerStops \/ OwnerGivesUp \/ UNCHANGED captureVars
  <2>1. UNCHANGED <<now, device, capture, queue, sent>>
    BY <1>5 DEF OwnerStops, OwnerGivesUp, captureVars
  <2>. QED  BY <1>1, <2>1 DEF SampleInv
<1>6. CASE OwnerCloses
  <2>. DEFINE s == audioOwner.session  q == queue[s]
  <2>1. s \in Workers
    BY DEF SoundInv
  <2>2. queue' = [queue EXCEPT ![s].closed = TRUE] /\ UNCHANGED <<now, device, capture, sent>>
    BY <1>6 DEF OwnerCloses
  <2>3. queue'[s] = [q EXCEPT !.closed = TRUE] /\ DOMAIN queue' = Workers
        /\ \A x \in Workers : x # s => queue'[x] = queue[x]
    BY <1>1, <2>1, <2>2
  <2>4. SampleOK(device[s], capture[s], q, now)
    BY <1>1, <2>1
  <2>. HIDE DEF s, q
  <2>5. SampleOK(device[s], capture[s], queue'[s], now)
    BY <2>3, <2>4, QueueKeepsSample
  <2>6. \A x \in Workers : SampleOK(device[x], capture[x], queue'[x], now)
    BY <1>1, <2>3, <2>5
  <2>. QED  BY <1>1, <2>2, <2>3, <2>6 DEF SampleInv
<1>7. CASE OwnerRestarts
  <2>. DEFINE s == audioOwner.session + 1  c == capture[s]  d == [c EXCEPT !.at = "run"]
  <2>1. s \in Workers
    <3>1. audioOwner.session \in Workers /\ audioOwner.session < CaptureSessions
      BY <1>7 DEF SoundInv, OwnerRestarts
    <3>. QED  BY <3>1, CaptureAssumption DEF Workers
  <2>2. capture' = [capture EXCEPT ![s].at = "run"] /\ UNCHANGED <<now, device, queue, sent>>
    BY <1>7 DEF OwnerRestarts
  <2>3. SampleOK(device[s], c, queue[s], now)
    BY <1>1, <2>1
  <2>4. capture'[s] = d /\ DOMAIN capture' = Workers
        /\ \A x \in Workers : x # s => capture'[x] = capture[x]
    BY <1>1, <2>1, <2>2
  <2>. HIDE DEF s, c
  <2>5. c \in Captures /\ PendingOK(c)
    BY <2>3 DEF SampleOK, PendingOK
  <2>6. /\ d \in Captures /\ d.at = "run" /\ d.units = c.units /\ d.first = c.first
        /\ d.mapper = c.mapper /\ d.exact = c.exact
    BY <2>5 DEF Captures
  <2>. HIDE DEF d
  <2>7. PendingOK(d)
    BY <2>5, <2>6 DEF PendingOK, OnScale
  <2>8. SampleOK(device[s], d, queue[s], now)
    BY <2>3, <2>6, <2>7 DEF SampleOK, UpToDate
  <2>9. \A x \in Workers : SampleOK(device[x], capture'[x], queue[x], now)
    BY <1>1, <2>4, <2>8
  <2>. QED  BY <1>1, <2>2, <2>4, <2>9 DEF SampleInv
<1>. QED  BY <1>3, <1>4, <1>5, <1>6, <1>7 DEF AudioCaptureNext

\* What this says of the types and the stamps.
LEMMA SampleImplies == SampleInv /\ SoundInv => AudioCaptureTypeOK /\ StampsAreExact
<1>. SUFFICES ASSUME SampleInv, SoundInv PROVE AudioCaptureTypeOK /\ StampsAreExact
  OBVIOUS
<1>1. StampsAreExact /\ now \in 0..CaptureTime
  BY DEF SampleInv, StampsAreExact
<1>2. ASSUME NEW s \in Workers
      PROVE  /\ Len(queue[s].items) <= AudioQueueDepth
             /\ Len(capture[s].units) < FrameUnits
             /\ (capture[s].first = NoTime) <=> (capture[s].units = <<>>)
             /\ capture[s].at \in {"none", "run", "done"}
             /\ sending[s].at \in {"none", "run", "done", "failed"}
  <2>1. SampleOK(device[s], capture[s], queue[s], now)
    BY DEF SampleInv
  <2>2. PendingOK(capture[s]) /\ FrameQueueOK(queue[s]) /\ Len(capture[s].units) < FrameUnits
    BY <2>1 DEF SampleOK
  <2>3. capture[s] \in Captures /\ ((capture[s].first = NoTime) <=> (capture[s].units = <<>>))
    BY <2>2 DEF PendingOK
  <2>4. capture[s].at \in {"none", "run", "done"}
    BY <2>3 DEF Captures
  <2>5. Len(queue[s].items) <= AudioQueueDepth
    BY <2>2 DEF FrameQueueOK
  <2>6. sending[s].at \in {"none", "run", "done", "failed"}
    BY DEF SoundInv
  <2>. QED  BY <2>2, <2>3, <2>4, <2>5, <2>6
<1>3. audioOwner.at \in {"run", "close", "join", "aborted"}
  BY DEF SoundInv
<1>. QED  BY <1>1, <1>2, <1>3 DEF AudioCaptureTypeOK

-----------------------------------------------------------------------------
(* The quality controller.                                                   *)

\* The AdaptiveQualityController.
CtlType == [level : Levels, cur : Profiles, nominalFps : Nat,
            stable : Nat, mild : Nat, severe : Nat, valid : Nat, warm : Nat,
            since : [resolution : Nat, fps : Nat, bitrate : Nat]]

\* What the feedback has shown since the last disturbance.
EvidenceType == [clean : 0..MinValid, of : Windows \cup {NoAction}, n : 0..LongestRun]

\* What the controller has counted since the last disturbance, the feedback showed.
Backed(c, e) ==
    /\ c.valid <= e.clean
    /\ c.stable > 0 => e.of = "stable" /\ c.stable <= e.n
    /\ c.mild > 0   => e.of = "mild"   /\ c.mild <= e.n
    /\ c.severe > 0 => e.of = "severe" /\ c.severe <= e.n

\* An action that was ordered: nothing is counted, and the encoder differs from the
\* controller's profile in the one dimension of the action.
Ordering ==
    /\ pipe.pending \in Dimensions
    /\ ctl.valid = 0 /\ ctl.stable = 0 /\ ctl.mild = 0
    /\ pipe.pending # "fps" => ctl.severe = 0
    /\ pipe.pending = "bitrate" => /\ ctl.cur.resolution = pipe.encoder.resolution
                                   /\ ctl.cur.fps = pipe.encoder.fps

\* The invariant of the quality controller.
ControlInv ==
    /\ ctl \in CtlType
    /\ pipe \in [at : {"report", "control", "rebuild", "ended"}, changing : BOOLEAN,
                 pending : Dimensions \cup {NoAction}, encoder : Profiles]
    /\ earned \in EvidenceType
    /\ pipe.at = "report" => pipe.encoder = ctl.cur /\ Backed(ctl, earned)
    /\ pipe.at \in {"control", "rebuild"} => Ordering

\* The evidence is counted as far as any count of the controller.
LEMMA LongestRunIs ==
  /\ LongestRun \in Nat /\ LongestRun >= 5
  /\ LongestRun >= MildWindows /\ LongestRun >= StableWindows
BY AdaptiveAssumption DEF LongestRun, Most, EmergencyWindows

\* The ladder has seven levels, and the stream starts at one of them.
LEMMA LevelsAre == Levels = 0..6 /\ StartLevel \in Levels /\ E2 = 6
<1>1. StartProfile.fps \in Nat /\ StartProfile.resolution \in Nat
  BY AdaptiveAssumption
<1>2. Levels = 0..6
  BY DEF Levels, E2
<1>3. StartLevel \in {0, 1, 2, 5, 6}
  <2>1. StartProfile.resolution >= 1080 \/ StartProfile.resolution \in 900..1079 \/ StartProfile.resolution < 900
    BY <1>1
  <2>. QED  BY <1>1, <2>1 DEF StartLevel
<1>. QED  BY <1>2, <1>3 DEF E2

\* Every level of the ladder is a profile.
LEMMA LadderIs == \A l \in Levels : Ladder[l] \in Profiles
<1>1. SUFFICES ASSUME NEW l \in Levels PROVE Ladder[l] \in Profiles
  OBVIOUS
<1>. DEFINE B == StartProfile.bitrate
            lines == <<1080, 900, 720, 720, 720, 720, 720>>
            fps == <<60, 60, 60, 60, 60, 45, 30>>
            kbps == <<B, B, B, Least(B, 18), Least(B, 15), Least(B, 15), Least(B, 15)>>
<1>2. B \in Nat /\ Least(B, 18) \in Nat /\ Least(B, 15) \in Nat
  BY AdaptiveAssumption DEF Least
<1>3. Ladder[l] = [resolution |-> lines[l + 1], fps |-> fps[l + 1], bitrate |-> kbps[l + 1]]
  BY DEF Ladder
<1>4. l + 1 \in 1..7
  BY LevelsAre
<1>5. lines[l + 1] \in Nat /\ fps[l + 1] \in Nat
  BY <1>4
<1>. HIDE DEF B
<1>6. kbps[l + 1] \in Nat
  BY <1>2, <1>4
<1>. HIDE DEF lines, fps, kbps
<1>. QED  BY <1>3, <1>5, <1>6 DEF Profiles

\* The safe tier below a limit is one of the tiers, and a frame rate.
LEMMA SafeTierIsNat == \A limit : SafeTier(limit) \in SafeTiers /\ SafeTier(limit) \in Nat
<1>1. SUFFICES ASSUME NEW limit PROVE SafeTier(limit) \in SafeTiers /\ SafeTier(limit) \in Nat
  OBVIOUS
<1>. DEFINE below == {t \in SafeTiers : t <= limit}
<1>2. CASE below = {}
  BY <1>2 DEF SafeTier, SafeTiers
<1>3. CASE below # {}
  <2>1. SafeTier(limit) = Max(below)
    BY <1>3 DEF SafeTier
  <2>2. below \subseteq {30, 45, 50, 60, 75, 90, 120}
    BY DEF SafeTiers
  <2>. HIDE DEF below
  <2>3. \E x \in below : \A y \in below : x >= y
    <3>1. CASE 120 \in below
      BY <3>1, <2>2
    <3>2. CASE 120 \notin below /\ 90 \in below
      BY <3>2, <2>2
    <3>3. CASE 120 \notin below /\ 90 \notin below /\ 75 \in below
      BY <3>3, <2>2
    <3>4. CASE 120 \notin below /\ 90 \notin below /\ 75 \notin below /\ 60 \in below
      BY <3>4, <2>2
    <3>5. CASE below \subseteq {30, 45, 50} /\ 50 \in below
      BY <3>5
    <3>6. CASE below \subseteq {30, 45} /\ 45 \in below
      BY <3>6
    <3>7. CASE below \subseteq {30}
      <4>1. PICK x \in below : x = 30
        BY <3>7, <1>3
      <4>. QED  BY <4>1, <3>7
    <3>. QED  BY <2>2, <3>1, <3>2, <3>3, <3>4, <3>5, <3>6, <3>7
  <2>4. Max(below) \in below
    BY <2>3 DEF Max
  <2>5. \A t \in {30, 45, 50, 60, 75, 90, 120} : t \in Nat
    OBVIOUS
  <2>6. Max(below) \in {30, 45, 50, 60, 75, 90, 120}
    BY <2>2, <2>4
  <2>7. Max(below) \in Nat
    BY <2>5, <2>6
  <2>. QED  BY <2>1, <2>6, <2>7 DEF SafeTiers
<1>. QED  BY <1>2, <1>3

\* What a decision makes of the controller's state c, ordering the action a.
Outcome(c, r) ==
    /\ r.ctl \in CtlType
    /\ \/ r.action = NoAction /\ r.ctl.cur = c.cur
       \/ /\ r.action \in Dimensions
          /\ r.ctl.valid = 0 /\ r.ctl.stable = 0 /\ r.ctl.mild = 0
          /\ r.action # "fps" => r.ctl.severe = 0
          /\ r.action = "bitrate" => r.ctl.cur.resolution = c.cur.resolution /\ r.ctl.cur.fps = c.cur.fps

\* The counts only fall.
Fewer(c, d) ==
    d.valid <= c.valid /\ d.stable <= c.stable /\ d.mild <= c.mild /\ d.severe <= c.severe

\* An action changes one dimension and clears the counts; a frame rate keeps the severe
\* ones.
LEMMA ApplyIs ==
  ASSUME NEW c \in CtlType, NEW d \in Dimensions, NEW v \in Nat
  PROVE  /\ Apply(c, d, v) \in CtlType
         /\ Apply(c, d, v).valid = 0 /\ Apply(c, d, v).stable = 0 /\ Apply(c, d, v).mild = 0
         /\ Apply(c, d, v).level = c.level
         /\ Apply(c, d, v).severe = IF d = "fps" THEN c.severe ELSE 0
         /\ d = "bitrate" => /\ Apply(c, d, v).cur.resolution = c.cur.resolution
                             /\ Apply(c, d, v).cur.fps = c.cur.fps
<1>1. CASE d = "fps"
  BY <1>1 DEF Apply, CtlType, Profiles, Dimensions
<1>2. CASE d = "bitrate"
  BY <1>2 DEF Apply, CtlType, Profiles, Dimensions
<1>3. CASE d = "resolution"
  BY <1>3 DEF Apply, CtlType, Profiles, Dimensions
<1>. QED  BY <1>1, <1>2, <1>3 DEF Dimensions

\* A step on the ladder orders one action, or only takes note of the level, or waits.
LEMMA StepToIs ==
  ASSUME NEW c \in CtlType, NEW l \in Levels
  PROVE  /\ Outcome(c, StepTo(c, l)) /\ Fewer(c, StepTo(c, l).ctl)
         /\ StepTo(c, l).ctl.level \in {c.level, l}
<1>. DEFINE target == [Ladder[l] EXCEPT !.fps = Least(@, c.nominalFps)]
            differs == {x \in Dimensions : c.cur[x] # target[x]}
            d == CASE "resolution" \in differs -> "resolution"
                   [] differs \in {{"fps"}, {"fps", "bitrate"}} -> "fps"
                   [] OTHER -> "bitrate"
            r == StepTo(c, l)
<1>1. target \in Profiles
  <2>1. Ladder[l] \in Profiles /\ c.nominalFps \in Nat
    BY LadderIs DEF CtlType
  <2>2. Least(Ladder[l].fps, c.nominalFps) \in Nat
    BY <2>1 DEF Least, Profiles
  <2>. QED  BY <2>1, <2>2 DEF Profiles
<1>2. d \in Dimensions
  BY DEF Dimensions
<1>3. r = CASE differs = {} -> Stay([Ineligible(c) EXCEPT !.level = l])
            [] differs # {} /\ c.since[d] < Cooldown[d] -> Stay(c)
            [] OTHER -> [ctl |-> [Apply(c, d, target[d]) EXCEPT !.level = l], action |-> d]
  BY DEF StepTo
<1>. HIDE DEF differs, d, target, r
<1>4. target[d] \in Nat
  BY <1>1, <1>2 DEF Profiles, Dimensions
<1>5. CASE r = Stay([Ineligible(c) EXCEPT !.level = l])
  <2>1. r.ctl = [Ineligible(c) EXCEPT !.level = l] /\ r.action = NoAction
    BY <1>5 DEF Stay
  <2>2. c.valid \in Nat /\ c.stable \in Nat /\ c.mild \in Nat /\ c.severe \in Nat
    BY DEF CtlType
  <2>3. /\ Ineligible(c) \in CtlType /\ Ineligible(c).valid = 0 /\ Ineligible(c).stable = 0
        /\ Ineligible(c).mild = 0 /\ Ineligible(c).severe = 0 /\ Ineligible(c).cur = c.cur
    BY DEF Ineligible, ResetWindows, CtlType
  <2>4. /\ r.ctl \in CtlType /\ r.ctl.level = l /\ r.ctl.valid = 0 /\ r.ctl.stable = 0
        /\ r.ctl.mild = 0 /\ r.ctl.severe = 0 /\ r.ctl.cur = c.cur
    BY <2>1, <2>3 DEF CtlType
  <2>. QED  BY <2>1, <2>2, <2>4 DEF Outcome, Fewer, r
<1>6. CASE r = Stay(c)
  <2>1. c.valid \in Nat /\ c.stable \in Nat /\ c.mild \in Nat /\ c.severe \in Nat
    BY DEF CtlType
  <2>. QED  BY <1>6, <2>1 DEF Stay, Outcome, Fewer, r
<1>7. CASE r = [ctl |-> [Apply(c, d, target[d]) EXCEPT !.level = l], action |-> d]
  <2>. DEFINE a == Apply(c, d, target[d])
  <2>1. /\ a \in CtlType /\ a.valid = 0 /\ a.stable = 0 /\ a.mild = 0
        /\ a.severe = IF d = "fps" THEN c.severe ELSE 0
        /\ d = "bitrate" => a.cur.resolution = c.cur.resolution /\ a.cur.fps = c.cur.fps
    BY <1>2, <1>4, ApplyIs
  <2>2. r.ctl = [a EXCEPT !.level = l] /\ r.action = d
    BY <1>7
  <2>. HIDE DEF a
  <2>3. /\ r.ctl \in CtlType /\ r.ctl.level = l /\ r.ctl.valid = 0 /\ r.ctl.stable = 0 /\ r.ctl.mild = 0
        /\ r.ctl.severe = a.severe /\ r.ctl.cur = a.cur
    BY <2>1, <2>2 DEF CtlType
  <2>4. c.valid \in Nat /\ c.stable \in Nat /\ c.mild \in Nat /\ c.severe \in Nat
    BY DEF CtlType
  <2>5. Outcome(c, r)
    BY <1>2, <2>1, <2>2, <2>3 DEF Outcome
  <2>6. Fewer(c, r.ctl)
    BY <2>1, <2>3, <2>4 DEF Fewer
  <2>. QED  BY <2>3, <2>5, <2>6 DEF r
<1>. QED  BY <1>3, <1>5, <1>6, <1>7

\* The evidence when the interval is over.
Evidence(e, w, eligible) ==
    IF ~eligible THEN NothingEarned
    ELSE [clean |-> Least(e.clean + 1, MinValid), of |-> w,
          n |-> IF w = e.of THEN Least(e.n + 1, LongestRun) ELSE 1]

\* A move of the level that the evidence e justifies.
Earned(from, to, e) ==
    to # from =>
        /\ e.clean >= MinValid
        /\ IF to < from
           THEN e.of = "stable" /\ e.n >= StableWindows
           ELSE \/ e.of = "severe" /\ e.n >= SevereWindows
                \/ e.of = "mild" /\ e.n >= MildWindows
        /\ to > Most(from, Q4) => e.of = "severe" /\ e.n >= EmergencyWindows

\* The type of the evidence.
LEMMA EvidenceIs ==
  ASSUME NEW e \in EvidenceType, NEW w \in Windows, NEW eligible \in BOOLEAN
  PROVE  /\ Evidence(e, w, eligible) \in EvidenceType
         /\ NothingEarned \in EvidenceType /\ NothingEarned.clean = 0 /\ NothingEarned.n = 0
         /\ eligible => /\ Evidence(e, w, eligible).clean = Least(e.clean + 1, MinValid)
                        /\ Evidence(e, w, eligible).of = w
                        /\ Evidence(e, w, eligible).n = IF w = e.of THEN Least(e.n + 1, LongestRun) ELSE 1
<1>. USE AdaptiveAssumption, LongestRunIs
<1>1. NothingEarned \in EvidenceType /\ NothingEarned.clean = 0 /\ NothingEarned.n = 0
  BY DEF NothingEarned, EvidenceType
<1>2. e.clean \in 0..MinValid /\ e.n \in 0..LongestRun
  BY DEF EvidenceType
<1>3. Least(e.clean + 1, MinValid) \in 0..MinValid /\ Least(e.n + 1, LongestRun) \in 0..LongestRun
      /\ 1 \in 0..LongestRun
  BY <1>2 DEF Least
<1>. QED  BY <1>1, <1>3 DEF Evidence, EvidenceType

\* Counts that fall stay backed.
LEMMA FewerIsBacked ==
  ASSUME NEW c \in CtlType, NEW d \in CtlType, NEW e \in EvidenceType, Backed(c, e), Fewer(c, d)
  PROVE  Backed(d, e)
<1>1. /\ c.valid \in Nat /\ c.stable \in Nat /\ c.mild \in Nat /\ c.severe \in Nat
      /\ d.valid \in Nat /\ d.stable \in Nat /\ d.mild \in Nat /\ d.severe \in Nat
  BY DEF CtlType
<1>2. e.clean \in Nat /\ e.n \in Nat
  BY AdaptiveAssumption, LongestRunIs DEF EvidenceType
<1>3. d.valid <= e.clean /\ d.valid <= c.valid /\ d.stable <= c.stable /\ d.mild <= c.mild /\ d.severe <= c.severe
  BY <1>1, <1>2 DEF Backed, Fewer
<1>4. d.stable > 0 => e.of = "stable" /\ d.stable <= e.n
  <2>1. d.stable > 0 => c.stable > 0
    BY <1>1, <1>3
  <2>. QED  BY <2>1, <1>1, <1>2, <1>3 DEF Backed
<1>5. d.mild > 0 => e.of = "mild" /\ d.mild <= e.n
  <2>1. d.mild > 0 => c.mild > 0
    BY <1>1, <1>3
  <2>. QED  BY <2>1, <1>1, <1>2, <1>3 DEF Backed
<1>6. d.severe > 0 => e.of = "severe" /\ d.severe <= e.n
  <2>1. d.severe > 0 => c.severe > 0
    BY <1>1, <1>3
  <2>. QED  BY <2>1, <1>1, <1>2, <1>3 DEF Backed
<1>. QED  BY <1>3, <1>4, <1>5, <1>6 DEF Backed

\* The state with one more window that counts.
Seen(c) == [c EXCEPT !.valid = Least(c.valid + 1, MinValid)]

\* A window is counted, in the controller and in the evidence.
LEMMA CountIs ==
  ASSUME NEW c \in CtlType, NEW e \in EvidenceType, Backed(c, e), NEW w \in Windows
  PROVE  /\ Count(Seen(c), w) \in CtlType /\ ResetWindows(Seen(c)) \in CtlType
         /\ Backed(Count(Seen(c), w), Evidence(e, w, TRUE))
         /\ Backed(ResetWindows(Seen(c)), Evidence(e, w, TRUE))
         /\ Count(Seen(c), w).level = c.level /\ ResetWindows(Seen(c)).level = c.level
         /\ Count(Seen(c), w).cur = c.cur /\ ResetWindows(Seen(c)).cur = c.cur
         /\ Count(Seen(c), w).valid = Seen(c).valid
<1>. USE AdaptiveAssumption, LongestRunIs
<1>. DEFINE f == Evidence(e, w, TRUE)  m == Seen(c)  k == Count(m, w)  z == ResetWindows(m)
<1>1. /\ c.valid \in Nat /\ c.stable \in Nat /\ c.mild \in Nat /\ c.severe \in Nat
      /\ e.clean \in 0..MinValid /\ e.n \in 0..LongestRun
  BY DEF CtlType, EvidenceType
<1>2. /\ f.clean = Least(e.clean + 1, MinValid) /\ f.of = w /\ f \in EvidenceType
      /\ f.n = IF w = e.of THEN Least(e.n + 1, LongestRun) ELSE 1
  BY EvidenceIs
<1>. HIDE DEF f
<1>3. /\ m.valid = Least(c.valid + 1, MinValid) /\ m.stable = c.stable /\ m.mild = c.mild
      /\ m.severe = c.severe /\ m.level = c.level /\ m.cur = c.cur /\ m \in CtlType
  <2>1. Least(c.valid + 1, MinValid) \in Nat
    BY <1>1 DEF Least
  <2>. QED  BY <2>1 DEF CtlType, Seen
<1>. HIDE DEF m
<1>4. m.valid \in Nat /\ m.valid <= f.clean
  BY <1>1, <1>2, <1>3 DEF Backed, Least
<1>5. /\ z \in CtlType /\ z.level = c.level /\ z.cur = c.cur /\ z.valid = m.valid
      /\ z.stable = 0 /\ z.mild = 0 /\ z.severe = 0
  BY <1>3 DEF ResetWindows, CtlType
<1>6. Backed(z, f)
  BY <1>4, <1>5 DEF Backed
<1>. DEFINE st == IF w = "stable" THEN Least(c.stable + 1, StableWindows) ELSE 0
            mi == IF w = "mild" THEN Least(c.mild + 1, MildWindows) ELSE 0
            se == IF w = "severe" THEN Least(c.severe + 1, EmergencyWindows) ELSE 0
<1>7. st \in Nat /\ mi \in Nat /\ se \in Nat
  BY <1>1 DEF Least, EmergencyWindows
<1>8. k = [z EXCEPT !.stable = st, !.mild = mi, !.severe = se]
  BY <1>3 DEF Count
<1>9. st > 0 => w = "stable" /\ st <= f.n
  <2>1. w = "stable" => st <= f.n
    <3>1. SUFFICES ASSUME w = "stable" PROVE Least(c.stable + 1, StableWindows) <= f.n
      OBVIOUS
    <3>2. CASE c.stable > 0
      <4>1. w = e.of /\ c.stable <= e.n
        BY <3>1, <3>2 DEF Backed
      <4>2. f.n = Least(e.n + 1, LongestRun)
        BY <4>1, <1>2
      <4>3. c.stable <= e.n
        BY <4>1
      <4>. QED  BY <4>2, <4>3, <1>1 DEF Least
    <3>3. CASE c.stable = 0
      <4>1. f.n >= 1
        BY <1>1, <1>2 DEF Least
      <4>2. f.n \in Nat
        BY <1>2 DEF EvidenceType
      <4>. QED  BY <3>3, <4>1, <4>2 DEF Least
    <3>. QED  BY <3>2, <3>3, <1>1
  <2>. QED  BY <2>1
<1>10. mi > 0 => w = "mild" /\ mi <= f.n
  <2>1. w = "mild" => mi <= f.n
    <3>1. SUFFICES ASSUME w = "mild" PROVE Least(c.mild + 1, MildWindows) <= f.n
      OBVIOUS
    <3>2. CASE c.mild > 0
      <4>1. w = e.of /\ c.mild <= e.n
        BY <3>1, <3>2 DEF Backed
      <4>2. f.n = Least(e.n + 1, LongestRun)
        BY <4>1, <1>2
      <4>3. c.mild <= e.n
        BY <4>1
      <4>. QED  BY <4>2, <4>3, <1>1 DEF Least
    <3>3. CASE c.mild = 0
      <4>1. f.n >= 1
        BY <1>1, <1>2 DEF Least
      <4>2. f.n \in Nat
        BY <1>2 DEF EvidenceType
      <4>. QED  BY <3>3, <4>1, <4>2 DEF Least
    <3>. QED  BY <3>2, <3>3, <1>1
  <2>. QED  BY <2>1
<1>11. se > 0 => w = "severe" /\ se <= f.n
  <2>1. w = "severe" => se <= f.n
    <3>1. SUFFICES ASSUME w = "severe" PROVE Least(c.severe + 1, EmergencyWindows) <= f.n
      OBVIOUS
    <3>2. CASE c.severe > 0
      <4>1. w = e.of /\ c.severe <= e.n
        BY <3>1, <3>2 DEF Backed
      <4>2. f.n = Least(e.n + 1, LongestRun)
        BY <4>1, <1>2
      <4>3. c.severe <= e.n
        BY <4>1
      <4>. QED  BY <4>2, <4>3, <1>1 DEF Least, EmergencyWindows
    <3>3. CASE c.severe = 0
      <4>1. f.n >= 1
        BY <1>1, <1>2 DEF Least
      <4>2. f.n \in Nat
        BY <1>2 DEF EvidenceType
      <4>. QED  BY <3>3, <4>1, <4>2 DEF Least, EmergencyWindows
    <3>. QED  BY <3>2, <3>3, <1>1
  <2>. QED  BY <2>1
<1>. HIDE DEF st, mi, se, z
<1>12. /\ k \in CtlType /\ k.level = c.level /\ k.cur = c.cur /\ k.valid = m.valid
       /\ k.stable = st /\ k.mild = mi /\ k.severe = se
  BY <1>5, <1>7, <1>8 DEF CtlType
<1>. HIDE DEF k
<1>13. Backed(k, f)
  BY <1>2, <1>4, <1>9, <1>10, <1>11, <1>12 DEF Backed
<1>. QED  BY <1>5, <1>6, <1>12, <1>13 DEF z, k, f, m

\* The counts of the window justify the move it causes.
LEMMA DegradeIs ==
  ASSUME NEW n \in CtlType, NEW e \in EvidenceType, Backed(n, e), e.clean >= MinValid,
         NEW hard \in BOOLEAN,
         IF hard THEN n.severe >= SevereWindows ELSE n.mild >= MildWindows
  PROVE  /\ Outcome(n, Degrade(n, hard)) /\ Backed(Degrade(n, hard).ctl, e)
         /\ Earned(n.level, Degrade(n, hard).ctl.level, e)
<1>. USE AdaptiveAssumption
<1>. DEFINE r == Degrade(n, hard)
<1>1. n.level \in 0..6 /\ n.severe \in Nat /\ n.mild \in Nat /\ e.n \in Nat
  BY LevelsAre, LongestRunIs DEF CtlType, EvidenceType
<1>2. \/ e.of = "severe" /\ e.n >= SevereWindows
      \/ e.of = "mild" /\ e.n >= MildWindows
  <2>1. CASE hard
    <3>1. n.severe > 0 /\ n.severe >= SevereWindows
      BY <2>1, <1>1
    <3>2. e.of = "severe" /\ n.severe <= e.n
      BY <3>1 DEF Backed
    <3>3. e.n >= SevereWindows
      BY <3>1, <3>2, <1>1
    <3>. QED  BY <3>2, <3>3
  <2>2. CASE ~hard
    <3>1. n.mild > 0 /\ n.mild >= MildWindows
      BY <2>2, <1>1
    <3>2. e.of = "mild" /\ n.mild <= e.n
      BY <3>1 DEF Backed
    <3>3. e.n >= MildWindows
      BY <3>1, <3>2, <1>1
    <3>. QED  BY <3>2, <3>3
  <2>. QED  BY <2>1, <2>2
<1>3. CASE r = Stay(n)
  BY <1>1, <1>3 DEF Stay, Outcome, Earned
<1>4. CASE n.level < Q4 /\ r = StepTo(n, n.level + 1)
  <2>1. n.level + 1 \in Levels
    BY <1>1, <1>4, LevelsAre DEF Q4
  <2>2. /\ Outcome(n, r) /\ Fewer(n, r.ctl) /\ r.ctl.level \in {n.level, n.level + 1} /\ r.ctl \in CtlType
    BY <1>4, <2>1, StepToIs DEF Outcome
  <2>3. ~(r.ctl.level < n.level) /\ ~(r.ctl.level > Most(n.level, Q4))
    BY <1>1, <1>4, <2>2 DEF Q4, Most
  <2>. HIDE DEF r
  <2>. QED  BY <1>2, <2>2, <2>3, FewerIsBacked DEF Earned, r
<1>5. CASE n.level \in Q4..(E2 - 1) /\ hard /\ n.severe >= EmergencyWindows /\ r = StepTo(n, n.level + 1)
  <2>1. n.level + 1 \in Levels
    BY <1>1, <1>5, LevelsAre DEF Q4
  <2>2. /\ Outcome(n, r) /\ Fewer(n, r.ctl) /\ r.ctl.level \in {n.level, n.level + 1} /\ r.ctl \in CtlType
    <3>1. r = StepTo(n, n.level + 1)
      BY <1>5
    <3>2. Outcome(n, r) /\ Fewer(n, r.ctl) /\ r.ctl.level \in {n.level, n.level + 1}
      BY <2>1, <3>1, StepToIs
    <3>. QED  BY <3>2 DEF Outcome
  <2>3. ~(r.ctl.level < n.level)
    BY <1>1, <2>2
  <2>4. e.of = "severe" /\ e.n >= EmergencyWindows
    <3>1. n.severe > 0 /\ n.severe >= EmergencyWindows
      BY <1>1, <1>5 DEF EmergencyWindows
    <3>2. e.of = "severe" /\ n.severe <= e.n
      BY <3>1 DEF Backed
    <3>3. e.n >= EmergencyWindows
      BY <3>1, <3>2, <1>1 DEF EmergencyWindows
    <3>. QED  BY <3>2, <3>3
  <2>. HIDE DEF r
  <2>. QED  BY <1>2, <2>2, <2>3, <2>4, FewerIsBacked DEF Earned, r
<1>6. r = Stay(n) \/ (n.level < Q4 /\ r = StepTo(n, n.level + 1))
      \/ (n.level \in Q4..(E2 - 1) /\ hard /\ n.severe >= EmergencyWindows /\ r = StepTo(n, n.level + 1))
  <2>1. CASE n.level < Q4
    <3>1. r = IF Ladder[n.level + 1].resolution < MinLines THEN Stay(n) ELSE StepTo(n, n.level + 1)
      <4>1. ~(n.level \in Q4..(E2 - 1))
        BY <1>1, <2>1 DEF Q4, E2
      <4>. QED  BY <2>1, <4>1 DEF Degrade
    <3>. QED  BY <2>1, <3>1
  <2>2. CASE ~(n.level < Q4)
    BY <2>2 DEF Degrade
  <2>. QED  BY <2>1, <2>2
<1>. QED  BY <1>3, <1>4, <1>5, <1>6

\* A level is regained on a run of stable windows.
LEMMA RecoverIs ==
  ASSUME NEW n \in CtlType, NEW e \in EvidenceType, Backed(n, e), e.clean >= MinValid,
         n.stable >= StableWindows
  PROVE  /\ Outcome(n, Recover(n)) /\ Backed(Recover(n).ctl, e)
         /\ Earned(n.level, Recover(n).ctl.level, e)
<1>. USE AdaptiveAssumption
<1>. DEFINE r == Recover(n)
<1>1. n.level \in 0..6 /\ n.stable \in Nat /\ e.n \in Nat
  BY LevelsAre, LongestRunIs DEF CtlType, EvidenceType
<1>2. e.of = "stable" /\ e.n >= StableWindows
  <2>1. n.stable > 0 /\ n.stable >= StableWindows
    BY <1>1
  <2>2. e.of = "stable" /\ n.stable <= e.n
    BY <2>1 DEF Backed
  <2>3. e.n >= StableWindows
    BY <2>1, <2>2, <1>1
  <2>. QED  BY <2>2, <2>3
<1>3. CASE r = Stay(n)
  BY <1>1, <1>3 DEF Stay, Outcome, Earned
<1>4. CASE n.level # 0 /\ r = StepTo(n, n.level - 1)
  <2>1. n.level - 1 \in Levels
    BY <1>1, <1>4, LevelsAre
  <2>2. /\ Outcome(n, r) /\ Fewer(n, r.ctl) /\ r.ctl.level \in {n.level, n.level - 1} /\ r.ctl \in CtlType
    BY <1>4, <2>1, StepToIs DEF Outcome
  <2>3. r.ctl.level # n.level => r.ctl.level < n.level
    BY <1>1, <2>2
  <2>4. ~(r.ctl.level > Most(n.level, Q4))
    BY <1>1, <2>2 DEF Q4, Most
  <2>. HIDE DEF r
  <2>. QED  BY <1>2, <2>2, <2>3, <2>4, FewerIsBacked DEF Earned, r
<1>. QED  BY <1>3, <1>4 DEF Recover

\* A window whose feedback counts.
LEMMA ObserveIs ==
  ASSUME NEW c \in CtlType, NEW e \in EvidenceType, Backed(c, e), NEW w \in Windows,
         NEW full \in BOOLEAN
  PROVE  LET f == Evidence(e, w, TRUE)  r == Observe(c, w, full)
         IN  Outcome(c, r) /\ Backed(r.ctl, f) /\ Earned(c.level, r.ctl.level, f)
<1>. USE AdaptiveAssumption
<1>. DEFINE f == Evidence(e, w, TRUE)  r == Observe(c, w, full)
            m == Seen(c)
            n == Count(m, w)
<1>1. c.valid \in Nat /\ c.level \in 0..6 /\ e.clean \in 0..MinValid
  BY LevelsAre DEF CtlType, EvidenceType
<1>3. /\ n \in CtlType /\ ResetWindows(m) \in CtlType /\ Backed(n, f) /\ Backed(ResetWindows(m), f)
      /\ n.level = c.level /\ ResetWindows(m).level = c.level
      /\ n.cur = c.cur /\ ResetWindows(m).cur = c.cur /\ n.valid = m.valid
  BY CountIs
<1>30. m.valid \in Nat
  BY <1>3 DEF CtlType
<1>31. /\ r = IF c.warm < Warmup \/ ~full \/ m.valid < MinValid THEN Stay(ResetWindows(m))
              ELSE CASE n.severe >= SevereWindows -> Degrade(n, TRUE)
                     [] n.mild >= MildWindows     -> Degrade(n, FALSE)
                     [] n.stable >= StableWindows -> Recover(n)
                     [] OTHER                     -> Stay(n)
  BY DEF Observe, Seen
<1>. HIDE DEF r, m
<1>4. f \in EvidenceType
  BY EvidenceIs
<1>. HIDE DEF n, f
<1>5. CASE r = Stay(ResetWindows(m)) \/ r = Stay(n)
  <2>1. /\ r.action = NoAction /\ r.ctl \in CtlType /\ r.ctl.cur = c.cur
        /\ r.ctl.level = c.level /\ Backed(r.ctl, f)
    BY <1>3, <1>5 DEF Stay
  <2>. QED  BY <2>1 DEF Outcome, Earned, r, f
<1>6. ASSUME ~(m.valid < MinValid) PROVE f.clean >= MinValid
  <2>1. n.valid <= f.clean /\ n.valid \in Nat
    BY <1>3 DEF Backed, CtlType
  <2>2. f.clean \in Nat
    BY <1>4 DEF EvidenceType
  <2>. QED  BY <1>3, <1>6, <2>1, <2>2
<1>7. ASSUME Outcome(n, r) PROVE Outcome(c, r)
  BY <1>3, <1>7 DEF Outcome
<1>8. CASE r = Degrade(n, TRUE) /\ n.severe >= SevereWindows /\ ~(m.valid < MinValid)
  <2>1. Outcome(n, r) /\ Backed(r.ctl, f) /\ Earned(n.level, r.ctl.level, f)
    BY <1>3, <1>4, <1>6, <1>8, DegradeIs
  <2>. QED  BY <2>1, <1>3, <1>7 DEF f, r
<1>9. CASE r = Degrade(n, FALSE) /\ n.mild >= MildWindows /\ ~(m.valid < MinValid)
  <2>1. Outcome(n, r) /\ Backed(r.ctl, f) /\ Earned(n.level, r.ctl.level, f)
    BY <1>3, <1>4, <1>6, <1>9, DegradeIs
  <2>. QED  BY <2>1, <1>3, <1>7 DEF f, r
<1>10. CASE r = Recover(n) /\ n.stable >= StableWindows /\ ~(m.valid < MinValid)
  <2>1. Outcome(n, r) /\ Backed(r.ctl, f) /\ Earned(n.level, r.ctl.level, f)
    BY <1>3, <1>4, <1>6, <1>10, RecoverIs
  <2>. QED  BY <2>1, <1>3, <1>7 DEF f, r
<1>11. \/ r = Stay(ResetWindows(m))
       \/ /\ ~(m.valid < MinValid)
          /\ \/ r = Degrade(n, TRUE) /\ n.severe >= SevereWindows
             \/ r = Degrade(n, FALSE) /\ n.mild >= MildWindows
             \/ r = Recover(n) /\ n.stable >= StableWindows
             \/ r = Stay(n)
  <2>1. n.severe \in Nat /\ n.mild \in Nat /\ n.stable \in Nat
    BY <1>3 DEF CtlType
  <2>2. n.severe >= SevereWindows => ~(n.mild >= MildWindows) /\ ~(n.stable >= StableWindows)
    BY <1>3, <2>1 DEF Backed
  <2>3. n.mild >= MildWindows => ~(n.stable >= StableWindows)
    BY <1>3, <2>1 DEF Backed
  <2>. QED  BY <1>31, <2>2, <2>3
<1>. QED  BY <1>5, <1>8, <1>9, <1>10, <1>11 DEF f, r

\* What an interval makes of the state: nothing is kept of feedback that does not count,
\* a hard limit moves no level, and a window moves one on evidence.
LEMMA OrderedIs ==
  ASSUME NEW c \in CtlType, NEW e \in EvidenceType, Backed(c, e), NEW w \in Windows,
         NEW d, d.fps \in Nat, NEW eligible \in BOOLEAN, NEW span
  PROVE  LET f == Evidence(e, w, eligible)  r == Ordered(c, d, w, eligible, span)
         IN  /\ Outcome(c, r) /\ (r.action = NoAction => Backed(r.ctl, f))
             /\ Earned(c.level, r.ctl.level, f)
<1>. USE AdaptiveAssumption
<1>. DEFINE f == Evidence(e, w, eligible)  r == Ordered(c, d, w, eligible, span)
<1>1. CASE ~eligible
  <2>1. r.ctl = Ineligible(c) /\ r.action = NoAction
    BY <1>1 DEF Ordered, Stay
  <2>2. /\ r.ctl \in CtlType /\ r.ctl.level = c.level /\ r.ctl.cur = c.cur
        /\ r.ctl.valid = 0 /\ r.ctl.stable = 0 /\ r.ctl.mild = 0 /\ r.ctl.severe = 0
    <3>1. /\ Ineligible(c) \in CtlType /\ Ineligible(c).level = c.level /\ Ineligible(c).cur = c.cur
          /\ Ineligible(c).valid = 0 /\ Ineligible(c).stable = 0 /\ Ineligible(c).mild = 0
          /\ Ineligible(c).severe = 0
      BY DEF Ineligible, ResetWindows, CtlType
    <3>. HIDE DEF r
    <3>. QED  BY <2>1, <3>1
  <2>3. f.clean = 0
    BY <1>1 DEF Evidence, NothingEarned
  <2>. HIDE DEF f, r
  <2>4. Outcome(c, r) /\ Backed(r.ctl, f) /\ Earned(c.level, r.ctl.level, f)
    BY <2>1, <2>2, <2>3 DEF Outcome, Backed, Earned
  <2>. QED  BY <2>4 DEF f, r
<1>2. CASE eligible /\ d.hard /\ CapsFps(c, d.fps)
  <2>. DEFINE v == Most(d.fps, MinFps)
  <2>1. v \in Nat
    BY DEF Most
  <2>2. r.ctl = Apply(c, "fps", v) /\ r.action = "fps"
    BY <1>2 DEF Ordered, EnforceCap
  <2>. HIDE DEF v, r, f
  <2>3. "fps" \in Dimensions /\ "fps" # NoAction /\ "fps" # "bitrate"
    BY DEF Dimensions, NoAction
  <2>4. /\ r.ctl \in CtlType /\ r.ctl.valid = 0 /\ r.ctl.stable = 0 /\ r.ctl.mild = 0
        /\ r.ctl.level = c.level
    BY <2>1, <2>2, <2>3, ApplyIs, SMTT(40)
  <2>5. Outcome(c, r) /\ Earned(c.level, r.ctl.level, f)
    BY <2>2, <2>3, <2>4 DEF Outcome, Earned
  <2>. QED  BY <2>2, <2>3, <2>5 DEF f, r
<1>3. CASE eligible /\ ~(d.hard /\ CapsFps(c, d.fps))
  <2>1. r = Observe(c, w, span = Span)
    BY <1>3 DEF Ordered
  <2>2. (span = Span) \in BOOLEAN
    OBVIOUS
  <2>3. f = Evidence(e, w, TRUE)
    BY <1>3
  <2>. HIDE DEF f, r
  <2>4. Outcome(c, r) /\ Backed(r.ctl, f) /\ Earned(c.level, r.ctl.level, f)
    BY <2>1, <2>2, <2>3, ObserveIs
  <2>. QED  BY <2>4 DEF f, r
<1>. QED  BY <1>1, <1>2, <1>3

\* The controller begins so.
LEMMA AdaptiveInitially == AdaptiveInit => ControlInv
<1>. SUFFICES ASSUME AdaptiveInit PROVE ControlInv
  OBVIOUS
<1>. USE AdaptiveAssumption
<1>1. StartLevel \in Levels /\ StartProfile \in Profiles /\ StartProfile.fps \in Nat
  BY LevelsAre DEF Profiles
<1>2. ctl \in CtlType /\ ctl.valid = 0 /\ ctl.stable = 0 /\ ctl.mild = 0 /\ ctl.severe = 0
      /\ ctl.cur = StartProfile
  BY <1>1 DEF AdaptiveInit, CtlType
<1>3. /\ pipe \in [at : {"report", "control", "rebuild", "ended"}, changing : BOOLEAN,
                   pending : Dimensions \cup {NoAction}, encoder : Profiles]
      /\ pipe.at = "report" /\ pipe.encoder = StartProfile
  BY <1>1 DEF AdaptiveInit
<1>4. earned = NothingEarned /\ NothingEarned \in EvidenceType /\ earned.clean = 0
  BY LongestRunIs DEF AdaptiveInit, NothingEarned, EvidenceType
<1>. QED  BY <1>2, <1>3, <1>4 DEF ControlInv, Backed

\* An interval passes: the counts are as they were.
LEMMA ElapsedIs ==
  ASSUME NEW c \in CtlType
  PROVE  /\ Elapse(c) \in CtlType /\ Elapse(c).level = c.level /\ Elapse(c).cur = c.cur
         /\ Fewer(c, Elapse(c))
<1>. USE AdaptiveAssumption
<1>. DEFINE warm == Least(c.warm + 1, Warmup)
            since == [d \in Dimensions |-> Least(c.since[d] + 1, Cooldown[d])]
<1>1. warm \in Nat
  BY DEF CtlType, Least
<1>2. since \in [resolution : Nat, fps : Nat, bitrate : Nat]
  <2>1. /\ Least(c.since["resolution"] + 1, Cooldown["resolution"]) \in Nat
        /\ Least(c.since["fps"] + 1, Cooldown["fps"]) \in Nat
        /\ Least(c.since["bitrate"] + 1, Cooldown["bitrate"]) \in Nat
    BY DEF CtlType, Least
  <2>2. \A d \in Dimensions : since[d] \in Nat
    BY <2>1 DEF Dimensions
  <2>3. DOMAIN since = {"resolution", "fps", "bitrate"} /\ since = [d \in {"resolution", "fps", "bitrate"} |-> since[d]]
    BY DEF Dimensions
  <2>. HIDE DEF since
  <2>. QED  BY <2>2, <2>3 DEF Dimensions
<1>3. Elapse(c) = [c EXCEPT !.warm = warm, !.since = since]
  BY DEF Elapse, CtlType
<1>. HIDE DEF warm, since
<1>4. c.valid \in Nat /\ c.stable \in Nat /\ c.mild \in Nat /\ c.severe \in Nat
  BY DEF CtlType
<1>5. /\ Elapse(c) \in CtlType /\ Elapse(c).level = c.level /\ Elapse(c).cur = c.cur
      /\ Elapse(c).valid = c.valid /\ Elapse(c).stable = c.stable /\ Elapse(c).mild = c.mild
      /\ Elapse(c).severe = c.severe
  BY <1>1, <1>2, <1>3 DEF CtlType
<1>. QED  BY <1>4, <1>5 DEF Fewer

\* A report interval.
LEMMA ReportKeeps ==
  ASSUME ControlInv, NEW w \in Windows, NEW settled \in BOOLEAN, NEW source, NEW receiver,
         NEW estimate, Report(w, settled, source, receiver, estimate)
  PROVE  ControlInv' /\ Earned(ctl.level, ctl'.level, earned')
<1>. USE AdaptiveAssumption
<1>. DEFINE eligible == Eligible(w, settled)
            heard == Heard(eligible)
            d == Decision(source, receiver, estimate)
            c == IF settled THEN FinishTransition(Elapse(ctl)) ELSE Elapse(ctl)
            b == [c EXCEPT !.nominalFps = Most(d.fps, MinFps)]
            r == Ordered(b, d, w, eligible, heard.span)
<1>1. /\ pipe.at = "report" /\ (settled => pipe.changing) /\ earned' = Earn(w, settled)
      /\ ctl' = r.ctl
      /\ pipe' = [pipe EXCEPT !.changing = @ /\ ~settled, !.pending = r.action,
                              !.at = IF r.action = NoAction THEN "report" ELSE "control"]
  BY DEF Report
<1>2. /\ ctl \in CtlType /\ earned \in EvidenceType /\ pipe.encoder = ctl.cur /\ Backed(ctl, earned)
      /\ pipe \in [at : {"report", "control", "rebuild", "ended"}, changing : BOOLEAN,
                   pending : Dimensions \cup {NoAction}, encoder : Profiles]
  BY <1>1 DEF ControlInv
<1>3. eligible \in BOOLEAN /\ pipe.changing \in BOOLEAN
  BY <1>2 DEF Eligible
<1>4. earned' = Evidence(earned, w, eligible)
  BY <1>1, <1>3 DEF Earn, Evidence, Eligible, NothingEarned
<1>5. d.fps \in Nat
  BY SafeTierIsNat DEF Decision
<1>. HIDE DEF eligible, d
<1>6. /\ c \in CtlType /\ c.level = ctl.level /\ c.cur = ctl.cur /\ Fewer(ctl, c)
  <2>. DEFINE el == Elapse(ctl)
  <2>1. el \in CtlType /\ el.level = ctl.level /\ el.cur = ctl.cur /\ Fewer(ctl, el)
    BY <1>2, ElapsedIs
  <2>2. ctl.valid \in Nat /\ ctl.stable \in Nat /\ ctl.mild \in Nat /\ ctl.severe \in Nat
    BY <1>2 DEF CtlType
  <2>. HIDE DEF el
  <2>3. /\ FinishTransition(el) \in CtlType /\ FinishTransition(el).level = el.level
        /\ FinishTransition(el).cur = el.cur /\ FinishTransition(el).valid = 0
        /\ FinishTransition(el).stable = 0 /\ FinishTransition(el).mild = 0 /\ FinishTransition(el).severe = 0
    BY <2>1 DEF FinishTransition, Ineligible, ResetWindows, CtlType
  <2>4. Fewer(ctl, FinishTransition(el))
    BY <2>2, <2>3 DEF Fewer
  <2>. QED  BY <2>1, <2>3, <2>4 DEF el
<1>. HIDE DEF c
<1>7. /\ b \in CtlType /\ b.level = ctl.level /\ b.cur = ctl.cur /\ Fewer(ctl, b)
  <2>1. Most(d.fps, MinFps) \in Nat
    BY <1>5 DEF Most
  <2>. QED  BY <1>6, <2>1 DEF CtlType, Fewer
<1>. HIDE DEF b
<1>8. Backed(b, earned)
  BY <1>2, <1>7, FewerIsBacked
<1>9. /\ Outcome(b, r) /\ (r.action = NoAction => Backed(r.ctl, earned'))
      /\ Earned(b.level, r.ctl.level, earned')
  BY <1>2, <1>3, <1>4, <1>5, <1>7, <1>8, OrderedIs
<1>10. earned' \in EvidenceType
  BY <1>2, <1>3, <1>4, EvidenceIs
<1>. HIDE DEF r
<1>11. r.action \in Dimensions \cup {NoAction} /\ r.ctl \in CtlType
  BY <1>9 DEF Outcome
<1>12. (pipe.changing /\ ~settled) \in BOOLEAN
  OBVIOUS
<1>13. /\ pipe' \in [at : {"report", "control", "rebuild", "ended"}, changing : BOOLEAN,
                     pending : Dimensions \cup {NoAction}, encoder : Profiles]
       /\ pipe'.at = (IF r.action = NoAction THEN "report" ELSE "control")
       /\ pipe'.pending = r.action /\ pipe'.encoder = pipe.encoder
  BY <1>1, <1>2, <1>11, <1>12
<1>14. NoAction \notin Dimensions
  BY DEF NoAction, Dimensions
<1>15. CASE r.action = NoAction
  <2>1. r.ctl.cur = ctl.cur
    BY <1>7, <1>9, <1>14, <1>15 DEF Outcome
  <2>. QED  BY <1>1, <1>2, <1>7, <1>9, <1>10, <1>11, <1>13, <1>15, <2>1 DEF ControlInv
<1>16. CASE r.action # NoAction
  <2>1. Ordering'
    BY <1>1, <1>2, <1>7, <1>9, <1>13, <1>16 DEF Ordering, Outcome
  <2>. QED  BY <1>1, <1>7, <1>9, <1>10, <1>11, <1>13, <1>16, <2>1 DEF ControlInv
<1>. QED  BY <1>15, <1>16

\* A change that is not settled in time ends the stream.
LEMMA DeadlineKeeps ==
  ASSUME ControlInv, Deadline PROVE ControlInv' /\ ctl'.level = ctl.level
<1>1. /\ pipe' = [pipe EXCEPT !.at = "ended", !.changing = FALSE]
      /\ ctl' = FinishTransition(ctl) /\ earned' = earned
  BY DEF Deadline
<1>2. ctl' \in CtlType /\ ctl'.level = ctl.level
  BY <1>1, AdaptiveAssumption DEF ControlInv, CtlType, FinishTransition, Ineligible, ResetWindows
<1>3. /\ pipe' \in [at : {"report", "control", "rebuild", "ended"}, changing : BOOLEAN,
                    pending : Dimensions \cup {NoAction}, encoder : Profiles]
      /\ pipe'.at = "ended"
  BY <1>1 DEF ControlInv
<1>. QED  BY <1>1, <1>2, <1>3 DEF ControlInv

\* The encoder takes the bitrate, and then runs what the controller believes in; or a
\* pipeline has to be built.
LEMMA TakeControlKeeps ==
  ASSUME ControlInv, NEW ok \in BOOLEAN, TakeControl(ok)
  PROVE  ControlInv' /\ ctl'.level = ctl.level
<1>. USE AdaptiveAssumption
<1>1. pipe.at = "control" /\ earned' = NothingEarned /\ ctl' = ctl
  BY DEF TakeControl
<1>2. /\ Ordering /\ ctl \in CtlType
      /\ pipe \in [at : {"report", "control", "rebuild", "ended"}, changing : BOOLEAN,
                   pending : Dimensions \cup {NoAction}, encoder : Profiles]
  BY <1>1 DEF ControlInv
<1>3. NothingEarned \in EvidenceType /\ NothingEarned.clean = 0
  BY LongestRunIs DEF NothingEarned, EvidenceType
<1>4. CASE pipe.pending = "bitrate" /\ ok
  <2>1. pipe' = [pipe EXCEPT !.at = "report", !.pending = NoAction, !.encoder.bitrate = ctl.cur.bitrate]
    BY <1>4 DEF TakeControl
  <2>2. ctl.cur \in Profiles /\ pipe.encoder \in Profiles
    BY <1>2 DEF CtlType
  <2>3. [pipe.encoder EXCEPT !.bitrate = ctl.cur.bitrate] = ctl.cur
    <3>1. ctl.cur.resolution = pipe.encoder.resolution /\ ctl.cur.fps = pipe.encoder.fps
      BY <1>2, <1>4 DEF Ordering
    <3>. QED  BY <2>2, <3>1 DEF Profiles
  <2>4. /\ pipe' \in [at : {"report", "control", "rebuild", "ended"}, changing : BOOLEAN,
                     pending : Dimensions \cup {NoAction}, encoder : Profiles]
        /\ pipe'.at = "report" /\ pipe'.encoder = ctl.cur
    <3>1. pipe' = [pipe EXCEPT !.at = "report", !.pending = NoAction, !.encoder = ctl.cur]
      BY <1>2, <2>1, <2>3
    <3>. QED  BY <1>2, <2>2, <3>1
  <2>5. Backed(ctl, NothingEarned)
    <3>1. "bitrate" # "fps"
      OBVIOUS
    <3>2. ctl.valid = 0 /\ ctl.stable = 0 /\ ctl.mild = 0 /\ ctl.severe = 0
      BY <1>2, <1>4, <3>1 DEF Ordering
    <3>. QED  BY <3>2, <1>3 DEF Backed
  <2>. QED  BY <1>1, <1>2, <1>3, <2>4, <2>5 DEF ControlInv
<1>5. CASE ~(pipe.pending = "bitrate" /\ ok)
  <2>1. pipe' = [pipe EXCEPT !.at = "rebuild"]
    BY <1>5 DEF TakeControl
  <2>2. /\ pipe' \in [at : {"report", "control", "rebuild", "ended"}, changing : BOOLEAN,
                     pending : Dimensions \cup {NoAction}, encoder : Profiles]
        /\ pipe'.at = "rebuild" /\ pipe'.encoder = pipe.encoder /\ pipe'.pending = pipe.pending
    BY <1>2, <2>1
  <2>3. Ordering'
    BY <1>1, <1>2, <2>2 DEF Ordering
  <2>. QED  BY <1>1, <1>2, <1>3, <2>2, <2>3 DEF ControlInv
<1>. QED  BY <1>4, <1>5

\* The pipeline that is built runs what the controller believes in.
LEMMA RebuildKeeps ==
  ASSUME ControlInv, NEW ok \in BOOLEAN, Rebuild(ok)
  PROVE  ControlInv' /\ ctl'.level = ctl.level
<1>. USE AdaptiveAssumption
<1>1. pipe.at = "rebuild" /\ earned' = earned
  BY DEF Rebuild
<1>2. /\ ctl \in CtlType /\ earned \in EvidenceType
      /\ pipe \in [at : {"report", "control", "rebuild", "ended"}, changing : BOOLEAN,
                   pending : Dimensions \cup {NoAction}, encoder : Profiles]
  BY DEF ControlInv
<1>3. CASE ok
  <2>1. /\ pipe' = [at |-> "report", changing |-> TRUE, pending |-> NoAction, encoder |-> ctl.cur]
        /\ ctl' = Ineligible(ctl)
    BY <1>3 DEF Rebuild
  <2>2. /\ ctl' \in CtlType /\ ctl'.level = ctl.level /\ ctl'.cur = ctl.cur /\ ctl'.valid = 0
        /\ ctl'.stable = 0 /\ ctl'.mild = 0 /\ ctl'.severe = 0
    BY <1>2, <2>1 DEF Ineligible, ResetWindows, CtlType
  <2>3. /\ pipe' \in [at : {"report", "control", "rebuild", "ended"}, changing : BOOLEAN,
                     pending : Dimensions \cup {NoAction}, encoder : Profiles]
        /\ pipe'.at = "report" /\ pipe'.encoder = ctl.cur
    BY <1>2, <2>1 DEF CtlType
  <2>4. Backed(ctl', earned')
    <3>1. earned.clean \in Nat
      BY <1>2 DEF EvidenceType
    <3>. QED  BY <1>1, <2>2, <3>1 DEF Backed
  <2>. QED  BY <1>1, <1>2, <2>2, <2>3, <2>4 DEF ControlInv
<1>4. CASE ~ok
  <2>1. pipe' = [pipe EXCEPT !.at = "ended"] /\ ctl' = ctl
    BY <1>4 DEF Rebuild
  <2>2. /\ pipe' \in [at : {"report", "control", "rebuild", "ended"}, changing : BOOLEAN,
                     pending : Dimensions \cup {NoAction}, encoder : Profiles]
        /\ pipe'.at = "ended"
    BY <1>2, <2>1
  <2>. QED  BY <1>1, <1>2, <2>1, <2>2 DEF ControlInv
<1>. QED  BY <1>3, <1>4

\* Every step keeps the invariant and moves a level only on evidence.
LEMMA AdaptiveSteps ==
  ASSUME ControlInv, AdaptiveNext \/ UNCHANGED adaptiveVars
  PROVE  ControlInv' /\ (UNCHANGED adaptiveVars \/ Earned(ctl.level, ctl'.level, earned'))
<1>1. CASE \E w \in Windows, settled \in BOOLEAN : Reports(w, settled)
  BY <1>1, ReportKeeps DEF Reports
<1>2. CASE Deadline \/ \E ok \in BOOLEAN : TakeControl(ok) \/ Rebuild(ok)
  <2>1. ControlInv' /\ ctl'.level = ctl.level
    BY <1>2, DeadlineKeeps, TakeControlKeeps, RebuildKeeps
  <2>. QED  BY <2>1 DEF Earned
<1>3. CASE UNCHANGED adaptiveVars
  BY <1>3 DEF adaptiveVars, ControlInv, Ordering
<1>. QED  BY <1>1, <1>2, <1>3 DEF AdaptiveNext

-----------------------------------------------------------------------------
(* The quality controller: its bounds.                                       *)

\* The bounds of the controller's counts and intervals, and the frame rates it may take
\* for nominal.
Bounded(c) ==
    /\ c.level >= StartLevel
    /\ c.nominalFps \in SafeTiers \cup {StartProfile.fps, MinFps}
    /\ c.valid <= MinValid /\ c.stable <= StableWindows
    /\ c.mild <= MildWindows /\ c.severe <= EmergencyWindows
    /\ c.warm <= Warmup
    /\ \A x \in Dimensions : c.since[x] <= Cooldown[x]

\* Nothing has grown but the level.
Falls(c, d) ==
    /\ Fewer(c, d)
    /\ d.nominalFps = c.nominalFps /\ d.warm <= c.warm
    /\ \A x \in Dimensions : d.since[x] <= c.since[x]

\* What the policy has seen.
PolicyType == [estimates : 0..EstimateWindows, span : 0..Span]

\* What falls stays in its bounds.
LEMMA FallsIsBounded ==
  ASSUME NEW c \in CtlType, NEW d \in CtlType, Bounded(c), Falls(c, d), d.level >= StartLevel
  PROVE  Bounded(d)
<1>. USE AdaptiveAssumption
<1>1. d.nominalFps \in SafeTiers \cup {StartProfile.fps, MinFps}
  BY DEF Bounded, Falls
<1>2. /\ c.valid \in Nat /\ c.stable \in Nat /\ c.mild \in Nat /\ c.severe \in Nat /\ c.warm \in Nat
      /\ d.valid \in Nat /\ d.stable \in Nat /\ d.mild \in Nat /\ d.severe \in Nat /\ d.warm \in Nat
  BY DEF CtlType
<1>3. /\ d.valid <= MinValid /\ d.stable <= StableWindows /\ d.mild <= MildWindows
      /\ d.severe <= EmergencyWindows /\ d.warm <= Warmup
  <2>1. /\ c.valid <= MinValid /\ c.stable <= StableWindows /\ c.mild <= MildWindows
        /\ c.severe <= EmergencyWindows /\ c.warm <= Warmup
    BY DEF Bounded
  <2>2. d.valid <= c.valid /\ d.stable <= c.stable /\ d.mild <= c.mild /\ d.severe <= c.severe /\ d.warm <= c.warm
    BY DEF Falls, Fewer
  <2>. QED  BY <1>2, <2>1, <2>2 DEF EmergencyWindows
<1>4. ASSUME NEW x \in Dimensions PROVE d.since[x] <= Cooldown[x]
  <2>1. c.since[x] \in Nat /\ d.since[x] \in Nat /\ Cooldown[x] \in Nat
    BY DEF CtlType, Dimensions
  <2>2. c.since[x] <= Cooldown[x] /\ d.since[x] <= c.since[x]
    BY DEF Bounded, Falls
  <2>. QED  BY <2>1, <2>2
<1>. QED  BY <1>1, <1>3, <1>4 DEF Bounded

\* Forgetting the windows, or ordering an action, lets nothing grow.
LEMMA ForgettingFalls ==
  ASSUME NEW c \in CtlType
  PROVE  /\ Ineligible(c) \in CtlType /\ Falls(c, Ineligible(c)) /\ Ineligible(c).level = c.level
         /\ FinishTransition(c) \in CtlType /\ Falls(c, FinishTransition(c)) /\ FinishTransition(c).level = c.level
         /\ ResetWindows(c) \in CtlType /\ Falls(c, ResetWindows(c)) /\ ResetWindows(c).level = c.level
<1>1. /\ c.valid \in Nat /\ c.stable \in Nat /\ c.mild \in Nat /\ c.severe \in Nat /\ c.warm \in Nat
      /\ \A x \in Dimensions : c.since[x] \in Nat
  BY DEF CtlType, Dimensions
<1>2. /\ ResetWindows(c) \in CtlType /\ ResetWindows(c).level = c.level
      /\ ResetWindows(c).nominalFps = c.nominalFps
      /\ ResetWindows(c).warm = c.warm /\ ResetWindows(c).since = c.since
      /\ ResetWindows(c).valid = c.valid /\ ResetWindows(c).stable = 0
      /\ ResetWindows(c).mild = 0 /\ ResetWindows(c).severe = 0
  BY DEF ResetWindows, CtlType
<1>. DEFINE z == ResetWindows(c)  i == Ineligible(c)  f == FinishTransition(c)
<1>3. i = [z EXCEPT !.valid = 0]
  BY DEF Ineligible
<1>. HIDE DEF z
<1>4. /\ i \in CtlType /\ i.level = c.level /\ i.nominalFps = c.nominalFps
      /\ i.warm = c.warm /\ i.since = c.since
      /\ i.valid = 0 /\ i.stable = 0 /\ i.mild = 0 /\ i.severe = 0
  BY <1>2, <1>3 DEF CtlType, z
<1>5. f = [i EXCEPT !.warm = 0]
  BY DEF FinishTransition
<1>. HIDE DEF i
<1>6. /\ f \in CtlType /\ f.level = c.level /\ f.nominalFps = c.nominalFps
      /\ f.warm = 0 /\ f.since = c.since
      /\ f.valid = 0 /\ f.stable = 0 /\ f.mild = 0 /\ f.severe = 0
  BY <1>4, <1>5 DEF CtlType
<1>. HIDE DEF f
<1>7. Falls(c, z)
  BY <1>1, <1>2 DEF Falls, Fewer, z
<1>8. Falls(c, i)
  BY <1>1, <1>4 DEF Falls, Fewer
<1>9. Falls(c, f)
  BY <1>1, <1>6 DEF Falls, Fewer
<1>. QED  BY <1>2, <1>4, <1>6, <1>7, <1>8, <1>9 DEF z, i, f

\* So does an action, whose dimension begins to cool down.
LEMMA ApplyFalls ==
  ASSUME NEW c \in CtlType, NEW d \in Dimensions, NEW v \in Nat
  PROVE  Apply(c, d, v) \in CtlType /\ Falls(c, Apply(c, d, v)) /\ Apply(c, d, v).level = c.level
<1>1. /\ c.valid \in Nat /\ c.stable \in Nat /\ c.mild \in Nat /\ c.severe \in Nat /\ c.warm \in Nat
      /\ \A x \in Dimensions : c.since[x] \in Nat
  BY DEF CtlType, Dimensions
<1>. DEFINE a == Apply(c, d, v)
<1>2. /\ a \in CtlType /\ a.valid = 0 /\ a.stable = 0 /\ a.mild = 0 /\ a.level = c.level
      /\ a.severe = IF d = "fps" THEN c.severe ELSE 0
  BY ApplyIs
<1>3. a.nominalFps = c.nominalFps /\ a.warm = c.warm /\ a.since = [c.since EXCEPT ![d] = 0]
  BY DEF Apply, CtlType
<1>4. \A x \in Dimensions : a.since[x] <= c.since[x]
  <2>1. ASSUME NEW x \in Dimensions PROVE a.since[x] = IF x = d THEN 0 ELSE c.since[x]
    <3>1. DOMAIN c.since = Dimensions
      BY DEF CtlType, Dimensions
    <3>. HIDE DEF a
    <3>. QED  BY <1>3, <3>1
  <2>. HIDE DEF a
  <2>. QED  BY <1>1, <2>1
<1>. HIDE DEF a
<1>5. Fewer(c, a)
  BY <1>1, <1>2 DEF Fewer
<1>6. Falls(c, a)
  BY <1>1, <1>3, <1>4, <1>5 DEF Falls
<1>. QED  BY <1>2, <1>6 DEF a

\* A step on the ladder to a level no better than the nominal one keeps the bounds.
LEMMA StepToBounded ==
  ASSUME NEW c \in CtlType, Bounded(c), NEW l \in Levels, l >= StartLevel
  PROVE  StepTo(c, l).ctl \in CtlType /\ Bounded(StepTo(c, l).ctl)
<1>. DEFINE target == [Ladder[l] EXCEPT !.fps = Least(@, c.nominalFps)]
            differs == {x \in Dimensions : c.cur[x] # target[x]}
            d == CASE "resolution" \in differs -> "resolution"
                   [] differs \in {{"fps"}, {"fps", "bitrate"}} -> "fps"
                   [] OTHER -> "bitrate"
            r == StepTo(c, l)
<1>1. target \in Profiles
  <2>1. Ladder[l] \in Profiles /\ c.nominalFps \in Nat
    BY LadderIs DEF CtlType
  <2>2. Least(Ladder[l].fps, c.nominalFps) \in Nat
    BY <2>1 DEF Least, Profiles
  <2>. QED  BY <2>1, <2>2 DEF Profiles
<1>2. d \in Dimensions
  BY DEF Dimensions
<1>3. r = CASE differs = {} -> Stay([Ineligible(c) EXCEPT !.level = l])
            [] differs # {} /\ c.since[d] < Cooldown[d] -> Stay(c)
            [] OTHER -> [ctl |-> [Apply(c, d, target[d]) EXCEPT !.level = l], action |-> d]
  BY DEF StepTo
<1>. HIDE DEF differs, d, target, r
<1>4. target[d] \in Nat
  BY <1>1, <1>2 DEF Profiles, Dimensions
<1>5. ASSUME NEW a, a \in CtlType, Falls(c, a), r.ctl = [a EXCEPT !.level = l]
      PROVE  r.ctl \in CtlType /\ Bounded(r.ctl)
  <2>1. /\ r.ctl \in CtlType /\ r.ctl.level = l /\ r.ctl.nominalFps = a.nominalFps
        /\ r.ctl.warm = a.warm /\ r.ctl.since = a.since /\ r.ctl.valid = a.valid
        /\ r.ctl.stable = a.stable /\ r.ctl.mild = a.mild /\ r.ctl.severe = a.severe
    BY <1>5 DEF CtlType
  <2>2. Falls(c, r.ctl)
    BY <1>5, <2>1 DEF Falls, Fewer
  <2>. QED  BY <2>1, <2>2, FallsIsBounded
<1>6. CASE r = Stay([Ineligible(c) EXCEPT !.level = l])
  <2>1. r.ctl = [Ineligible(c) EXCEPT !.level = l]
    BY <1>6 DEF Stay
  <2>. QED  BY <1>5, <2>1, ForgettingFalls DEF r
<1>7. CASE r = Stay(c)
  <2>1. r.ctl = c
    BY <1>7 DEF Stay
  <2>. QED  BY <2>1 DEF r
<1>8. CASE r = [ctl |-> [Apply(c, d, target[d]) EXCEPT !.level = l], action |-> d]
  <2>1. Apply(c, d, target[d]) \in CtlType /\ Falls(c, Apply(c, d, target[d]))
    BY <1>2, <1>4, ApplyFalls
  <2>2. r.ctl = [Apply(c, d, target[d]) EXCEPT !.level = l]
    BY <1>8
  <2>. QED  BY <1>5, <2>1, <2>2 DEF r
<1>. QED  BY <1>3, <1>6, <1>7, <1>8

\* The controller goes down to a worse level, and up again no further than the nominal one.
LEMMA MovesAreBounded ==
  ASSUME NEW n \in CtlType, Bounded(n), NEW hard \in BOOLEAN
  PROVE  /\ Degrade(n, hard).ctl \in CtlType /\ Bounded(Degrade(n, hard).ctl)
         /\ Recover(n).ctl \in CtlType /\ Bounded(Recover(n).ctl)
<1>1. n.level \in 0..6 /\ StartLevel \in 0..6 /\ n.level >= StartLevel
  BY LevelsAre DEF CtlType, Bounded
<1>2. n \in CtlType /\ Bounded(n) /\ Stay(n).ctl = n
  BY DEF Stay
<1>3. ASSUME n.level < 6
      PROVE  /\ StepTo(n, n.level + 1).ctl \in CtlType /\ Bounded(StepTo(n, n.level + 1).ctl)
  <2>1. n.level + 1 \in Levels /\ n.level + 1 >= StartLevel
    BY <1>1, <1>3, LevelsAre
  <2>. QED  BY <2>1, StepToBounded
<1>4. ASSUME n.level # 0, ~(n.level - 1 < StartLevel)
      PROVE  /\ StepTo(n, n.level - 1).ctl \in CtlType /\ Bounded(StepTo(n, n.level - 1).ctl)
  <2>1. n.level - 1 \in Levels /\ n.level - 1 >= StartLevel
    BY <1>1, <1>4, LevelsAre
  <2>. QED  BY <2>1, StepToBounded
<1>5. Degrade(n, hard) = Stay(n) \/ (n.level < 6 /\ Degrade(n, hard) = StepTo(n, n.level + 1))
  <2>1. CASE n.level < Q4
    <3>1. ~(n.level \in Q4..(E2 - 1)) /\ n.level < 6
      BY <1>1, <2>1 DEF Q4, E2
    <3>. QED  BY <2>1, <3>1 DEF Degrade
  <2>2. CASE ~(n.level < Q4) /\ n.level \in Q4..(E2 - 1)
    <3>1. n.level < 6
      BY <1>1, <2>2 DEF Q4, E2
    <3>. QED  BY <2>2, <3>1 DEF Degrade
  <2>3. CASE ~(n.level < Q4) /\ ~(n.level \in Q4..(E2 - 1))
    BY <2>3 DEF Degrade
  <2>. QED  BY <2>1, <2>2, <2>3
<1>6. Recover(n) = Stay(n) \/ (n.level # 0 /\ ~(n.level - 1 < StartLevel) /\ Recover(n) = StepTo(n, n.level - 1))
  BY DEF Recover
<1>. QED  BY <1>2, <1>3, <1>4, <1>5, <1>6

\* A window is counted as far as it is needed.
LEMMA CountIsBounded ==
  ASSUME NEW c \in CtlType, Bounded(c), NEW w
  PROVE  /\ Count(Seen(c), w) \in CtlType /\ Bounded(Count(Seen(c), w))
         /\ ResetWindows(Seen(c)) \in CtlType /\ Bounded(ResetWindows(Seen(c)))
         /\ w # "stable" => Count(Seen(c), w).stable = 0
         /\ w # "mild"   => Count(Seen(c), w).mild = 0
         /\ w # "severe" => Count(Seen(c), w).severe = 0
<1>. USE AdaptiveAssumption
<1>. DEFINE m == Seen(c)  k == Count(m, w)  z == ResetWindows(m)
<1>1. /\ c.valid \in Nat /\ c.stable \in Nat /\ c.mild \in Nat /\ c.severe \in Nat
  BY DEF CtlType
<1>2. /\ m.valid = Least(c.valid + 1, MinValid) /\ m.stable = c.stable /\ m.mild = c.mild
      /\ m.severe = c.severe /\ m.level = c.level /\ m.nominalFps = c.nominalFps
      /\ m.warm = c.warm /\ m.since = c.since /\ m \in CtlType
  <2>1. Least(c.valid + 1, MinValid) \in Nat
    BY <1>1 DEF Least
  <2>. QED  BY <2>1 DEF CtlType, Seen
<1>3. m.valid <= MinValid
  BY <1>1, <1>2 DEF Least
<1>. HIDE DEF m
<1>4. /\ c.level >= StartLevel
      /\ c.nominalFps \in SafeTiers \cup {StartProfile.fps, MinFps}
      /\ c.stable <= StableWindows /\ c.mild <= MildWindows /\ c.severe <= EmergencyWindows
      /\ c.warm <= Warmup /\ \A x \in Dimensions : c.since[x] <= Cooldown[x]
  BY DEF Bounded
<1>5. Bounded(m)
  BY <1>2, <1>3, <1>4 DEF Bounded
<1>6. z \in CtlType /\ Bounded(z)
  BY <1>2, <1>5, ForgettingFalls, FallsIsBounded DEF Bounded
<1>. DEFINE st == IF w = "stable" THEN Least(c.stable + 1, StableWindows) ELSE 0
            mi == IF w = "mild" THEN Least(c.mild + 1, MildWindows) ELSE 0
            se == IF w = "severe" THEN Least(c.severe + 1, EmergencyWindows) ELSE 0
<1>7. /\ st \in Nat /\ mi \in Nat /\ se \in Nat
      /\ st <= StableWindows /\ mi <= MildWindows /\ se <= EmergencyWindows
      /\ (w # "stable" => st = 0) /\ (w # "mild" => mi = 0) /\ (w # "severe" => se = 0)
  BY <1>1 DEF Least, EmergencyWindows
<1>8. k = [z EXCEPT !.stable = st, !.mild = mi, !.severe = se]
  BY <1>2 DEF Count
<1>. HIDE DEF st, mi, se, z
<1>9. /\ k \in CtlType /\ k.level = z.level /\ k.nominalFps = z.nominalFps /\ k.valid = z.valid
      /\ k.warm = z.warm /\ k.since = z.since
      /\ k.stable = st /\ k.mild = mi /\ k.severe = se
  BY <1>6, <1>7, <1>8 DEF CtlType
<1>. HIDE DEF k
<1>10. Bounded(k)
  BY <1>6, <1>7, <1>9 DEF Bounded
<1>. QED  BY <1>6, <1>7, <1>9, <1>10 DEF z, k, m

\* A window whose feedback counts.
LEMMA ObserveIsBounded ==
  ASSUME NEW c \in CtlType, Bounded(c), NEW w, NEW full \in BOOLEAN
  PROVE  Observe(c, w, full).ctl \in CtlType /\ Bounded(Observe(c, w, full).ctl)
<1>. DEFINE r == Observe(c, w, full)  m == Seen(c)  n == Count(m, w)
<1>1. /\ n \in CtlType /\ Bounded(n) /\ ResetWindows(m) \in CtlType /\ Bounded(ResetWindows(m))
      /\ (w # "stable" => n.stable = 0) /\ (w # "mild" => n.mild = 0) /\ (w # "severe" => n.severe = 0)
  BY CountIsBounded
<1>2. r = IF c.warm < Warmup \/ ~full \/ m.valid < MinValid THEN Stay(ResetWindows(m))
              ELSE CASE n.severe >= SevereWindows -> Degrade(n, TRUE)
                     [] n.mild >= MildWindows     -> Degrade(n, FALSE)
                     [] n.stable >= StableWindows -> Recover(n)
                     [] OTHER                     -> Stay(n)
  BY DEF Observe, Seen
<1>. HIDE DEF r, m, n
<1>3. \/ r = Stay(ResetWindows(m)) \/ r = Degrade(n, TRUE) \/ r = Degrade(n, FALSE)
      \/ r = Recover(n) \/ r = Stay(n)
  <2>1. /\ n.severe >= SevereWindows => ~(n.mild >= MildWindows) /\ ~(n.stable >= StableWindows)
        /\ n.mild >= MildWindows => ~(n.stable >= StableWindows)
    BY <1>1, AdaptiveAssumption
  <2>. QED  BY <1>2, <2>1
<1>4. Stay(ResetWindows(m)).ctl = ResetWindows(m) /\ Stay(n).ctl = n
  BY DEF Stay
<1>5. TRUE \in BOOLEAN /\ FALSE \in BOOLEAN
  OBVIOUS
<1>6. r.ctl \in CtlType /\ Bounded(r.ctl)
  BY <1>1, <1>3, <1>4, <1>5, MovesAreBounded
<1>. QED  BY <1>6 DEF r

\* What an interval makes of the state.
LEMMA OrderedIsBounded ==
  ASSUME NEW c \in CtlType, Bounded(c), NEW w, NEW d, d.fps \in Nat,
         NEW eligible \in BOOLEAN, NEW span
  PROVE  LET r == Ordered(c, d, w, eligible, span)
         IN  r.ctl \in CtlType /\ Bounded(r.ctl)
<1>. USE AdaptiveAssumption
<1>. DEFINE r == Ordered(c, d, w, eligible, span)
<1>0. c.level >= StartLevel
  BY DEF Bounded
<1>1. CASE ~eligible
  <2>1. r.ctl = Ineligible(c)
    BY <1>1 DEF Ordered, Stay
  <2>. QED  BY <1>0, <2>1, ForgettingFalls, FallsIsBounded
<1>2. CASE eligible /\ d.hard /\ CapsFps(c, d.fps)
  <2>. DEFINE v == Most(d.fps, MinFps)
  <2>1. v \in Nat /\ "fps" \in Dimensions
    BY DEF Most, Dimensions
  <2>2. r.ctl = Apply(c, "fps", v)
    BY <1>2 DEF Ordered, EnforceCap
  <2>. HIDE DEF v, r
  <2>. DEFINE a == Apply(c, "fps", v)
  <2>3. a \in CtlType /\ Falls(c, a) /\ a.level = c.level
    BY <2>1, ApplyFalls
  <2>. HIDE DEF a
  <2>4. a \in CtlType /\ Bounded(a)
    BY <1>0, <2>3, FallsIsBounded
  <2>5. r.ctl = a
    BY <2>2 DEF a
  <2>. QED  BY <2>4, <2>5 DEF r
<1>3. CASE eligible /\ ~(d.hard /\ CapsFps(c, d.fps))
  <2>1. r = Observe(c, w, span = Span)
    BY <1>3 DEF Ordered
  <2>2. (span = Span) \in BOOLEAN
    OBVIOUS
  <2>. HIDE DEF r
  <2>3. r.ctl \in CtlType /\ Bounded(r.ctl)
    BY <2>1, <2>2, ObserveIsBounded
  <2>. QED  BY <2>3 DEF r
<1>. QED  BY <1>1, <1>2, <1>3

\* The bounds of the controller and of what the policy has seen.
QualityInv == Bounded(ctl) /\ policy \in PolicyType

\* The controller begins so.
LEMMA QualityInitially == AdaptiveInit => QualityInv
<1>. SUFFICES ASSUME AdaptiveInit PROVE QualityInv
  OBVIOUS
<1>. USE AdaptiveAssumption
<1>1. /\ ctl.level = StartLevel /\ ctl.nominalFps = StartProfile.fps
      /\ ctl.valid = 0 /\ ctl.stable = 0 /\ ctl.mild = 0 /\ ctl.severe = 0 /\ ctl.warm = 0
      /\ ctl.since = Cooldown
  BY DEF AdaptiveInit
<1>2. StartLevel >= StartLevel
  BY LevelsAre
<1>3. \A x \in Dimensions : Cooldown[x] <= Cooldown[x]
  BY DEF Dimensions
<1>4. Bounded(ctl)
  BY <1>1, <1>2, <1>3 DEF Bounded, EmergencyWindows
<1>5. policy \in PolicyType
  BY DEF AdaptiveInit, PolicyType, EstimateWindows
<1>. QED  BY <1>4, <1>5 DEF QualityInv

\* An interval passes: what it counts is counted as far as it is needed.
LEMMA ElapsedIsBounded ==
  ASSUME NEW c \in CtlType, Bounded(c)
  PROVE  Bounded(Elapse(c))
<1>. USE AdaptiveAssumption
<1>. DEFINE warm == Least(c.warm + 1, Warmup)
            since == [d \in Dimensions |-> Least(c.since[d] + 1, Cooldown[d])]
            e == Elapse(c)
<1>1. warm <= Warmup
  BY DEF CtlType, Least
<1>2. ASSUME NEW x \in Dimensions PROVE since[x] <= Cooldown[x]
  <2>1. c.since[x] \in Nat /\ Cooldown[x] \in Nat
    BY DEF CtlType, Dimensions
  <2>. QED  BY <2>1 DEF Least
<1>3. e = [c EXCEPT !.warm = warm, !.since = since]
  BY DEF Elapse, CtlType
<1>. HIDE DEF warm, since, e
<1>4. /\ e.warm = warm /\ e.since = since /\ e.level = c.level /\ e.nominalFps = c.nominalFps
      /\ e.valid = c.valid /\ e.stable = c.stable /\ e.mild = c.mild /\ e.severe = c.severe
  BY <1>3 DEF CtlType
<1>5. Bounded(e)
  BY <1>1, <1>2, <1>4 DEF Bounded
<1>. QED  BY <1>5 DEF e

\* A report interval.
LEMMA ReportIsBounded ==
  ASSUME ControlInv, QualityInv, NEW w \in Windows, NEW settled \in BOOLEAN, NEW source,
         NEW receiver, NEW estimate, Report(w, settled, source, receiver, estimate)
  PROVE  QualityInv'
<1>. USE AdaptiveAssumption
<1>. DEFINE eligible == Eligible(w, settled)
            heard == Heard(eligible)
            d == Decision(source, receiver, estimate)
            c == IF settled THEN FinishTransition(Elapse(ctl)) ELSE Elapse(ctl)
            b == [c EXCEPT !.nominalFps = Most(d.fps, MinFps)]
            r == Ordered(b, d, w, eligible, heard.span)
<1>1. pipe.at = "report" /\ ctl' = r.ctl /\ policy' = heard
  BY DEF Report
<1>2. /\ ctl \in CtlType /\ Bounded(ctl) /\ policy \in PolicyType
      /\ pipe.changing \in BOOLEAN
  BY DEF ControlInv, QualityInv
<1>3. eligible \in BOOLEAN
  BY <1>2 DEF Eligible
<1>4. d.fps \in Nat /\ d.fps \in SafeTiers
  BY SafeTierIsNat DEF Decision
<1>. HIDE DEF eligible, d
<1>5. heard \in PolicyType
  <2>1. policy.estimates \in 0..3 /\ policy.span \in 0..Span
    BY <1>2 DEF PolicyType, EstimateWindows
  <2>2. Estimated(policy.estimates) \in 0..3 /\ Tracked(policy.span) \in 0..Span
    BY <2>1 DEF Estimated, Tracked, Least, EstimateWindows
  <2>. QED  BY <2>1, <2>2 DEF Heard, PolicyType, EstimateWindows
<1>. HIDE DEF heard
<1>6. c \in CtlType /\ Bounded(c)
  <2>. DEFINE el == Elapse(ctl)
  <2>1. el \in CtlType /\ Bounded(el) /\ el.level >= StartLevel
    BY <1>2, ElapsedIs, ElapsedIsBounded DEF Bounded
  <2>. HIDE DEF el
  <2>2. FinishTransition(el) \in CtlType /\ Bounded(FinishTransition(el))
    BY <2>1, ForgettingFalls, FallsIsBounded
  <2>. QED  BY <2>1, <2>2 DEF el
<1>. HIDE DEF c
<1>. DEFINE v == Most(d.fps, MinFps)
<1>7. v \in Nat /\ v \in SafeTiers \cup {StartProfile.fps, MinFps}
  BY <1>4 DEF Most
<1>. HIDE DEF v
<1>8. b \in CtlType /\ Bounded(b)
  <2>1. b = [c EXCEPT !.nominalFps = v]
    BY DEF v
  <2>. HIDE DEF b
  <2>2. /\ b \in CtlType /\ b.nominalFps = v /\ b.level = c.level /\ b.warm = c.warm
        /\ b.since = c.since /\ b.valid = c.valid /\ b.stable = c.stable /\ b.mild = c.mild
        /\ b.severe = c.severe
    BY <1>6, <1>7, <2>1 DEF CtlType
  <2>3. Bounded(b)
    BY <1>6, <1>7, <2>2 DEF Bounded
  <2>. QED  BY <2>2, <2>3
<1>. HIDE DEF b
<1>9. r.ctl \in CtlType /\ Bounded(r.ctl)
  BY <1>3, <1>4, <1>8, OrderedIsBounded
<1>. HIDE DEF r
<1>. QED  BY <1>1, <1>5, <1>9 DEF QualityInv

\* Every step keeps the bounds.
LEMMA QualityKeeps ==
  ASSUME ControlInv, QualityInv, AdaptiveNext \/ UNCHANGED adaptiveVars
  PROVE  QualityInv'
<1>. USE AdaptiveAssumption
<1>1. /\ ctl \in CtlType /\ Bounded(ctl) /\ policy \in PolicyType /\ ctl.level >= StartLevel
  BY DEF ControlInv, QualityInv, Bounded
<1>2. CASE \E w \in Windows, settled \in BOOLEAN : Reports(w, settled)
  BY <1>2, ReportIsBounded DEF Reports
<1>3. CASE Deadline
  <2>1. ctl' = FinishTransition(ctl) /\ policy' = policy
    BY <1>3 DEF Deadline
  <2>2. FinishTransition(ctl) \in CtlType /\ Bounded(FinishTransition(ctl))
    BY <1>1, ForgettingFalls, FallsIsBounded
  <2>. QED  BY <1>1, <2>1, <2>2 DEF QualityInv
<1>4. ASSUME NEW ok \in BOOLEAN, TakeControl(ok) PROVE QualityInv'
  <2>1. ctl' = ctl /\ (policy' = policy \/ policy' = [policy EXCEPT !.span = 0])
    BY <1>4 DEF TakeControl
  <2>2. policy' \in PolicyType
    BY <1>1, <2>1 DEF PolicyType
  <2>. QED  BY <1>1, <2>1, <2>2 DEF QualityInv
<1>5. ASSUME NEW ok \in BOOLEAN, Rebuild(ok) PROVE QualityInv'
  <2>1. \/ ctl' = ctl /\ policy' = policy
        \/ ctl' = Ineligible(ctl) /\ policy' = [estimates |-> 0, span |-> 0]
    BY <1>5 DEF Rebuild
  <2>2. Ineligible(ctl) \in CtlType /\ Bounded(Ineligible(ctl))
    BY <1>1, ForgettingFalls, FallsIsBounded
  <2>3. policy' \in PolicyType
    BY <1>1, <2>1 DEF PolicyType, EstimateWindows
  <2>. QED  BY <1>1, <2>1, <2>2, <2>3 DEF QualityInv
<1>6. CASE UNCHANGED adaptiveVars
  BY <1>6 DEF adaptiveVars, QualityInv
<1>. QED  BY <1>2, <1>3, <1>4, <1>5, <1>6 DEF AdaptiveNext

\* What the two invariants say of the types.
LEMMA QualityImplies == ControlInv /\ QualityInv => AdaptiveTypeOK
<1>. SUFFICES ASSUME ControlInv, QualityInv PROVE AdaptiveTypeOK
  OBVIOUS
<1>. USE AdaptiveAssumption
<1>1. ctl \in CtlType /\ Bounded(ctl) /\ policy \in PolicyType
  BY DEF ControlInv, QualityInv
<1>2. ctl.level \in StartLevel..E2
  BY <1>1, LevelsAre DEF CtlType, Bounded
<1>3. /\ ctl.stable \in 0..StableWindows /\ ctl.mild \in 0..MildWindows
      /\ ctl.severe \in 0..EmergencyWindows /\ ctl.valid \in 0..MinValid /\ ctl.warm \in 0..Warmup
  BY <1>1 DEF CtlType, Bounded, EmergencyWindows
<1>4. ASSUME NEW x \in Dimensions PROVE ctl.since[x] \in 0..Cooldown[x]
  <2>1. ctl.since[x] \in Nat /\ Cooldown[x] \in Nat
    BY <1>1 DEF CtlType, Dimensions
  <2>. QED  BY <1>1, <2>1 DEF Bounded
<1>5. ctl.nominalFps \in SafeTiers \cup {StartProfile.fps, MinFps} /\ ctl.cur \in Profiles
  BY <1>1 DEF CtlType, Bounded
<1>6. /\ pipe.encoder \in Profiles /\ pipe.at \in {"report", "control", "rebuild", "ended"}
      /\ pipe.changing \in BOOLEAN /\ pipe.pending \in Dimensions \cup {NoAction}
  BY DEF ControlInv
<1>. QED  BY <1>1, <1>2, <1>3, <1>4, <1>5, <1>6 DEF AdaptiveTypeOK, PolicyType

-----------------------------------------------------------------------------
(* The sender.                                                               *)

\* A step of the sender is, for each of its parts, a step of that part or none.
LEMMA StepsOfSenderParts ==
  ASSUME [SenderNext]_allVars
  PROVE  /\ AdaptiveNext \/ UNCHANGED adaptiveVars
         /\ VideoSenderNext \/ UNCHANGED senderVars
         /\ AudioCaptureNext \/ UNCHANGED captureVars
         /\ [PipeNext]_pipeVars /\ [Next]_vars
<1>1. CASE QualitySteps
  BY <1>1 DEF QualitySteps
<1>2. CASE VideoSteps
  BY <1>2 DEF VideoSteps
<1>3. CASE SoundSteps
  BY <1>3 DEF SoundSteps
<1>4. CASE PipelineSteps
  BY <1>4 DEF PipelineSteps
<1>5. CASE CaptureSteps
  BY <1>5 DEF CaptureSteps
<1>6. CASE UNCHANGED allVars
  BY <1>6 DEF allVars
<1>. QED  BY <1>1, <1>2, <1>3, <1>4, <1>5, <1>6 DEF SenderNext

\* The sender's cleanup, its pipeline and what it sends are safe together: no callback
\* outlives what it uses, no frame is lost, and what is paced or cached is of the session
\* that runs and will be evicted.
THEOREM SenderIsSafe == SenderSpec => [](CaptureSafety /\ PipelineSafety /\ SendingSafety)
<1>. DEFINE Inv == VideoInv /\ PipeInv
<1>1. SenderInit => Inv /\ Init
  BY VideoInitially, PipeInitially DEF SenderInit
<1>2. Inv /\ [SenderNext]_allVars => Inv' /\ [Next]_vars
  BY StepsOfSenderParts, VideoKeeps, PipeSteps
<1>3. Inv => PipelineSafety /\ SendingSafety
  BY VideoInvImplies, PipeInvImplies DEF SendingSafety
<1>. HIDE DEF Inv
<1>4. SenderSpec => []Inv /\ Spec
  BY <1>1, <1>2, PTL DEF SenderSpec, Spec
<1>. QED  BY <1>3, <1>4, CaptureIsSafe, PTL

\* However often the receiver asks for a packet, it is sent again once per suppression
\* interval; and the sound of one session has ended before that of the next begins.
THEOREM SenderIsOrderly == SenderSpec => SendingIsOrderly
<1>. DEFINE Inv == VideoInv /\ SoundInv
<1>1. SenderInit => Inv
  BY VideoInitially, SoundInitially DEF SenderInit
<1>2. Inv /\ [SenderNext]_allVars => Inv'
  BY StepsOfSenderParts, VideoKeeps, SoundKeeps
<1>3. Inv /\ [SenderNext]_allVars
        => /\ [ctrl.at = "recv" /\ ctrl'.at = "lookup" => gap[ctrl'.key] >= SuppressFor]_senderVars
           /\ [sent'.session >= sent.session]_captureVars
  BY StepsOfSenderParts, VideoKeeps, SoundKeeps
<1>. HIDE DEF Inv
<1>. QED  BY <1>1, <1>2, <1>3, PTL DEF SenderSpec, SendingIsOrderly, ResendsAreSpaced, SessionsDoNotOverlap

\* Between two decisions the encoder runs the profile the controller believes in, and the
\* controller moves a level only on windows of the profile that runs.
THEOREM ControllerIsTrue == SenderSpec => ControllerIsSound
<1>1. SenderInit => ControlInv
  BY AdaptiveInitially DEF SenderInit
<1>2. ControlInv /\ [SenderNext]_allVars => ControlInv'
  BY StepsOfSenderParts, AdaptiveSteps
<1>3. ControlInv => EncoderFollowsController
  BY DEF ControlInv, EncoderFollowsController
<1>4. ControlInv /\ [SenderNext]_allVars
        => [ctl'.level # ctl.level =>
              /\ earned'.clean >= MinValid
              /\ IF ctl'.level < ctl.level
                 THEN earned'.of = "stable" /\ earned'.n >= StableWindows
                 ELSE \/ earned'.of = "severe" /\ earned'.n >= SevereWindows
                      \/ earned'.of = "mild" /\ earned'.n >= MildWindows
              /\ ctl'.level > Most(ctl.level, Q4) =>
                     earned'.of = "severe" /\ earned'.n >= EmergencyWindows]_adaptiveVars
  BY StepsOfSenderParts, AdaptiveSteps DEF Earned
<1>. QED  BY <1>1, <1>2, <1>3, <1>4, PTL DEF SenderSpec, ControllerIsSound, MovesAreEarned

\* Every frame of sound whose units all had a position carries the time at which its
\* first sample was played, through any gaps, mappings and restarts of the capture.
THEOREM StampsAreTrue == SenderSpec => []StampsAreExact
<1>. DEFINE Inv == SoundInv /\ SampleInv
<1>1. SenderInit => Inv
  BY SoundInitially, SampleInitially DEF SenderInit
<1>2. Inv /\ [SenderNext]_allVars => Inv'
  <2>. SUFFICES ASSUME Inv, [SenderNext]_allVars PROVE Inv'
    OBVIOUS
  <2>1. SoundInv /\ SampleInv
    OBVIOUS
  <2>2. AudioCaptureNext \/ UNCHANGED captureVars
    BY StepsOfSenderParts
  <2>3. SoundInv'
    BY <2>1, <2>2, SoundKeeps
  <2>4. SampleInv'
    BY <2>1, <2>2, SampleKeeps
  <2>. QED  BY <2>3, <2>4
<1>3. Inv => StampsAreExact
  BY SampleImplies
<1>. HIDE DEF Inv
<1>. QED  BY <1>1, <1>2, <1>3, PTL DEF SenderSpec

\* What every part of the sender holds is of its type and within its bounds: the windows
\* and intervals the controller counts, its level and its nominal frame rate; the queues
\* and the cache of what is paced; the units and frames of sound; the frames, packets and
\* keyframes of the pipeline; and the frames of the capture.
THEOREM SenderTypes == SenderSpec => []SenderTypeOK
<1>. DEFINE Inv == /\ subject \in SenderParts /\ ControlInv /\ QualityInv /\ VideoInv
                   /\ SoundInv /\ SampleInv /\ PipeInv /\ LifeInv
<1>1. SenderInit => Inv
  BY AdaptiveInitially, QualityInitially, VideoInitially, SoundInitially, SampleInitially,
     PipeInitially, LifeInitially DEF SenderInit
<1>2. Inv /\ [SenderNext]_allVars => Inv'
  <2>. SUFFICES ASSUME Inv, [SenderNext]_allVars PROVE Inv'
    OBVIOUS
  <2>1. /\ subject \in SenderParts /\ ControlInv /\ QualityInv /\ VideoInv
        /\ SoundInv /\ SampleInv /\ PipeInv /\ LifeInv
    OBVIOUS
  <2>2. /\ AdaptiveNext \/ UNCHANGED adaptiveVars
        /\ VideoSenderNext \/ UNCHANGED senderVars
        /\ AudioCaptureNext \/ UNCHANGED captureVars
        /\ [PipeNext]_pipeVars /\ [Next]_vars
    BY StepsOfSenderParts
  <2>3. subject' = subject
    BY DEF SenderNext, QualitySteps, VideoSteps, SoundSteps, PipelineSteps, CaptureSteps, allVars
  <2>. HIDE DEF Inv
  <2>4. ControlInv' /\ QualityInv'
    BY <2>1, <2>2, AdaptiveSteps, QualityKeeps
  <2>5. VideoInv'
    BY <2>1, <2>2, VideoKeeps
  <2>6. SoundInv' /\ SampleInv'
    BY <2>1, <2>2, SoundKeeps, SampleKeeps
  <2>7. PipeInv'
    BY <2>1, <2>2, PipeSteps
  <2>8. LifeInv'
    BY <2>1, <2>2, LifeKeeps
  <2>. QED  BY <2>1, <2>3, <2>4, <2>5, <2>6, <2>7, <2>8 DEF Inv
<1>3. Inv => SenderTypeOK
  <2>. SUFFICES ASSUME Inv PROVE SenderTypeOK
    OBVIOUS
  <2>1. subject \in {"quality", "video", "sound", "pipeline", "capture"}
    BY DEF SenderParts
  <2>2. AdaptiveTypeOK
    BY QualityImplies
  <2>3. VideoSenderTypeOK
    BY VideoInvImplies
  <2>4. AudioCaptureTypeOK
    BY SampleImplies
  <2>5. PipeTypeOK
    BY PipeInvImplies
  <2>6. TypeOK
    BY DEF LifeInv, QueueFits, TypeOK
  <2>. HIDE DEF Inv
  <2>. QED  BY <2>1, <2>2, <2>3, <2>4, <2>5, <2>6 DEF SenderTypeOK
<1>. HIDE DEF Inv
<1>. QED  BY <1>1, <1>2, <1>3, PTL DEF SenderSpec
=============================================================================
