--------------------------- MODULE EncodePipeline ---------------------------
(***************************************************************************)
(* The sender's capture and encode pipeline: a capture thread that keeps   *)
(* the newest picture of the screen, and a loop that takes it every tick,  *)
(* encodes it with a Media Foundation transform and hands the samples to   *)
(* the network.  A software transform is driven synchronously.  A hardware *)
(* one asks for input and announces output with events, and every wait for *)
(* such an event is bounded and cancellable.                               *)
(*                                                                         *)
(* A picture is a version, a frame its index, a sample its frame and       *)
(* whether it is an IDR.  The transform is external: it keeps the order of *)
(* the frames, honours a forced keyframe and may fail or stop talking at   *)
(* any moment.  A change of the output type is left out.                   *)
(***************************************************************************)
EXTENDS Integers, Sequences, SequencesExt

CONSTANTS
    ConvertBackends,  \* what the user may ask for, of "auto", "cpu", "d3d11"
    EncoderChoices,   \* and of "auto", "hardware", "intel-qsv", "software"
    Machines,         \* the lists of encoders a machine may enumerate
    KeyInterval,      \* keyframe_interval_target_frames
    Rates,            \* the bitrates the adaptive controller may set
    StartRate,        \* the bitrate of the configuration
    WaitPolls,        \* polls before ASYNC_NEED_INPUT_TIMEOUT, ASYNC_DRAIN_TIMEOUT
    TransformDepth,   \* frames a transform holds
    Pictures,         \* bound: versions of the screen
    EncodedFrames     \* bound: frames of a run

ASSUME KeyIntervalAssumption == KeyInterval \in Nat \ {0}
ASSUME PipelineAssumption ==
    /\ EncoderChoices \subseteq {"auto", "hardware", "intel-qsv", "software"}
    /\ StartRate \in Rates
    /\ WaitPolls \in Nat /\ TransformDepth \in Nat
    /\ Pictures \in Nat /\ EncodedFrames \in Nat

VARIABLES
    phase,      \* where the pipeline's thread is
    runtime,    \* CaptureRuntime: the capture thread's state and error
    screen,     \* the version of SharedState::latest, 0 for none
    seen,       \* last_version; a picture is held (have_nv12) once it is not 0
    encoder,    \* WmfH264Encoder: its mode, credits and pending samples
    mft,        \* the transform
    encoded,    \* counters.frames_encoded
    forcing,    \* keyframe_force_enabled
    requests,   \* KeyframeRequestTracker::pending, as a set
    rate,       \* effective_bitrate_mbps
    waited,     \* polls of the current wait
    pipeStop,       \* why the loop should end: "none", "duration", "cancel"
    failing,    \* the loop ends because statistics could not be reported
    delivered,  \* the samples given to the observer
    pipeResult     \* what run_prepared_with_observer returned

pipeVars == <<phase, runtime, screen, seen, encoder, mft, encoded, forcing, requests,
              rate, waited, pipeStop, failing, delivered, pipeResult>>
tracked  == <<encoded, forcing, requests, rate>>
outside  == <<screen, pipeStop>>

NoEncoder == [alive |-> FALSE, async |-> FALSE, credits |-> 0,
              drained |-> FALSE, pending |-> <<>>]
NewTransform == [asked |-> 0, events |-> <<>>, inside |-> <<>>, ready |-> <<>>,
                 force |-> FALSE, rate |-> StartRate, draining |-> FALSE]

PipeInit ==
    /\ phase = "idle"
    /\ runtime = [thread |-> "none", failed |-> FALSE]
    /\ screen = 0 /\ seen = 0 /\ encoder = NoEncoder /\ mft = NewTransform
    /\ encoded = 0 /\ forcing = FALSE /\ requests = {} /\ rate = StartRate
    /\ waited = 0 /\ pipeStop = "none" /\ failing = FALSE /\ delivered = <<>>
    /\ pipeResult = "none"

-----------------------------------------------------------------------------
(* Choosing an encoder.  An entry of a machine is the transform's class,    *)
(* whether it is Intel's, announces hardware and is asynchronous, what      *)
(* creating it does and whether it negotiates the media types.              *)

\* enumerate_h264_encoder_activations: the first entry of every class
Enumerate(machine) ==
    SelectSeq([i \in 1..Len(machine) |-> <<i, machine[i]>>],
              LAMBDA e : \A j \in 1..(e[1] - 1) : machine[j].class # e[2].class)

\* create_hardware_encoder: hardware or asynchronous, Intel's before the others
Candidates(machine, intelOnly) ==
    LET usable(e) == (e[2].hardware \/ e[2].async) /\ (intelOnly => e[2].intel)
        list == SelectSeq(Enumerate(machine), usable)
    IN  SelectSeq(list, LAMBDA e : e[2].intel) \o SelectSeq(list, LAMBDA e : ~e[2].intel)

\* activate_encoder_candidate: created or activated and then unlocked; an
\* instance that was created but cannot be unlocked is not activated again.
Activates(entry) ==
    \/ entry.create = "ok"
    \/ entry.create = "fails" /\ entry.activate = "ok"

\* create_hardware_encoder: the first candidate that activates, if any
HardwareEncoder(machine, intelOnly) ==
    LET list == SelectSeq(Candidates(machine, intelOnly), LAMBDA e : Activates(e[2]))
    IN  IF list = <<>> THEN {} ELSE {list[1][2]}

\* create_software_encoder
SoftwareEncoder == {[async |-> FALSE, negotiates |-> TRUE]}

\* new_internal_selected: the one transform that was created must take the
\* media types; another candidate is not tried when it does not.
Selected(entries) ==
    [ok |-> \E e \in entries : e.negotiates, async |-> \E e \in entries : e.async]

\* new_internal, with the two selections of "auto"
NewEncoder(choice, machine) ==
    CASE choice = "software"  -> Selected(SoftwareEncoder)
      [] choice = "intel-qsv" -> Selected(HardwareEncoder(machine, TRUE))
      [] choice = "hardware"  -> Selected(HardwareEncoder(machine, FALSE))
      [] choice = "auto"      -> IF Selected(HardwareEncoder(machine, FALSE)).ok
                                 THEN Selected(HardwareEncoder(machine, FALSE))
                                 ELSE Selected(SoftwareEncoder)

-----------------------------------------------------------------------------
(* Starting and stopping the capture.                                       *)

\* GpuNv12Capture::start: "owned" is a worker that would not go away
GpuStarts == {"ok", "fails", "owned"}

\* CaptureRuntime::start: the source that results, "none" for an error.
\* Automatic selection falls back to the CPU, never after an owned worker.
StartSource(backend, gpu, cpuStarts) ==
    LET cpu == IF cpuStarts THEN "cpu" ELSE "none" IN
    CASE backend = "cpu"                     -> cpu
      [] backend # "cpu" /\ gpu = "ok"       -> "gpu"
      [] backend = "auto" /\ gpu = "fails"   -> cpu
      [] OTHER                               -> "none"

\* GpuNv12Capture::pipeStop and LatestCapture::pipeStop: the thread is joined or
\* handed to the registry of retained workers.
Joins == {"joined", "retained"}
Stops(join) == runtime' = [runtime EXCEPT !.thread = join]

\* An early return: the capture's Drop stops the thread, the encoder's Drop
\* ends the streaming.
Leave(result) ==
    /\ phase' = "ended" /\ pipeResult' = result /\ encoder' = [encoder EXCEPT !.alive = FALSE]
    /\ \E join \in Joins : Stops(join)

\* prepare_pipeline
PrepareStart ==
    /\ phase = "idle"
    /\ \E backend \in ConvertBackends, gpu \in GpuStarts, cpuStarts \in BOOLEAN,
          choice \in EncoderChoices, machine \in Machines, force \in BOOLEAN :
        \E source \in {StartSource(backend, gpu, cpuStarts)}, made \in {NewEncoder(choice, machine)} :
            IF source = "none"
            THEN /\ phase' = "ended" /\ pipeResult' = "error"
                 /\ UNCHANGED <<runtime, encoder, forcing>>
            ELSE /\ \E join \in Joins :
                       runtime' = [failed |-> FALSE,
                                   thread |-> IF made.ok THEN "running" ELSE join]
                 /\ IF made.ok
                    THEN /\ phase' = "prepared" /\ pipeResult' = pipeResult
                         /\ encoder' = [NoEncoder EXCEPT !.alive = TRUE, !.async = made.async]
                         /\ forcing' = force
                    ELSE /\ phase' = "ended" /\ pipeResult' = "error"
                         /\ UNCHANGED <<encoder, forcing>>
    /\ UNCHANGED <<outside, seen, mft, encoded, requests, rate, waited, failing, delivered>>

\* PreparedCapturePipeline::discard
Discard ==
    /\ phase = "prepared"
    /\ Leave("discarded")
    /\ UNCHANGED <<outside, seen, mft, tracked, waited, failing, delivered>>

\* on_started, which the observer may refuse
Started ==
    /\ phase = "prepared"
    /\ \/ phase' = "tick" /\ UNCHANGED <<runtime, encoder, pipeResult>>
       \/ Leave("error")
    /\ UNCHANGED <<outside, seen, mft, tracked, waited, failing, delivered>>

-----------------------------------------------------------------------------
(* One tick.                                                                *)

\* keyframe_request_due, and the first frame
Due(fresh) == encoded % KeyInterval = 0

\* request_keyframe, which the encoder may refuse
RequestKeyframe ==
    \/ /\ mft' = [mft EXCEPT !.force = TRUE]
       /\ requests' = requests \cup {encoded}
       /\ UNCHANGED forcing
    \/ /\ forcing' = FALSE
       /\ UNCHANGED <<mft, requests>>

Tick ==
    /\ phase = "tick" /\ pipeStop = "none" /\ encoded < EncodedFrames /\ ~runtime.failed
    /\ seen' = screen /\ waited' = 0
    /\ IF screen = 0
       THEN /\ phase' = "report"
            /\ UNCHANGED <<mft, requests, forcing>>
       ELSE /\ phase' = "submit"
            /\ IF Due(screen # seen) /\ forcing THEN RequestKeyframe
               ELSE UNCHANGED <<mft, requests, forcing>>
    /\ UNCHANGED <<outside, runtime, encoder, encoded, rate, failing, delivered, pipeResult>>

\* The capture thread reported an error, or the picture cannot be converted.
TickFails ==
    /\ phase = "tick" /\ pipeStop = "none" /\ encoded < EncodedFrames
    /\ runtime.failed \/ screen # seen
    /\ Leave("error")
    /\ UNCHANGED <<outside, seen, mft, tracked, waited, failing, delivered>>

\* encode_nv12 failed: the capture is stopped, its result ignored.
EncodeFails == Leave("error")

\* ProcessInput: the frame the transform now holds
Accept(m) == [m EXCEPT !.inside = Append(@, [frame |-> encoded, key |-> m.force \/ encoded = 0]),
                       !.force = FALSE]

\* submit_input and drain_available of a synchronous transform: while it does
\* not accept the frame its output is drained, afterwards what is available is.
SubmitSync ==
    /\ phase = "submit" /\ ~encoder.async
    /\ IF Len(mft.inside) = TransformDepth
       THEN \E n \in 0..TransformDepth :
                IF n = 0 THEN EncodeFails /\ UNCHANGED <<mft, encoded>>
                ELSE /\ mft' = Accept([mft EXCEPT !.inside = SubSeq(@, n + 1, Len(@))])
                     /\ encoder' = [encoder EXCEPT !.pending = @ \o SubSeq(mft.inside, 1, n)]
                     /\ phase' = "emit" /\ encoded' = encoded + 1
                     /\ UNCHANGED <<runtime, pipeResult>>
       ELSE \E n \in 0..(Len(mft.inside) + 1) : \E full \in {Accept(mft)} :
                /\ mft' = [full EXCEPT !.inside = SubSeq(@, n + 1, Len(@))]
                /\ encoder' = [encoder EXCEPT !.pending = @ \o SubSeq(full.inside, 1, n)]
                /\ phase' = "emit" /\ encoded' = encoded + 1
                /\ UNCHANGED <<runtime, pipeResult>>
    /\ UNCHANGED <<outside, seen, forcing, requests, rate, waited, failing, delivered>>

\* pump_async_event: NeedInput is a credit, HaveOutput a sample to fetch
PumpOne ==
    LET event == Head(mft.events) IN
    CASE event = "need"    -> [encoder EXCEPT !.credits = @ + 1]
      [] event = "have"    -> [encoder EXCEPT !.pending = Append(@, Head(mft.ready))]
      [] event = "drained" -> [encoder EXCEPT !.drained = TRUE]
      [] OTHER             -> encoder
Pumped ==
    [mft EXCEPT !.events = Tail(@), !.ready = IF Head(mft.events) = "have" THEN Tail(@) ELSE @]
EventFails == mft.events # <<>> /\ Head(mft.events) = "error"

\* The rest of submit_async_input once there is a credit
Submit(e, m) ==
    /\ encoder' = [e EXCEPT !.credits = @ - 1]
    /\ mft' = [Accept(m) EXCEPT !.asked = @ - 1]
    /\ phase' = "pump"

\* wait_for_async_state for NeedInput, one poll: cancelled, ready, one event
\* and ready again, timed out, or another poll later.
SubmitAsync ==
    /\ phase = "submit" /\ encoder.async
    /\ IF pipeStop = "cancel" THEN EncodeFails /\ UNCHANGED <<mft, waited>>
       ELSE IF encoder.credits > 0
       THEN Submit(encoder, mft) /\ UNCHANGED <<runtime, pipeResult, waited>>
       ELSE IF EventFails THEN EncodeFails /\ UNCHANGED <<mft, waited>>
       ELSE IF mft.events # <<>> /\ Head(mft.events) = "need"
       THEN Submit(PumpOne, Pumped) /\ UNCHANGED <<runtime, pipeResult, waited>>
       ELSE IF waited = WaitPolls THEN EncodeFails /\ UNCHANGED <<mft, waited>>
       ELSE /\ waited' = waited + 1
            /\ IF mft.events = <<>> THEN UNCHANGED <<encoder, mft>>
               ELSE encoder' = PumpOne /\ mft' = Pumped
            /\ UNCHANGED <<phase, runtime, pipeResult>>
    /\ UNCHANGED <<outside, seen, tracked, failing, delivered>>

\* The events that came meanwhile; the frame counts when there are none left.
PumpEvents ==
    /\ phase = "pump"
    /\ IF mft.events = <<>>
       THEN /\ phase' = "emit" /\ encoded' = encoded + 1
            /\ UNCHANGED <<runtime, encoder, mft, pipeResult>>
       ELSE IF EventFails THEN EncodeFails /\ UNCHANGED <<mft, encoded>>
       ELSE /\ encoder' = PumpOne /\ mft' = Pumped
            /\ UNCHANGED <<phase, runtime, encoded, pipeResult>>
    /\ UNCHANGED <<outside, seen, forcing, requests, rate, waited, failing, delivered>>

-----------------------------------------------------------------------------
(* Samples, statistics and the controller's orders.                         *)

\* observe_sample: an IDR answers every request up to its frame
Answered(samples) ==
    {r \in requests : \A s \in ToSet(samples) : s.key => r > s.frame}

\* emit_encoded_samples
EmitSamples ==
    /\ delivered' = delivered \o encoder.pending
    /\ requests' = Answered(encoder.pending)

Emit ==
    /\ phase = "emit"
    /\ \/ /\ EmitSamples
          /\ encoder' = [encoder EXCEPT !.pending = <<>>]
          /\ phase' = "report" /\ UNCHANGED <<runtime, pipeResult>>
       \/ encoder.pending # <<>> /\ Leave("error") /\ UNCHANGED <<delivered, requests>>
    /\ UNCHANGED <<outside, seen, mft, encoded, forcing, rate, waited, failing>>

\* No report is due, or the observer has no order.
Continue ==
    /\ phase = "report"
    /\ phase' = "tick"
    /\ UNCHANGED <<runtime, outside, seen, encoder, mft, tracked, waited, failing, delivered,
                   pipeResult>>

\* on_stats failed: the pipeline is shut down before the error is returned.
ReportFails ==
    /\ phase = "report"
    /\ \E join \in Joins : Stops(join)
    /\ failing' = TRUE /\ phase' = "finish"
    /\ UNCHANGED <<outside, seen, encoder, mft, tracked, waited, delivered, pipeResult>>

\* CapturePipelineControl::Restart
Restart ==
    /\ phase = "report"
    /\ phase' = "closing"
    /\ UNCHANGED <<runtime, outside, seen, encoder, mft, tracked, waited, failing, delivered,
                   pipeResult>>

\* Mutant: the observer goes on with an encoder whose rate it does not know.
OnBitrateError == phase' = "tick"

\* on_bitrate_update_result for an error: rebuild the pipeline
OnBitrateUpdateError == phase' = "closing"

\* CapturePipelineControl::UpdateBitrate: set_mean_bitrate_mbps may refuse the
\* rate, or take it and fail to confirm it; a keyframe is forced after it.
UpdateBitrate ==
    /\ phase = "report"
    /\ \E r \in Rates \ {rate} :
        \/ OnBitrateUpdateError /\ UNCHANGED <<mft, rate, requests>>
        \/ /\ OnBitrateUpdateError
           /\ mft' = [mft EXCEPT !.rate = r] /\ UNCHANGED <<rate, requests>>
        \/ /\ phase' = "tick" /\ rate' = r
           /\ mft' = [mft EXCEPT !.rate = r, !.force = TRUE]
           /\ requests' = requests \cup {encoded}
    /\ UNCHANGED <<runtime, outside, seen, encoder, encoded, forcing, waited, failing, delivered,
                   pipeResult>>

-----------------------------------------------------------------------------
(* The end of a run.                                                        *)

LoopEnds ==
    /\ phase = "tick"
    /\ pipeStop # "none" \/ encoded = EncodedFrames
    /\ phase' = "closing"
    /\ UNCHANGED <<runtime, outside, seen, encoder, mft, tracked, waited, failing, delivered,
                   pipeResult>>

\* capture.stop()?: the encoder is only finished after a clean pipeStop.
StopCapture ==
    /\ phase = "closing"
    /\ \/ /\ ~runtime.failed /\ Stops("joined") /\ phase' = "finish"
          /\ UNCHANGED <<encoder, pipeResult>>
       \/ /\ \E join \in Joins : (join = "joined" => runtime.failed) /\ Stops(join)
          /\ phase' = "ended" /\ pipeResult' = "error"
          /\ encoder' = [encoder EXCEPT !.alive = FALSE]
    /\ UNCHANGED <<outside, seen, mft, tracked, waited, failing, delivered>>

\* finish: end of stream and drain; a synchronous transform is emptied at once
Finish ==
    /\ phase = "finish"
    /\ waited' = 0
    /\ IF encoder.async
       THEN /\ phase' = "drain"
            /\ encoder' = [encoder EXCEPT !.drained = FALSE]
            /\ mft' = [mft EXCEPT !.draining = TRUE]
       ELSE /\ phase' = "tail"
            /\ encoder' = [encoder EXCEPT !.pending = @ \o mft.inside]
            /\ mft' = [mft EXCEPT !.inside = <<>>]
    /\ UNCHANGED <<runtime, outside, seen, tracked, failing, delivered, pipeResult>>

FinishFails ==
    /\ phase' = "ended" /\ pipeResult' = "error" /\ encoder' = [encoder EXCEPT !.alive = FALSE]

\* wait_for_async_state for the drain, one poll.  A cancellation is a normal
\* end: the samples that are there are delivered, the tail is given up.
Drain ==
    /\ phase = "drain"
    /\ IF pipeStop = "cancel" \/ encoder.drained
       THEN phase' = "tail" /\ UNCHANGED <<encoder, mft, waited, pipeResult>>
       ELSE IF EventFails THEN FinishFails /\ UNCHANGED <<mft, waited>>
       ELSE IF waited = WaitPolls /\ (mft.events = <<>> \/ Head(mft.events) # "drained")
       THEN FinishFails /\ UNCHANGED <<mft, waited>>
       ELSE /\ waited' = IF waited = WaitPolls THEN waited ELSE waited + 1
            /\ IF mft.events = <<>> THEN UNCHANGED <<encoder, mft>>
               ELSE encoder' = PumpOne /\ mft' = Pumped
            /\ UNCHANGED <<phase, pipeResult>>
    /\ UNCHANGED <<runtime, outside, seen, tracked, failing, delivered>>

\* The last samples, unless the run ends with an error anyway
EmitTail ==
    /\ phase = "tail"
    /\ phase' = "ended"
    /\ encoder' = [encoder EXCEPT !.alive = FALSE, !.pending = <<>>]
    /\ \/ ~failing /\ EmitSamples /\ pipeResult' = "done"
       \/ /\ failing \/ encoder.pending # <<>>
          /\ pipeResult' = "error" /\ UNCHANGED <<delivered, requests>>
    /\ UNCHANGED <<runtime, outside, seen, mft, encoded, forcing, rate, waited, failing>>

-----------------------------------------------------------------------------
(* The transform's thread, the capture's thread and the user.               *)

inner == <<phase, seen, tracked, waited, failing, delivered, pipeResult>>

\* The asynchronous transform asks for a frame.
AsksInput ==
    /\ encoder.alive /\ encoder.async /\ ~mft.draining
    /\ mft.asked + Len(mft.inside) < TransformDepth
    /\ mft' = [mft EXCEPT !.asked = @ + 1, !.events = Append(@, "need")]
    /\ UNCHANGED <<inner, outside, runtime, encoder>>

\* It has encoded a frame.
HasOutput ==
    /\ encoder.alive /\ encoder.async /\ mft.inside # <<>>
    /\ mft' = [mft EXCEPT !.ready = Append(@, Head(mft.inside)), !.inside = Tail(@),
                          !.events = Append(@, "have")]
    /\ UNCHANGED <<inner, outside, runtime, encoder>>

\* It is empty after the drain command, or reports an error.
EndsOrErrs ==
    /\ encoder.alive /\ encoder.async
    /\ \E e \in {"drained", "error"} :
        /\ e \notin ToSet(mft.events)
        /\ e = "drained" => mft.draining /\ mft.inside = <<>> /\ ~encoder.drained
        /\ mft' = [mft EXCEPT !.events = Append(@, e)]
    /\ UNCHANGED <<inner, outside, runtime, encoder>>

\* capture_thread: a picture was converted and is the latest now.
NewPicture ==
    /\ runtime.thread = "running" /\ screen < Pictures /\ ~runtime.failed
    /\ screen' = screen + 1
    /\ UNCHANGED <<inner, pipeStop, runtime, encoder, mft>>

\* The capture thread ends with an error.
CaptureErrs ==
    /\ runtime.thread = "running" /\ ~runtime.failed
    /\ runtime' = [runtime EXCEPT !.failed = TRUE]
    /\ UNCHANGED <<inner, outside, encoder, mft>>

\* The duration is over, or the stream was cancelled.
StopArrives ==
    /\ phase # "ended"
    /\ \E why \in {"duration", "cancel"} :
        /\ pipeStop \in {"none", "duration"} \ {why}
        /\ pipeStop' = why
    /\ UNCHANGED <<inner, screen, runtime, encoder, mft>>

PipelineStep ==
    \/ PrepareStart \/ Discard \/ Started \/ Tick \/ TickFails
    \/ SubmitSync \/ SubmitAsync \/ PumpEvents \/ Emit
    \/ Continue \/ ReportFails \/ Restart \/ UpdateBitrate
    \/ LoopEnds \/ StopCapture \/ Finish \/ Drain \/ EmitTail

PipeNext ==
    \/ PipelineStep \/ AsksInput \/ HasOutput \/ EndsOrErrs
    \/ NewPicture \/ CaptureErrs \/ StopArrives

\* The encode thread keeps running: each of its waits has a timeout.
PipeFairness == WF_pipeVars(PipelineStep)

PipeSpec == PipeInit /\ [][PipeNext]_pipeVars /\ PipeFairness

-----------------------------------------------------------------------------
(* Properties.                                                              *)

Samples == [frame : 0..EncodedFrames, key : BOOLEAN]
Frames(s) == [i \in 1..Len(s) |-> s[i].frame]

\* Every variable has its type, the transform is never given a frame it has
\* not asked for, and holds no more than it can.
PipeTypeOK ==
    /\ phase \in {"idle", "prepared", "tick", "submit", "pump", "emit", "report", "closing",
                  "finish", "drain", "tail", "ended"}
    /\ runtime.thread \in Joins \cup {"none", "running"}
    /\ screen \in 0..Pictures /\ seen \in 0..screen /\ encoded \in 0..EncodedFrames
    /\ forcing \in BOOLEAN /\ rate \in Rates /\ waited \in 0..WaitPolls
    /\ pipeStop \in {"none", "duration", "cancel"}
    /\ pipeResult \in {"none", "done", "error", "discarded"}
    /\ Range(delivered) \subseteq Samples
    /\ encoder.credits >= 0 /\ Len(mft.inside) <= TransformDepth
    /\ encoder.async => mft.asked >= encoder.credits

\* A run that ends well, however its waits, events and polls interleaved,
\* has delivered every frame it encoded, once and in order; only a cancelled
\* run may lack a tail.
NoFrameIsLost ==
    /\ \A i \in 1..Len(delivered) : delivered[i].frame = i - 1
    /\ pipeResult = "done" /\ pipeStop # "cancel" => Len(delivered) = encoded

\* No way out of the pipeline leaves its capture running.
CaptureIsReleased ==
    phase = "ended" => runtime.thread # "running" /\ ~encoder.alive

\* The pipeline encodes at the rate it reports and believes in: an update
\* that the encoder took without confirming it rebuilds the pipeline.
RateIsKnown ==
    phase \in {"tick", "submit", "pump", "emit"} => rate = mft.rate

\* While forcing works no stretch of KeyInterval frames lacks an IDR, also
\* when the screen does not change: the bound on the time a receiver with a
\* damaged group of pictures waits.
IdrWithinInterval ==
    forcing => \A i \in 1..Len(delivered) :
        \E j \in 1..i : delivered[j].key /\ i - j < KeyInterval

\* After a complete run the only requests without an IDR are for a frame that
\* was never encoded.
RequestsAreAnswered ==
    pipeResult = "done" /\ pipeStop # "cancel" => \A r \in requests : r >= encoded

\* The pipeline loses no frame, leaves no capture behind and keeps what its owner
\* relies on, its rate and its keyframes, whatever the transform does and refuses.
PipelineSafety ==
    /\ NoFrameIsLost /\ CaptureIsReleased
    /\ RateIsKnown /\ IdrWithinInterval /\ RequestsAreAnswered

\* A stopped pipeline ends, even when the transform never speaks again. (Both
\* are for good, so this says "leads to".)
StoppedPipelineEnds == []<>(pipeStop # "none" => phase = "ended")
=============================================================================
