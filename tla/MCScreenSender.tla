--------------------------- MODULE MCScreenSender ---------------------------
(* The parts of a screen sender for TLC, each on its own: a behaviour is one *)
(* of the quality controller, the paced sending of video, the capture of     *)
(* sound, the encode pipeline or the capture of the screen, and the others   *)
(* rest.                                                                     *)
EXTENDS AdaptiveQuality, VideoSender, AudioCapture, EncodePipeline, CaptureLifecycle

VARIABLE subject

\* A stream of 900 lines at 60 frames per second and 22 Mbps; intervals.
Full == [resolution |-> 900, fps |-> 60, bitrate |-> 22]
Cool == [resolution |-> 6, fps |-> 5, bitrate |-> 4]

\* The first packet of the first frame is the one that is asked for.
OneKey == {<<0, 0>>}

\* A machine with no encoder but the software one, one whose Intel encoder
\* works, and one whose Intel encoder cannot be unlocked and whose other
\* hardware encoder is registered twice and cannot be negotiated.
Entry(c, i, a, create, activate, negotiates) ==
    [class |-> c, intel |-> i, hardware |-> TRUE, async |-> a, create |-> create,
     activate |-> activate, negotiates |-> negotiates]
ThreeMachines ==
    {<<>>, <<Entry("b", FALSE, FALSE, "ok", "ok", TRUE), Entry("a", TRUE, TRUE, "fails", "ok", TRUE)>>,
     <<Entry("a", TRUE, TRUE, "locked", "ok", TRUE), Entry("b", FALSE, TRUE, "ok", "ok", FALSE),
       Entry("b", FALSE, TRUE, "ok", "ok", TRUE)>>}

SenderParts == {"quality", "video", "sound", "pipeline", "capture"}
allVars == <<subject, adaptiveVars, senderVars, captureVars, pipeVars, vars>>

SenderInit ==
    /\ subject \in SenderParts
    /\ AdaptiveInit /\ VideoSenderInit /\ AudioCaptureInit /\ PipeInit /\ Init

QualitySteps  == subject = "quality"  /\ AdaptiveNext     /\ UNCHANGED <<subject, senderVars, captureVars, pipeVars, vars>>
VideoSteps    == subject = "video"    /\ VideoSenderNext  /\ UNCHANGED <<subject, adaptiveVars, captureVars, pipeVars, vars>>
SoundSteps    == subject = "sound"    /\ AudioCaptureNext /\ UNCHANGED <<subject, adaptiveVars, senderVars, pipeVars, vars>>
PipelineSteps == subject = "pipeline" /\ PipeNext         /\ UNCHANGED <<subject, adaptiveVars, senderVars, captureVars, vars>>
CaptureSteps  == subject = "capture"  /\ Next             /\ UNCHANGED <<subject, adaptiveVars, senderVars, captureVars, pipeVars>>

SenderNext == QualitySteps \/ VideoSteps \/ SoundSteps \/ PipelineSteps \/ CaptureSteps

\* The fairness of each part, as its module states it, of its own steps only.
SenderFairness ==
    /\ \/ []<>(subject = "quality" => pipe.at # "report" \/ CountsAreFull)
       \/ []<><<StableWindowComes>>_adaptiveVars
    /\ []<>(subject = "quality" => ~(pipe.at = "report" /\ pipe.changing))
    /\ []<>(subject = "quality" => pipe.at \notin {"control", "rebuild"})
    /\ WF_senderVars(subject = "video" /\ OnPacerError)
    /\ WF_senderVars(subject = "video" /\ (Flushed \/ FlushFails))
    /\ WF_senderVars(subject = "video" /\ (ClearCache \/ PublishSession))
    /\ WF_senderVars(subject = "video" /\ PacerThread)
    /\ \A s \in Workers :
        /\ WF_captureVars(subject = "sound" /\ CaptureStops(s))
        /\ WF_captureVars(subject = "sound" /\ SendSound(s))
        /\ WF_captureVars(subject = "sound" /\ SendEnds(s))
    /\ WF_pipeVars(subject = "pipeline" /\ PipelineStep)
    /\ WF_vars(subject = "capture" /\ WorkerStep)
    /\ \A c \in Callbacks : WF_vars(subject = "capture" /\ CallbackStep(c))
    /\ WF_vars(subject = "capture" /\ (StartSucceeds \/ StartFails))
    /\ WF_vars(subject = "capture" /\ (Join \/ JoinTimesOut))

SenderSpec == SenderInit /\ [][SenderNext]_allVars /\ SenderFairness

-----------------------------------------------------------------------------
\* The type invariant of every part.
SenderTypeOK ==
    CASE subject = "quality"  -> AdaptiveTypeOK
      [] subject = "video"    -> VideoSenderTypeOK
      [] subject = "sound"    -> AudioCaptureTypeOK
      [] subject = "pipeline" -> PipeTypeOK
      [] subject = "capture"  -> TypeOK

\* What the sender's queue and cache hold is what their readers take it for: frames
\* of the session that runs, and entries that will be evicted.
SendingSafety == PacedInSession /\ CacheEvictable

\* What leaves the sender leaves in order: a packet is sent again once per interval,
\* and the sound of one session ends before that of the next begins.
SendingIsOrderly == ResendsAreSpaced /\ SessionsDoNotOverlap

\* Every part of a sender that was told to stop, or whose neighbour has failed, ends,
\* whatever the device, the socket and the transform do.
EverySenderPartEnds ==
    /\ PacerFailureEndsStream /\ BarrierIsPassed
    /\ StoppedWorkersEnd /\ StoppedPipelineEnds /\ StopEnds
=============================================================================
