---------------------------- MODULE AudioCapture ----------------------------
(***************************************************************************)
(* The send side of the shared system audio.  For every video session two  *)
(* workers run: the capture worker drains the loopback device, stamps what *)
(* it reads with the media time and cuts it into frames for a bounded      *)
(* queue that drops the newest; the send worker numbers the frames it      *)
(* takes from the queue and sends them.  A profile transition stops and    *)
(* joins both workers, and only then starts those of the next session.     *)
(*                                                                         *)
(* A unit is what the device delivers at once; a frame is FrameUnits of    *)
(* them.  A sample is named by the time it was captured at.                *)
(***************************************************************************)
EXTENDS Integers, Sequences, FiniteSets, SequencesExt

CONSTANTS
    CaptureSessions,  \* the sessions are 1..CaptureSessions
    CaptureTime,      \* how long the capture is followed, in units
    FrameUnits,       \* units in a frame of frame_ms
    AudioQueueDepth   \* AUDIO_SEND_QUEUE_CAPACITY

ASSUME CaptureAssumption == CaptureSessions \in Nat \ {0}
ASSUME AudioSizesAssumption ==
    FrameUnits \in Nat \ {0} /\ AudioQueueDepth \in Nat /\ CaptureTime \in Nat

NoTime == -1
Workers == 1..CaptureSessions
NoMapper == [qpc |-> NoTime, media |-> NoTime]

VARIABLES
    now,        \* the media clock
    device,     \* of every session: units not read yet, [queue, lost]
    capture,    \* of every session: [at, units, first, mapper, exact]
    queue,      \* of every session: BoundedDropNewestQueue, [items, closed]
    sending,    \* of every session: [at, seq]
    audioOwner, \* the thread that owns IntegratedAudioSender: [at, session]
    soundStop,  \* of every session: the soundStop flag
    sent        \* ghost: what was sent, [session, seq, stamp, time, exact]

captureVars == <<now, device, capture, queue, sending, audioOwner, soundStop, sent>>

Fresh == [queue |-> <<>>, lost |-> FALSE]
IdleCapture  == [at |-> "none", units |-> <<>>, first |-> NoTime, mapper |-> NoMapper, exact |-> TRUE]

AudioCaptureInit ==
    /\ now = 0
    /\ device = [s \in Workers |-> Fresh]
    /\ capture = [s \in Workers |-> IF s = 1 THEN [IdleCapture EXCEPT !.at = "run"] ELSE IdleCapture]
    /\ queue = [s \in Workers |-> [items |-> <<>>, closed |-> FALSE]]
    /\ sending = [s \in Workers |-> [at |-> IF s = 1 THEN "run" ELSE "none", seq |-> 0]]
    /\ audioOwner = [at |-> "run", session |-> 1]
    /\ soundStop = [s \in Workers |-> FALSE]
    /\ sent = [session |-> 0, seq |-> 0, stamp |-> NoTime, time |-> NoTime, exact |-> TRUE]

-----------------------------------------------------------------------------
(* The loopback device.                                                     *)

\* A unit is captured, with or without a QPC position, or the device loses it
\* and flags the next one as a discontinuity.
DeviceCaptures ==
    /\ now < CaptureTime
    /\ now' = now + 1
    /\ \E kind \in {"qpc", "none", "lost"} :
        device' = [s \in Workers |->
            IF capture[s].at # "run" THEN device[s]
            ELSE IF kind = "lost" THEN [device[s] EXCEPT !.lost = TRUE]
            ELSE [queue |-> Append(device[s].queue,
                                   [time |-> now, qpc |-> kind = "qpc", gap |-> device[s].lost]),
                  lost |-> FALSE]]
    /\ UNCHANGED <<capture, queue, sending, audioOwner, soundStop, sent>>

-----------------------------------------------------------------------------
(* The capture worker.                                                      *)

\* QpcMediaTimestampMapper::map_capture_timestamp; a unit lasts one tick.
Anchored(mapper, u) ==
    IF u.qpc /\ mapper = NoMapper THEN [qpc |-> u.time, media |-> now - 1] ELSE mapper
Mapped(mapper, u) ==
    IF u.qpc THEN mapper.media + (u.time - mapper.qpc) ELSE now - 1

\* Mutant: a discontinuity does not make the pending samples start anew.
AppendUnit_NoReanchor(c, u, stamp) ==
    [c EXCEPT !.units = Append(@, u.time),
              !.first = IF c.units = <<>> THEN stamp ELSE @]

\* PendingAudio::reanchor and append_bytes (silence is appended alike).
AppendUnit(c, u, stamp) ==
    [c EXCEPT !.units = IF u.gap THEN <<u.time>> ELSE Append(@, u.time),
              !.first = IF u.gap \/ c.units = <<>> THEN stamp ELSE @]

\* read_one_capture_packet
ReadUnit(c, u) ==
    LET mapper == Anchored(c.mapper, u)
    IN  [AppendUnit(c, u, Mapped(mapper, u)) EXCEPT
            !.mapper = mapper, !.exact = @ /\ u.qpc]

\* The time of the samples on the scale of the stamps.
OnScale(c) == IF c.mapper = NoMapper THEN c.units[1]
              ELSE c.units[1] + (c.mapper.media - c.mapper.qpc)

\* BoundedDropNewestQueue::try_push
TryPush(q, f) ==
    IF q.closed \/ Len(q.items) >= AudioQueueDepth THEN q
    ELSE [q EXCEPT !.items = Append(@, f)]

\* PendingAudio::drain_frame and the push of the frame, while one is complete.
CutFrame(w, i) ==
    LET c == w.capture
    IN  IF Len(c.units) < FrameUnits THEN w
        ELSE [queue   |-> TryPush(w.queue, [stamp |-> c.first, time |-> OnScale(c), exact |-> c.exact]),
              capture |-> [c EXCEPT
                  !.units = SubSeq(@, FrameUnits + 1, Len(@)),
                  !.first = IF Len(c.units) = FrameUnits THEN NoTime ELSE @ + FrameUnits]]

\* drain_capture_packets reads all the device holds, and then the complete frames
\* are pushed.
ReadPackets(c, units) == FoldLeft(ReadUnit, c, units)
PushFrames(w, units)  == FoldLeft(CutFrame, w, units)

\* One pass of run_integrated_audio_capture_worker.
CapturePass(s) ==
    /\ capture[s].at = "run"
    /\ ~soundStop[s]
    /\ device[s].queue # <<>>
    /\ device' = [device EXCEPT ![s].queue = <<>>]
    /\ LET read == ReadPackets(capture[s], device[s].queue)
           w    == PushFrames([capture |-> read, queue |-> queue[s]], read.units)
       IN  /\ capture' = [capture EXCEPT ![s] = w.capture]
           /\ queue' = [queue EXCEPT ![s] = w.queue]
    /\ UNCHANGED <<now, sending, audioOwner, soundStop, sent>>

CaptureEnds(s) ==
    /\ capture[s].at = "run"
    /\ capture' = [capture EXCEPT ![s] = [IdleCapture EXCEPT !.at = "done"]]
    /\ device' = [device EXCEPT ![s] = Fresh]
    /\ queue' = [queue EXCEPT ![s].closed = TRUE]
    /\ UNCHANGED <<now, sending, audioOwner, soundStop, sent>>

\* The worker sees the soundStop flag between two waits of 20 ms; on its way out it
\* closes the queue.
CaptureStops(s) == soundStop[s] /\ CaptureEnds(s)

\* The device cannot be opened, or fails.
CaptureFails(s) == CaptureEnds(s)

-----------------------------------------------------------------------------
(* The send worker.                                                         *)

\* run_integrated_audio_send_worker: pop_timeout gave a frame.
SendSound(s) ==
    /\ sending[s].at = "run"
    /\ queue[s].items # <<>>
    /\ LET f == Head(queue[s].items)
       IN  sent' = [session |-> s, seq |-> sending[s].seq, stamp |-> f.stamp,
                    time |-> f.time, exact |-> f.exact]
    /\ queue' = [queue EXCEPT ![s].items = Tail(@)]
    /\ sending' = [sending EXCEPT ![s].seq = @ + 1]
    /\ UNCHANGED <<now, device, capture, audioOwner, soundStop>>

\* A send fails: the frame is lost, and the queue is left as it is.
SendFails(s) ==
    /\ sending[s].at = "run"
    /\ queue[s].items # <<>>
    /\ queue' = [queue EXCEPT ![s].items = Tail(@)]
    /\ sending' = [sending EXCEPT ![s].at = "failed"]
    /\ UNCHANGED <<now, device, capture, audioOwner, soundStop, sent>>

\* pop_timeout ran out with the soundStop flag set, or found the queue closed.
SendEnds(s) ==
    /\ sending[s].at = "run"
    /\ queue[s].items = <<>>
    /\ soundStop[s] \/ queue[s].closed
    /\ sending' = [sending EXCEPT ![s].at = "done"]
    /\ UNCHANGED <<now, device, capture, queue, audioOwner, soundStop, sent>>

-----------------------------------------------------------------------------
(* The audioOwner: IntegratedAudioSender::stop_and_join in a profile transition. *)

OwnerStops ==
    /\ audioOwner.at = "run"
    /\ audioOwner' = [audioOwner EXCEPT !.at = "close"]
    /\ soundStop' = [soundStop EXCEPT ![audioOwner.session] = TRUE]
    /\ UNCHANGED <<now, device, capture, queue, sending, sent>>

OwnerCloses ==
    /\ audioOwner.at = "close"
    /\ audioOwner' = [audioOwner EXCEPT !.at = "join"]
    /\ queue' = [queue EXCEPT ![audioOwner.session].closed = TRUE]
    /\ UNCHANGED <<now, device, capture, sending, soundStop, sent>>

Ended(s) == capture[s].at = "done" /\ sending[s].at \in {"done", "failed"}

\* Both try_join_until are clean.
Joined(s) == Ended(s)

\* spawn_integrated_audio_sender for the next session.
OwnerRestarts ==
    /\ audioOwner.at = "join"
    /\ Joined(audioOwner.session)
    /\ audioOwner.session < CaptureSessions
    /\ LET s == audioOwner.session + 1
       IN  /\ audioOwner' = [at |-> "run", session |-> s]
           /\ capture' = [capture EXCEPT ![s].at = "run"]
           /\ sending' = [sending EXCEPT ![s].at = "run"]
    /\ UNCHANGED <<now, device, queue, soundStop, sent>>

\* A worker is not joined in time: it is retained, and the transition aborts.
OwnerGivesUp ==
    /\ audioOwner.at = "join"
    /\ ~Joined(audioOwner.session)
    /\ audioOwner' = [audioOwner EXCEPT !.at = "aborted"]
    /\ UNCHANGED <<now, device, capture, queue, sending, soundStop, sent>>

WorkerNext(s) ==
    \/ CapturePass(s) \/ CaptureStops(s) \/ CaptureFails(s)
    \/ SendSound(s) \/ SendFails(s) \/ SendEnds(s)

AudioCaptureNext ==
    \/ DeviceCaptures
    \/ \E s \in Workers : WorkerNext(s)
    \/ OwnerStops \/ OwnerCloses \/ OwnerRestarts \/ OwnerGivesUp

\* Every wait of a worker has a timeout of 20 ms.
AudioCaptureFairness ==
    \A s \in Workers :
        /\ WF_captureVars(CaptureStops(s))
        /\ WF_captureVars(SendSound(s))
        /\ WF_captureVars(SendEnds(s))

-----------------------------------------------------------------------------
(* Properties.                                                              *)

\* The types, and the bounds of the queue and of the pending units.
AudioCaptureTypeOK ==
    /\ now \in 0..CaptureTime
    /\ \A s \in Workers :
        /\ Len(queue[s].items) <= AudioQueueDepth
        /\ Len(capture[s].units) < FrameUnits
        /\ (capture[s].first = NoTime) <=> (capture[s].units = <<>>)
        /\ capture[s].at \in {"none", "run", "done"}
        /\ sending[s].at \in {"none", "run", "done", "failed"}
    /\ audioOwner.at \in {"run", "close", "join", "aborted"}

\* While every unit had a QPC position, a frame carries the capture time of its
\* first sample: late reads, dropped frames and lost units do not shift it.
StampsAreExact == sent.exact => sent.stamp = sent.time

\* The workers of two sessions never send side by side: once the next session
\* has sent a frame, the one before it is silent.
SessionsDoNotOverlap == [][sent'.session >= sent.session]_captureVars

\* A sender that was told to stop ends both its workers, whatever the device and
\* the socket do. (Told and ended are for good, so this says "leads to".)
StoppedWorkersEnd == []<>(\A s \in Workers : soundStop[s] => Ended(s))
=============================================================================
