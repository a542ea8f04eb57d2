---------------------------- MODULE AudioPlayout ----------------------------
(***************************************************************************)
(* The receive side of the shared system audio.  The receiving thread      *)
(* hands the packets of the bound video session to the play worker over a  *)
(* bounded channel and holds those that come before a session is bound.    *)
(* The worker keeps a jitter buffer ordered by sequence number, conceals a *)
(* missing packet with silence, trims the queue when it grows too long and *)
(* publishes the media time that is audible as the master clock of the     *)
(* A/V synchronisation.                                                    *)
(*                                                                         *)
(* A packet is one unit of sound and of time, a sample is named by the     *)
(* packet it came from.  The sender numbers the packets of every session   *)
(* from 0 (its send worker is restarted by a profile transition) and takes *)
(* the media time from one clock; sound that its queue dropped advances    *)
(* that clock without using a sequence number.                             *)
(***************************************************************************)
EXTENDS Integers, Sequences, FiniteSets, FiniteSetsExt, SequencesExt

CONSTANTS
    AudioSessions,    \* the sessions are 1..AudioSessions
    AudioPackets,     \* packets the sender sends in a session
    SkippedUnits,     \* units of sound the sender's queue drops, at most
    InFlight,         \* packets in flight, at most
    ChannelDepth,     \* the channel to the worker: 256
    StartupDepth,     \* STARTUP_AUDIO_MAX_PACKETS
    StartupHold,      \* STARTUP_AUDIO_HOLD
    JitterTarget,     \* jitter_buffer_ms, in packets and in ticks
    TrimMargin,       \* the 100 ms above the target
    JumpTolerance,    \* the 200 ms a packet may be ahead of the playhead
    QuietAfter,       \* the 250 ms of staleness, suspension and post-stream
    DevicePadding,    \* units the device still holds after a write
    MaxAvailable      \* units the device takes at once, at most

ASSUME AudioAssumption ==
    /\ {AudioSessions, StartupDepth} \subseteq Nat \ {0}
    /\ {AudioPackets, InFlight, ChannelDepth, StartupHold, JitterTarget, TrimMargin,
        QuietAfter} \subseteq Nat

None == -1
Silence == [session |-> 0, seq |-> None, time |-> None]

VARIABLES
    source,     \* the sender: [session, seq, time, skipped]
    audioNet,   \* packets in flight
    ingress,    \* IntegratedAudioIngest: [expected, startup]
    channel,    \* packets handed to the worker
    jitter,     \* JitterBuffer
    master,     \* AudioMasterClockState
    fill        \* ghost: what the last write to the device was

audioVars == <<source, audioNet, ingress, channel, jitter, master, fill>>

AudioInit ==
    /\ source = [session |-> 1, seq |-> 0, time |-> 0, skipped |-> 0]
    /\ audioNet = {}
    /\ ingress = [expected |-> 0, startup |-> <<>>]
    /\ channel = <<>>
    /\ jitter = [packets |-> {}, pending |-> <<>>, pendingTime |-> None, playhead |-> None,
                 expected |-> None, started |-> FALSE, waited |-> None, quiet |-> None,
                 jumped |-> FALSE]
    /\ master = [valid |-> FALSE, submitted |-> 0, audible |-> 0, suspended |-> 0,
                 age |-> None, matched |-> FALSE]
    /\ fill = [played |-> <<Silence>>, sessions |-> {}, sounding |-> FALSE]

-----------------------------------------------------------------------------
(* The sender and the network, as the receiver sees them.                   *)

\* The send worker numbers a packet when it sends it.
AudioSent ==
    /\ source.seq < AudioPackets
    /\ Cardinality(audioNet) < InFlight
    /\ audioNet' = audioNet \cup {[session |-> source.session, seq |-> source.seq, time |-> source.time]}
    /\ source' = [source EXCEPT !.seq = source.seq + 1, !.time = source.time + 1]
    /\ UNCHANGED <<ingress, channel, jitter, master, fill>>

AudioSkipped ==
    /\ source.skipped < SkippedUnits
    /\ source' = [source EXCEPT !.skipped = source.skipped + 1, !.time = source.time + 1]
    /\ UNCHANGED <<audioNet, ingress, channel, jitter, master, fill>>

AudioLost ==
    /\ \E p \in audioNet : audioNet' = audioNet \ {p}
    /\ UNCHANGED <<source, ingress, channel, jitter, master, fill>>

\* The profile transition restarts the sender with the next session.  A
\* session is followed for AudioPackets packets, and is that long.
AudioRestarted ==
    /\ source.session < AudioSessions
    /\ source.seq = AudioPackets
    /\ source' = [source EXCEPT !.session = source.session + 1, !.seq = 0]
    /\ UNCHANGED <<audioNet, ingress, channel, jitter, master, fill>>

-----------------------------------------------------------------------------
(* The receiving thread.                                                    *)

Dispatch(queue, p) == IF Len(queue) < ChannelDepth THEN Append(queue, p) ELSE queue

\* Packets that waited for a session too long are dropped.
Unexpired(queue, e) == IF e.age <= StartupHold THEN Append(queue, e) ELSE queue

\* accept_datagram; without a session the packet waits for one.
AcceptDatagram ==
    \E p \in audioNet, again \in BOOLEAN :
        /\ audioNet' = IF again THEN audioNet ELSE audioNet \ {p}
        /\ IF ingress.expected = 0
             THEN LET young == FoldLeft(Unexpired, <<>>, ingress.startup)
                      room  == IF Len(young) >= StartupDepth THEN Tail(young) ELSE young
                  IN  /\ ingress' = [ingress EXCEPT
                                       !.startup = Append(room, [packet |-> p, age |-> 0])]
                      /\ UNCHANGED channel
             ELSE /\ channel' = IF p.session = ingress.expected THEN Dispatch(channel, p)
                                                                 ELSE channel
                  /\ UNCHANGED ingress
        /\ UNCHANGED <<source, jitter, master, fill>>

\* The packets that waited for session s are handed to the worker.
HandOver(s, queue, e) ==
    IF e.age <= StartupHold /\ e.packet.session = s THEN Dispatch(queue, e.packet) ELSE queue

\* set_expected_session_id, when the video has bound or switched its session.
BindSession ==
    /\ ingress.expected < source.session
    /\ \E s \in (ingress.expected + 1)..source.session :
        /\ channel' = FoldLeft(LAMBDA queue, e : HandOver(s, queue, e), channel, ingress.startup)
        /\ ingress' = [expected |-> s, startup |-> <<>>]
    /\ UNCHANGED <<source, audioNet, jitter, master, fill>>

-----------------------------------------------------------------------------
(* The jitter buffer.                                                       *)

Buffered(j) == Cardinality(j.packets) + Len(j.pending)
Oldest(j)   == CHOOSE p \in j.packets : \A q \in j.packets : p.seq <= q.seq
At(j, seq)  == {p \in j.packets : p.seq = seq}

\* append_packet
AppendPacket(j, p) ==
    LET jump == j.started /\ j.playhead # None /\ p.time > j.playhead + JumpTolerance
    IN  [j EXCEPT !.packets = j.packets \ {p}, !.expected = p.seq + 1,
                  !.pendingTime = IF j.pending = <<>> THEN p.time ELSE j.pendingTime,
                  !.playhead = IF jump THEN p.time ELSE j.playhead,
                  !.jumped = IF jump THEN TRUE ELSE j.jumped,
                  !.pending = Append(j.pending, p)]

\* drop_oldest_samples: first of the packet that is being played, then whole ones.
SkipOldest(b) ==
    LET p == Oldest(b) IN [b EXCEPT !.packets = b.packets \ {p}, !.expected = p.seq + 1]

DropOldest(j, n) ==
    LET k   == IF n < Len(j.pending) THEN n ELSE Len(j.pending)
        m   == IF n - k < Cardinality(j.packets) THEN n - k ELSE Cardinality(j.packets)
        cut == [j EXCEPT !.pending = SubSeq(j.pending, k + 1, Len(j.pending)),
                         !.pendingTime = IF j.pendingTime = None THEN None ELSE j.pendingTime + k]
    IN  FoldLeft(LAMBDA b, i : SkipOldest(b), cut, [i \in 1..m |-> i])

\* Mutant: the queue may grow without bound.
KeepAll(j) == j

\* trim_excess_latency
Trim(j) ==
    IF Buffered(j) <= JitterTarget + TrimMargin THEN j
    ELSE LET d == DropOldest(j, Buffered(j) - JitterTarget)
         IN  [d EXCEPT !.jumped = TRUE, !.playhead = d.pendingTime]

\* Mutant: a packet that comes too late is kept as well.
Insert_Late(j, p) ==
    Trim([j EXCEPT !.waited = IF j.waited = None THEN 0 ELSE j.waited,
                   !.expected = IF j.expected = None THEN p.seq ELSE j.expected,
                   !.quiet = 0,
                   !.packets = IF At(j, p.seq) = {} THEN j.packets \cup {p} ELSE j.packets])

\* insert
Insert(j, p) ==
    LET first == [j EXCEPT !.waited = IF j.waited = None THEN 0 ELSE j.waited,
                           !.expected = IF j.expected = None THEN p.seq ELSE j.expected]
    IN  IF p.seq < first.expected THEN first
        ELSE Trim([first EXCEPT !.quiet = 0,
                                !.packets = IF At(j, p.seq) = {} THEN j.packets \cup {p}
                                            ELSE j.packets])

\* prime_contiguous_packets
PrimeNext(b) == IF At(b, b.expected) = {} THEN b ELSE AppendPacket(b, Oldest(b))

Prime(j) ==
    IF Buffered(j) >= JitterTarget THEN j
    ELSE FoldLeft(LAMBDA b, i : PrimeNext(b), j, [i \in 1..Cardinality(j.packets) |-> i])

\* maybe_start
MaybeStart(j) ==
    IF j.started THEN j
    ELSE LET b == Prime(j)
         IN  IF b.waited >= JitterTarget /\ Buffered(b) >= JitterTarget
               THEN [b EXCEPT !.started = TRUE, !.playhead = b.pendingTime]
               ELSE b

\* load_next_packet_or_gap
Load(j) ==
    IF j.packets = {} THEN j
    ELSE IF At(j, j.expected) # {} THEN AppendPacket(j, Oldest(j))
    ELSE IF Oldest(j).seq < j.expected THEN j
    ELSE [j EXCEPT !.expected = j.expected + 1, !.pending = <<Silence>>,
                   !.pendingTime = IF j.pendingTime # None THEN j.pendingTime + 1
                                   ELSE IF j.playhead # None THEN j.playhead + 1 ELSE None]

\* One unit of fill_render_bytes: f holds the buffer, what was played, and what
\* of it came from packets.
PlayUnit(f) ==
    LET j == IF f.jitter.pending = <<>> THEN Load(f.jitter) ELSE f.jitter
        t == IF j.pendingTime = None THEN None ELSE j.pendingTime + 1
    IN  IF j.pending = <<>> THEN [f EXCEPT !.jitter = j, !.starved = TRUE]
        ELSE [jitter  |-> [j EXCEPT !.pending = Tail(j.pending), !.pendingTime = t,
                                    !.playhead = IF j.playhead = None THEN t ELSE j.playhead],
              played  |-> Append(f.played, Head(j.pending)),
              real    |-> IF Head(j.pending) = Silence THEN f.real
                          ELSE Append(f.real, Head(j.pending)),
              starved |-> FALSE]

\* Mutant: the playhead counts every unit written, starvation silence too.
FillAll(j, n) ==
    LET f == FoldLeft(LAMBDA a, i : PlayUnit(a),
                      [jitter |-> [j EXCEPT !.jumped = FALSE,
                                     !.playhead = IF @ = None THEN j.pendingTime ELSE @],
                       played |-> <<>>, real |-> <<>>, starved |-> FALSE],
                      [i \in 1..n |-> i])
    IN  IF ~j.started
          THEN [jitter |-> [j EXCEPT !.jumped = FALSE], played |-> <<>>, real |-> <<>>,
                starved |-> FALSE]
          ELSE [f EXCEPT !.jitter.playhead = IF @ = None THEN None ELSE @ + n]

\* fill_render_bytes for n units.
Fill(j, n) ==
    LET start == [j EXCEPT !.jumped = FALSE,
                           !.playhead = IF j.playhead = None THEN j.pendingTime ELSE j.playhead]
        f     == FoldLeft(LAMBDA a, i : PlayUnit(a),
                          [jitter |-> start, played |-> <<>>, real |-> <<>>, starved |-> FALSE],
                          [i \in 1..n |-> i])
        head  == f.jitter.playhead
        end   == IF head = None THEN None ELSE head + Len(f.played)
    IN  IF ~j.started
          THEN [jitter |-> [j EXCEPT !.jumped = FALSE], played |-> <<>>, real |-> <<>>,
                starved |-> FALSE]
          ELSE [f EXCEPT !.jitter = [f.jitter EXCEPT !.playhead = end]]

-----------------------------------------------------------------------------
(* The play worker.                                                         *)

WorkerReceive ==
    /\ channel # <<>>
    /\ channel' = Tail(channel)
    /\ jitter' = Insert(jitter, Head(channel))
    /\ master' = [master EXCEPT !.matched = TRUE]
    /\ fill' = [fill EXCEPT !.sessions = fill.sessions \cup {p.session : p \in jitter'.packets}]
    /\ UNCHANGED <<source, audioNet, ingress>>

\* AudioTimeline::submit_media
Submit(m, playhead) ==
    [m EXCEPT !.valid = TRUE, !.submitted = playhead,
              !.audible = IF playhead > DevicePadding THEN playhead - DevicePadding ELSE 0,
              !.age = 0]

\* AudioTimeline::mark_discontinuity
Suspend(m) == [m EXCEPT !.valid = FALSE, !.suspended = QuietAfter]

\* One pass of the worker with an empty channel and n units of room.
WorkerRender ==
    /\ channel = <<>>
    /\ \E n \in 1..MaxAvailable : \E f \in {Fill(MaybeStart(jitter), n)} :
        LET started == MaybeStart(jitter)
            post    == jitter.quiet # None /\ jitter.quiet >= QuietAfter
        IN  /\ jitter' = f.jitter
            /\ master' = IF started.jumped THEN Suspend(master)
                         ELSE IF f.played # <<>> /\ f.jitter.playhead # None
                           THEN Submit(master, f.jitter.playhead)
                         ELSE IF f.starved /\ post THEN [master EXCEPT !.valid = FALSE]
                         ELSE master
            /\ fill' = [fill EXCEPT !.played = <<Last(fill.played)>> \o f.real,
                                    !.sounding = f.played # <<>> /\ Last(f.played) # Silence]
    /\ UNCHANGED <<source, audioNet, ingress, channel>>

\* audio_master_sync_status: reading a stale master invalidates it.
ReadMaster ==
    /\ master.age # None /\ master.age > QuietAfter
    /\ master.valid
    /\ master' = [master EXCEPT !.valid = FALSE]
    /\ UNCHANGED <<source, audioNet, ingress, channel, jitter, fill>>

Grow(age, most) == IF age = None \/ age = most THEN age ELSE age + 1

Older(e) == [e EXCEPT !.age = Grow(e.age, StartupHold + 1)]

AudioTick ==
    /\ ingress' = [ingress EXCEPT !.startup =
                     [i \in DOMAIN ingress.startup |-> Older(ingress.startup[i])]]
    /\ jitter' = [jitter EXCEPT !.waited = Grow(jitter.waited, JitterTarget),
                                !.quiet = Grow(jitter.quiet, QuietAfter)]
    /\ master' = [master EXCEPT !.suspended = IF master.suspended = 0 THEN 0
                                              ELSE master.suspended - 1,
                                !.age = Grow(master.age, QuietAfter + 1)]
    /\ <<ingress', jitter', master'>> # <<ingress, jitter, master>>
    /\ UNCHANGED <<source, audioNet, channel, fill>>

AudioNext ==
    \/ AudioSent \/ AudioSkipped \/ AudioLost \/ AudioRestarted
    \/ AcceptDatagram \/ BindSession
    \/ WorkerReceive \/ WorkerRender \/ ReadMaster \/ AudioTick

-----------------------------------------------------------------------------
(* Properties.                                                              *)

\* The types, and the latency bound of the jitter buffer: target and margin.
AudioTypeOK ==
    /\ source.session \in 1..AudioSessions
    /\ Cardinality(audioNet) <= InFlight
    /\ Len(ingress.startup) <= StartupDepth
    /\ Len(channel) <= ChannelDepth
    /\ Buffered(jitter) <= JitterTarget + TrimMargin
    /\ master.valid \in BOOLEAN /\ master.matched \in BOOLEAN
    /\ master.suspended \in 0..QuietAfter

\* The published playhead follows the sound the device was given: it is never
\* further from the last sample than the tolerance of the re-anchoring.  (The
\* buffer does not tell sessions apart: one that is shorter than the buffer
\* mixes with the next, and is left out here.)
PlayheadNearMedia ==
    master.valid /\ fill.sounding /\ Cardinality(fill.sessions) = 1 =>
        Last(fill.played).time + 1 - master.submitted \in (-MaxAvailable)..JumpTolerance

\* Within a session the samples are played in the order they were captured,
\* each once, whatever is lost, doubled, reordered or trimmed.
PlayedForward ==
    \A i \in 1..(Len(fill.played) - 1) :
        fill.played[i].session = fill.played[i + 1].session
            => fill.played[i].seq < fill.played[i + 1].seq

\* Nothing lingers: the buffer holds no packet that the playback has passed,
\* which it would never load again and always count as buffered.
NothingBehind == \A p \in jitter.packets : p.seq >= jitter.expected
=============================================================================
