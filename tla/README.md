# AgoraLink in TLA+

AgoraLink is a Windows LAN tool: chat, file transfer and screen sharing. File
transfer runs over RUDP, a reliable protocol of its own on UDP written in Python
(`protocol.py`, `server.py`, `client.py`, `file_transfer_common.py`). Screen
sharing runs in a native Rust process (`rust-native/agoralink_media`) that the
Python GUI starts and stops. These modules model the parts in which several
threads, two machines and an unreliable network meet, check them with TLC, and
prove some of what was checked for every size with TLAPS.

Paths below are relative to the repository; `agm/` stands for
`rust-native/agoralink_media/src/`.

## 1. Inventory

### File transfer (Python)

| Part | State it keeps | Operations | What is hard | What makes it correct |
|---|---|---|---|---|
| DATA transport (`protocol.py`) | `unacked`, retries, recovery queue and its claims, ACK1 cache, reorder buffer | `send_precise`, `_handle_data`, `_handle_ack1`, `_handle_ack2`, `_retransmit_checker`, `_recovery_sender`, `_ack1_resender` | five threads that hold one lock for short sections; stale, truncated and repeated ACKs; a packet sent before it is registered | nothing is forgotten that was not received; in-order delivery; every packet settles or the session fails |
| Handshake and session table (`protocol.py`, `server.py`, `client.py`) | handshake state, keys, deadlines; `sessions[cid]` | SYN, SYN-ACK, final ACK, HANDSHAKE_CONFIRM, RST, timers, cleanup loop | packets of earlier server sessions of the same id; decisions taken under a lock and carried out after it | both ends hold the same key when either calls itself established; everybody's wait ends |
| RANGE and COMPLETE (`protocol.py` and both applications) | tracked control packets, events, payload of the commit | `send_range_announce`, `send_complete_commit`, `_handle_complete`, `_handle_complete_ack` | an ACK handled before its number is stored; a client that leaves without lingering | a client that reports success has its file saved |
| Partial files (`server.py`, `file_transfer_common.py`) | `.part`, `.meta.json`, final file | offer, policies, write loop, verify, rename, `finally` | crashes between any two file operations, several files of one name, two sessions for one file | only a beginning of the same file is ever continued; progress is kept |
| Delivery queue (`protocol.py:535-645`) | `_ordered_ready`, `_app_queue`, closed flags | `_delivery_loop`, `get_app_item` | a bounded queue, closed while its producer waits for room | what was acknowledged is delivered or the reader sees the end |
| Path migration (`protocol.py:928-1074`, `4505-4550`) | peer address, validations, retired paths | challenge, response, promotion | packets on old and new path; late and repeated answers; a client that moves back | of an address one thing is true at a time; the session follows the client |
| Replay window (`crypto.py:15-133`) | high-water mark, bitmap, width, margin | `accept`, widening | the two edges of a window that widens as it goes | no control packet is accepted twice |
| Approval (`server.py:455-566`, `main_kivy.py`) | request, accept and reject files | wait, decide | stale files, late decisions | a decision is for the session that asked |
| Congestion control (`congestion.py`) | rates, windows | samples | floating point | decides only *when* to send |
| Discovery, chat and transfer stores, UI, packaging | sockets, SQLite, widgets | | little concurrency of their own | |

### Screen sharing (Rust)

| Part | State it keeps | Operations | What is hard | What makes it correct |
|---|---|---|---|---|
| Profile transition (`agm/profile_transition.rs`, users in `h264_send_probe.rs` and `h264_recv_view.rs`) | sender phase, pending change, capability, generation, decode queue | announce, ACK, activate, switch, feedback, readiness, roll back | five threads; facts read from a snapshot of a snapshot; deadlines of different lengths on the two sides | a committed change is on the receiver's screen |
| Closing a stream (`agm/h264_send_probe.rs`, `h264_recv_view.rs`, `media_control.rs`, `shutdown.rs`) | cancellation token, close id, inbox, worker handles | CLOSE, ACK, linger, peer timeout, join | crossing, lost and left-over CLOSEs; threads that fail | an end believes of the other what is true, and follows it |
| Run of the receiver (`agm/h264_recv_view.rs`, `shutdown.rs`, `local_control.rs`) | workers, token, join results, retained workers, terminal event | start, poll, stop, bounded join, report | workers that fail, panic or hang during start, run and cleanup | what is reported is true, no thread is forgotten, a stop returns |
| Capture (`agm/callback_lifecycle.rs`, `wgc_latest_capture.rs`, `gpu_nv12_capture.rs`) | barrier, leases, frame queue, resources | start, callback, stop, drop | callbacks that Windows begins after their handler was removed; every cleanup step may fail | nothing is closed under a callback; every frame goes back |
| Encode pipeline (`agm/capture_encode_probe.rs`, `wmf_h264_encoder.rs`, `async_mft_wait.rs`) | capture runtime, transform with credits and pending samples, keyframe requests, bitrate | prepare, tick, submit, pump, drain, update the bitrate, close | events of an asynchronous transform against bounded waits; fallbacks; setters that do not confirm | no frame lost or reordered, an IDR within the interval, nothing left running |
| Paced sending and repair cache (`agm/h264_send_probe.rs`, `repair.rs`) | bounded channel, pacer job, cache with eviction, suppression | enqueue, pace, flush barrier, session switch, answer a NACK | the pacer dies while the encoder waits at the barrier; stale entries of a cache keyed without session | frames of the running session only; eviction forgets nothing young |
| Adaptive quality (`agm/adaptive_quality.rs`, `frame_rate_policy.rs`) | rung, windows, cooldowns, nominal rate, running encoder | observe, degrade, recover, apply, rebuild | the controller commits before the encoder follows; windows that span a change | it believes what runs, moves on evidence, comes back |
| Reassembly and decode gate (`agm/h264_reassembly.rs`, `playout_buffer.rs`, `h264_recv_view.rs`) | assemblies, budgets, playout buffer, decode queue, damaged-GOP gate | accept, complete, expire, skip, switch session, enqueue, decode | budgets on every exit path; two threads; loss against an IDR in flight | budgets exact; a decoder is fed in order, never without its reference |
| Repair by request and parity (`agm/h264_reassembly.rs`, `repair.rs`, `fec.rs`, `packetization`) | per-frame rounds, suppression ages; shards and parity | collect NACK items, resend, packetize, recover | five timers of two machines; length and flags of a recovered first or last packet | repaired in time, sent again once, rebuilt as sent |
| Sound (`agm/audio_udp.rs`, `sender_scheduling.rs`, `media_clock.rs`) | units and stamps, drop-newest queue, startup queue, jitter buffer, playhead | capture, send, ingest, fill, trim, re-anchor, starve | sequence numbers that restart with a session; a clock that goes on while sound is dropped | played forward, once; the playhead is that of the sound |
| A/V synchronisation (`agm/av_sync.rs`) | slot of one frame, hold epoch, forced bypass | hold, drop, render, bypass | a held frame replaced by a newer one | nothing is held longer than 80 ms |
| Messages (`agm/media_control.rs`, `h264_udp_protocol` code in `h264_send_probe.rs`, `h264_recv_view.rs`, `audio_udp.rs`) | none | encode, decode, dispatch | eight kinds on one socket, told apart by offsets | each is read as written, by the end it is for |
| Command line (`agm/main.rs`, `screen_runtime.py:build_*_args`) | options, defaults, derived settings | parse, default, validate, start | three places check the same value | what is accepted starts; two ends of one preset agree |
| Screen runtime (`screen_runtime.py`) | process, state, reader threads | start, stop, events | unlocked start beside stop; late readers | one process, and idle means it is gone |
| Decoding, colour, rendering; probes | COM objects, pixels | | calls into Windows | |

### How the parts interact

`client.run_client` opens a session (handshake), announces its range, sends a
header and DATA, and waits for COMPLETE. `server._app_handler`, one thread per
session, decides with the GUI, writes the `.part` file from the delivery queue,
verifies and renames it, and commits. The session's own threads (receive,
retransmission, recovery, ACK resender, delivery) serve both, sharing state under
`session.lock`. The handshake, transport and completion modules therefore
abstract one another: `RudpCompletion` takes from `RudpData` that what the
sender holds for acknowledged was received; `FileResume` takes from both that
packets come in order from the decided offset or the session ends.

The native sender captures (`CaptureLifecycle`), encodes (`EncodePipeline`, at what
`AdaptiveQuality` decides), packetizes (`FrameRecovery`) and sends (`VideoSender`,
`AudioCapture`) in the formats of `MediaWire`. The receiver reassembles and decodes
(`VideoReceive`), asks again for what is missing (`RepairRounds`), plays
(`AudioPlayout`) and presents (`AvSync`), in the threads of `ReceiverRun`.
`ProfileTransition` runs inside a stream, and `StreamClose` ends one, possibly in
the middle of a transition. What one module takes from its neighbour as an
arbitrary input is checked in the neighbour: `VideoSender` answers arbitrary NACKs,
`VideoReceive` takes any packet of a frame that was sent, `AvSync` reads an arbitrary
playhead.

## 2. Modules

| Module | Models | Extends |
|---|---|---|
| `ReliableTransfer` | the promise: submit in order, arrive in any order, deliver in order, confirm only what arrived | |
| `RudpData` | one direction of the DATA transport; refines `ReliableTransfer` | instance of `ReliableTransfer` |
| `RudpDataProofs` | its proofs | `RudpData`, `TLAPS` |
| `RudpHandshake`, `HandshakeProofs` | handshake and session table; their proofs | |
| `RudpCompletion` | RANGE and COMPLETE with both applications | |
| `FileResume` | files and attempts | |
| `DeliveryQueue` | ordered DATA on its way to the application | |
| `PathMigration` | the server of a session follows its client | |
| `ReplayWindow` | which numbers a receiver accepts | |
| `ProfileTransition`, `ProfileProofs` | profile change between sender and receiver; its proofs | |
| `StreamClose` | the end of a stream | |
| `ReceiverRun` | a run of the receiver with its workers | |
| `CaptureLifecycle` | start and stop of a capture | |
| `EncodePipeline` | capture runtime, encoder and the loop between them | |
| `AdaptiveQuality` | frame rate policy, controller and the pipeline that follows | |
| `VideoSender` | encode thread, pacer, control thread with cache and suppression | |
| `AudioCapture` | capture and send workers of the sound of successive sessions | |
| `VideoReceive`, `VideoReceiveProofs` | network thread and main thread of the receiver up to the decoder; their proofs | |
| `RepairRounds` | one frame's repair in time, both ends | |
| `FrameRecovery` | packetization, parity, recovery | |
| `AudioPlayout` | ingest, jitter buffer, playhead | |
| `AvSync` | the render thread's policy | |
| `MediaWire` | layout, validation and dispatch of every datagram | |
| `CommandLine` | every subcommand's command line, and those the GUI builds | |
| `ScreenRuntime` | the GUI's start, watch and stop of the native process | |
| `MCScreenSender`, `MCEndings`, `MCReceiving` | several parts side by side | the parts |
| `SenderProofs`, `EndingProofs`, `ReceivingProofs` | proofs about the parts of each of them, and about the parts together | `MCScreenSender`, `MCEndings`, `MCReceiving` |
| `FoldLemmas` | what a fold over a sequence computes, step by step; instantiated by the proofs once for each loop | |
| `MCVideoReceive` | values of the constants of `VideoReceive` | `VideoReceive` |

`MCScreenSender`, `MCEndings` and `MCReceiving` do not compose their parts: a
variable `subject`, chosen once, says which part a behaviour is of, and the others
rest in an initial state. The parts are independent state machines whose product
would only multiply their states; put this way one run asks of a whole side of the
system what belongs together, and its properties are conjunctions of named
properties of the parts. Fairness is restated there for the steps of the part that
moves, with the same actions as in the part's own module.

Conventions common to all of them:

* An action is one critical section, or one call made between two of them, so
  every interleaving the locks permit is a behaviour. A value read in one section
  and used in the next is a variable (`rxAck`, `doomed`, `snap`, `batch`, `ctrl`, ...).
* Time is abstract in the protocols of file transfer and of the control plane: where
  the code compares a clock with a limit both outcomes are possible; a deadline is
  an action that is enabled while what it watches lasts. Where a property is *about*
  times (`VideoSender`, `RepairRounds`, `AudioPlayout`, `AvSync`, `AudioCapture`),
  time is counted in ticks as the age of what is compared, and an age stops growing
  where nothing tells it apart any more.
* Cryptography is assumed: a packet under another key is rejected. Keys,
  digests and contents are model values.
* The network loses, repeats and reorders. In `RudpData` a channel holds at
  most `NetCap` records and delivery may leave its record behind; in the other
  protocols what was sent stays in a set for ever, so it may arrive late, repeatedly
  or never, and a retry needs no message of its own.
* `\* ghost` marks a variable that only records history for a property.

### RudpData

`nextSeq` and `handoff` are `send_precise` with the packet that is on the wire
and not yet in `unacked`; `SendData` and `RegisterData` are the two halves.
`HandleAck1`, `ChooseFastRetransmits` and `FinishAck1` are the sections of
`_handle_ack1`; `CheckerRound`, `CheckerFails`, `CheckerQueues` those of
`_retransmit_checker`; `PopRecovery`, `SendRecovery`, `ReleaseRecovery` those of
`_recovery_sender`. The receiver's `HandleData`, `HandleDuplicate`, `ResendAck1`,
`ExpireAck1`, `HandleAck2` build and retire the cached ACK1.
An ACK state is `[base, seen, missing]`; `AckStates` is what the code may report,
with the window shrunk to `MaxMissing` ranges as `_build_ack1_payload` does.
`late` records history: packets registered after an ACK covered them.
Pacing and congestion control only delay steps and are left out.

### RudpHandshake

One client session, and a table that holds one server session at a time out of
`MaxSessions` created for the connection id, each with a key of its own.
The client has its application, receive and timer threads; the server its
listener (with the packet it has taken from the socket and the session it
looked up, `packet` and `holds`), its cleanup loop (`doomed` is the decision it
carries out later) and an application thread per session.

### RudpCompletion

`announce` walks through `send_range_announce` (sent, tracked, noted);
`serverApp` through the end of `_app_handler` and `send_complete_commit`. DATA is one
bit: `allReceived`. The control retransmission of both ends is `RangeRetry` and
`CompleteRetry`.

### FileResume

`part`, `meta` and `out` are the files of `Paths` names made from one file name;
a session has its program counter, decision, handle, buffer and count. Windows
rules apply: an open file can be neither removed nor renamed, and opening denies
nothing. `Crash` ends the server process in any state; the buffer is lost, the
files stay. `Overlap` lets a session start while another is served, which the
server's thread per session allows.

### DeliveryQueue, PathMigration, ReplayWindow

`DeliveryQueue` follows an item from `ready` (`_ordered_ready`) through the delivery
thread's `batch` to `appQueue` and `taken`; `StopRuns`, `StreamCloses` and `ReadyCloses`
are the three steps of an end, each under another lock. `PathMigration` keeps for every
address of the client whether it is the session's path, validating or retired; a token is
good (`challenges`, "response") or no longer ("stale"). `ReplayWindow` is
`ReplayProtector.accept` for control and for DATA, whose window the adaptive reordering
widens (`Widen`); the bitmap is the set of its bits.

### ScreenRuntime

An action is a section under `_lifecycle_lock`; what `start_receiver` and `start_sender`
assign without it is a chain of places (`starter`), and so is the early path of `stop()`.
Two threads may be in `stop()` at a time, the button's and the closing one. `native`,
`readersOn` and `faults` are the process and its readers, which outlive a join that has
timed out. `crossed` records that another thread's section fell into the middle of a start.

### ProfileTransition

`phase`, `change` and `session` are `SenderProfileTransition` and its pipeline;
`inbox`, `acks`, `tracker`, `feedback` the control path; `active`, `pending` and
`highest` the receiver network thread; `snap` the snapshot it publishes;
`queue`, `decoder` the main thread; `toRender`, `shown` the render thread;
`cap` the capability source with its readiness phases, windows and restarts.
`MaxEvents` bounds what the receiver's queue holds and `DamagedFrom` is the first
session in which groups of pictures are damaged.

### StreamClose

`reason` is each end's `CancellationToken`, which keeps the first reason;
`life`, `running`, `retained` its `ShutdownCoordinator`; `main`, `closing`,
`linger`, `acked`, `inbox`, `accepted` the handshake on either side. Messages
carry sender, session and close id; the network starts with the CLOSEs and ACKs of
an earlier stream between the same addresses.

### ReceiverRun

`phase` is where the main thread is between two of its calls, from the first worker
to the exit code; `workers` what each thread is doing, `greeting` the render
worker's readiness, `errors` the flags the workers raise, `token` and `interrupted`
the cancellation token and the console's static, `joins` what `join_bounded` returned,
`registry` the retained workers and `final` the terminal event with the result.

### CaptureLifecycle

`owner` is `LatestCapture::start`, `stop` and `drop`; `worker` the capture thread
through set-up, frame loop and the ordered cleanup of `callback_lifecycle.rs`,
which runs a second time in `Drop`; `accepting` and `leases` the barrier (the
code's `in_flight` is the number of leases); `frame` and `callback` what each call
of the handler holds. Windows is external: a call may fail, a raised callback may
begin at any time.

### EncodePipeline

`phase` walks through the pipeline's thread: prepared, tick, submit, pump, emit,
report, closing, finish, drain, tail. `runtime` is the capture thread, `screen` and
`seen` the newest picture and the one encoded last, `encoder` the
`WmfH264Encoder` with its credits and pending samples, `mft` the transform (external:
it holds up to `TransformDepth` frames, asks for input, fails, or stops talking), `requests`
the keyframe tracker, `rate` the bitrate believed to be effective. A machine is the list
of encoders it enumerates; the preparation walks it with the code's fallbacks.

### AdaptiveQuality

`Report` is one report interval: eligibility (`Ineligible`), the frame rate policy,
the controller's counters and its move. `FollowInPlace`, `Rebuild` and their failures
are what the encode thread does with the decision. `earned` is history: how many
windows of the running profile in a row had which class. Which class a window falls in
is an input.

### VideoSender, AudioCapture

`enc`, `chan`, `pacer`, `ctrl` are the three threads and their channel; `cache` and
`supp` the two maps with the eviction queue each keeps beside it. In `AudioCapture`
a sample is named by the time it was captured, so a stamp can be compared with it.

### VideoReceive

`asm` is the `H264Reassembler`: frames in flight in order of arrival, complete ones
behind the gap, the skipped, the next to release, and the two reservations. `playout`,
`queue` and `batch` lead to the decoder, `decoding` and `fed` are the decoder. `early`
is history (section 6).

### RepairRounds, FrameRecovery

The first follows one frame in time: ages of its assembly, of the gap behind it, of
datagrams under way and of the sender's last repair of each packet. The second
follows the bytes: a byte is 0 or 1, lengths are scaled down with their relations kept.

### AudioPlayout, AvSync

`ingress`, `channel`, `jitter`, `master` are the receiver's thread, channel, buffer and
clock; `fill` records what the last write gave the device. `AvSync` has the slot of one,
the frame in hand, the scheduler and the clock jump detector; what it reads of the sound
is arbitrary at every decision.

### MediaWire, CommandLine

A datagram is a length and a set of cells (field, offset, width): an encoder appends
cells, a decoder reads at fixed offsets and gets `Garbage` where it does not hit one.
`CommandLine` gives every subcommand a table from options to the values they
take; arguments are read from left to right, then required options, defaults, derived
settings and the subcommand's own check follow.

## 3. Runs

| Run | Module, bounds | What it asks |
|---|---|---|
| `data_transport` | `RudpData`, 2 packets, 1 RTO retry, 1 fast retransmission, channels of 1 | claims, ACK2, silence; exhaustion is fatal; every packet settles |
| `data_gaps` | `RudpData`, 4 packets, one missing range per ACK1 | nothing is forgotten early; refinement of `ReliableTransfer` |
| `handshake` | `RudpHandshake`, 1 retry, 2 server sessions | the two ends agree; both sides' waits end |
| `handshake_tail` | `RudpHandshake`, the same | finding, section 6 |
| `profile` | `ProfileTransition`, 2 changes, 2 settling windows, one damaged group in the second session | commit, rollback, order of switches, no return; decided in the end |
| `sending` | `MCScreenSender`: five parts | what is held is of its session and will be evicted; stamps; order; the controller; everything ends |
| `receive` | `MCVideoReceive`: 2 sessions of 5 frames, budgets below two large frames, decode queue of 1 | budgets, decoder input, release |
| `receive_ghost` | `MCVideoReceive`, 1 session | finding, section 6 |
| `receiving` | `MCReceiving`: nine parts | sound and pictures, repair, messages, command lines, the screen runtime, the replay window, partial files |
| `endings` | `MCEndings`: a stream of 3 sessions, a receiver's run, a transfer, its delivery queue, its path | what is reported is true; everything ends or arrives |
| `resume_overlap`, `resume_reject` | `FileResume`, 2 attempts | findings, section 6 |

Why the bounds are enough:

* `RudpData`: two packets give every order of an acknowledged and an unacknowledged one,
  one retry reaches both "retransmitted" and "exhausted", and channels of one record
  still let an old ACK stay while newer ones are made. Truncation of the missing
  list needs two gaps above the base, hence four packets in `data_gaps`; no retry is
  needed there, since an ACK is all that makes the sender forget. The
  proofs of section 5 remove these bounds for all but the liveness properties.
* `RudpHandshake`: a stale packet needs an earlier session: two of them. One retry
  reaches the limit, which the code tests in the same way for every count.
* `ProfileTransition`: a stale change needs an earlier one: two changes. The code settles
  after three progressing windows; two are enough to have a window before and one after a
  restart, and with a single window `CommitIsMutual` fails, because the one window
  may have been counted on the last frames of the old session. `MaxEvents` 2 lets a
  Reset and a frame of the new session be queued together. `DamagedFrom` 2 lets a damaged
  group follow a switch, which is where readiness is judged; damage in the first session
  precedes every change and only delays it.
* `FileResume`: three attempts: one that leaves something, one that changes it, one that
  reads it. Five units in packets of two leave a remainder and a short last packet. Two
  crashes interrupt two of the three attempts; two paths are one taken and one free. The
  attempts of `receiving` follow one another (`Overlap` FALSE); `resume_overlap` is what
  happens when they do not.
* `StreamClose`: three sessions give a receiver that is one or two behind.
  `RudpCompletion`: one retry reaches the limit; two META ACKs allow a repeated one.
  `ReceiverRun` needs no bound: its workers, errors and stops are finite.
* `DeliveryQueue`: five items in batches of three for a queue of two: a batch that meets a
  full queue, and one item left over. `PathMigration`: three addresses and two moves, which
  include a move back. `ReplayWindow`: numbers 1 to 8 for a window of two that may grow to
  four: inside, at both edges, jumps that widen and jumps that are refused.
* `ScreenRuntime`: two processes, so that readers of the first meet the second, and two
  threads in `stop()`.
* `CaptureLifecycle`: three callbacks: one inside, one queued and one that begins late.
* `EncodePipeline`: three frames with an interval of two reach an IDR by interval and one
  by request; a transform of depth one makes input and output alternate; one poll reaches
  a timed-out wait. `ThreeMachines` are: no encoder but the software one, an Intel one that
  works, and an Intel one that cannot be unlocked beside another that is enumerated
  twice.
* `AdaptiveQuality`: real limits where the code compares counts (3, 2 and 5 windows),
  smaller ones where it only waits (recovery after 2 stable windows, cooldowns of 4 to 6
  intervals, in the order of the code's). One source and two receiver rates make the policy
  change its mind.
* `VideoSender`: two sessions of two frames; the channel of one blocks the encoder; a
  cache lifetime of 1 and a suppression of 2 with its retention of 8 let entries be evicted
  while one of the same key is younger, as in the code, where a key is inserted again
  before its old entry in the eviction queue is gone.
* `AudioCapture`, `AudioPlayout`: two sessions, one unit dropped, two packets in
  flight, and a buffer target of 1 with a margin of 1: trimming, starvation, re-anchoring
  and a change of session all occur. `AvSync`: limits of 1 to 3 ticks in the order
  of the code's; three frames replace one another in the slot.
* `VideoReceive`: frames of two packets with parity can be completed by data, by
  recovery, or by neither; two IDR frames per session let the gate reopen; three slots and
  five payloads are too few for two large frames.
* `RepairRounds` has the code's default times in units of 10 ms, so the rounds of the
  defaults are what is checked; two packets and two requests may be lost.
* `FrameRecovery`, `MediaWire`: lengths around every limit the code compares
  (`SomePayloads` has 0, 1, 1434 and 1435 bytes). `CommandLine`: every subcommand, two
  typed arguments beyond the required ones, each with values on both sides of its limits:
  a contradiction needs two.

The configurations turn deadlock checking off: sessions, streams, transfers,
captures and bounded inputs end, and an ended system has no step.

### Fairness

Liveness is checked under weak fairness of what the program itself does; nothing
is assumed of the network, the user or the peer. A property of the form
`[]<>(P => Q)` where `P` and `Q` are for good says that `P` leads to `Q`.

* `RudpData!ThreadFairness`: threads finish the sections they began; the RTO of a
  packet that waits for nothing else runs out (`RtoExpires`). The checker runs on a
  timer of its own and no other thread can hold `session.lock` for good.
* `RudpHandshake!FairSpec`: the timer thread, the replies of the receive thread,
  the applications, the cleanup loop, and a listener that has taken a packet.
* `RudpCompletion!CompletionFairness`: the two applications, whose waits have timeouts.
* `ProfileTransition!Fairness`: the sender's pipeline and its two deadlines; not
  the receiver.
* `StreamClose!Fairness`: threads, joins and lingers of both ends; a peer timeout
  only once the peer has ended, since while it lives it may keep it from expiring.
* `ReceiverRun!RunFairness`: the main thread, which only polls and waits with
  deadlines, and the creation of the window; no worker is assumed to end.
* `CaptureLifecycle!Fairness`: the capture thread and callbacks that began, which
  assumes that calls into Windows return; the owner's deadlines.
* `EncodePipeline!PipeFairness`: the pipeline's thread; the transform may stay silent
  for ever, because every wait for it is bounded and looks at the stop flag.
* `VideoSender!VideoSenderFairness`: the pacer, and the encode thread once it waits at
  the barrier or has an error to notice; it need not encode another frame.
* `AudioCapture!AudioCaptureFairness`: workers that were told to stop look at the flag;
  reads and writes of the device are bounded by their timeouts.
* `AdaptiveQuality!AdaptiveFairness`: reports go on, rebuilding and updating end, and not
  every window is a bad one when all counters are full. This is an assumption about the
  stream, needed by `RecoversNominalLevel` alone.
* `DeliveryQueue!DeliveryFairness`: the delivery thread, and an application that goes on
  polling, as `server._app_handler` does until it is told of the end.
* `PathMigration!PathFairness`: the client goes on sending DATA, and the server hears of
  it; grace ends; and, strongly, some challenge at the place where the client stays is
  answered before the next replaces its token. The code makes a new token at most once a
  second, so this assumes a round trip below a second among those that are not lost.
* `VideoReceive!Fairness`: the network thread's timers and the main thread's batches.

## 4. Properties

Each is stated, with the code it is about, above its definition. In short:

* `ClaimsAreOwned`: a number marked as queued for recovery is queued or in hand;
  otherwise neither RTO nor fast retransmit would ever touch it again.
* `Ack2SpeaksForSender`, `SilenceIsSafe`: an ACK2 covers only what the sender has
  acted on, so the receiver stops resending only what was heard. The exception,
  `late`, is the packet registered after its ACK: the RTO resends it, the receiver
  sees a duplicate and acknowledges again, which `Settles` relies on.
* `ForgottenIsReceived`, `ImplementsTransfer`: see section 5.
* `Settles`: no packet is dropped silently or left behind.
* `HandshakeAgrees` (`KeysAgree`, `ConfirmedIsMutual`): no packet of another session of
  the same id completes a handshake.
* `HandshakeDecides`, `HalfOpenLeaves`: the client's wait ends, and the table is
  freed for the next SYN.
* `CommitIsMutual`, `RollbackKeepsSession`, `SwitchAfterAccept`, `NeverBack`,
  `SenderDecides`: a change the sender commits is the one on the receiver's screen; one
  it rolls back has left its session alone.
* `CaptureSafety` (`CallbackFenced`, `FramesReturned`, `StopIsClean`).
* `PipelineSafety` (`NoFrameIsLost`, `CaptureIsReleased`, `RateIsKnown`,
  `IdrWithinInterval`, `RequestsAreAnswered`).
* `ControllerIsSound` (`EncoderFollowsController`, `MovesAreEarned`) and
  `RecoversNominalLevel`.
* `SendingSafety` (`PacedInSession`, `CacheEvictable`), `SendingIsOrderly`
  (`ResendsAreSpaced`, `SessionsDoNotOverlap`), and `StampsAreExact`: what the device
  loses, or the queue drops, does not shift the stamps of the sound behind it.
* `EverySenderPartEnds` (`PacerFailureEndsStream`, `BarrierIsPassed`,
  `StoppedWorkersEnd`, `StoppedPipelineEnds`, `StopEnds`).
* `BudgetHonest`, `DecodedAsSent` (`FedInOrder`, `DecodeContinuity`),
  `CompleteReleased`.
* `MediaSafety` (`PlayedForward`, `NothingBehind`, `HoldIsBounded`, `ReleaseIsLasting`,
  `RebuiltIsSent`, `OneLossIsRecovered`, `OnlyOversizeIsRefused`): sound in order and once,
  pictures held for a bounded time, frames recovered as they were sent.
* `TimingSafety` (`PlayheadNearMedia`, `RepairedInTime`, `SentAgainOnce`): the playhead is
  near what is heard, and repair is in time and not repeated while it is under way.
* `HoldingSafety` (`ResumeSafety`, `ReplaySafety`, `RuntimeSafety`), what is held from one
  attempt, packet or process to the next. `ResumeSafety` (`ResumeIsSound`,
  `NeverRefusedByDisk`, `SavedIsVerified`) and the action property `ProgressIsKept`: what is
  continued is the beginning of the same file, what gets the final name was verified,
  leftovers never make an attempt fail, and an interrupted attempt is continued from its last
  whole packet. `ReplaySafety` is `ControlOnce` and `WindowIsTrue`; `RuntimeSafety` is
  `OneStop`, `NoneRunsUnheld` and `IdleIsOver`, of which the last two excuse what happens
  after a `crossed` start (section 6).
* `InterfaceSafety` (`AcceptedStarts`, `PresetsMeet`, `HandledAsSent`, `ReadAsMeant`).
* `CloseSafety` (`PeerClosedMeansLocal`, `AckedIsHeard`, `ObeysLastSession`).
* `EndsAreTrue` (`StopIsTrue`, `NoWorkerIsDetached`, `CompletedIsSaved`,
  `CompleteIsMutual`, `DeliverySafety`, `OneStanding`): the client's success is the
  server's saved file; the server's success is the client's answer. The converse of the
  former does not hold and is not claimed: the server may end with `complete_ack_timeout`
  although the file is saved on one side and reported on the other, because
  `client.py:1364` stops without lingering.
* `EverythingEnds` (`AskedToStopReturns`, `OtherEndFollows`, both applications of a
  transfer, `ReachesApplication`, `SessionFollows`). `OtherEndFollows` excuses two cases
  the code has: a receiver that never had media waits for its user, and a sender whose
  control thread left its loop on a socket error (`agm/h264_send_probe.rs:3469`, no
  cancellation) neither hears a CLOSE nor notices silence. A CLOSE that names a session
  the other end is not in yet, or no longer in, is rejected; the peer timeout then does
  the work.

`PROJECT.json` lists for every property a mutation of the code's logic under which
TLC finds it violated; the mutated definitions stand in the modules, marked
"Mutant", beside what they mutate.

## 5. Proofs

All proofs are for every value of the constants, under the named assumptions of the
modules (positive numbers, `Nat` limits, `NackKeys` among the keys, a cooldown for
each dimension; none restricts the network). Some need a further hypothesis, which
they state: `CommittedIsMutual` that more than one window is settled, `ResumeIsSafe` and
its companions that attempts do not overlap. TLC had found
each property to hold on its run before it was proved for every instance.

| Run | Property | Theorem |
|---|---|---|
| `data_transport` | `TypeOK`, `ClaimsAreOwned`, `Ack2SpeaksForSender`, `SilenceIsSafe` | `TypeCorrect`, `ClaimsOwned`, `EchoesAreActedOn`, `SilenceFollowsAction` |
| `data_gaps` | `ForgottenIsReceived`, `ImplementsTransfer` | `NothingForgottenEarly`, `TransferRefined` |
| `handshake` | `TypeOK`, `HandshakeAgrees` | `HandshakeTypes`, `EndsAgree` |
| `profile` | `TypeOK`, `SwitchAfterAccept`, `RollbackKeepsSession`, `NeverBack`, `CommitIsMutual` | `ProfileTypes`, `SwitchIsAccepted`, `RollbackIsHarmless`, `ReceiverNeverBack`, `CommittedIsMutual` |
| `endings` | `EndingTypeOK`, `CloseSafety`, `EndsAreTrue` | `EndingTypes`, `CloseIsSafe`, `EndsAreReported` |
| `sending` | `SenderTypeOK`, `CaptureSafety`, `PipelineSafety`, `SendingSafety`, `StampsAreExact`, `SendingIsOrderly`, `ControllerIsSound` | `SenderTypes`, `CaptureIsSafe`, `PipelineIsSafe`, `SenderIsSafe`, `StampsAreTrue`, `SenderIsOrderly`, `ControllerIsTrue` |
| `receive` | `TypeOK`, `BudgetHonest`, `DecodedAsSent` | `VideoTypes`, `BudgetIsHonest`, `DecodedIsSent` |
| `receiving` | `ReceivingTypeOK`, `MediaSafety`, `HoldingSafety`, `ProgressIsKept` | `ReceivingTypes`, `MediaIsSafe`, `HoldingIsSafe`, `ProgressKept` and `ReceivingKeepsProgress` |

**RudpDataProofs.** `TypeCorrect` is inductive by itself. `ClaimsOwned` uses
`ClaimInv`, which adds that what is in the hand is not also in the queue: releasing
the hand would otherwise release a claim still needed. `NothingForgottenEarly` and
`TransferRefined` rest on `AckInv`:

* `AcksAreTrue`: everything any ACK state alive anywhere acknowledges, on the
  wire, in the receive thread's hand or in the receiver's cache, was received.
  `ForgottenIsReceived` alone is not inductive, since the ACK that makes the sender
  forget may be arbitrarily old;
* `PrefixIsReceived`: what was delivered in order was received;
* `OnlySubmitted`: nothing beyond what was sent is anywhere;
* `OnePlace`: a number is unacknowledged, dropped or on its way to registration,
  never two of these.

The lemma `AckStatesAreTrue` says of the report itself that shrinking its window
never acknowledges a gap. `TransferStep` maps each action to `Submit`, `Arrive`,
`Confirm`, `Abandon`, `Fail` or a stutter.

Two more invariants are for ACK2. `EchoInv`: what any ACK state the sender has acted on
acknowledges (in an ACK2, or in the receive thread's hand) is no longer in `unacked`,
or is `late`. It gives `EchoesAreActedOn`. `SilenceFollowsAction` needs more: that
nothing but a covering ACK2 silences a receiver with something to report
(`OnlyEchoSilences`), and that what the silenced report acknowledges, the covering ACK2
acknowledges too. `Covers` compares bases, ends and missing ranges; a number the report
acknowledges selectively could still be the very base of the ACK2, which acknowledges
nothing at its base. `ReportInv` closes that: a state that reports anything at or above its
base names the base as missing, and no base is ahead of `nextSeqExpected`.

**HandshakeProofs.** The ends see each other's packets only, and a packet may be of a
session long over. `Evidence` therefore says of every packet there is what its maker had
done: a final ACK under key *k* is of a client that holds *k*; a listener past taking one,
a completed session, and a HANDSHAKE_CONFIRM under *k* each have such a client before
them; a client that was confirmed has its confirm in the network. `Held` says that a
thread that answers with a key has one and that the listener handles a packet of the network.
`EndsAgree` is `HandshakeAgrees` for any number of retries and sessions.

**EndingProofs.** One part after another, each for its own specification, then all of them.

*StreamClose.* `IInv` is `TypeOK` with `PeerClosedMeansLocal`,
`AckedIsHeard` and three strengthenings: `Truthful` (a CLOSE or an ACK of this
stream in the network, in an inbox or accepted was sent by an end that had stopped
for the reason it says, and those of the earlier stream match no session),
`Waiting` (an end in its handshake has stopped of its own accord, and an ACK or a
CLOSE taken from the network is as true as it was there), and `LastSession` (once
the receiver has stopped on the sender's word, the sender is past its loop and its
session stays). From it follow `CloseTypes`, `PeerClosedIsTrue`,
`AckIsTrue` and `ReceiverSeesLastSession`, together `CloseIsSafe`, which is the
`CloseSafety` of the run.

The other parts:

* *RudpCompletion.* The applications never see each other: between them are two packets and
  what each thread has concluded. `CommitFollowsFile`: a COMPLETE anywhere is of a file that was
  saved. `AnswerFollowsCommit`: an ACK of it anywhere is of a client that has heard it.
* *DeliveryQueue.* What the application has, what is queued for it, the batch and what is
  ready are one row of numbers (`InRow`). The first two stay so for ever; the rest only
  while the session runs, after which nothing leaves the batch for the queue (`ClosedInTurn`).
* *PathMigration.* `OneStanding` with the types is inductive.
* *ReceiverRun.* A report is computed from the joins and the registry, never from the
  workers. `StartsAreTrue` says which workers can exist in which phase, `JoinsAreTrue` what a
  join's outcome says of its worker in each phase from the join to the report.
* *Together.* `StepsOfParts`: a step of `EndingNext` is a step of one part, with the variables
  of the others unchanged. So `EndsAreReported` and `EndingTypes` follow from the parts.

**FoldLemmas.** Loops of the code are folds in the models. The community module defines
`FoldLeft` by a recursive function over sets of indices, which removes a chosen one, the
largest. `FoldRuns` shows that this function exists and that its values are a run of the loop:
the first is the base and each next one is one step from the one before (`IsRun`). The
operator is a parameter of the module, so a proof about a loop instantiates it and goes on
by induction over the positions of the run (`SegmentInduction`), with a predicate of its own
for what holds between two iterations.

**VideoReceiveProofs.** `VideoInv` follows the frames on their way.

* `AssemblerOK`: the frames in flight are distinct, what is complete was not yet released,
  and the two reservations are the sums over the frames in flight (counted as the
  cardinality of a disjoint union, `Slots`). Every way out (completion, expiry, eviction,
  switch of session) goes through one removal. It gives `VideoTypes`, `BudgetIsHonest`.
* `InOrder`: from the frame fed last, over batch, queue and playout buffer, to the next one
  to be released, frames rise. It gives `FedInSendingOrder`.
* `Continuous`: along the same way each frame follows the one before it, is an IDR frame or a
  reset, or comes after a loss in `early`; only a queue that waits for an IDR frame may be
  followed by a break. `KnownLosses` says that what the reassembler has passed over is such
  a loss. It gives `DecodingIsContinuous`, and the two make `DecodedIsSent`.

The first attempt failed with an earlier definition of `early`, which named only the losses
found while an earlier frame was awaited. When two frames in flight are given up in one tick
and a complete IDR frame lies between them, that frame is released with the second loss
already declared; TLC confirms the counterexample on an instance made for it.
`TooEarly` names both cases now.

**ReceivingProofs.** One part after another, each for its own specification, then all of them.

* *ReplayWindow.* `ReplayTypeOK` and `ReplaySafety` are inductive together: what the bits say
  is true, for control they say all there is within the window, so a number is accepted
  once. The step that needs care is a jump: it may widen the window, but never back over what
  it has let go of.
* *FileResume.* `ResumeInv` says of the disk that every `.part` file is the beginning
  of one file (`DiskTypes`), that `.meta.json` names that file unless one of the two is empty
  (`KeptIsTrue`), and of a session, for each of its places, how much of its file is on the
  disk and how much in its buffer (`FlushedUpTo`, and one predicate per place). Attempts
  are `Serial`, by the hypothesis `~Overlap`. The server does not see to that, since it
  serves each session in a thread of its own: `ResumeIsSafe`, `ProgressKept`,
  `HoldingIsSafe` and `ReceivingKeepsProgress` are conditional, and say what holds of
  attempts that follow one another. Without the hypothesis they are false, which is the run
  `resume_overlap`. `NoFileAssumption` says that the value for a file that does not exist
  is no file's content. `ProgressKept` is the action property: a failed attempt leaves an
  offer of all its whole packets, buffered ones included.
* *FileResume, overlapping.* The types hold however attempts overlap, and `ResumeTypes` has
  no such hypothesis. Its invariant is another one, `ResumeShape`: a `.part` file is some
  sequence of units, whoever wrote them (`DiskShape`); an open handle is on a `.part` file
  that is there, since Windows removes none that is open, and what a session has buffered
  is part of what it received since its offset (`HandleShape`); a session's place tells
  what it has settled (`PlaceShape`). TLC checks it for two overlapping attempts (345,671
  states). The length of a `.part` file is bounded by that of the file only without
  overlap, and `ResumeTypeOK` says so: two sessions that append at once exceed it, which TLC
  shows on the same instance.
* *ScreenRuntime.* `RunInv` says which process a start at each of its places has created and
  who knows of it (`StartHas`), that one stop at most has a target (`StopHas`) and one thread at
  most the lock across its steps (`LockHas`); and, while nobody has `crossed` a start,
  `HeldHas`: start and stop are not under way together, a stop's target is the process that is
  held, and the process that runs is the one that is held, is being handed over or is read by a
  thread that is listed or being joined.
* *AvSync.* `SyncAges`: what is left of a bypass and the age of the release that asked for it
  make up the whole bypass, and a frame has been held no longer than its epoch has been open,
  however many frames have replaced each other. It needs a hold deadline of at least one
  tick (`SyncAssumption`).
* *AudioPlayout.* `Steady` relates three things: what is pending ascends between the number
  played last and the one expected; every packet that waits is the expected one or later; and
  each number is there once. Every operation of the buffer keeps it and counts what it adds:
  insertion one packet, trimming down to the target, priming and loading nothing, playing
  one at most. So `Buffered` stays within target and margin, and what a
  fill plays ascends. Five loops are followed with `FoldLemmas`.
* *FrameRecovery.* `CutIs`: the pieces of a frame are all of the same size but the last.
  `Assembly`: what the receiver holds are pieces in their places and perhaps the
  parity, and an assembly that stays lacks two pieces, or one and the parity (`Waits`).
  `XorIs` and `CompletedIs`: one missing piece is what the parity and the other pieces give,
  the shorter last one by the length that is known of it. Joined, they are the frame.
* *CommandLine.* Only the types: the settings have a value for everything that was
  given or derived.
* *Together.* `PartsAreThemselves`: a behaviour of `ReceivingSpec` is one of every part.
  `ReceivingTypes` (with overlap or without), `MediaIsSafe` and `HoldingIsSafe` follow from
  the parts.

**SenderProofs.** The five parts of a sender, and their composition.

* *Capture.* `FenceInv` is `Shape` (types of what matters), `Leased` (a callback that is
  inside holds a lease), `Progress` (how far the cleanup has come determines that the
  barrier is closed, that no lease is left and that no frame is out) and `Unstarted`
  (before the session starts there is no callback; without one nothing need be closed). It
  gives `CallbacksAreFenced` and `FramesAreReturned`. `CleanInv` adds that a failure
  anywhere in the cleanup is remembered in `failed` or `error` until `Return` passes it on,
  and gives `StopLeavesNothing`; the three together are `CaptureIsSafe`.
* *Pipeline.* `FlowInv`: what is delivered, pending, ready and inside the transform is one
  stretch of frames from 0 (`Stretch`), each a keyframe where one was due or asked for
  (`Fits`), and ends with the last frame encoded. `TalkOf`: the events in the queue are
  those the encoder and the transform owe each other, one "have" per ready sample
  and one "need" per input asked for and not noted (`Occurs`), and after "drained" nothing
  comes. Without it a drain could end with a sample left inside. `Where` says what
  the thread has done at each place; `Owed` that no request is behind the delivery. They give
  `PipelineIsSafe` and `PipelineTypes`. TLC checked this invariant beyond the run's bounds
  too (depth 2, four frames, two polls: 2.7 million states).
* *Video.* `InOrder`: while the encode thread waits at the barrier, the barrier is the last
  thing in the channel, and from then until the new session is published the channel is
  empty. `CacheOK`, `SuppOK`: every entry of a map has an element of its age in the eviction
  queue beside it, so it will be evicted, and eviction never takes a younger one.
  `Remembered`: a packet sent again within the interval is in the suppression table; the
  table's retention is four intervals, so eviction cannot forget it too soon.
* *Sound.* `SoundInv`: only the worker of the owner's session may be sending, since
  the owner starts the next one after a clean join of both. `SampleInv` gives `StampsAreTrue`:
  the units a worker has gathered follow each other and their stamp is the time of the first
  (`PendingOK`), and a unit the device still holds is the next one or says that it is not
  (`FitsUnits`). Reading the device and cutting frames are folds.
* *Quality.* `ControlInv`: each counter of the controller is at most what the history has
  seen (`Backed`), and while a decision is being followed the encoder differs from the
  controller's profile in the ordered dimension only (`Ordering`), so that a refusal can be
  taken back. `QualityInv` bounds its counters and cooldowns for `SenderTypes`.
* *Together.* `StepsOfSenderParts`, as for the endings. `SenderIsSafe`, `SenderIsOrderly`,
  `StampsAreTrue`, `SenderTypes` and `ControllerIsTrue` are about `SenderSpec`, the specification of the run.

**ProfileProofs.** The argument follows one number: the change of sequence *n* leads
from session *n* to *n* + 1, so what is in the network is bounded by the sender's change,
what the receiver accepted by the network, and the receiver's session and generation by
what it accepted. `IInv` is `TypeOK` with:

* `MoreTypes` (`Sound`: while the readiness machine is active it is in one of its phases
  and short of the last window, without which the window count leaves its range);
* `SenderAt`: the place of the sender's thread determines the phase and whether the session
  is still that of before the change;
* `Handed`: the bounds along the network; an ACK that can still arrive is of an accepted
  change, and a change that waits starts from the session the receiver is in;
* `Generations` and `Level`: the receiver's generation is that of its session, and
  except while a switch is awaited the two ends are in the same session.

It gives `ProfileTypes`, `SwitchIsAccepted`, `RollbackIsHarmless` and, as an action
property, `ReceiverNeverBack`. `CommittedIsMutual` needs the pictures too. `Forward` says
that each stage on the way to the screen (queue, renderer, screen) holds no newer session
than the one before it. `Evidence` says what the readiness machine may have counted: when
it begins, a frame of the old session can be waiting to be shown, or shown and not yet
counted, and there is at most one such token (`AtMostOne`). The report that finds
pictures and moves to settling consumes it (`NoneLeft`), so the first window may be
about the old session, the second cannot. Hence the assumption
`SettleWindows >= 2` (the code asks for 3): with 1, TLC finds a commit while the old
session is on the screen.

**Left to TLC.**

* All liveness properties, since the prover handles neither fairness nor `ENABLED`:
  `Settles`, `HandshakeDecides`, `HalfOpenLeaves`, `SenderDecides`, `CompleteReleased`,
  `RecoversNominalLevel`, `EverySenderPartEnds`, `EverythingEnds`.
* `TimingSafety`. `RepairedInTime` and `SentAgainOnce` are about the numbers of the run:
  they hold for the code's delays and suppression and fail for others (section 6), so a
  theorem would have to assume the schedule it is about. `PlayheadNearMedia` likewise
  depends on how much sound the sender's queue drops.
* `InterfaceSafety`: option tables and layouts are built with `@@` and `:>`, which the prover
  takes as unknown, and the property is an enumeration of what they contain.
* What a loop computes for every input, as a value, is not stated: the lemmas of `FoldLemmas`
  give the steps of a run, from which the invariants follow.

What the attempts to prove found in the models: besides `early` (above), the type of the
controller's nominal rate lacked `min_fps` (`agm/adaptive_quality.rs:885` takes the greater of
the two); the branches of `Accept` overlapped, harmlessly; a frame size limit of zero
and a hold deadline of zero were not excluded; and the buffer of sound was read by `@` in
nested updates, which the prover does not resolve.

No module declares a RECURSIVE operator; recursive functions are used where a sum or a
walk is needed.

## 6. Findings

Each is a run that TLC must find violated:

* **`handshake_tail`**: the handshake timer finds the tail deadline exceeded in one
  critical section (`protocol.py:1189-1216`) and looks at the state again in a
  second one (`1219-1227`), where `reason` stays `None` if the confirm was handled
  in between; it then calls `_set_error(reason, fatal=True)` all the same, and an
  established session is torn down with the error `None`.
* **`resume_overlap`**: the `.part` file is hashed with its handle closed
  (`server.py:984`) and renamed later (`server.py:1000`); a second session for the
  same file may cut it in between, and an unverified file gets the final name.
* **`resume_reject`**: a session that is refused writes `received_bytes` 0 over the
  saved progress (`server.py:1074`), and the next attempt starts from the beginning.
* **`receive_ghost`**: a duplicate of a packet of a frame that is complete but waits
  behind a gap opens a second assembly of it (`agm/h264_reassembly.rs:965-967`; `:715`
  only refuses frames already released). It holds a reservation, can never be
  released, and when it times out counts as a lost frame, for which the receiver clears
  its playout buffer and waits for an IDR although nothing was lost.

### Observations

Met while modelling, and no claim of the repository speaks against them clearly enough
to be a finding; some are built into a property as an exception.

* `VideoReceive`: keyframes are taken to carry SPS/PPS, packets to be well-formed and
  `drop_damaged_gop` to be on. A loss declared while an earlier IDR frame is still in
  flight, or in the step that releases one, closes the gate too soon: that IDR frame opens it
  again, and the P frame after the lost one is decoded without its reference (`early` in
  `DecodeContinuity`).
* `AdaptiveQuality`: after a cap was lifted, Q2 to Q3 raises the frame rate and keeps the
  bitrate (`agm/adaptive_quality.rs:888-902`, `:1194-1228`; the README's ladder caps it);
  a start size that is not on the ladder is not returned to; a `min_fps` above the user's
  cap lets the nominal rate exceed it (`:885-889`). The model starts on the ladder.
* `AudioPlayout`: (1) the sound sender restarts at sequence 0 with a profile transition
  while `expected_sequence` persists, so the beginning of the new session is dropped as
  late; (2) a session shorter than the buffer mixes with the next, which are ordered by
  number (excluded in `PlayheadNearMedia`); (3) sound the sender's queue drops uses no number,
  so the playhead lags by up to 200 ms until it is re-anchored; (4) the re-anchored
  playhead is valid for one fill before it is marked discontinuous; (5) starvation fed only
  by late or duplicate packets counts as the end of the stream; (6) `trim_excess_latency`
  (`agm/audio_udp.rs:1921`, `:1942-1953`) leaves the playhead where it was, while the comment
  at `:1914-1915` speaks of re-anchoring.
* `EncodePipeline`: an encoder created but not unlocked is not tried again through its
  activation object; with "auto", another hardware candidate is not tried when the first one
  fails its media types; the output buffer's size is not read again after a stream change. A
  bitrate that was set and not confirmed leaves `effective_bitrate` old; the observer then
  rebuilds the pipeline, which is what keeps `RateIsKnown`.
* `CommandLine`: `screen-send` repairs by default and `screen-recv` does not; the GUI always
  passes a playout delay, so the 250 ms of audio are never used; a bitrate from
  `--quality-bpf` is not capped; `bench-reassembly` accepts payloads its start refuses;
  `sender` accepts rates whose frames exceed 16 MiB; blank paths pass the parser. These are
  the exceptions of `AcceptedStarts`. With FEC and the smallest datagrams, frames of more
  than 31190 packets are refused though within 16 MiB (`OnlyOversizeIsRefused`).
* `MediaWire`: sound of zero samples, rate or channels is decoded; a present interval above
  10 s cannot be encoded as feedback; a receiver without sound counts sound as unknown.
* `RepairRounds`: with one repair lost as well, `RepairedInTime` fails at 60 ms of
  suppression and holds at 20 ms; with the default playout delay the deadline guard is
  reached at an age of 10 ms; the first 32 of more missing packets are asked for twice before
  the others once.
* `ReceiverRun`: a runtime error whose workers all joined prints
  `NATIVE_SCREEN_SHUTDOWN_FAILED` (`agm/h264_recv_view.rs:3293`) while the state says
  stopped; a worker that panics raises no flag; a failed sound worker never ends the run; a
  `LOCAL_STOP` line with a wrong version or reason ends the listener; a render worker that
  failed to start may still be returning when the terminal event says stopped.
* `ProfileTransition`: `agm/h264_recv_view.rs:1299` reads `first_idr_decoded` from a decoder
  that only the queued Reset closes: a session without a keyframe may fail by the render
  deadline instead of the IDR deadline. What the sender commits is not affected.
* `RudpCompletion!RangeAckIsNoticed` (defined, in no run): `protocol.py:2706` stores the
  number of the RANGE packet after the packet is out and tracked; a META ACK handled in
  between ends its retransmission without setting `_range_meta_acked`, so
  `wait_range_announce_ack` could only time out. No part of the program calls it today.
* `ScreenRuntime` (`crossed`): the early path of `stop()` beside a start, which assigns
  outside the lock (`screen_runtime.py:261-394`, `394-496`), may overwrite `_process` so that a
  native process runs on that nothing holds, be idle over a process that runs, or have
  RECEIVING written over its IDLE. `docs/V0_0_12_RELEASE_NOTES.md:29` says that idle means the
  readers are collected too; readers that outlive their join (`1402-1421`) are dropped from the
  list and go on, and an ERROR they set is overwritten by the start that follows.
* `ReplayWindow`: a control packet that is further ahead than window and margin is refused and
  changes nothing, so when that many control packets in a row are lost all later ones are
  refused (`crypto.py:103`).
* `PathMigration`: a client that moves back to a path within its ten seconds of grace is
  heard, but not challenged: until grace ends the server goes on answering to the path the
  client has left.

## 7. Not modelled

Listed with reasons in `PROJECT.json`. Beyond whole components:

* `RudpData`: receive buffer and window advertisement, pacing, congestion control. The
  delivery queue after ordering and the change of path have modules of their own.
* `DeliveryQueue`: `get_app_items`, which takes several items where `get_app_item` takes one.
* `PathMigration`: the probe a client could start itself, which nothing calls; the reset
  of the congestion state after a promotion.
* `ScreenRuntime`: `screen_control.py`, which only chooses options, and the queries of
  the executable's audio capabilities.
* `RudpHandshake`: identity pinning and PIN (they make a handshake fail, which
  `ClientFails` covers), the server's own SYN-ACK payload caching.
* `FileResume`: exceptions of `write_resume_meta` (swallowed by the code), loss of
  unflushed data by the operating system, a source file that changes under the
  sender, failure of the save directory's probe.
* `StreamClose`: pacer and audio threads, which are only joined; failures before the
  first session; a CLOSE from a foreign address, which the pinned peer rules out.
* `CaptureLifecycle`: `gpu_nv12_capture.rs`, whose cleanup is the same ordered list around a
  GPU conversion, and `capture_probe.rs`, which repeats the structure for measurements.
* `EncodePipeline`: a change of the output type; the conversion itself.
* `AdaptiveQuality`: how one window is classified from its rates and percentages: floating
  point, and an input here.
* `VideoSender`: the rate limit of 5000 packets per second.
* `AudioPlayout`, `AudioCapture`: sample formats and resampling.
* `ReceiverRun`: the second console signal, with which the system kills the process.
* `CommandLine`: the measurement subcommands behind the parser.
* Decoding, colour conversion, rendering and display: calls into Windows and pixel
  arithmetic, no state of their own that another part relies on.
* Congestion control and adaptive reordering: floating-point estimates that decide *when*
  a step is taken, which `RudpData` leaves open.
* Discovery, chat, contact and transfer stores, user interface: stateless answers, SQLite
  upserts in one transaction each, widgets.

## 8. What could follow

1. `RepairedInTime` from assumptions about the schedule: delays, suppression and the
   deadline guard as inequalities between constants.
2. The receiver from reassembly to the screen: `VideoReceive` ends at the decoder,
   `AvSync` begins behind it.
3. `Approval` (`server.py:455-566`): request, accept and reject files between two processes.
