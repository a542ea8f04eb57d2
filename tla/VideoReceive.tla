---------------------------- MODULE VideoReceive ----------------------------
(***************************************************************************)
(* The receive side of the screen video: datagrams become frames, frames   *)
(* become decoder input.  Two threads share the decode queue:              *)
(*                                                                         *)
(*   - the network thread feeds every datagram to the H264Reassembler,     *)
(*     which reserves a budget per frame, completes frames (one lost       *)
(*     packet per frame is recovered from the parity packet), releases     *)
(*     them in order behind a gap gate, and gives up on frames that time   *)
(*     out; released frames wait in the PlayoutBuffer and then enter the   *)
(*     DecodeQueue.  A loss clears the playout buffer and closes the       *)
(*     damaged-GOP gate of the queue until an IDR frame is enqueued;       *)
(*   - the main thread takes the queue's items in batches and feeds the    *)
(*     decoder, which can only start at an IDR frame.                      *)
(*                                                                         *)
(* The stream may change its session (a profile transition): the first     *)
(* video data packet of the announced session clears everything.           *)
(*                                                                         *)
(* The network may lose, duplicate and reorder: any packet of an announced *)
(* session may arrive at any moment, any number of times, or never.  Time  *)
(* is abstract: `waited' says whether the reorder wait has passed and no   *)
(* repair still owns the gap, and the frames that time out are a prefix of *)
(* the frames in flight in the order they were first seen.                 *)
(***************************************************************************)
EXTENDS Integers, FiniteSets, Sequences, SequencesExt, FiniteSetsExt

CONSTANTS
    LastFrame,       \* the frames of a session are 0..LastFrame
    Size,            \* the number of data packets of each frame
    Idr,             \* the frames that are IDR frames
    Sessions,        \* the sessions of the stream are 1..Sessions
    Fec,             \* whether the sender adds a parity packet to each frame
    MaxFrames,       \* max_inflight_frames
    MaxSlots,        \* MAX_INFLIGHT_PACKET_SLOTS
    MaxBytes,        \* MAX_INFLIGHT_PAYLOAD_BYTES, in packet payloads
    MaxDecodeQueue   \* max_decode_queue

Frames == 0..LastFrame

ASSUME ReceiveAssumption ==
    /\ LastFrame \in Nat /\ Sessions \in Nat \ {0}
    /\ Size \in [Frames -> Nat \ {0}]
    /\ Idr \subseteq Frames
    /\ Fec \in BOOLEAN
    /\ {MaxFrames, MaxSlots, MaxBytes, MaxDecodeQueue} \subseteq Nat \ {0}

None == -1                                    \* no frame id

\* A frame of a session, as the playout buffer and the queue carry it.
Frame == [session : 1..Sessions, id : Frames]
Reset == [session |-> 0, id |-> None]         \* DecodeQueueItem::Reset
Items == Frame \cup {Reset}

VARIABLES
    asm,        \* the reassembler
    announced,  \* the newest session the sender has announced
    playout,    \* the playout buffer
    queue,      \* the decode queue with its damaged-GOP gate
    batch,      \* the items the main thread has taken out of the queue
    decoding,   \* the main thread has a decoder
    fed,        \* ghost: the last frame given to a decoder
    early       \* ghost: frames given up before an earlier one was released

vars == <<asm, announced, playout, queue, batch, decoding, fed, early>>

-----------------------------------------------------------------------------
(***************************************************************************)
(* The reassembler.  `order' lists the frames in flight, oldest first,     *)
(* with the packets each has; packet Size[f] is the parity of frame f.     *)
(***************************************************************************)

FreshAssembler(s) ==
    [session |-> s, next |-> None, high |-> None, order |-> <<>>,
     complete |-> {}, skipped |-> {}, blocked |-> FALSE,
     slots |-> 0, bytes |-> 0]

InFlight(a) == {a.order[k].id : k \in DOMAIN a.order}

\* What a set of frames reserves: a slot per data packet, and in bytes
\* (frame_payload_reservation) the payloads of the frame and one more.
Slots == [fs \in SUBSET Frames |-> Cardinality(UNION {{f} \X (1..Size[f]) : f \in fs})]
Bytes == [fs \in SUBSET Frames |-> Slots[fs] + Cardinality(fs)]

\* The elements of a sequence that are in a set, in their order.
Keep(q, kept) ==
    FoldLeft(LAMBDA out, x : IF x \in kept THEN Append(out, x) ELSE out, <<>>, q)

Without(a, fs) == Keep(a.order, {e \in ToSet(a.order) : e.id \notin fs})

\* Mutant: the payload bytes of a finished frame stay reserved.
LeakingRelease(a, fs) ==
    [a EXCEPT !.order = Without(a, fs),
              !.slots = @ - Slots[fs]]

\* Frames leave the assembly and give their reservation back.
Release(a, fs) ==
    [a EXCEPT !.order = Without(a, fs),
              !.slots = @ - Slots[fs],
              !.bytes = @ - Bytes[fs]]

\* Frames in flight are given up: a hole the release order may pass.
GiveUp(a, fs) ==
    [asm  |-> [Release(a, fs) EXCEPT !.skipped = @ \cup fs],
     lost |-> fs]

Fits(a, f) ==
    /\ Len(a.order) < MaxFrames
    /\ a.slots + Size[f] <= MaxSlots
    /\ a.bytes + Bytes[{f}] <= MaxBytes

Reserve(a, f) ==
    [a EXCEPT !.order = Append(@, [id |-> f, got |-> {}]),
              !.slots = @ + Size[f],
              !.bytes = @ + Bytes[{f}]]

\* All data packets, or all but one and the parity.
Whole(f, got) ==
    \/ 0..(Size[f] - 1) \subseteq got
    \/ Size[f] \in got /\ Cardinality(got) = Size[f]

\* A packet is stored; a frame with nothing missing is complete.
Store(a, f, i) ==
    LET k   == CHOOSE k \in DOMAIN a.order : a.order[k].id = f
        got == a.order[k].got \cup {i}
    IN  IF Whole(f, got)
        THEN [Release(a, {f}) EXCEPT !.complete = @ \cup {f}]
        ELSE [a EXCEPT !.order[k].got = got]

\* One packet of the reassembler's session.
Accept(a, f, i) ==
    LET seen == [a EXCEPT !.next = IF @ = None THEN f ELSE @,
                          !.high = IF f > @ THEN f ELSE @]
    IN  CASE f < seen.next          -> [asm |-> seen, lost |-> {}]
          [] f >= seen.next /\ f \in InFlight(seen) ->
                [asm |-> Store(seen, f, i), lost |-> {}]
          [] f >= seen.next /\ f \notin InFlight(seen) /\ Fits(seen, f) ->
                [asm |-> Store(Reserve(seen, f), f, i), lost |-> {}]
          [] OTHER ->      \* reject_new_frame_for_budget
                [asm  |-> [seen EXCEPT !.skipped = @ \cup {f}],
                 lost |-> {f}]

-----------------------------------------------------------------------------
(* take_ready: release complete frames in order, behind the gap gate.      *)

\* The run of complete and given-up frames that starts at the next frame is
\* released; a gap behind it is noticed.
Drain(s) ==
    LET a    == s.asm
        stop == Min({n \in a.next..(LastFrame + 1) :
                        n \notin a.complete \cup a.skipped})
        run  == a.next..(stop - 1)
        rest == a.complete \ run
    IN  [asm |-> [a EXCEPT !.next = stop,
                           !.complete = rest,
                           !.skipped = @ \ (run \ a.complete),
                           !.blocked = a.high > stop \/ rest # {}],
         out |-> Keep([k \in 1..(stop - a.next) |-> a.next + k - 1], a.complete),
         lost |-> s.lost]

\* Mutant: the last complete frame is the one the gate moves to.
SkipToNewest(s) ==
    LET a  == s.asm
        to == IF a.complete = {} THEN a.next + 1 ELSE Max(a.complete)
        g  == GiveUp(a, {f \in InFlight(a) : f < to})
    IN  [asm  |-> [g.asm EXCEPT !.next = to,
                                !.skipped = {f \in @ : f >= to}],
         lost |-> s.lost \cup a.next..(to - 1)]

\* The gate gives way: everything before the first complete frame, or the
\* next frame alone, is lost.
Skip(s) ==
    LET a  == s.asm
        to == IF a.complete = {} THEN a.next + 1 ELSE Min(a.complete)
        g  == GiveUp(a, {f \in InFlight(a) : f < to})
    IN  [asm  |-> [g.asm EXCEPT !.next = to,
                                !.skipped = {f \in @ : f >= to}],
         lost |-> s.lost \cup a.next..(to - 1)]

\* Mutant: the gate waits as long as nothing of the next frame has arrived.
GivesWaySeen(a, waited) ==
    /\ a.next \in InFlight(a)
    /\ a.high > a.next \/ a.complete # {}
    /\ a.blocked /\ waited

\* A gap is first noticed, and skipped when it is noticed again after the wait.
GivesWay(a, waited) ==
    /\ a.next # None
    /\ a.next \notin a.complete \cup a.skipped
    /\ a.high > a.next \/ a.complete # {}
    /\ a.blocked /\ waited

\* The frames released now, and the frames lost by doing so.
TakeReady(s, waited) ==
    Drain(IF GivesWay(s.asm, waited) THEN Skip(s) ELSE s)

-----------------------------------------------------------------------------
(* The decode queue.                                                       *)

QueueFrames(q) == Cardinality({k \in DOMAIN q.items : q.items[k] # Reset})

\* Everything queued is dropped; the decoder is to start at an IDR frame.
Restart(q) == [q EXCEPT !.items = <<Reset>>, !.waiting = TRUE]

\* The damaged-GOP gate (mark_damaged, prepare_frame): closed by a loss, it
\* lets nothing but an IDR frame pass, which opens it.
MarkDamaged(q) == [q EXCEPT !.gate = TRUE]
PassesGate(q, x) == q.gate => x.id \in Idr

\* begin_damaged_gop_recovery: once per damaged GOP.
BeginRecovery(q) == IF q.gate THEN q ELSE Restart(MarkDamaged(q))

\* begin_profile_transition: the damage tracker is reset as well.
BeginProfile(q) == [Restart(q) EXCEPT !.gate = FALSE]

\* Mutant: a full queue drops the new frame and nothing else.
DropNewest(q, x) ==
    LET idr == x.id \in Idr IN
    IF ((q.gate \/ q.waiting) /\ ~idr) \/ QueueFrames(q) >= MaxDecodeQueue
    THEN q
    ELSE [q EXCEPT !.items = Append(@, x), !.waiting = FALSE, !.gate = FALSE]

\* enqueue_frame: the gate and the queue each hold back until an IDR frame;
\* a full queue is emptied and waits for an IDR frame.
EnqueueFrame(q, x) ==
    LET idr  == x.id \in Idr
        full == (q.gate \/ ~q.waiting) /\ QueueFrames(q) >= MaxDecodeQueue
        room == IF full THEN Restart(q) ELSE q
    IN  IF ~PassesGate(q, x) \/ (q.waiting /\ ~idr) THEN q
        ELSE IF ~idr /\ full THEN room
        ELSE [room EXCEPT !.items = Append(@, x),
                          !.waiting = FALSE, !.gate = FALSE]

-----------------------------------------------------------------------------
(* The network thread.                                                     *)

\* The playout buffer: frames are pushed as they are released, and dropped
\* together at a discontinuity.
PushFrames(p, s, ids) ==
    p \o [k \in DOMAIN ids |-> [session |-> s, id |-> ids[k]]]
Cleared == <<>>

\* The losses an earlier frame, awaited still or released by the same step,
\* follows into the queue.
TooEarly(t) ==
    {f \in t.lost : f >= t.asm.next \/ \E x \in ToSet(t.out) : x < f}

\* What every reassembly step ends with: a loss clears the playout buffer and
\* begins the recovery, then the released frames enter the playout buffer.
Deliver(step, waited, p, q) ==
    \E s \in {step} : \E t \in {TakeReady(s, waited)} :
        /\ asm' = t.asm
        /\ playout' = PushFrames(IF t.lost = {} THEN p ELSE Cleared,
                                t.asm.session, t.out)
        /\ queue' = IF t.lost = {} THEN q ELSE BeginRecovery(q)
        /\ early' = early \cup [session : {t.asm.session}, id : TooEarly(t)]

Packets(f) == 0..(IF Fec THEN Size[f] ELSE Size[f] - 1)

\* A packet of the current session, or the first one the receiver sees.
ReceivePacket(s, f, i, waited) ==
    /\ s <= announced
    /\ asm.session \in {0, s}
    /\ Deliver(Accept([asm EXCEPT !.session = s], f, i), waited,
               playout, queue)
    /\ UNCHANGED <<announced, batch, decoding, fed>>

\* The first data packet of the announced session: the receiver switches.
\* Packets of other sessions, and parity of the announced one, are dropped.
SwitchSession(s, f, i, waited) ==
    /\ s = announced
    /\ asm.session \notin {0, s}
    /\ i < Size[f]
    /\ Deliver(Accept(FreshAssembler(s), f, i), waited, Cleared,
               BeginProfile(queue))
    /\ UNCHANGED <<announced, batch, decoding, fed>>

\* The receiver acknowledges the announcement of the next session.
Announce ==
    /\ asm.session = announced
    /\ announced < Sessions
    /\ announced' = announced + 1
    /\ UNCHANGED <<asm, playout, queue, batch, decoding, fed, early>>

\* The k oldest frames in flight have reached the frame timeout.
TimedOut(k) == GiveUp(asm, {asm.order[j].id : j \in 1..k})

\* The tick of the network loop.
Expire(k, waited) ==
    /\ k <= Len(asm.order)
    /\ Deliver(TimedOut(k), waited, playout, queue)
    /\ UNCHANGED <<announced, batch, decoding, fed>>

\* enqueue_network_frames
Enqueue(q, frames) == FoldLeft(EnqueueFrame, q, frames)

\* The n oldest frames of the playout buffer are due.
ReleaseDue(n) ==
    /\ n \in 1..Len(playout)
    /\ playout' = SubSeq(playout, n + 1, Len(playout))
    /\ queue' = Enqueue(queue, SubSeq(playout, 1, n))
    /\ UNCHANGED <<asm, announced, batch, decoding, fed, early>>

-----------------------------------------------------------------------------
(* The main thread.                                                        *)

TakeBatch ==
    /\ batch = <<>> /\ queue.items # <<>>
    /\ batch' = queue.items
    /\ queue' = [queue EXCEPT !.items = <<>>]
    /\ UNCHANGED <<asm, announced, playout, decoding, fed, early>>

\* mark_discontinuity
DecodeReset ==
    /\ batch # <<>> /\ Head(batch) = Reset
    /\ batch' = Tail(batch)
    /\ decoding' = FALSE
    /\ UNCHANGED <<asm, announced, playout, queue, fed, early>>

\* process_encoded_frame: without a decoder only an IDR frame is used, and
\* creating the decoder may fail; a frame the decoder rejects closes it.
DecodeFrame ==
    /\ batch # <<>> /\ Head(batch) # Reset
    /\ batch' = Tail(batch)
    /\ \/ /\ ~decoding
          /\ UNCHANGED <<decoding, fed>>
       \/ /\ decoding \/ Head(batch).id \in Idr
          /\ fed' = Head(batch)
          /\ decoding' \in BOOLEAN
    /\ UNCHANGED <<asm, announced, playout, queue, early>>

Init ==
    /\ asm = FreshAssembler(0)
    /\ announced = 1
    /\ playout = <<>>
    /\ queue = [items |-> <<>>, waiting |-> FALSE, gate |-> FALSE]
    /\ batch = <<>>
    /\ decoding = FALSE
    /\ fed = Reset
    /\ early = {}

Next ==
    \/ \E s \in 1..Sessions, f \in Frames, waited \in BOOLEAN :
          \E i \in Packets(f) :
             \/ ReceivePacket(s, f, i, waited)
             \/ SwitchSession(s, f, i, waited)
    \/ Announce
    \/ \E k \in 0..MaxFrames, waited \in BOOLEAN : Expire(k, waited)
    \/ \E n \in 1..Len(playout) : ReleaseDue(n)
    \/ TakeBatch \/ DecodeReset \/ DecodeFrame

\* Time passes: everything in flight times out in the end, and every wait is
\* over.  Nothing is assumed of the network or of the decoder.  This is weak
\* fairness of the tick, with its ENABLED (a frame in flight, or a gap that
\* was noticed) written out for TLC's sake.
Fairness ==
    \/ []<>(asm.order = <<>> /\ ~asm.blocked)
    \/ []<><<Expire(Len(asm.order), TRUE)>>_vars

Spec == Init /\ [][Next]_vars /\ Fairness

-----------------------------------------------------------------------------
\* Every variable has its type; a frame is in flight at most once, and what is
\* complete is still to be released.
TypeOK ==
    /\ asm.session \in 0..announced
    /\ asm.next \in None..(LastFrame + 1)
    /\ asm.high \in None..LastFrame
    /\ \A k \in DOMAIN asm.order :
          /\ asm.order[k].id \in Frames
          /\ asm.order[k].got \in SUBSET (0..Size[asm.order[k].id])
    /\ asm.complete \cup asm.skipped \subseteq Frames
    /\ asm.blocked \in BOOLEAN
    /\ {asm.slots, asm.bytes} \subseteq Nat
    /\ Cardinality(InFlight(asm)) = Len(asm.order)
    /\ \A f \in asm.complete : f >= asm.next
    /\ announced \in 1..Sessions
    /\ playout \in Seq(Frame)
    /\ queue \in [items : Seq(Items), waiting : BOOLEAN, gate : BOOLEAN]
    /\ batch \in Seq(Items)
    /\ decoding \in BOOLEAN
    /\ fed \in Items
    /\ early \subseteq Frame

\* The budgets of the assembly (ensure_inflight_frame, remove_inflight_frame)
\* are kept and are exactly what the frames in flight have reserved: whatever
\* way a frame ends, nothing leaks and nothing is given back twice.
BudgetHonest ==
    /\ asm.slots = Slots[InFlight(asm)]
    /\ asm.bytes = Bytes[InFlight(asm)]
    /\ Len(asm.order) <= MaxFrames
    /\ asm.slots <= MaxSlots
    /\ asm.bytes <= MaxBytes

Before(x, y) ==
    \/ x.session < y.session
    \/ x.session = y.session /\ x.id < y.id

\* Whatever the network does, a decoder is given the frames in the order they
\* were sent, across losses, recoveries, a full queue and a new session.
FedInOrder == [][fed' # fed => Before(fed, fed')]_vars

\* A frame that refers to its predecessor is decoded only directly after it,
\* by the same decoder: after a loss, a full queue, a rejected frame or a new
\* session decoding restarts at an IDR frame.  (The frames in `early' are the
\* exception: given up before an earlier IDR frame was released, they close
\* the gate too soon, and that IDR frame opens it again.)
DecodeContinuity ==
    [][fed' # fed /\ fed'.id \notin Idr =>
          LET before == [fed' EXCEPT !.id = @ - 1]
          IN  fed = before \/ before \in early]_vars

\* What a decoder is given is a part of what was sent, without a gap it cannot
\* bridge.
DecodedAsSent == FedInOrder /\ DecodeContinuity

\* A complete frame does not wait for ever behind a gap: it is released.
CompleteReleased == \A f \in Frames : []<>(f \notin asm.complete)

\* A frame whose last packet is in has released its part of the budget.
CompleteHoldsNoBudget == asm.complete \cap InFlight(asm) = {}

=============================================================================
