---------------------------- MODULE VideoSender ----------------------------
(***************************************************************************)
(* The send side of the screen video.  Three threads share a bounded       *)
(* channel, the repair cache and the session number:                       *)
(*                                                                         *)
(*   - the encode thread packetizes every encoded sample and hands it to   *)
(*     the channel, waiting while it is full; for a profile transition it  *)
(*     sends a barrier through the channel, waits until the pacer has      *)
(*     reached it, clears the cache and starts the next session at frame 0;*)
(*   - the pacer sends the packets of one frame after the other and keeps  *)
(*     the data packets it sent in the RepairCache; the first failed send  *)
(*     is recorded and ends it;                                            *)
(*   - the control thread answers a NACK of the running session with the   *)
(*     cached packet, unless RepairSuppression says it was just resent.    *)
(*                                                                         *)
(* Time is counted in ticks; an age stops growing where nothing is         *)
(* compared with it any more.  The NACKs are arbitrary: any key, session   *)
(* and moment.  The rate limit of 5000 packets per second is left out.     *)
(***************************************************************************)
EXTENDS Integers, Sequences, FiniteSets, SequencesExt

CONSTANTS
    VideoSessions,     \* the sessions are 1..VideoSessions
    VideoFrames,       \* the frames of a session are 0..VideoFrames - 1
    DataPackets,       \* data packets per frame; one parity packet follows
    SendQueueDepth,    \* SEND_QUEUE_DEPTH
    CacheTtl,          \* repair_cache_ms
    SuppressFor,       \* the suppression interval
    NackKeys           \* the packets NACKs ask for

Retention == 4 * SuppressFor
Keys      == (0..(VideoFrames - 1)) \X (0..(DataPackets - 1))
Barrier   == [session |-> 0, frame |-> 0]
Nothing   == <<>>                          \* an empty map from keys
NoKey     == <<-1, -1>>

ASSUME VideoAssumption ==
    /\ VideoSessions \in Nat \ {0} /\ SendQueueDepth \in Nat
    /\ VideoFrames \in Nat /\ DataPackets \in Nat
    /\ CacheTtl \in Nat /\ SuppressFor \in Nat
    /\ NackKeys \subseteq Keys

VARIABLES
    enc,        \* the encode thread: [at, session, frame]
    chan,       \* the channel to the pacer
    pacer,      \* the pacer thread: [at, job, next, error]
    cache,      \* the RepairCache
    supp,       \* the RepairSuppression
    ctrl,       \* the control thread: [at, key, found]
    gap         \* ghost: ticks since each key was last allowed to be resent

senderVars == <<enc, chan, pacer, cache, supp, ctrl, gap>>

EmptyCache == [held |-> Nothing, order |-> <<>>, bytes |-> 0]

VideoSenderInit ==
    /\ enc = [at |-> "run", session |-> 1, frame |-> 0]
    /\ chan = <<>>
    /\ pacer = [at |-> "recv", job |-> Barrier, next |-> 0, error |-> FALSE]
    /\ cache = EmptyCache
    /\ supp = [last |-> Nothing, order |-> <<>>]
    /\ ctrl = [at |-> "recv", key |-> NoKey, found |-> 0]
    /\ gap = [k \in Keys |-> SuppressFor]

-----------------------------------------------------------------------------
(* Maps from keys, and queues of keys with the age of each entry.           *)

Put(map, k, v)   == [x \in DOMAIN map \cup {k} |-> IF x = k THEN v ELSE map[x]]
Drop(map, ks)    == [x \in DOMAIN map \ ks |-> map[x]]
Older(age, most) == IF age < most THEN age + 1 ELSE age
Aged(order, most) ==
    [n \in DOMAIN order |-> [order[n] EXCEPT !.age = Older(@, most)]]

\* The entries at the front that are older than `most'.
Expired(order, most) ==
    LET n == SelectInSeq(order, LAMBDA e : e.age <= most)
    IN  IF n = 0 THEN Len(order) ELSE n - 1

\* RepairCache::evict_expired
EvictCache(c) ==
    LET n    == Expired(c.order, CacheTtl)
        gone == {k \in DOMAIN c.held :
                    \E m \in 1..n : c.order[m] = [key |-> k, age |-> c.held[k].age]}
    IN  [held |-> Drop(c.held, gone), order |-> SubSeq(c.order, n + 1, Len(c.order)),
         bytes |-> c.bytes - Cardinality(gone)]

\* RepairCache::insert; every packet counts as one payload.
InsertCache(c, k, n) ==
    LET e == EvictCache(c)
    IN  [held  |-> Put(e.held, k, [session |-> n, age |-> 0]),
         order |-> Append(e.order, [key |-> k, age |-> 0]),
         bytes |-> e.bytes + (IF k \in DOMAIN e.held THEN 0 ELSE 1)]

\* Mutant: an old entry of a key evicts what was noted for the key since.
EvictByKey(s) ==
    LET n == Expired(s.order, Retention)
    IN  [last  |-> Drop(s.last, {s.order[m].key : m \in 1..n}),
         order |-> SubSeq(s.order, n + 1, Len(s.order))]

\* RepairSuppression::evict
EvictSuppression(s) ==
    LET n    == Expired(s.order, Retention)
        gone == {k \in DOMAIN s.last :
                    \E m \in 1..n : s.order[m] = [key |-> k, age |-> s.last[k]]}
    IN  [last |-> Drop(s.last, gone), order |-> SubSeq(s.order, n + 1, Len(s.order))]

\* RepairSuppression::should_send
Suppressed(s, k) == k \in DOMAIN s.last /\ s.last[k] < SuppressFor
NoteSent(s, k) == [last  |-> Put(s.last, k, 0),
                   order |-> Append(s.order, [key |-> k, age |-> 0])]

-----------------------------------------------------------------------------
(* The encode thread.                                                       *)

\* Mutant: the channel has no bound.
EnqueueAlways(command) ==
    /\ pacer.at # "dead"
    /\ chan' = Append(chan, command)

\* The channel takes a command when the pacer lives and there is room.
Enqueue(command) ==
    /\ pacer.at # "dead" /\ Len(chan) < SendQueueDepth
    /\ chan' = Append(chan, command)

\* on_sample: a frame of the running session enters the channel.
OnSample ==
    /\ enc.at = "run" /\ ~pacer.error /\ enc.frame < VideoFrames
    /\ Enqueue([session |-> enc.session, frame |-> enc.frame])
    /\ enc' = [enc EXCEPT !.frame = @ + 1]
    /\ UNCHANGED <<pacer, cache, supp, ctrl, gap>>

\* on_sample and on_stats: the pacer's error, or its absence, ends the stream.
OnPacerError ==
    /\ enc.at = "run" /\ (pacer.error \/ pacer.at = "dead")
    /\ enc' = [enc EXCEPT !.at = "ended"]
    /\ UNCHANGED <<chan, pacer, cache, supp, ctrl, gap>>

\* Mutant: the transition does not wait for the pacer.
SkipBarrier ==
    /\ enc.at = "run" /\ enc.session < VideoSessions
    /\ enc' = [enc EXCEPT !.at = "clear"]
    /\ UNCHANGED <<chan, pacer, cache, supp, ctrl, gap>>

\* flush_pacer: a barrier enters the channel.
BeginFlush ==
    /\ enc.at = "run" /\ enc.session < VideoSessions
    /\ Enqueue(Barrier)
    /\ enc' = [enc EXCEPT !.at = "barrier"]
    /\ UNCHANGED <<pacer, cache, supp, ctrl, gap>>

\* The pacer is at the barrier, and both threads meet.
Flushed ==
    /\ enc.at = "barrier" /\ pacer.at = "barrier"
    /\ enc' = [enc EXCEPT !.at = "clear"]
    /\ pacer' = [pacer EXCEPT !.at = "recv"]
    /\ UNCHANGED <<chan, cache, supp, ctrl, gap>>

\* The barrier is not reached in time, or never: the stream ends.
FlushFails ==
    /\ enc.at = "barrier"
    /\ enc' = [enc EXCEPT !.at = "ended"]
    /\ UNCHANGED <<chan, pacer, cache, supp, ctrl, gap>>

\* transition_profile after the receiver's acknowledgement: the cache is
\* cleared, then the next session is published.
ClearCache ==
    /\ enc.at = "clear"
    /\ cache' = EmptyCache
    /\ enc' = [enc EXCEPT !.at = "publish"]
    /\ UNCHANGED <<chan, pacer, supp, ctrl, gap>>

PublishSession ==
    /\ enc.at = "publish"
    /\ enc' = [at |-> "run", session |-> enc.session + 1, frame |-> 0]
    /\ UNCHANGED <<chan, pacer, cache, supp, ctrl, gap>>

-----------------------------------------------------------------------------
(* The pacer thread.                                                        *)

PacerReceives ==
    /\ pacer.at = "recv" /\ chan # <<>>
    /\ chan' = Tail(chan)
    /\ pacer' = [pacer EXCEPT !.at = IF Head(chan) = Barrier THEN "barrier" ELSE "send",
                              !.job = Head(chan), !.next = 0]
    /\ UNCHANGED <<enc, cache, supp, ctrl, gap>>

\* The encode thread no longer waits at the barrier.
BarrierAbandoned ==
    /\ pacer.at = "barrier" /\ enc.at # "barrier"
    /\ pacer' = [pacer EXCEPT !.at = "recv"]
    /\ UNCHANGED <<enc, chan, cache, supp, ctrl, gap>>

\* One packet leaves; a data packet is kept for repairs.
PacerSends ==
    /\ pacer.at = "send"
    /\ pacer' = IF pacer.next < DataPackets
                THEN [pacer EXCEPT !.next = @ + 1]
                ELSE [pacer EXCEPT !.at = "recv"]
    /\ cache' = IF pacer.next < DataPackets
                THEN InsertCache(cache, <<pacer.job.frame, pacer.next>>, pacer.job.session)
                ELSE cache
    /\ UNCHANGED <<enc, chan, supp, ctrl, gap>>

\* A failed or short send is recorded and ends the pacer and its channel.
PacerFails ==
    /\ pacer.at = "send"
    /\ pacer' = [pacer EXCEPT !.at = "dead", !.error = TRUE]
    /\ chan' = <<>>
    /\ UNCHANGED <<enc, cache, supp, ctrl, gap>>

-----------------------------------------------------------------------------
(* The control thread.                                                      *)

\* One item of a NACK: it must be of the running session and not suppressed.
NackArrives(n, k) ==
    /\ ctrl.at = "recv" /\ n = enc.session
    /\ \E s \in {EvictSuppression(supp)} :
         IF Suppressed(s, k)
         THEN /\ supp' = s
              /\ UNCHANGED <<ctrl, gap>>
         ELSE /\ supp' = NoteSent(s, k)
              /\ ctrl' = [ctrl EXCEPT !.at = "lookup", !.key = k]
              /\ gap' = [gap EXCEPT ![k] = 0]
    /\ UNCHANGED <<enc, chan, pacer, cache>>

\* The packet is taken out of the cache, if it is still there.
LookUp ==
    /\ ctrl.at = "lookup"
    /\ cache' = EvictCache(cache)
    /\ ctrl' = IF ctrl.key \in DOMAIN cache'.held
               THEN [ctrl EXCEPT !.at = "resend",
                                 !.found = cache'.held[ctrl.key].session]
               ELSE [ctrl EXCEPT !.at = "recv"]
    /\ UNCHANGED <<enc, chan, pacer, supp, gap>>

\* It is sent again; an error is only counted.
Resend ==
    /\ ctrl.at = "resend"
    /\ ctrl' = [at |-> "recv", key |-> NoKey, found |-> 0]
    /\ UNCHANGED <<enc, chan, pacer, cache, supp, gap>>

SenderTick ==
    /\ cache' = [cache EXCEPT
                    !.held = [k \in DOMAIN cache.held |->
                                [cache.held[k] EXCEPT !.age = Older(@, CacheTtl + 1)]],
                    !.order = Aged(@, CacheTtl + 1)]
    /\ supp' = [last  |-> [k \in DOMAIN supp.last |-> Older(supp.last[k], Retention + 1)],
                order |-> Aged(supp.order, Retention + 1)]
    /\ gap' = [k \in Keys |-> Older(gap[k], SuppressFor)]
    /\ UNCHANGED <<enc, chan, pacer, ctrl>>

-----------------------------------------------------------------------------
EncodeThread  == OnSample \/ OnPacerError \/ BeginFlush \/ Flushed \/ FlushFails
                 \/ ClearCache \/ PublishSession
PacerThread   == PacerReceives \/ BarrierAbandoned \/ PacerSends \/ PacerFails
ControlThread == LookUp \/ Resend
                 \/ \E n \in 1..VideoSessions, k \in NackKeys : NackArrives(n, k)

VideoSenderNext == EncodeThread \/ PacerThread \/ ControlThread \/ SenderTick

\* The encode thread looks at the pacer's error with every sample and report,
\* and waits for the barrier for 3 seconds at most; the pacer keeps sending.
VideoSenderFairness ==
    /\ WF_senderVars(OnPacerError)
    /\ WF_senderVars(Flushed \/ FlushFails)
    /\ WF_senderVars(ClearCache \/ PublishSession)
    /\ WF_senderVars(PacerThread)

-----------------------------------------------------------------------------
(* Properties.                                                              *)

\* Types of the threads' and the shared state; the channel is bounded.
VideoSenderTypeOK ==
    /\ enc.at \in {"run", "barrier", "clear", "publish", "ended"}
    /\ enc.session \in 1..VideoSessions /\ enc.frame \in 0..VideoFrames
    /\ Len(chan) <= SendQueueDepth
    /\ pacer.at \in {"recv", "send", "barrier", "dead"}
    /\ pacer.next \in 0..DataPackets /\ pacer.error \in BOOLEAN
    /\ DOMAIN cache.held \subseteq Keys /\ DOMAIN supp.last \subseteq Keys
    /\ ctrl.at \in {"recv", "lookup", "resend"}
    /\ gap \in [Keys -> 0..SuppressFor]

\* A frame is sent, and kept for repairs, in the session it was packetized
\* for: when the next session is published nothing of the last one is in the
\* channel, in the pacer's hands or in the cache.
PacedInSession ==
    enc.at \in {"run", "barrier"} =>
        /\ \A n \in DOMAIN chan : chan[n].session \in {0, enc.session}
        /\ pacer.at = "send" => pacer.job.session = enc.session
        /\ \A k \in DOMAIN cache.held : cache.held[k].session = enc.session

\* The cache counts what it holds, and everything it or the suppression holds
\* has an entry that will evict it: neither grows with the age of the stream.
CacheEvictable ==
    /\ cache.bytes = Cardinality(DOMAIN cache.held)
    /\ \A k \in DOMAIN cache.held : \E n \in DOMAIN cache.order :
            cache.order[n] = [key |-> k, age |-> cache.held[k].age]
    /\ \A k \in DOMAIN supp.last : \E n \in DOMAIN supp.order :
            supp.order[n] = [key |-> k, age |-> supp.last[k]]

\* However often a packet is asked for, it is allowed once per interval: what
\* evicts old entries never forgets a young one.
ResendsAreSpaced ==
    [][ctrl.at = "recv" /\ ctrl'.at = "lookup" => gap[ctrl'.key] >= SuppressFor]_senderVars

\* A pacer that ends, ends the stream, wherever the encode thread is; and no
\* barrier is waited for for ever. (A dead pacer stays dead, and an ended
\* stream ended, so the first says "leads to".)
PacerFailureEndsStream == []<>(pacer.at = "dead" => enc.at = "ended")
BarrierIsPassed        == []<>(enc.at # "barrier")
=============================================================================
