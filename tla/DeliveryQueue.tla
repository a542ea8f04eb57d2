---------------------------- MODULE DeliveryQueue -----------------------------
(***************************************************************************)
(* How DATA that is in order reaches the application (protocol.py): the    *)
(* receive thread puts what it has completed in _ordered_ready, a delivery *)
(* thread moves it on, a batch at a time, to the bounded app_queue, and    *)
(* the application polls that with get_app_item.  A third thread may stop  *)
(* the session, or an error end it, at any time: running is cleared, the   *)
(* app_queue is closed, the ready queue is closed, in that order and each  *)
(* under a lock of its own or none.                                        *)
(*                                                                         *)
(* The items are numbers in order, as the transport guarantees; what they  *)
(* carry, and whether only its length is kept, are left out.               *)
(***************************************************************************)
EXTENDS Naturals, Sequences

CONSTANTS
    Items,       \* bound of the model: DATA packets that are completed
    BatchLimit,  \* items the delivery thread takes at once (256)
    QueueLimit   \* _app_queue_max_items; 0 is no limit

ASSUME ItemsAssumption == Items \in Nat \ {0}
ASSUME BatchLimitAssumption == BatchLimit \in Nat \ {0}
ASSUME QueueLimitAssumption == QueueLimit \in Nat

VARIABLES
    completed,     \* the last number the receive thread has handed over
    ready,         \* _ordered_ready
    readyClosed,   \* _ordered_ready_closed
    batch,         \* what the delivery thread has taken and not pushed
    delivery,      \* where the delivery thread is: "loop", "push" or "over"
    appQueue,      \* _app_queue
    streamClosed,  \* _app_stream_closed
    live,          \* running
    taken,         \* history: what the application has been given
    told           \* the application has been given None by a closed, drained stream

deliveryVars == <<completed, ready, readyClosed, batch, delivery, appQueue, streamClosed, live,
                  taken, told>>

DeliveryInit ==
    /\ completed = 0 /\ ready = <<>> /\ readyClosed = FALSE
    /\ batch = <<>> /\ delivery = "loop"
    /\ appQueue = <<>> /\ streamClosed = FALSE
    /\ live = TRUE
    /\ taken = <<>> /\ told = FALSE

-----------------------------------------------------------------------------
\* _enqueue_ordered_ready_batch: what one DATA packet completes, itself and what
\* had arrived behind it.  The receive thread does not look at the ends.
Completes ==
    /\ \E n \in (completed + 1)..Items :
          /\ completed' = n
          /\ ready' = ready \o [i \in 1..(n - completed) |-> completed + i]
    /\ UNCHANGED <<readyClosed, batch, delivery, appQueue, streamClosed, live, taken, told>>

\* The delivery thread takes a batch ...
TakesBatch ==
    /\ delivery = "loop" /\ ready # <<>>
    /\ LET n == IF Len(ready) < BatchLimit THEN Len(ready) ELSE BatchLimit
       IN  /\ batch' = SubSeq(ready, 1, n)
           /\ ready' = SubSeq(ready, n + 1, Len(ready))
    /\ delivery' = "push"
    /\ UNCHANGED <<completed, readyClosed, appQueue, streamClosed, live, taken, told>>

Full == QueueLimit > 0 /\ Len(appQueue) >= QueueLimit

\* ... and pushes it item by item, letting go of the queue's lock only when it is full.
PushesItem ==
    /\ delivery = "push" /\ batch # <<>>
    /\ ~Full /\ ~streamClosed /\ live
    /\ appQueue' = Append(appQueue, Head(batch))
    /\ batch' = Tail(batch)
    /\ UNCHANGED <<completed, ready, readyClosed, delivery, streamClosed, live, taken, told>>

\* Closing: what is left of the batch is given up.
GivesUp ==
    /\ delivery = "push"
    /\ batch = <<>> \/ streamClosed \/ ~live
    /\ batch' = <<>>
    /\ delivery' = "loop"
    /\ UNCHANGED <<completed, ready, readyClosed, appQueue, streamClosed, live, taken, told>>

\* The end of _delivery_loop.
DeliveryEnds ==
    /\ delivery = "loop" /\ ready = <<>>
    /\ ~live \/ readyClosed
    /\ delivery' = "over"
    /\ streamClosed' = TRUE
    /\ UNCHANGED <<completed, ready, readyClosed, batch, appQueue, live, taken, told>>

DeliveryStep == TakesBatch \/ PushesItem \/ GivesUp \/ DeliveryEnds

\* get_app_item; one that times out changes nothing and is called again.
GetItem ==
    \/ /\ appQueue # <<>>
       /\ taken' = Append(taken, Head(appQueue))
       /\ appQueue' = Tail(appQueue)
       /\ UNCHANGED <<completed, ready, readyClosed, batch, delivery, streamClosed, live, told>>
    \/ /\ appQueue = <<>>
       /\ streamClosed \/ ~live
       /\ told' = TRUE
       /\ UNCHANGED <<completed, ready, readyClosed, batch, delivery, appQueue, streamClosed,
                      live, taken>>

-----------------------------------------------------------------------------
\* stop, and the end of _set_error, in the order of their steps.
StopRuns ==
    /\ live
    /\ live' = FALSE
    /\ UNCHANGED <<completed, ready, readyClosed, batch, delivery, appQueue, streamClosed,
                   taken, told>>

StreamCloses ==
    /\ ~live /\ ~streamClosed
    /\ streamClosed' = TRUE
    /\ UNCHANGED <<completed, ready, readyClosed, batch, delivery, appQueue, live, taken, told>>

ReadyCloses ==
    /\ streamClosed /\ ~readyClosed
    /\ readyClosed' = TRUE
    /\ UNCHANGED <<completed, ready, batch, delivery, appQueue, streamClosed, live, taken, told>>

DeliveryNext == Completes \/ DeliveryStep \/ GetItem \/ StopRuns \/ StreamCloses \/ ReadyCloses

\* The delivery thread and the application's polling go on.
DeliveryFairness == WF_deliveryVars(DeliveryStep) /\ WF_deliveryVars(GetItem)

DeliverySpec == DeliveryInit /\ [][DeliveryNext]_deliveryVars /\ DeliveryFairness

-----------------------------------------------------------------------------
DeliveryTypeOK ==
    /\ completed \in 0..Items
    /\ {readyClosed, streamClosed, live, told} \subseteq BOOLEAN
    /\ delivery \in {"loop", "push", "over"}
    /\ Len(batch) <= BatchLimit /\ (QueueLimit > 0 => Len(appQueue) <= QueueLimit)
    /\ ready \o batch \o appQueue \o taken \in Seq(1..Items)

\* The application is given the items in order, from the first, without a gap or a
\* repetition, whatever is given up at an end ...
TakenInOrder == \A i \in 1..Len(taken) : taken[i] = i

\* ... and while the session runs nothing is missing between the transport and it.
NothingMissing ==
    live /\ ~streamClosed => taken \o appQueue \o batch \o ready = [i \in 1..completed |-> i]

\* Once it has been told that there is nothing more, there is nothing more.
EndIsTheEnd == told => appQueue = <<>>

DeliverySafety == TakenInOrder /\ NothingMissing /\ EndIsTheEnd

\* What is completed reaches the application, though the queue may be full on the
\* way, unless the session ends; and after its end the application is told.
ReachesApplication ==
    /\ []<>(~live \/ Len(taken) = completed)
    /\ []<>(live \/ told)
=============================================================================
