----------------------------- MODULE MCEndings ------------------------------
(* How things end, for TLC: a behaviour is one of the end of a stream        *)
(* between its two ends, of a run of the receiver, of a file transfer, of    *)
(* the delivery of its DATA to the application, or of its path to a client   *)
(* that moves, and the others rest.                                          *)
EXTENDS ReceiverRun, RudpCompletion, StreamClose, DeliveryQueue, PathMigration

VARIABLE subject

EitherSound == BOOLEAN

Subjects  == {"run", "transfer", "stream", "delivery", "path"}
otherVars == <<deliveryVars, pathVars>>
allVars   == <<subject, runVars, completionVars, vars, otherVars>>

EndingInit ==
    /\ subject \in Subjects
    /\ RunInit /\ CompletionInit /\ Init /\ DeliveryInit /\ PathInit
    /\ subject # "run" => sound
    /\ here = CHOOSE a \in Routes : TRUE      \* any address: they are alike

ScreenEnds ==
    /\ \/ subject = "run"    /\ RunNext /\ UNCHANGED vars
       \/ subject = "stream" /\ Next    /\ UNCHANGED runVars
    /\ UNCHANGED <<subject, completionVars, otherVars>>

TransferEnds ==
    /\ \/ subject = "transfer" /\ CompletionNext /\ UNCHANGED <<deliveryVars, pathVars>>
       \/ subject = "delivery" /\ DeliveryNext   /\ UNCHANGED <<completionVars, pathVars>>
       \/ subject = "path"     /\ PathNext       /\ UNCHANGED <<completionVars, deliveryVars>>
    /\ UNCHANGED <<subject, runVars, vars>>

EndingNext == ScreenEnds \/ TransferEnds

\* The fairness of each part, as its module states it, of its own steps only.
EndingFairness ==
    /\ WF_runVars(subject = "run" /\ MainStep /\ (phase = "running" => token.flag \/ interrupted))
    /\ WF_runVars(subject = "run" /\ RenderCreates)
    /\ WF_completionVars(subject = "transfer" /\ ClientApp)
    /\ WF_completionVars(subject = "transfer" /\ ServerApp)
    /\ WF_deliveryVars(subject = "delivery" /\ DeliveryStep)
    /\ WF_deliveryVars(subject = "delivery" /\ GetItem)
    /\ WF_pathVars(subject = "path" /\ ClientSends("data"))
    /\ WF_pathVars(subject = "path" /\ HoldsBack("data", here))
    /\ WF_pathVars(subject = "path" /\ RetirementEnds(here))
    /\ SF_pathVars(subject = "path" /\ ClientAnswers)
    /\ SF_pathVars(subject = "path" /\ Promotes(here))
    /\ WF_vars(subject = "stream" /\ TxCleanup) /\ WF_vars(subject = "stream" /\ TxCloseEnds)
    /\ WF_vars(subject = "stream" /\ TxControlEnds)
    /\ WF_vars(subject = "stream" /\ RxLoopEnds) /\ WF_vars(subject = "stream" /\ RxCloseEnds)
    /\ WF_vars(subject = "stream" /\ RenderEnds) /\ WF_vars(subject = "stream" /\ RxCleanup)
    /\ WF_vars(subject = "stream" /\ TxPeerTimeout /\ main["receiver"] = "ended")
    /\ WF_vars(subject = "stream" /\ RxPeerTimeout /\ main["sender"] = "ended")
    /\ \A e \in Ends :
          /\ WF_vars(subject = "stream" /\ LingerOver(e)) /\ WF_vars(subject = "stream" /\ Finish(e))
          /\ \A w \in {"control", "render", "network"} :
                WF_vars(subject = "stream" /\ JoinTimesOut(e, w))

EndingSpec == EndingInit /\ [][EndingNext]_allVars /\ EndingFairness

-----------------------------------------------------------------------------
\* The types of every part.
EndingTypeOK ==
    /\ TypeOK /\ RunTypeOK /\ CompletionTypeOK
    /\ DeliveryTypeOK /\ PathTypeOK

\* What is reported at an end is true: a receiver that says it stopped has no worker
\* left, or has kept hold of it, a transfer that one side calls complete is saved, and complete for
\* the other, what an application was given is all there was up to it, and an address
\* that is the session's path is no other thing to it.
EndsAreTrue ==
    /\ StopIsTrue /\ NoWorkerIsDetached
    /\ CompletedIsSaved /\ CompleteIsMutual
    /\ DeliverySafety /\ OneStanding

\* Whatever is lost, fails or hangs: a receiver that was asked to stop returns,
\* the end of a stream that is left behind ends too, both applications of a transfer come to an end, and DATA that is
\* in order reaches the application or the end does.  And a session comes to where
\* its client has gone.
EverythingEnds ==
    /\ AskedToStopReturns
    /\ OtherEndFollows
    /\ []<>(subject = "transfer" => BothEnded)
    /\ ReachesApplication
    /\ <>[](subject = "path" => peerAddr = here)
=============================================================================
