--------------------------- MODULE RudpCompletion ---------------------------
(***************************************************************************)
(* The two tracked control exchanges that frame a file transfer, and the   *)
(* two applications that wait on them: the client announces its DATA range *)
(* (RANGE, META|ACK), and once every packet is delivered and the file is   *)
(* in place the server commits (COMPLETE, COMPLETE_ACK).                   *)
(*                                                                         *)
(* Each end has its application thread (run_client, _app_handler), its     *)
(* receive thread and its retransmission thread (_retransmit_checker).     *)
(* DATA itself is abstract: RudpData shows that what the sender believes   *)
(* acknowledged has been received.  The network is monotone: a control     *)
(* packet that was sent may arrive at any later time, again, or never, so  *)
(* sending it again only counts a retry.  Timeouts may expire at any time. *)
(***************************************************************************)
EXTENDS Integers

CONSTANTS
    CtrlMaxRetries, \* ctrl_max_retries
    MaxAcks         \* bound of the model: META|ACKs the server sends

ASSUME CtrlMaxRetriesAssumption == CtrlMaxRetries \in Nat
ASSUME MaxAcksAssumption == MaxAcks \in Nat \ {0}

VARIABLES
    \* the client
    announce,         \* where send_range_announce is
    rangeTracked,     \* the RANGE packet is in ctrl_unacked
    rangeRetries,     \* its retries
    rangeId,          \* _range_meta_id is the packet's number
    rangeAcked,       \* _range_meta_acked is set
    rangeAdopted,     \* history: an ACK removed the packet from ctrl_unacked
    clientApp,        \* where run_client is
    clientRunning,    \* running
    clientFatal,      \* _fatal_error
    clientRx,         \* where _receiver_thread is
    completeHeard,    \* _complete_received_event is set
    \* the server
    allReceived,      \* every DATA packet has reached the ordered queue
    serverApp,        \* where _app_handler is
    fileSaved,        \* the part file has replaced the output file
    serverRunning, serverFatal,
    completeTracked,  \* the COMPLETE packet is in ctrl_unacked
    completeRetries,  \* its retries
    completeNoted,    \* _complete_sent_payload and _complete_sent_pkt_num
    ackHeard,         \* _complete_ack_received_event is set
    \* the network
    sent,             \* kinds of packets sent at least once
    rangeAcks,        \* META|ACK packets sent, each with a number of its own
    rangeAcksTaken    \* how many of them the client's replay window has seen

rangeVars == <<announce, rangeTracked, rangeRetries, rangeId, rangeAcked,
               rangeAdopted>>
clientVars == <<clientApp, clientRunning, clientFatal, clientRx, completeHeard>>
commitVars == <<completeTracked, completeRetries, completeNoted, ackHeard>>
serverVars == <<allReceived, serverApp, fileSaved, serverRunning, serverFatal,
                commitVars>>
ackNetVars == <<rangeAcks, rangeAcksTaken>>
completionVars == <<rangeVars, clientVars, serverVars, ackNetVars, sent>>

CompletionKinds == {"range", "complete", "completeAck", "clientRst", "serverRst"}

CompletionInit ==
    /\ announce = "start"
    /\ rangeTracked = FALSE /\ rangeRetries = 0 /\ rangeId = FALSE
    /\ rangeAcked = FALSE /\ rangeAdopted = FALSE
    /\ clientApp = "announcing" /\ clientRunning = TRUE /\ clientFatal = FALSE
    /\ clientRx = "recv" /\ completeHeard = FALSE
    /\ rangeAcks = 0 /\ rangeAcksTaken = 0
    /\ allReceived = FALSE /\ serverApp = "receiving" /\ fileSaved = FALSE
    /\ serverRunning = TRUE /\ serverFatal = FALSE
    /\ completeTracked = FALSE /\ completeRetries = 0
    /\ completeNoted = FALSE /\ ackHeard = FALSE
    /\ sent = {}

-----------------------------------------------------------------------------
(***************************************************************************)
(* send_range_announce: the packet goes out, is then entered in            *)
(* ctrl_unacked, and only after _send_ctrl has returned is its number      *)
(* recorded in _range_meta_id.                                             *)
(***************************************************************************)
AnnounceSends ==
    /\ announce = "start" /\ clientRunning
    /\ rangeAcked' = FALSE
    /\ sent' = sent \cup {"range"}
    /\ announce' = "sent"
    /\ UNCHANGED <<rangeTracked, rangeRetries, rangeId, rangeAdopted,
                   clientVars, serverVars, ackNetVars>>

\* The session is stopped or sendto failed: there is nothing to track.
AnnounceFails ==
    /\ announce = "start"
    /\ rangeAcked' = FALSE
    /\ announce' = "noted"
    /\ UNCHANGED <<rangeTracked, rangeRetries, rangeId, rangeAdopted,
                   clientVars, serverVars, ackNetVars, sent>>

AnnounceTracks ==
    /\ announce = "sent"
    /\ rangeTracked' = TRUE /\ announce' = "tracked"
    /\ UNCHANGED <<rangeRetries, rangeId, rangeAcked, rangeAdopted,
                   clientVars, serverVars, ackNetVars, sent>>

AnnounceNotes ==
    /\ announce = "tracked"
    /\ rangeId' = TRUE /\ announce' = "noted"
    /\ UNCHANGED <<rangeTracked, rangeRetries, rangeAcked, rangeAdopted,
                   clientVars, serverVars, ackNetVars, sent>>

\* RANGE at the server: first or duplicate, it is answered with a new packet.
HandleRange ==
    /\ serverApp # "ended" /\ "range" \in sent
    /\ rangeAcks' = IF serverRunning /\ rangeAcks < MaxAcks
                    THEN rangeAcks + 1 ELSE rangeAcks
    /\ UNCHANGED <<rangeVars, clientVars, serverVars, rangeAcksTaken, sent>>

\* _handle_meta_ack; a META|ACK the replay window has seen has no effect.
HandleRangeAck ==
    /\ clientRx = "recv" /\ rangeAcksTaken < rangeAcks
    /\ rangeAcksTaken' = rangeAcksTaken + 1
    /\ rangeTracked' = FALSE
    /\ rangeAdopted' = (rangeAdopted \/ rangeTracked)
    /\ rangeAcked' = (rangeAcked \/ (rangeTracked /\ rangeId))
    /\ UNCHANGED <<announce, rangeRetries, rangeId, clientVars, serverVars,
                   rangeAcks, sent>>

\* Mutant: one retry too many.
Exhausted_OffByOne(n) == n > CtrlMaxRetries

Exhausted(n) == n >= CtrlMaxRetries

\* _retransmit_checker at the client: a retry, or the packet is given up.
RangeRetry ==
    /\ rangeTracked /\ clientRunning /\ ~clientFatal
    /\ IF Exhausted(rangeRetries)
       THEN rangeTracked' = FALSE /\ UNCHANGED rangeRetries
       ELSE rangeRetries' = rangeRetries + 1 /\ UNCHANGED rangeTracked
    /\ UNCHANGED <<announce, rangeId, rangeAcked, rangeAdopted, clientVars,
                   serverVars, ackNetVars, sent>>

-----------------------------------------------------------------------------
(***************************************************************************)
(* The client application: body and EOF, drain, wait for COMPLETE, stop.   *)
(***************************************************************************)
\* abort: _set_error(fatal=True); the RST goes out before running is cleared.
ClientAborts ==
    /\ clientFatal' = TRUE /\ clientRunning' = FALSE
    /\ sent' = IF clientRunning /\ ~clientFatal
               THEN sent \cup {"clientRst"} ELSE sent
    /\ clientApp' = "failed"

AppSendsData ==
    /\ clientApp = "announcing" /\ announce = "noted"
    /\ clientApp' = "draining"
    /\ UNCHANGED <<rangeVars, clientRunning, clientFatal, clientRx,
                   completeHeard, serverVars, ackNetVars, sent>>

DataArrives ==
    /\ clientApp = "draining" /\ clientRunning
    /\ serverApp = "receiving" /\ serverRunning
    /\ allReceived' = TRUE
    /\ UNCHANGED <<rangeVars, clientVars, serverApp, fileSaved, serverRunning,
                   serverFatal, commitVars, ackNetVars, sent>>

\* get_unacked_count() is 0.
AppDrained ==
    /\ clientApp = "draining" /\ allReceived /\ ~clientFatal
    /\ clientApp' = "waiting"
    /\ UNCHANGED <<rangeVars, clientRunning, clientFatal, clientRx,
                   completeHeard, serverVars, ackNetVars, sent>>

AppCompletes ==
    /\ clientApp = "waiting" /\ completeHeard
    /\ clientApp' = "completed"
    /\ UNCHANGED <<rangeVars, clientRunning, clientFatal, clientRx,
                   completeHeard, serverVars, ackNetVars, sent>>

\* A drain or complete timeout, or the session has failed meanwhile.
AppGivesUp ==
    /\ \/ clientApp = "draining"
       \/ clientApp = "waiting" /\ ~completeHeard
    /\ ClientAborts
    /\ UNCHANGED <<rangeVars, clientRx, completeHeard,
                   serverVars, ackNetVars>>

\* finally: session.stop() and sock.close(), at once.
AppStops ==
    /\ clientApp \in {"completed", "failed"} /\ clientRx # "closed"
    /\ clientRunning' = FALSE
    /\ clientRx' = IF clientRx = "reply" THEN "reply" ELSE "closed"
    /\ UNCHANGED <<rangeVars, clientApp, clientFatal, completeHeard, serverVars, ackNetVars, sent>>

-----------------------------------------------------------------------------
(***************************************************************************)
(* The client's receive thread.                                            *)
(***************************************************************************)
\* _handle_complete, and _handle_duplicate_control when it was seen before.
RxComplete ==
    /\ clientRx = "recv" /\ "complete" \in sent
    /\ completeHeard' = TRUE
    /\ clientRx' = "reply"
    /\ UNCHANGED <<rangeVars, clientApp, clientRunning, clientFatal,
                   serverVars, ackNetVars, sent>>

\* COMPLETE_ACK, unless the application has stopped the session meanwhile.
RxReplies ==
    /\ clientRx = "reply"
    /\ sent' = IF clientRunning THEN sent \cup {"completeAck"} ELSE sent
    /\ clientRx' = IF clientRunning THEN "recv" ELSE "closed"
    /\ UNCHANGED <<rangeVars, clientApp, clientRunning, clientFatal,
                   completeHeard, serverVars, ackNetVars>>

RxReset ==
    /\ clientRx = "recv" /\ "serverRst" \in sent
    /\ clientFatal' = TRUE /\ clientRunning' = FALSE
    /\ clientRx' = "closed"
    /\ UNCHANGED <<rangeVars, clientApp, completeHeard,
                   serverVars, ackNetVars, sent>>

-----------------------------------------------------------------------------
(***************************************************************************)
(* The server application: the received file is verified and moved into    *)
(* place, then send_complete_commit and wait_for_complete_ack.             *)
(***************************************************************************)
ServerAborts ==
    /\ serverFatal' = TRUE /\ serverRunning' = FALSE
    /\ sent' = IF serverRunning /\ ~serverFatal
               THEN sent \cup {"serverRst"} ELSE sent
    /\ serverApp' = "failed"

\* Size and hash agree, os.replace: the EOF frame comes last in the queue.
SavesFile ==
    /\ serverApp = "receiving" /\ allReceived
    /\ fileSaved' = TRUE
    /\ serverApp' = "saved"
    /\ UNCHANGED <<rangeVars, clientVars, allReceived, serverRunning,
                   serverFatal, commitVars, ackNetVars, sent>>

\* The session failed, went idle, or the file did not verify.
ReceiveFails ==
    /\ serverApp = "receiving"
    /\ ServerAborts
    /\ UNCHANGED <<rangeVars, clientVars, allReceived, fileSaved, commitVars,
                   ackNetVars>>

CommitSends ==
    /\ serverApp = "saved" /\ serverRunning
    /\ sent' = sent \cup {"complete"}
    /\ serverApp' = "sent"
    /\ UNCHANGED <<rangeVars, clientVars, allReceived, fileSaved,
                   serverRunning, serverFatal, commitVars, ackNetVars>>

\* _send_ctrl returned None: complete_commit_failed.
CommitFails ==
    /\ serverApp = "saved"
    /\ ServerAborts
    /\ UNCHANGED <<rangeVars, clientVars, allReceived, fileSaved, commitVars,
                   ackNetVars>>

CommitTracks ==
    /\ serverApp = "sent"
    /\ completeTracked' = TRUE /\ serverApp' = "tracked"
    /\ UNCHANGED <<rangeVars, clientVars, allReceived, fileSaved,
                   serverRunning, serverFatal, completeRetries, completeNoted,
                   ackHeard, ackNetVars, sent>>

\* The event is cleared now: an answer that came before this is forgotten.
CommitNotes ==
    /\ serverApp = "tracked"
    /\ ackHeard' = FALSE /\ completeNoted' = TRUE
    /\ serverApp' = "waiting"
    /\ UNCHANGED <<rangeVars, clientVars, allReceived, fileSaved,
                   serverRunning, serverFatal, completeTracked,
                   completeRetries, ackNetVars, sent>>

Answered == ackHeard

WaitHears ==
    /\ serverApp = "waiting" /\ Answered
    /\ serverApp' = "complete"
    /\ UNCHANGED <<rangeVars, clientVars, allReceived, fileSaved,
                   serverRunning, serverFatal, commitVars, ackNetVars, sent>>

\* complete_ack_timeout: it expired, or the session stopped.
WaitGivesUp ==
    /\ serverApp = "waiting" /\ ~Answered
    /\ ServerAborts
    /\ UNCHANGED <<rangeVars, clientVars, allReceived, fileSaved, commitVars,
                   ackNetVars>>

\* _end_session, after a linger when the transfer is complete.
ServerEnds ==
    /\ serverApp \in {"complete", "failed"}
    /\ serverRunning' = FALSE /\ serverApp' = "ended"
    /\ UNCHANGED <<rangeVars, clientVars, allReceived, fileSaved, serverFatal,
                   commitVars, ackNetVars, sent>>

-----------------------------------------------------------------------------
(***************************************************************************)
(* The server's listener and its retransmission thread.                    *)
(***************************************************************************)
HandleCompleteAck ==
    /\ serverApp # "ended" /\ "completeAck" \in sent
    /\ completeTracked' = (completeTracked /\ ~completeNoted)
    /\ ackHeard' = TRUE
    /\ UNCHANGED <<rangeVars, clientVars, allReceived, serverApp, fileSaved,
                   serverRunning, serverFatal, completeRetries, completeNoted,
                   ackNetVars, sent>>

HandleReset ==
    /\ serverApp # "ended" /\ "clientRst" \in sent
    /\ serverFatal' = TRUE /\ serverRunning' = FALSE
    /\ UNCHANGED <<rangeVars, clientVars, allReceived, serverApp, fileSaved,
                   commitVars, ackNetVars, sent>>

CompleteRetry ==
    /\ completeTracked /\ serverRunning /\ ~serverFatal
    /\ IF Exhausted(completeRetries)
       THEN completeTracked' = FALSE /\ UNCHANGED completeRetries
       ELSE completeRetries' = completeRetries + 1 /\ UNCHANGED completeTracked
    /\ UNCHANGED <<rangeVars, clientVars, allReceived, serverApp, fileSaved,
                   serverRunning, serverFatal, completeNoted, ackHeard,
                   ackNetVars, sent>>

-----------------------------------------------------------------------------
Announce ==
    \/ AnnounceSends \/ AnnounceFails
    \/ AnnounceTracks \/ AnnounceNotes

ClientApp ==
    \/ Announce \/ AppSendsData
    \/ AppDrained \/ AppCompletes \/ AppGivesUp \/ AppStops

ClientRx == HandleRangeAck \/ RxComplete \/ RxReplies \/ RxReset

ServerApp ==
    \/ SavesFile \/ ReceiveFails
    \/ CommitSends \/ CommitFails \/ CommitTracks \/ CommitNotes
    \/ WaitHears \/ WaitGivesUp \/ ServerEnds

Listener == DataArrives \/ HandleRange \/ HandleCompleteAck \/ HandleReset

Checkers == RangeRetry \/ CompleteRetry

CompletionNext == ClientApp \/ ClientRx \/ ServerApp \/ Listener \/ Checkers

CompletionSpec == CompletionInit /\ [][CompletionNext]_completionVars

\* The applications run and their timeouts expire; nothing is assumed of the
\* network or of the order in which the threads run.
CompletionFairness ==
    WF_completionVars(ClientApp) /\ WF_completionVars(ServerApp)

FairCompletionSpec == CompletionSpec /\ CompletionFairness

-----------------------------------------------------------------------------
\* Every variable of the exchange keeps to the values its code can give it.
CompletionTypeOK ==
    /\ announce \in {"start", "sent", "tracked", "noted"}
    /\ rangeTracked \in BOOLEAN /\ rangeRetries \in 0..CtrlMaxRetries
    /\ rangeId \in BOOLEAN /\ rangeAcked \in BOOLEAN /\ rangeAdopted \in BOOLEAN
    /\ clientApp \in {"announcing", "draining", "waiting", "completed", "failed"}
    /\ clientRunning \in BOOLEAN /\ clientFatal \in BOOLEAN
    /\ clientRx \in {"recv", "reply", "closed"} /\ completeHeard \in BOOLEAN
    /\ allReceived \in BOOLEAN
    /\ serverApp \in {"receiving", "saved", "sent", "tracked", "waiting",
                      "complete", "failed", "ended"}
    /\ fileSaved \in BOOLEAN
    /\ serverRunning \in BOOLEAN /\ serverFatal \in BOOLEAN
    /\ completeTracked \in BOOLEAN /\ completeRetries \in 0..CtrlMaxRetries
    /\ completeNoted \in BOOLEAN /\ ackHeard \in BOOLEAN
    /\ sent \subseteq CompletionKinds
    /\ rangeAcks \in 0..MaxAcks /\ rangeAcksTaken \in 0..MaxAcks

\* A client that reports the transfer complete has its file in place at the
\* server, whatever happened to the server's session in between.
CompletedIsSaved == clientApp = "completed" => fileSaved

\* A server that reports the transfer complete was answered by a client that
\* accepted COMPLETE: giving up on retransmitting it is not an answer.
CompleteIsMutual == serverApp = "complete" => completeHeard

\* Both applications come to an end, and stay there, however many control packets
\* are lost.
BothEnded == clientApp \in {"completed", "failed"} /\ serverApp = "ended"
BothEnd   == []<>BothEnded

\* Once the server's META|ACK has ended the retransmission of RANGE and the
\* announcing thread has returned, wait_range_announce_ack returns.  The code does
\* not keep this: README.md, "Observations", shows how it fails.
RangeAckIsNoticed == announce = "noted" /\ rangeAdopted => rangeAcked
=============================================================================
