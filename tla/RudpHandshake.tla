---------------------------- MODULE RudpHandshake ----------------------------
(***************************************************************************)
(* The RUDP handshake of protocol.py together with the session table of    *)
(* server.py: SYN, SYN-ACK, final ACK and HANDSHAKE_CONFIRM between one    *)
(* client session and the successive server sessions that are created for  *)
(* its connection id.                                                      *)
(*                                                                         *)
(* Client threads: the application (begin_client_handshake and the two     *)
(* waits of _wait_for_handshake), _receiver_thread and                     *)
(* _handshake_timer_worker.  Server threads: _udp_listener, _cleanup_loop  *)
(* and one _app_handler per session.  An action is one critical section,   *)
(* or one call between two of them.  The network keeps every packet ever   *)
(* sent, so a packet may be lost, duplicated, or arrive at any later time. *)
(* Deadlines are abstract: each may have passed or not.                    *)
(***************************************************************************)
EXTENDS Integers

CONSTANTS
    MaxRetries,  \* handshake_max_retries
    MaxSessions  \* bound of the model: server sessions created for the cid

ASSUME RetriesAssumption == MaxRetries \in Nat
ASSUME SessionsAssumption == MaxSessions \in Nat \ {0}

(***************************************************************************)
(* A server session has a key pair of its own, so the session key and the  *)
(* finished token a packet depends on are those of one server session.  A  *)
(* SYN depends on none; an RST sent before the key is ready is encrypted   *)
(* under a random bootstrap key and no peer can read it.                   *)
(***************************************************************************)
Sessions == 1..MaxSessions
NoSession == 0

Syn == [type |-> "syn", key |-> NoSession]
SynAck(k) == [type |-> "synack", key |-> k]
FinalAck(k) == [type |-> "finalack", key |-> k]
Confirm(k) == [type |-> "confirm", key |-> k]
ClientRst(k) == [type |-> "clientRst", key |-> k]
ServerRst(k) == [type |-> "serverRst", key |-> k]

ToServer == {Syn} \cup [type: {"finalack", "clientRst"}, key: Sessions]
ToClient == [type: {"synack", "confirm", "serverRst"}, key: Sessions]

NoPacket == [type |-> "none", key |-> NoSession]

VARIABLES
    \* the client session
    hsState,        \* _hs_state
    tailSet,        \* _hs_tail_deadline is not None
    retries,        \* _hs_retries
    clientKey,      \* server session whose key is ready, or NoSession
    peerConfirmed,  \* peer_confirmed_established
    clientFatal,    \* _fatal_error
    clientRunning,  \* running
    rxStep,         \* where _receiver_thread is
    timerStep,      \* where _handshake_timer_worker is
    timerReason,    \* its reason for calling _set_error
    appState,       \* what _wait_for_handshake has concluded
    \* the server
    table,          \* the session registered for the cid, or NoSession
    spawned,        \* sessions created so far
    keyReady,       \* is_session_key_ready
    completed,      \* handshake_completed_local
    serverRunning,  \* running
    serverFatal,    \* _fatal_error
    handler,        \* where the _app_handler of each session is
    holds,          \* session the listener looked up, or NoSession
    packet,         \* the packet it handles with that session
    listenerStep,   \* where it is
    doomed,         \* session _cleanup_loop decided to drop, or NoSession
    \* the network
    net

timerVars == <<timerStep, timerReason>>
clientVars == <<hsState, tailSet, retries, clientKey, peerConfirmed,
                clientFatal, clientRunning, rxStep, timerVars, appState>>
listenerVars == <<holds, packet, listenerStep>>
sessionVars == <<keyReady, completed, serverRunning, serverFatal>>
serverVars == <<table, spawned, sessionVars, handler, listenerVars, doomed>>
vars == <<clientVars, serverVars, net>>

\* States in which the handshake timer still works.
Pending == {"wait_synack", "key_ready_unconfirmed"}

\* begin_client_handshake has sent the first SYN.
Init ==
    /\ hsState = "wait_synack" /\ tailSet = FALSE /\ retries = 0
    /\ clientKey = NoSession /\ peerConfirmed = FALSE
    /\ clientFatal = FALSE /\ clientRunning = TRUE
    /\ rxStep = "recv" /\ timerStep = "idle" /\ timerReason = "none"
    /\ appState = "waiting"
    /\ table = NoSession /\ spawned = 0
    /\ keyReady = [k \in Sessions |-> FALSE]
    /\ completed = [k \in Sessions |-> FALSE]
    /\ serverRunning = [k \in Sessions |-> FALSE]
    /\ serverFatal = [k \in Sessions |-> FALSE]
    /\ handler = [k \in Sessions |-> "none"]
    /\ holds = NoSession /\ packet = NoPacket /\ listenerStep = "idle"
    /\ doomed = NoSession
    /\ net = {Syn}

-----------------------------------------------------------------------------
(***************************************************************************)
(* The client's receive thread.  It tests running before it blocks in      *)
(* recvfrom and not after, so a stopped session may still handle a packet. *)
(***************************************************************************)
Loop == rxStep' = IF clientRunning THEN "recv" ELSE "ended"

\* Mutant: the error is recorded and the session stays up.
ClientFails_NotFatal ==
    /\ hsState' = "failed" /\ tailSet' = FALSE
    /\ UNCHANGED <<clientFatal, clientRunning, net>>

\* _set_error(fatal=True): the RST goes out before running is cleared, once.
ClientFails ==
    /\ clientFatal' = TRUE /\ clientRunning' = FALSE
    /\ hsState' = "failed" /\ tailSet' = FALSE
    /\ net' = IF clientFatal \/ ~clientRunning \/ clientKey = NoSession
              THEN net ELSE net \cup {ClientRst(clientKey)}

\* Mutant: a SYN-ACK is taken although a session key is ready.
RxSynAck_Late ==
    /\ rxStep = "recv"
    /\ \E k \in Sessions :
          /\ SynAck(k) \in net
          /\ clientKey' = k
    /\ rxStep' = "keyed"
    /\ UNCHANGED <<hsState, tailSet, retries, peerConfirmed, clientFatal,
                   clientRunning, timerVars, appState, serverVars, net>>

\* The first SYN-ACK fixes the key; with a key ready a SYN-ACK is only counted.
RxSynAck ==
    /\ rxStep = "recv" /\ clientKey = NoSession
    /\ \E k \in Sessions :
          /\ SynAck(k) \in net
          /\ clientKey' = k
    /\ rxStep' = "keyed"
    /\ UNCHANGED <<hsState, tailSet, retries, peerConfirmed, clientFatal,
                   clientRunning, timerVars, appState, serverVars, net>>

RxSendsFinalAck ==
    /\ rxStep = "keyed" /\ clientRunning
    /\ net' = net \cup {FinalAck(clientKey)}
    /\ rxStep' = "answered"
    /\ UNCHANGED <<hsState, tailSet, retries, clientKey, peerConfirmed,
                   clientFatal, clientRunning, timerVars, appState, serverVars>>

\* The send failed, or the session was stopped meanwhile.
RxCannotAnswer ==
    /\ rxStep = "keyed"
    /\ ClientFails
    /\ rxStep' = "ended"
    /\ UNCHANGED <<retries, clientKey, peerConfirmed, timerVars, appState,
                   serverVars>>

RxAwaitsConfirm ==
    /\ rxStep = "answered"
    /\ hsState' = IF peerConfirmed THEN hsState ELSE "key_ready_unconfirmed"
    /\ tailSet' = (tailSet \/ ~peerConfirmed)
    /\ Loop
    /\ UNCHANGED <<retries, clientKey, peerConfirmed, clientFatal,
                   clientRunning, timerVars, appState, serverVars, net>>

\* _mark_peer_confirmed_established, its two locks one after the other.
RxConfirm ==
    /\ rxStep = "recv" /\ ~peerConfirmed
    /\ clientKey # NoSession /\ Confirm(clientKey) \in net
    /\ peerConfirmed' = TRUE
    /\ rxStep' = "confirmed"
    /\ UNCHANGED <<hsState, tailSet, retries, clientKey, clientFatal,
                   clientRunning, timerVars, appState, serverVars, net>>

RxEstablishes ==
    /\ rxStep = "confirmed"
    /\ hsState' = "established" /\ tailSet' = FALSE
    /\ Loop
    /\ UNCHANGED <<retries, clientKey, peerConfirmed, clientFatal,
                   clientRunning, timerVars, appState, serverVars, net>>

\* A peer RST: _set_error, which sends none back, and stop.
RxReset ==
    /\ rxStep = "recv"
    /\ clientKey # NoSession /\ ServerRst(clientKey) \in net
    /\ clientFatal' = TRUE /\ clientRunning' = FALSE
    /\ hsState' = "stopped" /\ tailSet' = FALSE
    /\ rxStep' = "ended"
    /\ UNCHANGED <<retries, clientKey, peerConfirmed, timerVars, appState,
                   serverVars, net>>

-----------------------------------------------------------------------------
(***************************************************************************)
(* _handshake_timer_worker.  It reads the state in one critical section,   *)
(* acts on it in a second one, and sends or fails after that.              *)
(***************************************************************************)
TimerReads ==
    /\ timerStep = "idle" /\ clientRunning /\ ~clientFatal
    /\ hsState \in Pending
    /\ timerStep' \in IF hsState = "key_ready_unconfirmed" /\ tailSet
                      THEN {"tail", "retry"} ELSE {"retry"}
    /\ UNCHANGED <<hsState, tailSet, retries, clientKey, peerConfirmed,
                   clientFatal, clientRunning, rxStep, timerReason, appState,
                   serverVars, net>>

\* The tail deadline had passed when the state was read.
TimerTail ==
    /\ timerStep = "tail"
    /\ IF hsState = "key_ready_unconfirmed"
       THEN hsState' = "failed" /\ tailSet' = FALSE /\ timerReason' = "tail"
       ELSE UNCHANGED <<hsState, tailSet, timerReason>>
    /\ timerStep' = "error"
    /\ UNCHANGED <<retries, clientKey, peerConfirmed, clientFatal,
                   clientRunning, rxStep, appState, serverVars, net>>

\* Mutant: one retry too many.
RetriesExhausted_OffByOne == retries > MaxRetries

RetriesExhausted == retries >= MaxRetries

TimerRetries ==
    /\ timerStep = "retry"
    /\ \/ /\ hsState \notin Pending
          /\ timerStep' = "idle"
          /\ UNCHANGED <<hsState, tailSet, retries, timerReason>>
       \/ /\ hsState \in Pending /\ RetriesExhausted
          /\ hsState' = "failed" /\ tailSet' = FALSE
          /\ timerReason' = "exhausted" /\ timerStep' = "error"
          /\ UNCHANGED retries
       \/ /\ hsState \in Pending /\ ~RetriesExhausted
          /\ retries' = retries + 1
          /\ timerStep' = hsState
          /\ UNCHANGED <<hsState, tailSet, timerReason>>
    /\ UNCHANGED <<clientKey, peerConfirmed, clientFatal, clientRunning,
                   rxStep, appState, serverVars, net>>

\* What is sent again depends on the state the second section saw.
TimerSends ==
    /\ timerStep \in Pending
    /\ net' = IF timerStep = "wait_synack" \/ ~clientRunning
              THEN net ELSE net \cup {FinalAck(clientKey)}
    /\ timerStep' = "idle"
    /\ UNCHANGED <<hsState, tailSet, retries, clientKey, peerConfirmed,
                   clientFatal, clientRunning, rxStep, timerReason, appState,
                   serverVars>>

TimerFails ==
    /\ timerStep = "error"
    /\ ClientFails
    /\ timerStep' = "ended"
    /\ UNCHANGED <<retries, clientKey, peerConfirmed, rxStep, timerReason,
                   appState, serverVars>>

-----------------------------------------------------------------------------
(***************************************************************************)
(* The client application: wait_session_key_ready, wait_peer_established,  *)
(* the transfer, and session.stop() when it leaves.                        *)
(***************************************************************************)
AppProceeds ==
    /\ appState = "waiting" /\ peerConfirmed
    /\ appState' = "established"
    /\ UNCHANGED <<hsState, tailSet, retries, clientKey, peerConfirmed,
                   clientFatal, clientRunning, rxStep, timerVars, serverVars,
                   net>>

AppStops ==
    /\ \/ /\ appState = "waiting" /\ ~peerConfirmed
          /\ clientFatal \/ ~clientRunning
          /\ appState' = "failed"
       \/ /\ appState = "established"
          /\ appState' = "finished"
    /\ clientRunning' = FALSE
    /\ hsState' = "stopped" /\ tailSet' = FALSE
    /\ UNCHANGED <<retries, clientKey, peerConfirmed, clientFatal, rxStep,
                   timerVars, serverVars, net>>

-----------------------------------------------------------------------------
(***************************************************************************)
(* The server's listener: look the session up, or create it for a SYN,     *)
(* under the table's lock; handle the packet with it after the lock.       *)
(***************************************************************************)
ListenerTakes ==
    /\ listenerStep = "idle"
    /\ \E p \in net \cap ToServer :
          /\ packet' = p
          /\ \/ /\ table # NoSession
                /\ holds' = table
                /\ UNCHANGED <<table, spawned, serverRunning, handler>>
             \/ /\ table = NoSession /\ p = Syn /\ spawned < MaxSessions
                /\ holds' = spawned + 1
                /\ table' = spawned + 1 /\ spawned' = spawned + 1
                /\ serverRunning' = [serverRunning EXCEPT ![spawned + 1] = TRUE]
                /\ handler' = [handler EXCEPT ![spawned + 1] = "running"]
    /\ listenerStep' = "handle"
    /\ UNCHANGED <<clientVars, keyReady, completed, serverFatal, doomed, net>>

ListenerIdle == holds' = NoSession /\ packet' = NoPacket /\ listenerStep' = "idle"

\* A SYN: derive the key, then send SYN-ACK unless stopped in between.
HandleSyn ==
    /\ listenerStep = "handle" /\ packet = Syn /\ ~keyReady[holds]
    /\ keyReady' = [keyReady EXCEPT ![holds] = TRUE]
    /\ net' = IF serverRunning[holds] THEN net \cup {SynAck(holds)} ELSE net
    /\ ListenerIdle
    /\ UNCHANGED <<clientVars, table, spawned, completed, serverRunning,
                   serverFatal, handler, doomed>>

\* A final ACK with the session's token is confirmed, however often it comes.
HandleFinalAck ==
    /\ listenerStep = "handle" /\ packet.type = "finalack"
    /\ keyReady[holds] /\ packet.key = holds /\ serverRunning[holds]
    /\ net' = net \cup {Confirm(holds)}
    /\ listenerStep' = "mark"
    /\ UNCHANGED <<clientVars, table, spawned, sessionVars, handler, holds,
                   packet, doomed>>

\* The confirm could not be sent: the session fails.
ConfirmFails ==
    /\ listenerStep = "handle" /\ packet.type = "finalack"
    /\ keyReady[holds] /\ packet.key = holds
    /\ serverFatal' = [serverFatal EXCEPT ![holds] = TRUE]
    /\ net' = IF serverRunning[holds] /\ ~serverFatal[holds]
              THEN net \cup {ServerRst(holds)} ELSE net
    /\ serverRunning' = [serverRunning EXCEPT ![holds] = FALSE]
    /\ ListenerIdle
    /\ UNCHANGED <<clientVars, table, spawned, keyReady, completed, handler,
                   doomed>>

ListenerMarks ==
    /\ listenerStep = "mark"
    /\ completed' = [completed EXCEPT ![holds] = TRUE]
    /\ ListenerIdle
    /\ UNCHANGED <<clientVars, table, spawned, keyReady, serverRunning,
                   serverFatal, handler, doomed, net>>

HandleReset ==
    /\ listenerStep = "handle" /\ packet.type = "clientRst"
    /\ keyReady[holds] /\ packet.key = holds
    /\ serverFatal' = [serverFatal EXCEPT ![holds] = TRUE]
    /\ serverRunning' = [serverRunning EXCEPT ![holds] = FALSE]
    /\ ListenerIdle
    /\ UNCHANGED <<clientVars, table, spawned, keyReady, completed, handler,
                   doomed, net>>

\* A late SYN is only counted, and what the key does not open is dropped.
HandleOther ==
    /\ listenerStep = "handle"
    /\ IF packet = Syn THEN keyReady[holds]
                       ELSE ~keyReady[holds] \/ packet.key # holds
    /\ ListenerIdle
    /\ UNCHANGED <<clientVars, table, spawned, sessionVars, handler, doomed,
                   net>>

-----------------------------------------------------------------------------
(***************************************************************************)
(* Sessions end: _end_session pops whatever is registered for the cid.     *)
(***************************************************************************)
EndSession ==
    /\ table' = NoSession
    /\ serverRunning' = [k \in Sessions |-> serverRunning[k] /\ k # table]

\* Mutant: a session waiting for its final ACK is never judged.
CleanupJudges_NoTailTimeout ==
    /\ doomed = NoSession /\ table # NoSession
    /\ \/ serverFatal[table]
       \/ ~completed[table] /\ ~keyReady[table]
       \/ completed[table] /\ ~serverRunning[table]
    /\ doomed' = table
    /\ UNCHANGED <<clientVars, table, spawned, sessionVars, handler,
                   listenerVars, net>>

\* _cleanup_loop judges under the lock and drops after it.
CleanupJudges ==
    /\ doomed = NoSession /\ table # NoSession
    /\ serverFatal[table] \/ ~completed[table] \/ ~serverRunning[table]
    /\ doomed' = table
    /\ UNCHANGED <<clientVars, table, spawned, sessionVars, handler,
                   listenerVars, net>>

CleanupDrops ==
    /\ doomed # NoSession
    /\ EndSession
    /\ doomed' = NoSession
    /\ UNCHANGED <<clientVars, spawned, keyReady, completed, serverFatal,
                   handler, listenerVars, net>>

\* _app_handler leaves its loop: the session stopped, or its work is done.
HandlerLeaves(k) ==
    /\ handler[k] = "running"
    /\ ~serverRunning[k] \/ (completed[k] /\ appState # "waiting")
    /\ handler' = [handler EXCEPT ![k] = "leaving"]
    /\ UNCHANGED <<clientVars, table, spawned, sessionVars, listenerVars,
                   doomed, net>>

\* idle_timeout: the handler aborts its session.
HandlerAborts(k) ==
    /\ handler[k] = "running" /\ serverRunning[k]
    /\ handler' = [handler EXCEPT ![k] = "leaving"]
    /\ serverFatal' = [serverFatal EXCEPT ![k] = TRUE]
    /\ serverRunning' = [serverRunning EXCEPT ![k] = FALSE]
    /\ net' = IF keyReady[k] /\ ~serverFatal[k]
              THEN net \cup {ServerRst(k)} ELSE net
    /\ UNCHANGED <<clientVars, table, spawned, keyReady, completed,
                   listenerVars, doomed>>

HandlerEnds(k) ==
    /\ handler[k] = "leaving"
    /\ EndSession
    /\ handler' = [handler EXCEPT ![k] = "ended"]
    /\ UNCHANGED <<clientVars, spawned, keyReady, completed, serverFatal,
                   listenerVars, doomed, net>>

-----------------------------------------------------------------------------
ReceiverThread ==
    \/ RxSynAck \/ RxSendsFinalAck \/ RxCannotAnswer \/ RxAwaitsConfirm
    \/ RxConfirm \/ RxEstablishes \/ RxReset

TimerThread ==
    \/ TimerReads \/ TimerTail \/ TimerRetries \/ TimerSends \/ TimerFails

App == AppProceeds \/ AppStops

Listener ==
    \/ ListenerTakes
    \/ HandleSyn \/ HandleFinalAck \/ ConfirmFails \/ ListenerMarks
    \/ HandleReset \/ HandleOther

Cleanup == CleanupJudges \/ CleanupDrops

Handler(k) == HandlerLeaves(k) \/ HandlerAborts(k) \/ HandlerEnds(k)

Next ==
    \/ ReceiverThread \/ TimerThread \/ App
    \/ Listener \/ Cleanup
    \/ \E k \in Sessions : Handler(k)

Spec == Init /\ [][Next]_vars

(***************************************************************************)
(* Threads that have something to do eventually do it.  Nothing is assumed *)
(* of the network: the fair step of a thread blocked in recvfrom is only   *)
(* the one that finishes the packet it has taken.                          *)
(***************************************************************************)
FairSpec ==
    /\ Spec
    /\ WF_vars(TimerThread)
    /\ WF_vars(RxSendsFinalAck \/ RxAwaitsConfirm \/ RxEstablishes)
    /\ WF_vars(AppProceeds) /\ WF_vars(AppStops)
    /\ WF_vars(Cleanup)
    /\ WF_vars(listenerStep # "idle" /\ Listener)

-----------------------------------------------------------------------------
Packets == ToServer \cup ToClient \cup {Syn}

\* Every variable of the handshake keeps to the values its code can give it.
TypeOK ==
    /\ hsState \in Pending \cup {"established", "failed", "stopped"}
    /\ tailSet \in BOOLEAN /\ retries \in 0..MaxRetries
    /\ clientKey \in Sessions \cup {NoSession}
    /\ peerConfirmed \in BOOLEAN
    /\ clientFatal \in BOOLEAN /\ clientRunning \in BOOLEAN
    /\ rxStep \in {"recv", "keyed", "answered", "confirmed", "ended"}
    /\ timerStep \in Pending \cup {"idle", "tail", "retry", "error", "ended"}
    /\ timerReason \in {"none", "tail", "exhausted"}
    /\ appState \in {"waiting", "established", "failed", "finished"}
    /\ table \in Sessions \cup {NoSession} /\ spawned \in 0..MaxSessions
    /\ keyReady \in [Sessions -> BOOLEAN] /\ completed \in [Sessions -> BOOLEAN]
    /\ serverRunning \in [Sessions -> BOOLEAN]
    /\ serverFatal \in [Sessions -> BOOLEAN]
    /\ handler \in [Sessions -> {"none", "running", "leaving", "ended"}]
    /\ holds \in Sessions \cup {NoSession}
    /\ packet \in Packets \cup {NoPacket}
    /\ listenerStep \in {"idle", "handle", "mark"}
    /\ doomed \in Sessions \cup {NoSession}
    /\ net \subseteq Packets

\* A server session that completes its handshake did so with the key the
\* client holds, whatever packets of earlier or later sessions of the same
\* connection id are still on their way: the two never talk past each other.
KeysAgree == \A k \in Sessions : completed[k] => clientKey = k

\* The client is only told the peer is established by the server session
\* whose key it holds, and after that session took its final ACK.
ConfirmedIsMutual ==
    peerConfirmed => \/ completed[clientKey]
                     \/ listenerStep = "mark" /\ holds = clientKey

\* Both ends believe in the same session: what the one and the other end conclude
\* of a handshake (_complete_server_handshake, HANDSHAKE_CONFIRM) holds together.
HandshakeAgrees == KeysAgree /\ ConfirmedIsMutual

\* The handshake timer only fails a live session for a reason: a deadline it
\* found exceeded or a retry limit it found reached, for _set_error to record.
TimeoutHasReason ==
    timerStep = "error" /\ clientRunning /\ ~clientFatal => timerReason # "none"

\* However the network behaves, the client's wait ends: the peer is
\* established or the session fails.  (It does not wait twice.)
HandshakeDecides == []<>(appState # "waiting")

\* A server session whose handshake never completes leaves the table, so
\* that a SYN repeated by the client can start a new one.
HalfOpenLeaves == \A k \in Sessions : []<>(table # k \/ completed[k])
=============================================================================
