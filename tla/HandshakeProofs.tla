--------------------------- MODULE HandshakeProofs ---------------------------
(***************************************************************************)
(* What RudpHandshake promises whatever the network does with the packets, *)
(* for any number of retries and of server sessions that succeed each      *)
(* other under the connection id.  The ends see each other's packets only, *)
(* and a packet can be of a session long over: so the invariant says what  *)
(* the end that made a packet had done by then, of every packet there is,  *)
(* of the one the listener has taken and of what each end concluded.       *)
(***************************************************************************)
EXTENDS RudpHandshake, TLAPS

ClientPlaces ==
    /\ hsState \in Pending \cup {"established", "failed", "stopped"}
    /\ retries \in 0..MaxRetries
    /\ rxStep \in {"recv", "keyed", "answered", "confirmed", "ended"}
    /\ timerStep \in Pending \cup {"idle", "tail", "retry", "error", "ended"}
    /\ timerReason \in {"none", "tail", "exhausted"}
    /\ appState \in {"waiting", "established", "failed", "finished"}

ClientFlags ==
    /\ tailSet \in BOOLEAN /\ peerConfirmed \in BOOLEAN
    /\ clientFatal \in BOOLEAN /\ clientRunning \in BOOLEAN

ServerPlaces ==
    /\ table \in Sessions \cup {NoSession} /\ spawned \in 0..MaxSessions
    /\ handler \in [Sessions -> {"none", "running", "leaving", "ended"}]
    /\ listenerStep \in {"idle", "handle", "mark"}
    /\ doomed \in Sessions \cup {NoSession}

ServerFlags ==
    /\ keyReady \in [Sessions -> BOOLEAN] /\ completed \in [Sessions -> BOOLEAN]
    /\ serverRunning \in [Sessions -> BOOLEAN]
    /\ serverFatal \in [Sessions -> BOOLEAN]

\* A thread that answers with a key has one, and the listener handles a packet that
\* is on the network with a session.
Held ==
    /\ clientKey \in Sessions \cup {NoSession}
    /\ rxStep \in {"keyed", "answered"} => clientKey \in Sessions
    /\ hsState = "key_ready_unconfirmed" => clientKey \in Sessions
    /\ timerStep = "key_ready_unconfirmed" => clientKey \in Sessions
    /\ holds \in Sessions \cup {NoSession}
    /\ listenerStep # "idle" => holds \in Sessions
    /\ packet \in net \cup {NoPacket}
    /\ net \subseteq Packets

Marking(k) == listenerStep = "mark" /\ holds = k

\* A final ACK is of the client that holds the key; the listener is past taking one, a
\* session completed, a confirmation on its way: each has such a client before it.
Evidence ==
    /\ \A k \in Sessions : FinalAck(k) \in net => clientKey = k
    /\ \A k \in Sessions : Marking(k) => clientKey = k
    /\ \A k \in Sessions : completed[k] => clientKey = k
    /\ \A k \in Sessions : Confirm(k) \in net => completed[k] \/ Marking(k)
    /\ peerConfirmed => clientKey \in Sessions /\ Confirm(clientKey) \in net

HandshakeInv ==
    /\ ClientPlaces /\ ClientFlags /\ ServerPlaces /\ ServerFlags
    /\ Held /\ Evidence

\* A packet is its kind and its key.
LEMMA PacketShape ==
    ASSUME NEW p \in Packets \cup {NoPacket}
    PROVE  /\ p = [type |-> p.type, key |-> p.key]
           /\ p.type = "finalack" => p = FinalAck(p.key) /\ p.key \in Sessions
BY DEF Packets, ToServer, ToClient, Syn, NoPacket, FinalAck, NoSession

\* Packets of two kinds, or under two keys, are two packets.
LEMMA PacketsDiffer ==
    ASSUME NEW j, NEW k
    PROVE  /\ FinalAck(j) = FinalAck(k) => j = k
           /\ Confirm(j) = Confirm(k) => j = k
           /\ FinalAck(j) # SynAck(k) /\ FinalAck(j) # Confirm(k)
           /\ FinalAck(j) # ClientRst(k) /\ FinalAck(j) # ServerRst(k)
           /\ Confirm(j) # SynAck(k)
           /\ Confirm(j) # ClientRst(k) /\ Confirm(j) # ServerRst(k)
           /\ FinalAck(j) # Syn /\ Confirm(j) # Syn
<1> DEFINE kind(p) == p.type
           key(p)  == p.key
<1>1. /\ kind(FinalAck(j)) = "finalack" /\ kind(Confirm(j)) = "confirm"
      /\ key(FinalAck(j)) = j /\ key(Confirm(j)) = j
      /\ kind(FinalAck(k)) = "finalack" /\ kind(Confirm(k)) = "confirm"
      /\ key(FinalAck(k)) = k /\ key(Confirm(k)) = k
      /\ kind(SynAck(k)) = "synack" /\ kind(Syn) = "syn"
      /\ kind(ClientRst(k)) = "clientRst" /\ kind(ServerRst(k)) = "serverRst"
    BY DEF FinalAck, Confirm, SynAck, Syn, ClientRst, ServerRst
<1> HIDE DEF kind, key
<1> QED BY <1>1

\* Every packet the ends make is one the network can carry.
LEMMA PacketTypes ==
    ASSUME NEW k \in Sessions
    PROVE  {SynAck(k), FinalAck(k), Confirm(k), ClientRst(k), ServerRst(k), Syn}
               \subseteq Packets
BY DEF Packets, ToServer, ToClient, SynAck, FinalAck, Confirm, ClientRst, ServerRst, Syn

-----------------------------------------------------------------------------
\* One SYN is on its way and nobody has concluded anything.
LEMMA HandshakeStarts == Init => HandshakeInv
<1> SUFFICES ASSUME Init PROVE HandshakeInv OBVIOUS
<1>0. ClientFlags
    BY DEF Init, ClientFlags
<1>1. ClientPlaces
    BY RetriesAssumption DEF Init, ClientPlaces, Pending
<1>2. ServerPlaces
    BY SessionsAssumption DEF Init, ServerPlaces, NoSession
<1>3. ServerFlags
    BY DEF Init, ServerFlags
<1>4. Held
    BY DEF Init, Held, NoSession, NoPacket, Packets
<1>5. Evidence
    <2>1. \A k \in Sessions : FinalAck(k) # Syn /\ Confirm(k) # Syn
        BY PacketsDiffer
    <2> QED BY <2>1 DEF Init, Evidence, Marking
<1> QED BY <1>0, <1>1, <1>2, <1>3, <1>4, <1>5 DEF HandshakeInv

\* The client's threads go where the code sends them; a retry is counted below the limit.
LEMMA ClientPlacesKept == ASSUME ClientPlaces, Next PROVE ClientPlaces'
<1> USE RetriesAssumption DEF ClientPlaces, Pending, timerVars, clientVars
<1>1. CASE ReceiverThread
    BY <1>1 DEF ReceiverThread, RxSynAck, RxSendsFinalAck, RxCannotAnswer,
        RxAwaitsConfirm, RxConfirm, RxEstablishes, RxReset, Loop, ClientFails
<1>2. CASE TimerThread
    BY <1>2 DEF TimerThread, TimerReads, TimerTail, TimerRetries, TimerSends,
        TimerFails, ClientFails, RetriesExhausted
<1>3. CASE App
    BY <1>3 DEF App, AppProceeds, AppStops
<1>4. CASE Listener
    BY <1>4 DEF Listener, ListenerTakes, HandleSyn, HandleFinalAck, ConfirmFails,
        ListenerMarks, HandleReset, HandleOther
<1>5. CASE Cleanup \/ \E k \in Sessions : Handler(k)
    BY <1>5 DEF Cleanup, CleanupJudges, CleanupDrops, Handler, HandlerLeaves,
        HandlerAborts, HandlerEnds
<1> QED BY <1>1, <1>2, <1>3, <1>4, <1>5 DEF Next

\* What it has been told stays yes or no,
LEMMA ClientFlagsKept == ASSUME ClientFlags, Next PROVE ClientFlags'
<1> USE DEF ClientFlags, timerVars, clientVars
<1>1. CASE ReceiverThread
    BY <1>1 DEF ReceiverThread, RxSynAck, RxSendsFinalAck, RxCannotAnswer,
        RxAwaitsConfirm, RxConfirm, RxEstablishes, RxReset, ClientFails
<1>2. CASE TimerThread
    BY <1>2 DEF TimerThread, TimerReads, TimerTail, TimerRetries, TimerSends,
        TimerFails, ClientFails
<1>3. CASE App
    BY <1>3 DEF App, AppProceeds, AppStops
<1>4. CASE Listener
    BY <1>4 DEF Listener, ListenerTakes, HandleSyn, HandleFinalAck, ConfirmFails,
        ListenerMarks, HandleReset, HandleOther
<1>5. CASE Cleanup \/ \E k \in Sessions : Handler(k)
    BY <1>5 DEF Cleanup, CleanupJudges, CleanupDrops, Handler, HandlerLeaves,
        HandlerAborts, HandlerEnds
<1> QED BY <1>1, <1>2, <1>3, <1>4, <1>5 DEF Next

\* as does what each server session has seen.
LEMMA ServerFlagsKept == ASSUME ServerFlags, Next PROVE ServerFlags'
<1> USE DEF ServerFlags, sessionVars, serverVars
<1>1. CASE ReceiverThread
    BY <1>1 DEF ReceiverThread, RxSynAck, RxSendsFinalAck, RxCannotAnswer,
        RxAwaitsConfirm, RxConfirm, RxEstablishes, RxReset
<1>2. CASE TimerThread
    BY <1>2 DEF TimerThread, TimerReads, TimerTail, TimerRetries, TimerSends, TimerFails
<1>3. CASE App
    BY <1>3 DEF App, AppProceeds, AppStops
<1>4. CASE Listener
    BY <1>4 DEF Listener, ListenerTakes, HandleSyn, HandleFinalAck, ConfirmFails,
        ListenerMarks, HandleReset, HandleOther
<1>5. CASE Cleanup
    BY <1>5 DEF Cleanup, CleanupJudges, CleanupDrops, EndSession
<1>6. CASE \E k \in Sessions : Handler(k)
    BY <1>6 DEF Handler, HandlerLeaves, HandlerAborts, HandlerEnds, EndSession
<1> QED BY <1>1, <1>2, <1>3, <1>4, <1>5, <1>6 DEF Next

\* The table's entry and the threads' places are those the server gives them; a session
\* is created while there is one left.
LEMMA ServerPlacesKept == ASSUME ServerPlaces, Next PROVE ServerPlaces'
<1> USE SessionsAssumption DEF ServerPlaces, serverVars, listenerVars, NoSession
<1>1. CASE ReceiverThread
    BY <1>1 DEF ReceiverThread, RxSynAck, RxSendsFinalAck, RxCannotAnswer,
        RxAwaitsConfirm, RxConfirm, RxEstablishes, RxReset
<1>2. CASE TimerThread
    BY <1>2 DEF TimerThread, TimerReads, TimerTail, TimerRetries, TimerSends, TimerFails
<1>3. CASE App
    BY <1>3 DEF App, AppProceeds, AppStops
<1>4. CASE ListenerTakes
    BY <1>4 DEF ListenerTakes, Sessions
<1>5. CASE Listener /\ ~ListenerTakes
    BY <1>5 DEF Listener, HandleSyn, HandleFinalAck, ConfirmFails,
        ListenerMarks, HandleReset, HandleOther, ListenerIdle
<1>6. CASE Cleanup
    BY <1>6 DEF Cleanup, CleanupJudges, CleanupDrops, EndSession
<1>7. CASE \E k \in Sessions : Handler(k)
    BY <1>7 DEF Handler, HandlerLeaves, HandlerAborts, HandlerEnds, EndSession
<1> QED BY <1>1, <1>2, <1>3, <1>4, <1>5, <1>6, <1>7 DEF Next

\* The client takes one key and keeps it; a packet is taken from the network, which
\* forgets none.
LEMMA HeldKept == ASSUME ServerPlaces, Held, Next PROVE Held'
<1> USE DEF Held, NoSession
<1>1. CASE ReceiverThread
    <2>2. CASE RxSendsFinalAck \/ RxCannotAnswer
        BY <2>2, PacketTypes DEF RxSendsFinalAck, RxCannotAnswer, ClientFails,
            serverVars, listenerVars, timerVars
    <2>3. CASE RxSynAck \/ RxAwaitsConfirm \/ RxConfirm \/ RxEstablishes \/ RxReset
        BY <2>3 DEF RxSynAck, RxAwaitsConfirm, RxConfirm, RxEstablishes, RxReset, Loop,
            serverVars, listenerVars, timerVars
    <2> QED BY <1>1, <2>2, <2>3 DEF ReceiverThread
<1>2. CASE TimerThread
    <2>1. CASE TimerReads \/ TimerTail \/ TimerRetries
        BY <2>1 DEF TimerReads, TimerTail, TimerRetries, Pending, serverVars, listenerVars
    <2>2. CASE TimerSends \/ TimerFails
        BY <2>2, PacketTypes DEF TimerSends, TimerFails, ClientFails, Pending,
            serverVars, listenerVars
    <2> QED BY <1>2, <2>1, <2>2 DEF TimerThread
<1>3. CASE App
    BY <1>3 DEF App, AppProceeds, AppStops, timerVars, serverVars, listenerVars
<1>4. CASE Listener
    <2> USE DEF clientVars, timerVars, ListenerIdle
    <2>1. CASE ListenerTakes
        <3>1. holds' \in Sessions
            BY <2>1, SessionsAssumption DEF ListenerTakes, ServerPlaces, Sessions
        <3> QED BY <2>1, <3>1 DEF ListenerTakes
    <2>2. CASE HandleSyn \/ HandleFinalAck \/ ConfirmFails
        BY <2>2, PacketTypes DEF HandleSyn, HandleFinalAck, ConfirmFails
    <2>3. CASE ListenerMarks \/ HandleReset \/ HandleOther
        BY <2>3 DEF ListenerMarks, HandleReset, HandleOther
    <2> QED BY <1>4, <2>1, <2>2, <2>3 DEF Listener
<1>5. CASE Cleanup \/ \E k \in Sessions : Handler(k)
    BY <1>5, PacketTypes DEF Cleanup, CleanupJudges, CleanupDrops, Handler,
        HandlerLeaves, HandlerAborts, HandlerEnds, clientVars, timerVars, listenerVars
<1> QED BY <1>1, <1>2, <1>3, <1>4, <1>5 DEF Next

\* A step that makes no final ACK or confirmation, and takes back none, leaves the
\* evidence as it is.
LEMMA EvidenceStays ==
    ASSUME Evidence, NEW added \in {{}, {Syn}} \cup {{SynAck(k)} : k \in Sessions}
                         \cup {{ClientRst(k)} : k \in Sessions \cup {NoSession}}
                         \cup {{ServerRst(k)} : k \in Sessions},
           net' = net \cup added,
           clientKey' = clientKey, peerConfirmed' = peerConfirmed,
           completed' = completed,
           \A k \in Sessions : Marking(k)' <=> Marking(k)
    PROVE  Evidence'
<1>1. \A k \in Sessions \cup {NoSession} : FinalAck(k) \notin added /\ Confirm(k) \notin added
    BY PacketsDiffer
<1> QED BY <1>1 DEF Evidence

\* The receive thread: it takes the first key there is, and concludes from a
\* confirmation that is on the network.
LEMMA ReceiverEvidence ==
    ASSUME Held, Evidence, ReceiverThread
    PROVE  Evidence'
<1> USE DEF serverVars, listenerVars, sessionVars
<1>1. CASE RxSynAck
    BY <1>1 DEF RxSynAck, Held, Evidence, Marking, NoSession, Sessions
<1>2. CASE RxSendsFinalAck
    <2>1. clientKey \in Sessions
        BY <1>2 DEF RxSendsFinalAck, Held
    <2>2. \A k \in Sessions : /\ FinalAck(k) \in net' => FinalAck(k) \in net \/ k = clientKey
                              /\ Confirm(k) \in net' <=> Confirm(k) \in net
        BY <1>2, PacketsDiffer DEF RxSendsFinalAck
    <2> QED BY <1>2, <2>1, <2>2 DEF RxSendsFinalAck, Evidence, Marking
<1>3. CASE RxCannotAnswer
    <2>1. PICK added \in {{}} \cup {{ClientRst(k)} : k \in Sessions \cup {NoSession}} :
              net' = net \cup added
        <3>1. CASE net' = net
            BY <3>1
        <3>2. CASE net' = net \cup {ClientRst(clientKey)}
            BY <3>2 DEF Held
        <3> QED BY <1>3, <3>1, <3>2 DEF RxCannotAnswer, ClientFails
    <2> QED BY <1>3, <2>1, EvidenceStays DEF RxCannotAnswer, ClientFails, Marking
<1>4. CASE RxConfirm
    BY <1>4 DEF RxConfirm, Held, Evidence, Marking
<1>5. CASE RxAwaitsConfirm \/ RxEstablishes \/ RxReset
    BY <1>5 DEF RxAwaitsConfirm, RxEstablishes, RxReset, Evidence, Marking
<1> QED BY <1>1, <1>2, <1>3, <1>4, <1>5 DEF ReceiverThread

\* The timer repeats a final ACK of the key there is.
LEMMA TimerEvidence ==
    ASSUME Held, Evidence, TimerThread
    PROVE  Evidence'
<1> USE DEF serverVars, listenerVars, sessionVars
<1>1. CASE TimerSends
    <2>1. timerStep = "wait_synack" \/ clientKey \in Sessions
        BY <1>1 DEF TimerSends, Pending, Held
    <2>2. \A k \in Sessions : /\ FinalAck(k) \in net' => FinalAck(k) \in net \/ k = clientKey
                              /\ Confirm(k) \in net' <=> Confirm(k) \in net
        BY <1>1, PacketsDiffer DEF TimerSends
    <2> QED BY <1>1, <2>1, <2>2 DEF TimerSends, Evidence, Marking
<1>2. CASE TimerFails
    <2>1. PICK added \in {{}} \cup {{ClientRst(k)} : k \in Sessions \cup {NoSession}} :
              net' = net \cup added
        <3>1. CASE net' = net
            BY <3>1
        <3>2. CASE net' = net \cup {ClientRst(clientKey)}
            BY <3>2 DEF Held
        <3> QED BY <1>2, <3>1, <3>2 DEF TimerFails, ClientFails
    <2> QED BY <1>2, <2>1, EvidenceStays DEF TimerFails, ClientFails, Marking
<1>3. CASE TimerReads \/ TimerTail \/ TimerRetries
    BY <1>3 DEF TimerReads, TimerTail, TimerRetries, Evidence, Marking
<1> QED BY <1>1, <1>2, <1>3 DEF TimerThread

\* The listener: the final ACK it takes with its session is under the key of that
\* session, and so of a client that holds it.
LEMMA ListenerEvidence ==
    ASSUME ServerFlags, Held, Evidence, Listener
    PROVE  Evidence'
<1> USE DEF clientVars, ListenerIdle
<1>1. CASE ListenerTakes
    BY <1>1 DEF ListenerTakes, Evidence, Marking
<1>2. CASE HandleSyn
    <2>1. holds \in Sessions
        BY <1>2 DEF HandleSyn, Held
    <2>2. PICK added \in {{}} \cup {{SynAck(k)} : k \in Sessions} : net' = net \cup added
        BY <1>2, <2>1 DEF HandleSyn
    <2> QED BY <1>2, <2>2, EvidenceStays DEF HandleSyn, Marking
<1>3. CASE HandleFinalAck
    <2>1. holds \in Sessions /\ packet \in net /\ packet \in Packets \cup {NoPacket}
        <3>1. packet # NoPacket
            BY <1>3 DEF HandleFinalAck, NoPacket
        <3> QED BY <1>3, <3>1 DEF HandleFinalAck, Held
    <2>2. packet = FinalAck(holds)
        BY <1>3, <2>1, PacketShape DEF HandleFinalAck
    <2>3. clientKey = holds
        BY <2>1, <2>2 DEF Evidence
    <2>4. \A k \in Sessions : /\ FinalAck(k) \in net' <=> FinalAck(k) \in net
                              /\ Confirm(k) \in net' <=> Confirm(k) \in net \/ k = holds
        BY <1>3, PacketsDiffer DEF HandleFinalAck
    <2> QED BY <1>3, <2>1, <2>3, <2>4 DEF HandleFinalAck, sessionVars, Evidence, Marking
<1>4. CASE ConfirmFails
    <2>1. holds \in Sessions
        BY <1>4 DEF ConfirmFails, Held
    <2>2. PICK added \in {{}} \cup {{ServerRst(k)} : k \in Sessions} : net' = net \cup added
        BY <1>4, <2>1 DEF ConfirmFails
    <2> QED BY <1>4, <2>2, EvidenceStays DEF ConfirmFails, Marking
<1>5. CASE ListenerMarks
    <2>1. /\ holds \in Sessions /\ Marking(holds)
          /\ \A k \in Sessions : ~Marking(k)'
          /\ \A k \in Sessions : Marking(k) => k = holds
        BY <1>5 DEF ListenerMarks, Held, Marking
    <2>2. \A k \in Sessions : completed'[k] <=> completed[k] \/ k = holds
        BY <1>5, <2>1 DEF ListenerMarks, ServerFlags
    <2> QED BY <1>5, <2>1, <2>2 DEF ListenerMarks, Evidence
<1>6. CASE HandleReset \/ HandleOther
    BY <1>6 DEF HandleReset, HandleOther, sessionVars, Evidence, Marking
<1> QED BY <1>1, <1>2, <1>3, <1>4, <1>5, <1>6 DEF Listener

\* Whoever drops or leaves a session takes nothing back.
LEMMA OthersEvidence ==
    ASSUME Evidence, App \/ Cleanup \/ \E k \in Sessions : Handler(k)
    PROVE  Evidence'
<1> USE DEF clientVars, serverVars, listenerVars, sessionVars
<1>1. CASE App
    BY <1>1 DEF App, AppProceeds, AppStops, Evidence, Marking
<1>2. CASE Cleanup
    BY <1>2 DEF Cleanup, CleanupJudges, CleanupDrops, Evidence, Marking
<1>3. ASSUME NEW k \in Sessions, HandlerLeaves(k) \/ HandlerEnds(k)
      PROVE  Evidence'
    BY <1>3 DEF HandlerLeaves, HandlerEnds, Evidence, Marking
<1>4. ASSUME NEW k \in Sessions, HandlerAborts(k)
      PROVE  Evidence'
    <2>1. PICK added \in {{}} \cup {{ServerRst(j)} : j \in Sessions} : net' = net \cup added
        BY <1>4 DEF HandlerAborts
    <2> QED BY <1>4, <2>1, EvidenceStays DEF HandlerAborts, Marking
<1> QED BY <1>1, <1>2, <1>3, <1>4 DEF Handler

\* Every step of every thread keeps the invariant.
LEMMA HandshakeStep == HandshakeInv /\ [Next]_vars => HandshakeInv'
<1> SUFFICES ASSUME HandshakeInv, [Next]_vars PROVE HandshakeInv' OBVIOUS
<1>1. CASE Next
    <2>1. Evidence'
        BY <1>1, ReceiverEvidence, TimerEvidence, ListenerEvidence, OthersEvidence
        DEF HandshakeInv, Next
    <2> QED BY <1>1, <2>1, ClientPlacesKept, ClientFlagsKept, ServerPlacesKept,
               ServerFlagsKept, HeldKept DEF HandshakeInv
<1>2. CASE UNCHANGED vars
    <2> USE <1>2 DEF vars, clientVars, timerVars, serverVars, sessionVars, listenerVars
    <2>1. ClientPlaces' /\ ServerPlaces'
        BY DEF HandshakeInv, ClientPlaces, ServerPlaces
    <2>2. ClientFlags' /\ ServerFlags'
        BY DEF HandshakeInv, ClientFlags, ServerFlags
    <2>3. Held' /\ Evidence'
        BY DEF HandshakeInv, Held, Evidence, Marking
    <2> QED BY <2>1, <2>2, <2>3 DEF HandshakeInv
<1> QED BY <1>1, <1>2

\* And so it holds throughout.
LEMMA HandshakeHolds == Spec => []HandshakeInv
BY HandshakeStarts, HandshakeStep, PTL DEF Spec

-----------------------------------------------------------------------------
\* The handshake's variables keep to their types, with any number of retries and of
\* sessions in succession.
THEOREM HandshakeTypes == Spec => []TypeOK
<1>1. HandshakeInv => TypeOK
    BY DEF HandshakeInv, ClientPlaces, ClientFlags, ServerPlaces, ServerFlags, Held, TypeOK
<1> QED BY <1>1, HandshakeHolds, PTL

\* A server session that completes its handshake (_complete_server_handshake) does so
\* with the client that holds its key, and a client is confirmed by the session whose
\* key it holds (HANDSHAKE_CONFIRM): packets of earlier and later sessions of the same
\* connection id, lost, repeated or late, never make the two ends talk past each other.
THEOREM EndsAgree == Spec => []HandshakeAgrees
<1>1. HandshakeInv => HandshakeAgrees
    BY DEF HandshakeInv, Evidence, Marking, HandshakeAgrees, KeysAgree, ConfirmedIsMutual
<1> QED BY <1>1, HandshakeHolds, PTL
=============================================================================
