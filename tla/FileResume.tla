----------------------------- MODULE FileResume -----------------------------
(***************************************************************************)
(* The receiver's side of a file transfer on disk: the .part file, its     *)
(* .meta.json, the offer to resume and the final rename (server.py         *)
(* _app_handler, file_transfer_common.py).  Each session is one attempt,   *)
(* served by a thread of its own; the file system outlives sessions and    *)
(* the process.                                                            *)
(*                                                                         *)
(* All files have the same name.  Paths[1] is that name and Paths[n] the   *)
(* name unique_path makes with a suffix.  A unit stands for a piece of a   *)
(* file, and a packet of the transfer carries Payload units.  The file     *)
(* system is that of the platform the README names, Windows: an open file  *)
(* can neither be removed nor renamed, and Python's open denies no other   *)
(* open.  What a session wrote reaches the file when its buffer is flushed.*)
(*                                                                         *)
(* The transport is abstracted to what it guarantees: packets in order     *)
(* from the offset of the decision, the EOF after the last of them, or the *)
(* end of the session at any time.                                         *)
(***************************************************************************)
EXTENDS Integers, Sequences, FiniteSetsExt

CONSTANTS
    TransferAttempts,    \* number of attempts (sessions)
    Files,       \* files of that one name
    NoFile,      \* no file
    FileSize,        \* units of a file
    Payload,     \* units of a packet
    Paths,       \* bound: number of paths
    MaxCrashes,  \* bound: ends of the server process
    Overlap      \* TRUE: an attempt may start while another one is served

ASSUME AttemptsAssumption == TransferAttempts \in Nat \ {0}
ASSUME SizeAssumption     == FileSize \in Nat \ {0} /\ Payload \in Nat \ {0}
ASSUME PathsAssumption    == Paths \in Nat \ {0}
ASSUME CrashAssumption    == MaxCrashes \in Nat
ASSUME OverlapAssumption  == Overlap \in BOOLEAN

AttemptIds   == 1 .. TransferAttempts
Hole       == <<"hole", 0>>
Content(f) == [i \in 1 .. FileSize |-> <<f, i>>]

\* No file has no content, not even the empty one.
ASSUME NoFileAssumption ==
    /\ NoFile \notin Files
    /\ \A n \in 0 .. FileSize : NoFile \notin [1 .. n -> Files \X (1 .. FileSize)]
Policies   == {"resume", "rename", "overwrite"}
NoMeta     == [file |-> NoFile, received |-> 0]

VARIABLES
    \* file system
    part,     \* path -> content of path.part, or NoFile
    meta,     \* path -> what path.part.meta.json says
    out,      \* path -> content of the file, or NoFile
    \* per session, locals of _app_handler
    pc, file, path, policy, conflict, offer, offset, received,
    handle,   \* how the .part file is open: closed, append, write
    written,  \* units before the buffer, where the handle writes
    buffer,   \* units not flushed yet
    exitReason,   \* exit_exitReason
    crashes

disk  == <<part, meta, out>>
local == <<file, path, policy, conflict, offer, offset, received, handle, written,
           buffer>>
resumeVars  == <<disk, pc, local, exitReason, crashes>>

\* The threads of the sessions in ended are over and their locals with them.
Drop(ended) ==
    LET cleared(f, v) == [s \in AttemptIds |-> IF s \in ended THEN v ELSE f[s]] IN
    /\ file' = cleared(file, NoFile) /\ path' = cleared(path, 0)
    /\ policy' = cleared(policy, "none") /\ conflict' = cleared(conflict, FALSE)
    /\ offer' = cleared(offer, 0) /\ offset' = cleared(offset, 0)
    /\ received' = cleared(received, 0) /\ handle' = cleared(handle, "closed")
    /\ written' = cleared(written, 0) /\ buffer' = cleared(buffer, <<>>)

ResumeInit ==
    /\ part = [p \in 1 .. Paths |-> NoFile] /\ out = part
    /\ meta = [p \in 1 .. Paths |-> NoMeta]
    /\ pc = [s \in AttemptIds |-> "new"]
    /\ file = [s \in AttemptIds |-> NoFile]
    /\ path = [s \in AttemptIds |-> 0] /\ policy = [s \in AttemptIds |-> "none"]
    /\ conflict = [s \in AttemptIds |-> FALSE] /\ offer = [s \in AttemptIds |-> 0]
    /\ offset = [s \in AttemptIds |-> 0] /\ received = [s \in AttemptIds |-> 0]
    /\ handle = [s \in AttemptIds |-> "closed"]
    /\ written = [s \in AttemptIds |-> 0] /\ buffer = [s \in AttemptIds |-> <<>>]
    /\ exitReason = [s \in AttemptIds |-> "unknown"]
    /\ crashes = 0

-----------------------------------------------------------------------------
(* The file system and the helpers of file_transfer_common.py.              *)

Exists(p)    == part[p] # NoFile
Open(p)      == \E s \in AttemptIds : path[s] = p /\ handle[s] # "closed"
PathTaken(p)     == out[p] # NoFile \/ Exists(p)
AlignDown(n) == n - (n % Payload)

\* A write of data at place at into content: the end of the file is extended with
\* zeros up to there.
WriteAt(content, at, data) ==
    [i \in 1 .. Max({Len(content), at + Len(data)}) |->
        IF i > at /\ i <= at + Len(data) THEN data[i - at]
        ELSE IF i <= Len(content) THEN content[i] ELSE Hole]

\* truncate: cut, or extended with zeros.
Truncated(content, n) == SubSeq(WriteAt(content, n, <<>>), 1, n)

\* The .part file after session s has flushed its buffer and more.
Flushed(s, more) ==
    LET data == buffer[s] \o more
        at   == IF handle[s] = "append" THEN Len(part[path[s]]) ELSE written[s]
    IN  [part EXCEPT ![path[s]] = WriteAt(@, at, data)]

\* Mutant: a part file of any transfer is offered.
ResumeOffer_AnyFile(f) ==
    IF ~Exists(1) \/ meta[1].file = NoFile THEN 0
    ELSE LET n == AlignDown(Min({Len(part[1]), meta[1].received, FileSize}))
         IN  IF n < FileSize THEN n ELSE 0

\* resume_candidate_info: the offset it offers, 0 for none.
ResumeOffer(f) ==
    IF ~Exists(1) \/ meta[1].file # f THEN 0
    ELSE LET n == AlignDown(Min({Len(part[1]), meta[1].received, FileSize}))
         IN  IF n < FileSize THEN n ELSE 0

\* unique_path: the first path with neither a file nor a .part file.
UniquePath == Min({p \in 1 .. Paths : ~PathTaken(p)})

\* What the receiver, or its defaults, may choose in _ask_accept: resume only when
\* offered, and without a conflict the name itself.
PolicyChoices(s) ==
    IF ~conflict[s] THEN {"overwrite"}
    ELSE {"rename", "overwrite"} \cup (IF offer[s] > 0 THEN {"resume"} ELSE {})

-----------------------------------------------------------------------------
(* The session's thread.                                                    *)

Goes(s, at)       == pc' = [pc EXCEPT ![s] = at]
AttemptEnds(s, at, why)  == Goes(s, at) /\ exitReason' = [exitReason EXCEPT ![s] = why]

\* The header arrives; output_conflict_info and resume_candidate_info look at the
\* disk, and the approval begins.
HandleHeader(s) ==
    /\ pc[s] = "new"
    /\ \A t \in 1 .. s - 1 : pc[t] # "new"
    /\ Overlap \/ \A t \in 1 .. s - 1 : pc[t] = "end"
    /\ \E f \in Files :
        /\ file' = [file EXCEPT ![s] = f]
        /\ offer' = [offer EXCEPT ![s] = ResumeOffer(f)]
    /\ conflict' = [conflict EXCEPT ![s] = PathTaken(1)]
    /\ Goes(s, "approval")
    /\ UNCHANGED <<disk, path, policy, offset, received, handle, written, buffer,
                   exitReason, crashes>>

\* The decision, or its timeout: the path is allocated in both cases, and a session
\* that is not accepted leaves.
DecideConflict(s) ==
    /\ pc[s] = "approval"
    /\ \E choice \in PolicyChoices(s) :
        /\ choice = "rename" => \E p \in 1 .. Paths : ~PathTaken(p)
        /\ policy' = [policy EXCEPT ![s] = choice]
        /\ path' = [path EXCEPT ![s] = IF choice = "rename" THEN UniquePath ELSE 1]
        /\ offset' = [offset EXCEPT ![s] = IF choice = "resume" THEN offer[s] ELSE 0]
    /\ \/ Goes(s, "open") /\ UNCHANGED exitReason
       \/ AttemptEnds(s, "leave", "rejected")
    /\ UNCHANGED <<disk, file, conflict, offer, received, handle, written, buffer,
                   crashes>>

\* Resume: the .part file is opened, cut to the offset and closed ...
OpenTruncates(s) ==
    /\ pc[s] = "open" /\ policy[s] = "resume"
    /\ IF Exists(1)
       THEN /\ part' = [part EXCEPT ![1] = Truncated(@, offset[s])]
            /\ Goes(s, "append") /\ UNCHANGED exitReason
       ELSE AttemptEnds(s, "leave", "output_open_failed") /\ UNCHANGED part
    /\ UNCHANGED <<meta, out, local, crashes>>

\* ... and opened again to append, which makes a new one if it has gone.
OpenAppends(s) ==
    /\ pc[s] = "append"
    /\ part' = IF Exists(1) THEN part ELSE [part EXCEPT ![1] = <<>>]
    /\ handle' = [handle EXCEPT ![s] = "append"]
    /\ received' = [received EXCEPT ![s] = offset[s]]
    /\ Goes(s, "meta")
    /\ UNCHANGED <<meta, out, file, path, policy, conflict, offer, offset, written,
                   buffer, exitReason, crashes>>

\* Otherwise an old .part file is removed with its meta file, unless it is open ...
OpenRemoves(s) ==
    /\ pc[s] = "open" /\ policy[s] # "resume"
    /\ IF Exists(path[s]) /\ ~Open(path[s])
       THEN /\ part' = [part EXCEPT ![path[s]] = NoFile]
            /\ meta' = [meta EXCEPT ![path[s]] = NoMeta]
       ELSE UNCHANGED <<part, meta>>
    /\ Goes(s, "create")
    /\ UNCHANGED <<out, local, exitReason, crashes>>

\* ... and an empty one is made.
OpenCreates(s) ==
    /\ pc[s] = "create"
    /\ part' = [part EXCEPT ![path[s]] = <<>>]
    /\ handle' = [handle EXCEPT ![s] = "write"]
    /\ Goes(s, "meta")
    /\ UNCHANGED <<meta, out, file, path, policy, conflict, offer, offset, received,
                   written, buffer, exitReason, crashes>>

MetaOf(s, n) == [meta EXCEPT ![path[s]] = [file |-> file[s], received |-> n]]

\* write_resume_meta before the first packet.
WriteMeta(s) ==
    /\ pc[s] = "meta"
    /\ meta' = MetaOf(s, received[s])
    /\ Goes(s, "receive")
    /\ UNCHANGED <<part, out, local, exitReason, crashes>>

PacketEnd(n) == Min({n + Payload, FileSize})

\* A packet is written to the buffer, which may then be flushed; the meta file is
\* rewritten when that is due.
Receive(s) ==
    /\ pc[s] = "receive" /\ received[s] < FileSize
    /\ LET n    == PacketEnd(received[s])
           data == SubSeq(Content(file[s]), received[s] + 1, n)
       IN  /\ received' = [received EXCEPT ![s] = n]
           /\ \/ /\ buffer' = [buffer EXCEPT ![s] = @ \o data]
                 /\ UNCHANGED <<part, written>>
              \/ /\ part' = Flushed(s, data)
                 /\ written' = [written EXCEPT ![s] = @ + Len(buffer[s] \o data)]
                 /\ buffer' = [buffer EXCEPT ![s] = <<>>]
           /\ meta' \in {meta, MetaOf(s, n)}
    /\ UNCHANGED <<out, pc, file, path, policy, conflict, offer, offset, handle, exitReason,
                   crashes>>

\* EOF after the last packet: flush, fsync, close.
HandleEof(s) ==
    /\ pc[s] = "receive" /\ received[s] = FileSize
    /\ part' = Flushed(s, <<>>)
    /\ handle' = [handle EXCEPT ![s] = "closed"] /\ buffer' = [buffer EXCEPT ![s] = <<>>]
    /\ Goes(s, "verify")
    /\ UNCHANGED <<meta, out, file, path, policy, conflict, offer, offset, received,
                   written, exitReason, crashes>>

\* The hash of the whole .part file, or of what was received if there is none.
HashMatches(s) ==
    IF Exists(path[s]) THEN part[path[s]] = Content(file[s]) ELSE offset[s] = 0

Verify(s) ==
    /\ pc[s] = "verify"
    /\ IF HashMatches(s) THEN Goes(s, "replace") /\ UNCHANGED exitReason
       ELSE AttemptEnds(s, "leave", "sha256_mismatch")
    /\ UNCHANGED <<disk, local, crashes>>

\* os.replace, which raises when the .part file is gone or open.
Replace(s) ==
    /\ pc[s] = "replace"
    /\ IF Exists(path[s]) /\ ~Open(path[s])
       THEN /\ out' = [out EXCEPT ![path[s]] = part[path[s]]]
            /\ part' = [part EXCEPT ![path[s]] = NoFile]
            /\ Goes(s, "unmeta") /\ UNCHANGED exitReason
       ELSE AttemptEnds(s, "leave", "app_error") /\ UNCHANGED <<out, part>>
    /\ UNCHANGED <<meta, local, crashes>>

RemoveMeta(s) ==
    /\ pc[s] = "unmeta"
    /\ meta' = [meta EXCEPT ![path[s]] = NoMeta]
    /\ Goes(s, "commit")
    /\ UNCHANGED <<part, out, local, exitReason, crashes>>

\* COMPLETE is sent and acknowledged, or not.
Commit(s) ==
    /\ pc[s] = "commit"
    /\ \E why \in {"complete", "complete_ack_timeout"} : AttemptEnds(s, "leave", why)
    /\ UNCHANGED <<disk, local, crashes>>

\* The session fails or is idle too long.
Fail(s) ==
    /\ pc[s] = "receive"
    /\ AttemptEnds(s, "leave", "session_failed")
    /\ UNCHANGED <<disk, local, crashes>>

\* Mutant: the meta file keeps the offset the session began with.
KeptBytes_AtStart(s) == offset[s]

KeptBytes(s) == received[s]

\* The finally block: the handle is closed, and a .part file that is there is kept
\* with a meta file of this session.
Leave(s) ==
    /\ pc[s] = "leave"
    /\ LET kept == IF handle[s] = "closed" THEN part ELSE Flushed(s, <<>>) IN
       /\ part' = kept
       /\ meta' = IF exitReason[s] # "complete" /\ kept[path[s]] # NoFile
                  THEN MetaOf(s, KeptBytes(s)) ELSE meta
    /\ Drop({s})
    /\ Goes(s, "end")
    /\ UNCHANGED <<out, exitReason, crashes>>

\* The process ends, with every session in it and all that was not flushed.
Crash ==
    /\ crashes < MaxCrashes
    /\ crashes' = crashes + 1
    /\ LET live == {s \in AttemptIds : pc[s] \notin {"new", "end"}} IN
       /\ live # {}
       /\ pc' = [s \in AttemptIds |-> IF s \in live THEN "end" ELSE pc[s]]
       /\ exitReason' = [s \in AttemptIds |-> IF s \in live THEN "crash" ELSE exitReason[s]]
       /\ Drop(live)
    /\ UNCHANGED disk

ResumeNext ==
    \/ \E s \in AttemptIds :
        \/ HandleHeader(s) \/ DecideConflict(s)
        \/ OpenTruncates(s) \/ OpenAppends(s) \/ OpenRemoves(s) \/ OpenCreates(s)
        \/ WriteMeta(s) \/ Receive(s) \/ HandleEof(s)
        \/ Verify(s) \/ Replace(s) \/ RemoveMeta(s) \/ Commit(s)
        \/ Fail(s) \/ Leave(s)
    \/ Crash

ResumeSpec == ResumeInit /\ [][ResumeNext]_resumeVars

-----------------------------------------------------------------------------
(* Properties.                                                              *)

Units    == (Files \X (1 .. FileSize)) \cup {Hole}
Contents == {NoFile} \cup Seq(Units)

\* The disk and every session stay in their types, a buffer never holds more than its
\* session received, and an open handle never loses its .part file.  Two sessions that
\* append at once may make a .part file longer than the file; one at a time cannot.
ResumeTypeOK ==
    /\ \A p \in 1 .. Paths : {part[p], out[p]} \subseteq Contents
    /\ ~Overlap => \A p \in 1 .. Paths : Exists(p) => Len(part[p]) <= FileSize
    /\ \A p \in 1 .. Paths : meta[p].received \in 0 .. FileSize
    /\ \A s \in AttemptIds :
        /\ path[s] \in 0 .. Paths /\ {offer[s], offset[s]} \subseteq 0 .. FileSize - 1
        /\ received[s] \in offset[s] .. FileSize \cup {0}
        /\ handle[s] \in {"closed", "append", "write"}
        /\ buffer[s] # <<>> => offset[s] + Len(buffer[s]) <= received[s]
        /\ handle[s] # "closed" => path[s] > 0 /\ part[path[s]] \in Seq(Units)

\* What allocate_output_path promises: a file takes its final name "only after the
\* .part file has been fully received and verified".
SavedIsVerified == \A p \in 1 .. Paths : out[p] # NoFile => \E f \in Files : out[p] = Content(f)

\* What make_transfer_id promises: "only a partial file with the same final SHA256
\* can be resumed".  A session that appends does so to the beginning of its own
\* file, whatever attempts, crashes and other files of that name came before.
ResumeIsSound ==
    \A s \in AttemptIds :
        handle[s] = "append" =>
            /\ Len(part[path[s]]) >= offset[s]
            /\ SubSeq(part[path[s]], 1, offset[s]) = SubSeq(Content(file[s]), 1, offset[s])

\* An attempt that nobody interrupts is not refused for what earlier ones left on the
\* disk: it ends by a rejection, a failed session, a lost answer or a crash, never by
\* its own checks.
NeverRefusedByDisk ==
    \A s \in AttemptIds :
        exitReason[s] \notin {"sha256_mismatch", "output_open_failed", "app_error"}

\* What is on the disk helps an attempt and never stands in its way: what is
\* appended to is its own beginning, what earlier attempts left refuses none, and
\* what is saved is whole.
ResumeSafety == ResumeIsSound /\ NeverRefusedByDisk /\ SavedIsVerified

\* A failed attempt keeps what it has received, buffered or not: the next attempt for
\* the file is offered all whole packets of it.
ProgressIsKept ==
    [][\A s \in AttemptIds :
        /\ pc[s] = "leave" /\ pc'[s] = "end" /\ crashes' = crashes
        /\ exitReason[s] = "session_failed" /\ path[s] = 1 /\ received[s] < FileSize
        => \A f \in {file[s]} : ResumeOffer(f)' = AlignDown(received[s])]_resumeVars

\* The log line of the finally block, "kept partial file for resume", is true: a
\* session that is not accepted leaves the offer to resume as it was.
RejectKeepsOffer ==
    [][\A s \in AttemptIds :
        pc[s] = "leave" /\ pc'[s] = "end" /\ exitReason[s] = "rejected" =>
            \A f \in Files : ResumeOffer(f)' >= ResumeOffer(f)]_resumeVars
=============================================================================
