---------------------------- MODULE MCReceiving -----------------------------
(* Parts, most of the receiving side, that promise nothing but safety:       *)
(* a behaviour is one of the playout of sound, its synchronisation with the  *)
(* pictures, the rounds of repair, the recovery by parity, the messages of   *)
(* the media protocol, the command line, the partial files of transfers, the *)
(* window of their packet numbers, or the application's hold on its native   *)
(* process, and the others rest.                                             *)
EXTENDS AudioPlayout, AvSync, RepairRounds, FrameRecovery, MediaWire, CommandLine,
        FileResume, ReplayWindow, ScreenRuntime

VARIABLE subject

EverySubcommand == DOMAIN Tables
SomePayloads    == {0, 1, 1434, 1435}

Subjects == {"audio", "sync", "rounds", "recovery", "wire", "line", "files", "replay", "runtime"}

mediaVars == <<audioVars, syncVars, roundVars, recoveryVars>>
otherVars == <<wireVars, lineVars, resumeVars, replayVars, runtimeVars>>
allVars   == <<subject, mediaVars, otherVars>>

ReceivingInit ==
    /\ subject \in Subjects
    /\ AudioInit /\ AvSyncInit /\ RoundInit /\ RecoveryInit /\ WireInit /\ LineInit
    /\ ResumeInit /\ ReplayInit /\ RuntimeInit
    /\ subject # "rounds" => frame.got = {0} /\ Cardinality(flying) = FrameShards - 1

MediaSteps ==
    /\ \/ subject = "audio"    /\ AudioNext    /\ UNCHANGED <<syncVars, roundVars, recoveryVars>>
       \/ subject = "sync"     /\ AvSyncNext   /\ UNCHANGED <<audioVars, roundVars, recoveryVars>>
       \/ subject = "rounds"   /\ RoundNext    /\ UNCHANGED <<audioVars, syncVars, recoveryVars>>
       \/ subject = "recovery" /\ RecoveryNext /\ UNCHANGED <<audioVars, syncVars, roundVars>>
    /\ UNCHANGED <<subject, otherVars>>

OtherSteps ==
    /\ \/ subject = "wire"  /\ WireNext   /\ UNCHANGED <<lineVars, resumeVars>>
       \/ subject = "line"  /\ LineNext   /\ UNCHANGED <<wireVars, resumeVars>>
       \/ subject = "files" /\ ResumeNext /\ UNCHANGED <<wireVars, lineVars>>
    /\ UNCHANGED <<subject, mediaVars, replayVars, runtimeVars>>

HeldSteps ==
    /\ \/ subject = "replay"  /\ ReplayNext  /\ UNCHANGED runtimeVars
       \/ subject = "runtime" /\ RuntimeNext /\ UNCHANGED replayVars
    /\ UNCHANGED <<subject, mediaVars, wireVars, lineVars, resumeVars>>

ReceivingNext == MediaSteps \/ OtherSteps \/ HeldSteps

ReceivingSpec == ReceivingInit /\ [][ReceivingNext]_allVars

-----------------------------------------------------------------------------
\* The type invariant of every part.
ReceivingTypeOK ==
    /\ subject = "audio"   => AudioTypeOK
    /\ subject = "sync"    => AvSyncTypeOK
    /\ subject = "line"    => LineTypeOK
    /\ subject = "files"   => ResumeTypeOK
    /\ subject = "replay"  => ReplayTypeOK
    /\ subject = "runtime" => RuntimeTypeOK

\* Sound is played in order and once, and nothing that waits lies behind what was
\* played; following the sound never stops the pictures for long, and a release is
\* for good; a frame that parity completes is the frame that was sent, one loss is
\* always made good, and only what cannot be a frame is refused.
MediaSafety ==
    /\ PlayedForward /\ NothingBehind
    /\ HoldIsBounded /\ ReleaseIsLasting
    /\ RebuiltIsSent /\ OneLossIsRecovered /\ OnlyOversizeIsRefused

\* What is kept across attempts and processes is what it is taken for: the bytes of
\* a partial file and the name it is given, the numbers of packets that were heard,
\* and the native process with what the application says of it.
HoldingSafety == ResumeSafety /\ ReplaySafety /\ RuntimeSafety

\* The playhead that the pictures follow stays by the sound that is heard, and within
\* the losses that repair is made for a frame is completed in time without anything
\* being sent again that is still under way.
TimingSafety == PlayheadNearMedia /\ RepairedInTime /\ SentAgainOnce

\* What one side says the other understands: a command line that is accepted starts,
\* two ends of one preset agree, and a media packet is handled by the handler it was
\* built for and read as it was meant.
InterfaceSafety ==
    /\ AcceptedStarts /\ PresetsMeet
    /\ HandledAsSent /\ ReadAsMeant
=====
