----------------------------- MODULE CommandLine -----------------------------
(***************************************************************************)
(* The command line of the native media program (main.rs), the two command *)
(* lines the graphical client builds for it (screen_runtime.py), and the   *)
(* second look each subcommand takes at its configuration when it starts.  *)
(*                                                                         *)
(* Every subcommand has a table: which values each of its options takes.   *)
(* Arguments are read from left to right, a later one replacing an earlier *)
(* one; reading stops at the first argument that is refused and at a       *)
(* request for help.  When the arguments are used up, the required options *)
(* are demanded, defaults fill in the rest and the derived settings follow *)
(* from them; only then does the subcommand start and look again.          *)
(*                                                                         *)
(* Text is Blank or Filled, a keyword is one of a set, a value that is no  *)
(* number is NotANumber.  Bitrates are in hundredths of a megabit, bits    *)
(* per pixel in thousandths, keyframe intervals in half seconds, loss in   *)
(* percent.                                                                *)
(***************************************************************************)
EXTENDS Integers, FiniteSets, Sequences, TLC

CONSTANTS
    Subcommands,   \* the subcommands a user tries
    MaxTyped       \* bound: arguments a user adds of their own choice

ASSUME TypingAssumption == MaxTyped \in Nat

Presets == {"r4_default", "stable", "recommended", "high_quality"}

VARIABLES
    program,   \* the subcommand, or "none" before anything was entered
    client,    \* what the graphical client asked for, NoClient when a user types
    line,      \* the arguments still to be read, as <<option, value>>
    typed,     \* arguments the user has added
    settings,  \* the value each option read so far has, as a function
    launch     \* how far the program has come

lineVars == <<program, client, line, typed, settings, launch>>

NotANumber == -1
AutoChoice == -2
Blank == "blank"
Filled == "filled"
NoClient == [preset |-> "none", sound |-> FALSE, side |-> "none"]

(***************************************************************************)
(* The values an option takes.  A flag is written without a value.         *)
(***************************************************************************)
Every(lo, hi, step) == [kind |-> "number", lo |-> lo, hi |-> hi, step |-> step]

Number(lo, hi) == Every(lo, hi, 1)

Size == Every(16, 8192, 2)

NumberOrAuto(lo, hi) == [kind |-> "number or auto", lo |-> lo, hi |-> hi, step |-> 1]

Word(words) == [kind |-> "word", words |-> words]

Text == Word({Blank, Filled})

Named == Word({Filled})

Flag == Word({"true"})

Port == Number(1, 65535)

Fps == Number(1, 240)

Bitrate == Number(1, 100000)

Bpf == Number(1, 10000)

Seconds == Number(1, 3600)

Switch == Word({"true", "false"})

\* Whether an option takes a value.
Takes(spec, v) ==
    CASE spec.kind = "word" -> v \in spec.words
      [] OTHER -> \/ spec.kind = "number or auto" /\ v = AutoChoice
                  \/ v \in spec.lo .. spec.hi /\ v % spec.step = 0

\* What a user may write after an option: the values at and beyond its limits.
Attempts(spec) ==
    CASE spec.kind = "word" -> spec.words \cup {"another word"}
      [] OTHER -> {NotANumber, AutoChoice, spec.lo - 1, spec.lo, spec.lo + 1, spec.hi, spec.hi + 1}

(***************************************************************************)
(* The option tables.                                                      *)
(***************************************************************************)
Encoders == Word({"auto", "software", "microsoft", "hardware", "intel-qsv"})

Converters == Word({"auto", "cpu", "d3d11"})

Pacings == Word({"auto", "batch", "off"})

FecModes == Word({"off", "single-xor"})

PayloadSizes == Number(576, 1472)

KeyframeIntervals == Number(1, 120)

RepairModes == Word({"off", "nack"})

Matrices == Word({"bt601", "bt709"})

RefreshDetection == Word({"auto", "off"})

RateCaps == Word({"auto", "60", "75", "90", "120"})

AdaptiveModes == Word({"off", "smoothness"})

Scales == Word({"exact", "fit", "stretch"})

Windows == Word({"windowed", "borderless-fullscreen"})

Renderers == Word({"gdi", "d3d11"})

SoundSources == Word({"off", "system"})

SoundOutputs == Word({"off", "on"})

SyncModes == Word({"off", "conservative"})

FrameLengths == Every(10, 20, 10)

JitterDelays == Number(0, 500)

IdleTimes == Number(0, 3600)

ReorderWaits == NumberOrAuto(1, 1000)

SenderTable ==
    "--host" :> Text @@ "--port" :> Port @@ "--fps" :> Fps @@ "--bitrate-mbps" :> Bitrate

ReceiverTable == "--bind" :> Text @@ "--port" :> Port

CaptureProbeTable == "--duration-sec" :> Seconds @@ "--target-fps" :> Fps

GpuConvertTable ==
    "--duration-sec" :> Seconds @@ "--target-fps" :> Fps @@ "--out-width" :> Size
    @@ "--out-height" :> Size @@ "--color-matrix" :> Matrices @@ "--debug-dump-nv12" :> Text
    @@ "--debug-dump-bgra" :> Text @@ "--debug-dump-limit" :> Number(1, 100)

EncodeProbeTable ==
    "--width" :> Size @@ "--height" :> Size @@ "--fps" :> Fps @@ "--duration-sec" :> Seconds
    @@ "--bitrate-mbps" :> Bitrate @@ "--output" :> Named @@ "--encoder" :> Encoders
    @@ "--color-matrix" :> Matrices

CaptureEncodeTable ==
    "--duration-sec" :> Seconds @@ "--target-fps" :> Fps @@ "--bitrate-mbps" :> Bitrate
    @@ "--quality-bpf" :> Bpf @@ "--out-width" :> Size @@ "--out-height" :> Size
    @@ "--output" :> Named @@ "--encoder" :> Encoders @@ "--convert-backend" :> Converters
    @@ "--color-matrix" :> Matrices

\* The options of parse_adaptive_sender_option, read wherever the sender's own
\* options leave an argument unmatched.
AdaptiveTable ==
    "--adaptive-quality" :> AdaptiveModes @@ "--display-refresh-detect" :> RefreshDetection
    @@ "--max-fps" :> RateCaps @@ "--enable-high-refresh" :> Switch
    @@ "--adaptive-min-width" :> Size @@ "--adaptive-min-height" :> Size
    @@ "--adaptive-min-fps" :> Fps @@ "--adaptive-max-bitrate-mbps" :> Bitrate
    @@ "--adaptive-feedback-ms" :> Number(500, 2000) @@ "--adaptive-upgrade-stable-sec" :> Seconds
    @@ "--adaptive-resolution-cooldown-sec" :> Seconds @@ "--adaptive-fps-cooldown-sec" :> Seconds
    @@ "--interactive-lag-guard" :> Switch

SendProbeTable ==
    "--host" :> Text @@ "--port" :> Port @@ "--duration-sec" :> Seconds @@ "--target-fps" :> Fps
    @@ "--bitrate-mbps" :> Bitrate @@ "--quality-bpf" :> Bpf @@ "--out-width" :> Size
    @@ "--out-height" :> Size @@ "--color-matrix" :> Matrices @@ "--encoder" :> Encoders
    @@ "--convert-backend" :> Converters @@ "--packet-pacing" :> Pacings @@ "--fec" :> FecModes
    @@ "--udp-payload-size" :> PayloadSizes @@ "--keyframe-interval-sec" :> KeyframeIntervals
    @@ "--repair" :> RepairModes @@ "--repair-cache-ms" :> Number(500, 10000) @@ AdaptiveTable

\* screen-send spells some options in two ways; the model keeps one of them.
ScreenSendTable == SendProbeTable @@ "--audio" :> SoundSources @@ "--verbose" :> Flag

BenchTable ==
    "--frames" :> Number(1, 100000) @@ "--packets-per-frame" :> Number(1, 65535)
    @@ "--payload-size" :> Number(1, 1434) @@ "--loss-rate" :> Number(0, 100)

AudioProbeTable == "--duration-sec" :> Seconds @@ "--output" :> Text

AudioSendTable ==
    "--host" :> Text @@ "--port" :> Port @@ "--duration-sec" :> Seconds
    @@ "--frame-ms" :> FrameLengths

AudioPlayTable ==
    "--bind" :> Text @@ "--port" :> Port @@ "--duration-sec" :> Seconds
    @@ "--jitter-buffer-ms" :> JitterDelays

ColorTestTable ==
    "--output" :> Text @@ "--width" :> Size @@ "--height" :> Size @@ "--fps" :> Fps
    @@ "--duration-sec" :> Seconds @@ "--bitrate-mbps" :> Bitrate @@ "--color-matrix" :> Matrices

RecvDumpTable ==
    "--bind" :> Text @@ "--port" :> Port @@ "--output" :> Named
    @@ "--idle-timeout-sec" :> IdleTimes @@ "--drop-damaged-gop" :> Switch
    @@ "--reorder-wait-ms" :> ReorderWaits

FileViewerTable ==
    "--input" :> Text @@ "--render-scale" :> Scales @@ "--window-mode" :> Windows
    @@ "--render-backend" :> Renderers

RecvViewTable ==
    "--bind" :> Text @@ "--port" :> Port @@ "--fps" :> Fps
    @@ "--frame-timeout-ms" :> Number(1, 60000) @@ "--max-inflight-frames" :> Number(1, 10000)
    @@ "--max-decode-queue" :> Number(1, 1000) @@ "--strict-decode-order" :> Switch
    @@ "--drop-damaged-gop" :> Switch @@ "--reorder-wait-ms" :> ReorderWaits
    @@ "--playout-delay-ms" :> Number(0, 500) @@ "--debug-dump-frames" :> Text
    @@ "--debug-dump-limit" :> Number(1, 10000) @@ "--json-interval-ms" :> Number(100, 60000)
    @@ "--title" :> Named @@ "--render-scale" :> Scales @@ "--window-mode" :> Windows
    @@ "--render-backend" :> Renderers @@ "--repair" :> RepairModes
    @@ "--nack-delay-ms" :> Number(1, 50) @@ "--nack-repeat-ms" :> Number(1, 50)
    @@ "--nack-max-rounds" :> Number(1, 10) @@ "--display-refresh-detect" :> RefreshDetection
    @@ "--adaptive-feedback-ms" :> Number(500, 2000)

\* The options screen-recv has beyond those of the viewer probe.
ScreenOnlyTable ==
    "--duration-sec" :> Seconds @@ "--audio" :> SoundOutputs
    @@ "--audio-jitter-buffer-ms" :> JitterDelays @@ "--av-sync" :> SyncModes @@ "--verbose" :> Flag

ScreenRecvTable == RecvViewTable @@ ScreenOnlyTable

Tables ==
    "sender" :> SenderTable @@ "receiver" :> ReceiverTable @@ "capture-probe" :> CaptureProbeTable
    @@ "gpu-convert-probe" :> GpuConvertTable @@ "encode-probe" :> EncodeProbeTable
    @@ "capture-encode-probe" :> CaptureEncodeTable @@ "h264-send-probe" :> SendProbeTable
    @@ "h264-recv-dump" :> RecvDumpTable @@ "h264-recv-view" :> RecvViewTable
    @@ "screen-send" :> ScreenSendTable @@ "screen-recv" :> ScreenRecvTable
    @@ "h264-file-viewer" :> FileViewerTable @@ "color-test-pattern" :> ColorTestTable
    @@ "bench-reassembly" :> BenchTable @@ "audio-capture-probe" :> AudioProbeTable
    @@ "audio-send" :> AudioSendTable @@ "audio-recv-play" :> AudioPlayTable

ASSUME SubcommandAssumption == Subcommands \subseteq DOMAIN Tables

Requires ==
    "h264-recv-view" :> {"--port"} @@ "screen-send" :> {"--host", "--port"}
    @@ "screen-recv" :> {"--port"} @@ "h264-file-viewer" :> {"--input"}
    @@ "audio-send" :> {"--host", "--port"} @@ "audio-recv-play" :> {"--port"}

Required(p) == IF p \in DOMAIN Requires THEN Requires[p] ELSE {}

(***************************************************************************)
(* Defaults, of the options something below depends on, and what follows   *)
(* from the settings once every argument is read.                          *)
(***************************************************************************)
AdaptiveDefaults ==
    "--adaptive-quality" :> "off" @@ "--adaptive-min-width" :> 1280
    @@ "--adaptive-min-height" :> 720 @@ "--adaptive-min-fps" :> 30

SendProbeDefaults ==
    "--host" :> Filled @@ "--target-fps" :> 30 @@ "--out-width" :> 1280 @@ "--out-height" :> 720
    @@ "--repair" :> "off" @@ AdaptiveDefaults

ScreenSendDefaults ==
    "--target-fps" :> 60 @@ "--out-width" :> 1920 @@ "--out-height" :> 1080
    @@ "--repair" :> "nack" @@ "--audio" :> "off" @@ AdaptiveDefaults

ScreenRecvDefaults ==
    "--playout-delay-ms" :> 120 @@ "--repair" :> "off" @@ "--audio" :> "off"
    @@ "--render-backend" :> "d3d11"

OtherDefaults ==
    "--fps" :> 30 @@ "--target-fps" :> 30 @@ "--bitrate-mbps" :> 400 @@ "--width" :> 1280
    @@ "--height" :> 720 @@ "--out-width" :> 1280 @@ "--out-height" :> 720 @@ "--payload-size" :> 1414 @@ "--packets-per-frame" :> 120

Defaults(p) ==
    CASE p = "h264-send-probe" -> SendProbeDefaults
      [] p = "screen-send" -> ScreenSendDefaults
      [] p = "screen-recv" -> ScreenRecvDefaults
      [] p = "color-test-pattern" ->
            "--width" :> 1920 @@ "--height" :> 1080 @@ "--fps" :> 30 @@ "--bitrate-mbps" :> 800
      [] p = "capture-encode-probe" ->
            "--target-fps" :> 30 @@ "--out-width" :> 1280 @@ "--out-height" :> 720
      [] OTHER ->
            [o \in (DOMAIN OtherDefaults \cap DOMAIN Tables[p]) \ Required(p) |-> OtherDefaults[o]]

DefaultBitrate(p) == IF p = "screen-send" THEN 2200 ELSE 400

Is(s, o, v) == o \in DOMAIN s /\ s[o] = v

\* Millions of pixels a second, rounded up.
Megapixels(s) ==
    LET kilo == (s["--out-width"] * s["--out-height"] + 999) \div 1000
    IN  (kilo * s["--target-fps"] + 999) \div 1000

\* BitrateSelection::resolve: an explicit rate, else one from the quality asked
\* for, else the subcommand's own.
ResolvedBitrate(p, s) ==
    IF "--bitrate-mbps" \in DOMAIN s THEN s["--bitrate-mbps"]
    ELSE IF "--quality-bpf" \in DOMAIN s THEN (Megapixels(s) * s["--quality-bpf"] + 9) \div 10
    ELSE DefaultBitrate(p)

\* Sound asks for a longer playout delay unless one was given.
PlayoutDelay(given, s) ==
    IF s["--audio"] = "on" /\ "--playout-delay-ms" \notin DOMAIN given
    THEN 250
    ELSE s["--playout-delay-ms"]

SyncMode(s) ==
    IF s["--audio"] # "on" THEN "off"
    ELSE IF "--av-sync" \in DOMAIN s THEN s["--av-sync"]
    ELSE "conservative"

\* What is given, and the rest where nothing is.
Beside(given, rest) ==
    [o \in DOMAIN given \cup DOMAIN rest |-> IF o \in DOMAIN given THEN given[o] ELSE rest[o]]

\* The settings a subcommand starts with.
Derived(p, given) ==
    LET s == Beside(given, Defaults(p))
    IN  CASE p \in {"capture-encode-probe", "h264-send-probe", "screen-send"} ->
                Beside([bitrate |-> ResolvedBitrate(p, s)], s)
          [] p = "screen-recv" ->
                Beside([playout |-> PlayoutDelay(given, s), sync |-> SyncMode(s)], s)
          [] OTHER -> s

(***************************************************************************)
(* What a subcommand checks when it starts.                                *)
(***************************************************************************)
Within(s, o, lo, hi) == o \in DOMAIN s => s[o] \in lo .. hi

EvenSize(s, w, h) == s[w] % 2 = 0 /\ s[h] % 2 = 0 /\ s[w] > 0 /\ s[h] > 0

NotBlank(s, o) == ~Is(s, o, Blank)

\* The bit rate fits the 32-bit attribute of the encoder.
EncoderTakes(rate) == rate > 0 /\ rate <= 429496

\* A prototype frame carries its share of the bit rate, 16 MiB at most.
FrameFits(s) == (s["--bitrate-mbps"] * 1250) \div s["--fps"] <= 16777216

MinimaFit(s) ==
    \/ s["--adaptive-quality"] = "off"
    \/ /\ s["--adaptive-min-width"] <= s["--out-width"]
       /\ s["--adaptive-min-height"] <= s["--out-height"]
       /\ s["--adaptive-min-fps"] <= s["--target-fps"]

ValidSend(s) ==
    /\ NotBlank(s, "--host")
    /\ Within(s, "--udp-payload-size", 576, 1472)
    /\ Within(s, "--repair-cache-ms", 500, 10000)
    /\ Within(s, "--adaptive-feedback-ms", 500, 2000)
    /\ MinimaFit(s)
    /\ ~Is(s, "--adaptive-max-bitrate-mbps", 0)

ValidStream(s) ==
    /\ s["--target-fps"] > 0
    /\ s["bitrate"] > 0
    /\ EvenSize(s, "--out-width", "--out-height")

ValidView(s) ==
    /\ ~Is(s, "--frame-timeout-ms", 0)
    /\ Within(s, "--playout-delay-ms", 0, 500)
    /\ ~Is(s, "--max-inflight-frames", 0) /\ ~Is(s, "--max-decode-queue", 0)
    /\ ~Is(s, "--json-interval-ms", 0)
    /\ NotBlank(s, "--title") /\ NotBlank(s, "--debug-dump-frames")
    /\ ~Is(s, "--debug-dump-limit", 0)
    /\ Within(s, "--nack-delay-ms", 1, 50) /\ Within(s, "--nack-repeat-ms", 1, 50)
    /\ Within(s, "--nack-max-rounds", 1, 10)
    /\ Within(s, "--audio-jitter-buffer-ms", 0, 500)
    /\ Within(s, "--adaptive-feedback-ms", 500, 2000)

ValidPicture(s) ==
    /\ EvenSize(s, "--width", "--height")
    /\ s["--fps"] > 0
    /\ NotBlank(s, "--output")
    /\ EncoderTakes(s["--bitrate-mbps"])

\* The benchmark builds its datagrams with the sender's own encoder, which has a
\* least datagram size and a most for the packets of a frame.
BenchFits(s) ==
    /\ s["--payload-size"] + 38 \in 576 .. 1472
    /\ s["--packets-per-frame"] <= 31190

Starts(p, s) ==
    CASE p \in {"h264-send-probe", "screen-send"} ->
            ValidSend(s) /\ ValidStream(s) /\ EncoderTakes(s["bitrate"])
      [] p = "capture-encode-probe" ->
            ValidStream(s) /\ NotBlank(s, "--output") /\ EncoderTakes(s["bitrate"])
      [] p \in {"h264-recv-view", "screen-recv"} -> ValidView(s)
      [] p \in {"encode-probe", "color-test-pattern"} -> ValidPicture(s)
      [] p = "gpu-convert-probe" -> EvenSize(s, "--out-width", "--out-height")
      [] p = "h264-recv-dump" -> NotBlank(s, "--output")
      [] p = "audio-send" -> ("--frame-ms" \in DOMAIN s => s["--frame-ms"] \in {10, 20})
      [] p = "bench-reassembly" -> BenchFits(s)
      [] p = "sender" -> FrameFits(s)
      [] OTHER -> TRUE

(***************************************************************************)
(* The command lines of the graphical client.                              *)
(***************************************************************************)
Profile(preset) ==
    CASE preset = "r4_default" ->
            [w |-> 1920, h |-> 1080, fps |-> 60, rate |-> 2200, delay |-> 250, repair |-> "nack"]
      [] preset = "stable" ->
            [w |-> 1280, h |-> 720, fps |-> 30, rate |-> 2000, delay |-> 120, repair |-> "off"]
      [] preset = "recommended" ->
            [w |-> 1920, h |-> 1080, fps |-> 60, rate |-> 5000, delay |-> 250, repair |-> "nack"]
      [] preset = "high_quality" ->
            [w |-> 1920, h |-> 1080, fps |-> 60, rate |-> 8000, delay |-> 300, repair |-> "nack"]

ReceiverCommand(preset, audio) ==
    LET c == Profile(preset)
    IN  << <<"--bind", Filled>>, <<"--port", 50130>>, <<"--title", Filled>>,
           <<"--playout-delay-ms", c.delay>>, <<"--repair", c.repair>>,
           <<"--render-backend", "d3d11">> >>
        \o (IF audio THEN << <<"--audio", "on">> >> ELSE <<>>)

SenderCommand(preset, audio) ==
    LET c == Profile(preset)
    IN  << <<"--host", Filled>>, <<"--port", 50130>>, <<"--out-width", c.w>>,
           <<"--out-height", c.h>>, <<"--target-fps", c.fps>>, <<"--bitrate-mbps", c.rate>>,
           <<"--repair", c.repair>>, <<"--adaptive-quality", "off">>,
           <<"--encoder", "auto">>, <<"--convert-backend", "auto">> >>
        \o (IF audio THEN << <<"--audio", "system">> >> ELSE <<>>)

(***************************************************************************)
(* Reading a command line.                                                 *)
(***************************************************************************)
LineInit ==
    /\ program = "none" /\ client = NoClient /\ line = <<>>
    /\ typed = 0 /\ settings = <<>> /\ launch = "reading"

\* A user names a subcommand, and gives it what it requires or not.
Enter(p, given) ==
    /\ program = "none"
    /\ program' = p
    /\ line' = given
    /\ UNCHANGED <<client, typed, settings, launch>>

RequiredArguments(p) ==
    CASE Required(p) = {"--port"} -> << <<"--port", 50130>> >>
      [] Required(p) = {"--host", "--port"} -> << <<"--host", Filled>>, <<"--port", 50130>> >>
      [] Required(p) = {"--input"} -> << <<"--input", Filled>> >>
      [] OTHER -> <<>>

\* The graphical client starts one end of a screen share.
Share(preset, audio, side) ==
    /\ program = "none"
    /\ client' = [preset |-> preset, sound |-> audio, side |-> side]
    /\ IF side = "sender"
       THEN program' = "screen-send" /\ line' = SenderCommand(preset, audio)
       ELSE program' = "screen-recv" /\ line' = ReceiverCommand(preset, audio)
    /\ UNCHANGED <<typed, settings, launch>>

Refuse == launch' = "refused" /\ settings' = <<>>

Read(o, v) ==
    IF Takes(Tables[program][o], v)
    THEN settings' = (o :> v) @@ settings /\ UNCHANGED launch
    ELSE Refuse

ReadLine ==
    /\ program # "none" /\ launch = "reading" /\ line # <<>>
    /\ Read(Head(line)[1], Head(line)[2])
    /\ line' = Tail(line)
    /\ UNCHANGED <<program, client, typed>>

Typing ==
    /\ program # "none" /\ launch = "reading" /\ line = <<>>
    /\ client = NoClient /\ typed < MaxTyped
    /\ typed' = typed + 1
    /\ UNCHANGED <<program, client, line>>

ReadTyped(o, v) == Typing /\ Read(o, v)

\* An argument that is no option of the subcommand, or an option at the end of
\* the line without its value.
ReadWrong == Typing /\ Refuse

ReadHelp == Typing /\ launch' = "help" /\ settings' = <<>>

\* The arguments are used up.
FinishReading ==
    /\ program # "none" /\ launch = "reading" /\ line = <<>>
    /\ IF Required(program) \subseteq DOMAIN settings /\ NotBlank(settings, "--input")
       THEN settings' = Derived(program, settings) /\ launch' = "accepted"
       ELSE Refuse
    /\ UNCHANGED <<program, client, line, typed>>

\* The subcommand starts, or stops over its configuration.
Start ==
    /\ launch = "accepted"
    /\ launch' = IF Starts(program, settings) THEN "started" ELSE "stopped"
    /\ UNCHANGED <<program, client, line, typed, settings>>

LineNext ==
    \/ \E p \in Subcommands : \E given \in {<<>>, RequiredArguments(p)} : Enter(p, given)
    \/ \E preset \in Presets, audio \in BOOLEAN, side \in {"sender", "receiver"} :
            Share(preset, audio, side)
    \/ ReadLine
    \/ program # "none" /\ \E o \in DOMAIN Tables[program] :
                               \E v \in Attempts(Tables[program][o]) : ReadTyped(o, v)
    \/ ReadWrong
    \/ ReadHelp
    \/ FinishReading
    \/ Start

LineSpec == LineInit /\ [][LineNext]_lineVars

(***************************************************************************)
(* Properties                                                              *)
(***************************************************************************)
\* Every setting read is one its option takes, and what was accepted has every
\* option its subcommand cannot do without (parse_args).
LineTypeOK ==
    /\ program \in Subcommands \cup {"none", "screen-send", "screen-recv"}
    /\ launch \in {"reading", "refused", "help", "accepted", "started", "stopped"}
    /\ typed \in 0 .. MaxTyped
    /\ launch \in {"accepted", "started"} => Required(program) \subseteq DOMAIN settings
    /\ launch \in {"refused", "help"} => settings = <<>>

\* What the argument parser lets through, the subcommand's own check lets
\* through as well, save where two settings contradict each other or a path is
\* blank: the ranges of the one lie within those of the other, up to their ends
\* (parse_args against the validate_config of each subcommand).
AcceptedStarts ==
    launch = "stopped" =>
        \/ program \in {"h264-send-probe", "screen-send"} /\ ~MinimaFit(settings)
        \/ "bitrate" \in DOMAIN settings /\ "--quality-bpf" \in DOMAIN settings
           /\ "--bitrate-mbps" \notin DOMAIN settings /\ settings["bitrate"] > 100000
        \/ program = "sender" /\ settings["--fps"] < 8
        \/ program = "bench-reassembly"
        \/ \E o \in {"--host", "--output", "--debug-dump-frames"} :
                Is(settings, o, Blank)

\* The two ends of a screen share started from one preset both start, and agree:
\* the sender captures the preset's profile at its bit rate, the receiver waits
\* the preset's delay, both repair or neither does, and sound is sent, played
\* and synchronised exactly when it was asked for (screen_runtime.py against
\* parse_screen_send_args and parse_screen_recv_args).
PresetsMeet ==
    client # NoClient =>
        /\ launch \notin {"refused", "help", "stopped"}
        /\ launch = "started" =>
            LET c == Profile(client.preset)
            IN  /\ settings["--repair"] = c.repair
                /\ (settings["--audio"] # "off") <=> client.sound
                /\ client.side = "sender" =>
                    /\ <<settings["--out-width"], settings["--out-height"]>> = <<c.w, c.h>>
                    /\ settings["--target-fps"] = c.fps /\ settings["bitrate"] = c.rate
                /\ client.side = "receiver" =>
                    /\ settings["playout"] = c.delay
                    /\ (settings["sync"] # "off") <=> client.sound

==============================================================================
