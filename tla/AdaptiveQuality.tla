-------------------------- MODULE AdaptiveQuality --------------------------
(***************************************************************************)
(* How the sender of a screen share adapts its quality.  Once per report   *)
(* interval the encode thread                                              *)
(*                                                                         *)
(*   - decides whether the receiver's feedback counts (the profile it is   *)
(*     about is the one that runs, and is settled),                        *)
(*   - lets the frame rate policy choose the nominal frame rate,           *)
(*   - gives the interval to the AdaptiveQualityController, which counts   *)
(*     windows of severe and mild pressure and of stability, and moves one *)
(*     level down or up a ladder of seven profiles, changing ONE dimension *)
(*     (resolution, frame rate or bitrate) of the running profile,         *)
(*   - carries the action out: a bitrate in the running encoder, anything  *)
(*     else (and a bitrate the encoder refuses) by a new pipeline, which   *)
(*     starts a profile transition and ends the stream when it fails.      *)
(*                                                                         *)
(* The controller commits its decision before the encoder has followed.    *)
(* One step of Report is one report interval; `since' and `warm' count     *)
(* intervals.  What the feedback contains is abstracted to the class the   *)
(* controller puts it in.                                                  *)
(***************************************************************************)
EXTENDS Integers, FiniteSets, FiniteSetsExt

CONSTANTS
    StartProfile,    \* [resolution, fps, bitrate], resolution in lines
    MaxFps,          \* user_max_fps
    SourceRates,     \* refresh rates the captured display may have
    ReceiverRates,   \* refresh rates the receiver's display may report
    Estimates,       \* sustainable frame rates of capture and encoder
    MinLines, MinFps,            \* floors
    Warmup, MinValid, Span,      \* windows before the first decision
    MildWindows, SevereWindows, StableWindows,
    Cooldown                     \* [resolution, fps, bitrate]: intervals

\* Windows of severe pressure below Q4 before the frame rate is reduced.
EmergencyWindows == 5

EstimateWindows == 3
Dimensions  == {"resolution", "fps", "bitrate"}
NoAction    == "none"
SafeTiers   == {30, 45, 50, 60, 75, 90, 120}
Q4 == 4
E2 == 6
Levels      == 0..E2                       \* Q0..Q4, E1, E2

Least(a, b) == IF a < b THEN a ELSE b
Most(a, b)  == IF a > b THEN a ELSE b

\* The profiles of the ladder, from the bitrate the stream was started with.
Ladder ==
    LET B == StartProfile.bitrate
        lines == <<1080, 900, 720, 720, 720, 720, 720>>
        fps   == <<60, 60, 60, 60, 60, 45, 30>>
        kbps  == <<B, B, B, Least(B, 18), Least(B, 15), Least(B, 15), Least(B, 15)>>
    IN  [l \in Levels |-> [resolution |-> lines[l + 1], fps |-> fps[l + 1],
                           bitrate |-> kbps[l + 1]]]

StartLevel ==
    CASE StartProfile.fps <= 30 /\ StartProfile.resolution <= 720 -> 6
      [] StartProfile.fps \in 31..45 /\ StartProfile.resolution <= 720 -> 5
      [] OTHER -> CASE StartProfile.resolution >= 1080 -> 0
                    [] StartProfile.resolution \in 900..1079 -> 1
                    [] OTHER -> 2

ASSUME AdaptiveAssumption ==
    /\ StartProfile \in [resolution : Nat, fps : Nat, bitrate : Nat]
    /\ MinFps \in Nat /\ Warmup \in Nat /\ MinValid \in Nat /\ Span \in Nat
    /\ MildWindows \in Nat \ {0} /\ SevereWindows \in Nat \ {0}
    /\ StableWindows \in Nat \ {0}
    /\ Cooldown \in [resolution : Nat, fps : Nat, bitrate : Nat]

\* As far as a run of windows of one kind is counted.
LongestRun == Most(EmergencyWindows, Most(MildWindows, StableWindows))

VARIABLES
    ctl,       \* the AdaptiveQualityController
    policy,    \* the windows the estimators and the tracker have seen
    pipe,      \* the pipeline: what the encode thread does and runs
    earned     \* ghost: the eligible windows since the last disturbance

adaptiveVars == <<ctl, policy, pipe, earned>>

AdaptiveInit ==
    /\ ctl = [level |-> StartLevel, cur |-> StartProfile,
              nominalFps |-> StartProfile.fps,
              stable |-> 0, mild |-> 0, severe |-> 0, valid |-> 0, warm |-> 0,
              since |-> Cooldown]
    /\ policy = [estimates |-> 0, span |-> 0]
    /\ pipe = [at |-> "report", changing |-> FALSE, pending |-> NoAction,
               encoder |-> StartProfile]
    /\ earned = [clean |-> 0, of |-> NoAction, n |-> 0]

-----------------------------------------------------------------------------
(* The controller's bookkeeping.                                            *)

ResetWindows(c) == [c EXCEPT !.stable = 0, !.mild = 0, !.severe = 0]

\* Mutant: the windows of a profile still count for the next one.
ForgivingIneligible(c) == ResetWindows(c)

\* observe_ineligible_feedback, and the identity of a level without an action
Ineligible(c) == [ResetWindows(c) EXCEPT !.valid = 0]

FinishTransition(c) == [Ineligible(c) EXCEPT !.warm = 0]

\* An interval passes.
Elapse(c) ==
    [c EXCEPT !.warm  = Least(@ + 1, Warmup),
              !.since = [d \in Dimensions |-> Least(@[d] + 1, Cooldown[d])]]

\* apply_action: one dimension of the running profile changes.
Apply(c, d, value) ==
    [c EXCEPT !.cur[d] = value, !.since[d] = 0, !.valid = 0,
              !.stable = 0, !.mild = 0,
              !.severe = IF d = "fps" THEN @ ELSE 0]

\* What the controller does next, and the action it orders.
Stay(c) == [ctl |-> c, action |-> NoAction]

-----------------------------------------------------------------------------
(* The ladder.                                                              *)

\* move_to_profile: the first dimension that differs is changed, unless it
\* cools down; a level that differs in nothing is only taken note of.
StepTo(c, l) ==
    LET target  == [Ladder[l] EXCEPT !.fps = Least(@, c.nominalFps)]
        differs == {d \in Dimensions : c.cur[d] # target[d]}
        d       == CASE "resolution" \in differs -> "resolution"
                     [] differs \in {{"fps"}, {"fps", "bitrate"}} -> "fps"
                     [] OTHER -> "bitrate"
    IN  CASE differs = {} -> Stay([Ineligible(c) EXCEPT !.level = l])
          [] differs # {} /\ c.since[d] < Cooldown[d] -> Stay(c)
          [] OTHER -> [ctl |-> [Apply(c, d, target[d]) EXCEPT !.level = l],
                       action |-> d]

Degrade(c, isSevere) ==
    CASE c.level < Q4 ->
            IF Ladder[c.level + 1].resolution < MinLines
            THEN Stay(c) ELSE StepTo(c, c.level + 1)
      [] c.level \in Q4..(E2 - 1) /\ isSevere /\ c.severe >= EmergencyWindows ->
            IF Ladder[c.level + 1].fps < MinFps
            THEN Stay(c) ELSE StepTo(c, c.level + 1)
      [] OTHER -> Stay(c)

\* Mutant: the nominal level itself is never taken again.
RecoverBelow(c) ==
    IF c.level = 0 \/ c.level - 1 <= StartLevel
    THEN Stay(c) ELSE StepTo(c, c.level - 1)

Recover(c) ==
    IF c.level = 0 \/ c.level - 1 < StartLevel
    THEN Stay(c) ELSE StepTo(c, c.level - 1)

\* The count of the window's class grows, the others start again.
Count(c, w) ==
    [ResetWindows(c) EXCEPT
        !.stable = IF w = "stable" THEN Least(c.stable + 1, StableWindows) ELSE 0,
        !.mild   = IF w = "mild"   THEN Least(c.mild + 1, MildWindows)     ELSE 0,
        !.severe = IF w = "severe" THEN Least(c.severe + 1, EmergencyWindows) ELSE 0]

\* observe_windowed for a window whose feedback is eligible.
Observe(c, w, spanReady) ==
    LET counted == [c EXCEPT !.valid = Least(@ + 1, MinValid)]
        n    == Count(counted, w)
    IN  CASE c.warm < Warmup \/ ~spanReady \/ counted.valid < MinValid ->
                Stay(ResetWindows(counted))
          [] OTHER ->
                CASE n.severe >= SevereWindows -> Degrade(n, TRUE)
                  [] n.mild >= MildWindows     -> Degrade(n, FALSE)
                  [] n.stable >= StableWindows -> Recover(n)
                  [] OTHER                     -> Stay(n)

\* enforce_fps_cap: a hard limit takes effect at once, whatever the level.
CapsFps(c, fps) == c.cur.fps > Most(fps, MinFps)
EnforceCap(c, fps) ==
    LET f == Most(fps, MinFps)
    IN  [ctl |-> Apply(c, "fps", f), action |-> "fps"]

-----------------------------------------------------------------------------
(* The frame rate policy.                                                   *)

\* A limit per party; 0 stands for a display or an estimate that is unknown.
\* An estimate counts only when it is above what the pipeline is set to.
Limits(source, receiver, estimate) ==
    {[by |-> "user", fps |-> Least(MaxFps, 60)]}
    \cup {l \in {[by |-> "source-display", fps |-> source]} : l.fps # 0}
    \cup {IF receiver = 0 THEN [by |-> "receiver-safe-default", fps |-> 60]
                          ELSE [by |-> "receiver-display", fps |-> receiver]}
    \cup {l \in {[by |-> "sustainable", fps |-> estimate]} :
            100 * l.fps > 105 * pipe.encoder.fps}

SafeTier(limit) ==
    LET below == {t \in SafeTiers : t <= limit}
    IN  IF below = {} THEN 30 ELSE Max(below)

\* The nominal frame rate, and whether a display or the user imposes it.
Decision(source, receiver, estimate) ==
    LET ls    == Limits(source, receiver, estimate)
        limit == Min({l.fps : l \in ls})
    IN  [fps  |-> SafeTier(limit),
         hard |-> \E l \in ls : l.fps = limit /\ l.by # "sustainable"]

-----------------------------------------------------------------------------
(* The encode thread.                                                       *)

\* Feedback counts when nothing is changing, or the change is just settled.
Eligible(w, settled) == w # "ineligible" /\ (pipe.changing => settled)

\* Ghost: the windows since the last disturbance, and the last run of a kind.
Earn(w, settled) ==
    IF w = "ineligible" \/ (pipe.changing /\ ~settled)
    THEN [clean |-> 0, of |-> NoAction, n |-> 0]
    ELSE [clean |-> Least(earned.clean + 1, MinValid),
          of    |-> w,
          n     |-> IF w = earned.of THEN Least(earned.n + 1, LongestRun) ELSE 1]

NothingEarned == [clean |-> 0, of |-> NoAction, n |-> 0]

\* What the estimators, and the tracker of the last seconds, have seen when the
\* interval is over.
Estimated(n) == Least(n + 1, EstimateWindows)
Tracked(n)   == Least(n + 1, Span)

Heard(eligible) ==
    [estimates |-> IF eligible THEN Estimated(policy.estimates) ELSE policy.estimates,
     span      |-> Tracked(policy.span)]

\* A hard limit of the frame rate comes before what the window calls for.
Ordered(c, d, w, eligible, span) ==
    CASE ~eligible -> Stay(Ineligible(c))
      [] eligible /\ d.hard /\ CapsFps(c, d.fps) -> EnforceCap(c, d.fps)
      [] OTHER -> Observe(c, w, span = Span)

\* refresh_adaptive_state for one report interval.
Report(w, settled, source, receiver, estimate) ==
    /\ pipe.at = "report"
    /\ settled => pipe.changing
    /\ earned' = Earn(w, settled)
    /\ \E eligible \in {Eligible(w, settled)} : \E heard \in {Heard(eligible)} :
       /\ estimate # 0 => heard.estimates = EstimateWindows
       /\ receiver # 0 => eligible
       /\ policy' = heard
       /\ \E d \in {Decision(source, receiver, estimate)},
             c \in {IF settled THEN FinishTransition(Elapse(ctl)) ELSE Elapse(ctl)} :
          \E r \in {Ordered([c EXCEPT !.nominalFps = Most(d.fps, MinFps)],
                            d, w, eligible, heard.span)} :
             /\ ctl' = r.ctl
             /\ pipe' = [pipe EXCEPT !.changing = @ /\ ~settled,
                                     !.pending = r.action,
                                     !.at = IF r.action = NoAction
                                            THEN "report" ELSE "control"]

\* The change was not settled in time: the stream ends.
Deadline ==
    /\ pipe.at = "report" /\ pipe.changing
    /\ pipe' = [pipe EXCEPT !.at = "ended", !.changing = FALSE]
    /\ ctl' = FinishTransition(ctl)
    /\ UNCHANGED <<policy, earned>>

\* A bitrate is set in the running encoder; a refusal, and every other action,
\* ends the pipeline so that another is built.
TakeControl(ok) ==
    /\ pipe.at = "control"
    /\ IF pipe.pending = "bitrate" /\ ok
       THEN /\ pipe' = [pipe EXCEPT !.at = "report", !.pending = NoAction,
                                    !.encoder.bitrate = ctl.cur.bitrate]
            /\ policy' = [policy EXCEPT !.span = 0]
       ELSE /\ pipe' = [pipe EXCEPT !.at = "rebuild"]
            /\ UNCHANGED policy
    /\ earned' = NothingEarned
    /\ UNCHANGED ctl

\* The next pipeline is prepared and announced to the receiver; either failing
\* ends the stream.
Rebuild(ok) ==
    /\ pipe.at = "rebuild"
    /\ IF ok
       THEN /\ pipe' = [at |-> "report", changing |-> TRUE, pending |-> NoAction,
                        encoder |-> ctl.cur]
            /\ policy' = [estimates |-> 0, span |-> 0]
            /\ ctl' = Ineligible(ctl)
       ELSE /\ pipe' = [pipe EXCEPT !.at = "ended"]
            /\ UNCHANGED <<policy, ctl>>
    /\ UNCHANGED earned

Windows == {"severe", "mild", "stable", "neutral", "ineligible"}

Reports(w, settled) ==
    \E source \in SourceRates, receiver \in ReceiverRates, estimate \in Estimates :
        Report(w, settled, source, receiver, estimate)

AdaptiveNext ==
    \/ \E w \in Windows, settled \in BOOLEAN : Reports(w, settled)
    \/ Deadline
    \/ \E ok \in BOOLEAN : TakeControl(ok) \/ Rebuild(ok)

\* The encode thread keeps running: it carries actions out, a profile change is
\* settled or runs into its deadline (both are over once these steps are taken,
\* so they are said of states), and reports keep coming: while a stable window
\* still changes a count, one comes, which is recognised by what it earns.
StableWindowComes == pipe.at = "report" /\ pipe'.at # "ended" /\ earned'.of = "stable"
CountsAreFull     == ctl.stable = StableWindows /\ ctl.since = Cooldown

AdaptiveFairness ==
    /\ \/ []<>(pipe.at # "report" \/ CountsAreFull)
       \/ []<><<StableWindowComes>>_adaptiveVars
    /\ []<>~(pipe.at = "report" /\ pipe.changing)
    /\ []<>(pipe.at \notin {"control", "rebuild"})

-----------------------------------------------------------------------------
(* Properties.                                                              *)

Profiles == [resolution : Nat, fps : Nat, bitrate : Nat]

\* Types of the controller's, the policy's and the pipeline's state.
AdaptiveTypeOK ==
    /\ ctl.level \in StartLevel..E2
    /\ ctl.cur \in Profiles /\ pipe.encoder \in Profiles
    /\ ctl.nominalFps \in SafeTiers \cup {StartProfile.fps, MinFps}
    /\ ctl.stable \in 0..StableWindows /\ ctl.mild \in 0..MildWindows
    /\ ctl.severe \in 0..EmergencyWindows /\ ctl.valid \in 0..MinValid
    /\ ctl.warm \in 0..Warmup
    /\ \A d \in Dimensions : ctl.since[d] \in 0..Cooldown[d]
    /\ policy \in [estimates : 0..EstimateWindows, span : 0..Span]
    /\ pipe.at \in {"report", "control", "rebuild", "ended"}
    /\ pipe.changing \in BOOLEAN
    /\ pipe.pending \in Dimensions \cup {NoAction}

\* The controller decides before the encoder follows, and the encoder may
\* refuse: whenever the stream is between two decisions, the encoder runs
\* exactly the profile the controller believes in.
EncoderFollowsController == pipe.at = "report" => pipe.encoder = ctl.cur

\* A level is left only on windows of the profile that runs: since the last
\* change and the last feedback that did not count there were MinValid eligible
\* ones, the last of them a run of the class that justifies the move, and the
\* frame rate is reduced only by a long run of severe ones.
MovesAreEarned ==
    [][ctl'.level # ctl.level =>
         /\ earned'.clean >= MinValid
         /\ IF ctl'.level < ctl.level
            THEN earned'.of = "stable" /\ earned'.n >= StableWindows
            ELSE \/ earned'.of = "severe" /\ earned'.n >= SevereWindows
                 \/ earned'.of = "mild" /\ earned'.n >= MildWindows
         /\ ctl'.level > Most(ctl.level, Q4) =>
                earned'.of = "severe" /\ earned'.n >= EmergencyWindows]_adaptiveVars

\* The controller's picture of the stream is true, and it moves on evidence only.
ControllerIsSound == []EncoderFollowsController /\ MovesAreEarned

\* When every window that counts is stable from some time on, and no pipeline
\* fails, the stream returns to the level it was started at.
Calm == earned.of = "stable" \/ pipe.changing \/ pipe.at \in {"control", "rebuild"}
RecoversNominalLevel ==
    <>[](Calm /\ pipe.at # "ended") => <>[](ctl.level = StartLevel)
=============================================================================
