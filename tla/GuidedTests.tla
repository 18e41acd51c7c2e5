------------------------------ MODULE GuidedTests ------------------------------
(***************************************************************************)
(* The guided tests of the iLedHat (src/drivers/coolledux/guided-tests.ts):*)
(* what each of them needs, and what its interpret() concludes from what a *)
(* person answered; with evaluateTestAvailability of investigation/tests.ts*)
(* and the validation of investigation/observations.ts.                    *)
(*                                                                         *)
(* An answer is a validated submission: every required field is answered.  *)
(* A timed test measures a timeline: the image was wrong from the start,   *)
(* moved, was still until the person stopped watching too early (short),   *)
(* or was still for fifteen seconds (held).  layout stands for the         *)
(* optional questions about tiles, joins and corners, look for the ones a  *)
(* still animation asks.  Texts, pictures and notes are left out.          *)
(***************************************************************************)
EXTENDS Claims

CONSTANTS
  Timelines, Layouts, Looks, Nibbles  \* the answers a run of the model tells apart
ASSUME AnswersAssumption ==
  /\ Timelines \subseteq {"wrong", "moved", "short", "held"}
  /\ Layouts \subseteq {"unseen", "right", "broken", "turned"}
  /\ Looks \subseteq {"clean", "lit", "misaligned", "flickers"}
  /\ Nibbles \subseteq {"off", "white", "colored"}

\* The suite, in the order of the test ids, which breaks ties between recommendations.
TestOrder == <<"animation-static", "animation-static-pair", "color-white",
               "graffiti-black", "graffiti-staytime", "graffiti-timing",
               "normal-image-smoke", "pixel-channels">>
Tests == {TestOrder[k] : k \in DOMAIN TestOrder}

Category(t) ==
  CASE t = "graffiti-staytime" -> "advanced"
    [] t \in {"animation-static-pair", "color-white", "normal-image-smoke"} -> "optional"
    [] OTHER -> "recommended"
TargetClaims(t) ==
  CASE t = "graffiti-black" -> {"graffiti.black-semantics"}
    [] t = "graffiti-timing" -> {"graffiti.playback-stability", "graffiti.initial-render"}
    [] t = "graffiti-staytime" -> {"graffiti.playback-stability"}
    [] t = "animation-static" -> {"animation.static-single-frame"}
    [] t = "animation-static-pair" -> {"animation.static-identical-pair"}
    [] t = "pixel-channels" -> {"pixel.channel-map", "pixel.encoder-correctness",
                                "pixel.fourth-channel"}
    [] t = "color-white" -> {"pixel.color-calibration"}
    [] t = "normal-image-smoke" -> {"image.rendering"}
\* prerequisites: claims that must be verified
Needs(t) ==
  CASE t \in {"graffiti-black", "graffiti-timing"} ->
         {"stored-program.upload", "graffiti.initial-render"}
    [] t = "graffiti-staytime" -> {"stored-program.upload"}
    [] t \in {"animation-static", "pixel-channels"} ->
         {"animation.frames", "animation.black-semantics"}
    [] t = "animation-static-pair" -> {"animation.frames"}
    [] t = "color-white" -> {"pixel.channel-map"}
    [] t = "normal-image-smoke" -> {"stored-program.upload", "static.strategy"}
\* requiresCompletedTests
Follows(t) ==
  CASE t = "graffiti-staytime" -> {"graffiti-timing"}
    [] t = "animation-static-pair" -> {"animation-static"}
    [] OTHER -> {}
\* evaluateTestAvailability, over all the evidence and the tests that ran here
Available(t, pool, ran) ==
  /\ \A c \in Needs(t) : ClaimStatus(c, pool) = "verified"
  /\ Follows(t) \subseteq ran

------------------------------------------------------------------------------
(* Answers.                                                                *)
Answers(t) ==
  CASE t \in {"graffiti-timing", "graffiti-staytime"} ->
         [timeline : Timelines, layout : Layouts]
    [] t \in {"animation-static", "animation-static-pair"} ->
         [timeline : Timelines, look : Looks]
    [] t = "graffiti-black" -> [zero : {"off-black", "bright-white", "another-color"}]
    [] t = "pixel-channels" -> [rgb : {"as-sent", "permuted"},
                                nibble : Nibbles]
    [] t = "color-white" -> [good : BOOLEAN]
    [] t = "normal-image-smoke" -> [timeline : Timelines, layout : Layouts \ {"broken"}]

(* Interpretations: the claim updates and what they mean for the plan.     *)
Update(c, status) == [claim |-> c, status |-> status, hold |-> "none", shows |-> "none"]
Held(c, status, hold) == [Update(c, status) EXCEPT !.hold = hold]
Result(updates, resolution) == [updates |-> updates, resolution |-> resolution]
MeasuredHold(timeline) ==
  CASE timeline = "held" -> "enough" [] timeline = "wrong" -> "none" [] OTHER -> "short"

LayoutUpdates(layout) ==
  CASE layout = "broken" -> {Update("raster.tiling", "unresolved")}
    [] layout = "turned" -> {Update("raster.orientation", "unresolved")}
    [] layout = "right" -> {Update("raster.tiling", "verified"),
                            Update("raster.orientation", "verified")}
    [] OTHER -> {}

\* Movement at the baseline is an incomplete answer; at stayTime 0 no justified
\* configuration is left.
PlaybackUpdate(a, stayTime) ==
  Held("graffiti.playback-stability",
       CASE a.timeline = "held" -> "verified"
         [] a.timeline = "moved" /\ stayTime = 0 -> "rejected"
         [] OTHER -> "unknown",
       MeasuredHold(a.timeline))
\* interpretTiming: an image that was wrong leaves the movement unanswered.
InterpretTiming(a, stayTime) ==
  Result({Update("graffiti.initial-render",
                 IF a.timeline = "wrong" THEN "rejected" ELSE "verified"),
          PlaybackUpdate(a, stayTime)} \cup LayoutUpdates(a.layout),
         IF a.timeline \in {"held", "moved"} THEN "settled" ELSE "retryable-incomplete")

\* interpretAnimationStatic.  A flicker or a misaligned tile spoils an image that held
\* still; misaligned alone it ends in the branch of an observation stopped early.
StillStatus(a) ==
  CASE a.timeline = "wrong" \/ a.timeline = "moved" \/ a.look = "flickers" -> "rejected"
    [] a.timeline = "held" /\ a.look \notin {"misaligned", "flickers"} -> "verified"
    [] OTHER -> "unresolved"
Unlit(a) ==
  IF a.look = "lit" THEN {Update("animation.black-semantics", "unresolved")} ELSE {}
\* A mutant that takes any stillness for stability.
InterpretStillUntimed(a, c) ==
  Result({Held(c, IF a.timeline = "short" THEN "verified" ELSE StillStatus(a), "enough")}
           \cup Unlit(a), "settled")
InterpretStill(a, c) ==
  Result({Held(c, StillStatus(a), MeasuredHold(a.timeline))} \cup Unlit(a),
         IF StillStatus(a) = "unresolved" THEN "retryable-incomplete" ELSE "settled")

InterpretBlack(a) ==
  Result({IF a.zero = "another-color" THEN Update("graffiti.black-semantics", "unresolved")
          ELSE [Update("graffiti.black-semantics", "verified") EXCEPT !.shows = a.zero]},
         "settled")

\* A mutant that takes a mapped panel for one the encoder suits.
EncoderFollowsTheMap(a) ==
  {Update("pixel.channel-map", "verified"), Update("pixel.encoder-correctness", "verified")}
\* A permuted map is known as well; the encoder is wrong for it.
ChannelUpdates(a) ==
  {Update("pixel.channel-map", "verified"),
   Update("pixel.encoder-correctness",
          IF a.rgb = "as-sent" THEN "verified" ELSE "rejected")}
NibbleUpdates(a) ==
  {Update("pixel.fourth-channel", IF a.nibble = "off" THEN "rejected" ELSE "verified"),
   Update("pixel.white-channel",
          CASE a.nibble = "off" -> "rejected" [] a.nibble = "white" -> "verified"
            [] a.nibble = "colored" -> "unresolved")}
InterpretPixels(a) == Result(ChannelUpdates(a) \cup NibbleUpdates(a), "settled")

InterpretColors(a) ==
  Result({Update("pixel.color-calibration", IF a.good THEN "verified" ELSE "unresolved")},
         "settled")

\* The normal image path; nothing is concluded from an observation stopped early.
InterpretNormalImage(a) ==
  CASE a.timeline \in {"wrong", "moved"} ->
         Result({Update("image.rendering", "rejected")}, "settled")
    [] a.timeline = "short" -> Result({}, "retryable-incomplete")
    [] a.timeline = "held" ->
         Result({Held("image.rendering", "verified", "enough")}
                  \cup (IF a.layout = "turned"
                        THEN {Update("raster.orientation", "unresolved")} ELSE {}),
                "settled")

Interpret(t, a) ==
  CASE t = "graffiti-timing" -> InterpretTiming(a, 3)
    [] t = "graffiti-staytime" -> InterpretTiming(a, 0)
    [] t = "animation-static" -> InterpretStill(a, "animation.static-single-frame")
    [] t = "animation-static-pair" -> InterpretStill(a, "animation.static-identical-pair")
    [] t = "graffiti-black" -> InterpretBlack(a)
    [] t = "pixel-channels" -> InterpretPixels(a)
    [] t = "color-white" -> InterpretColors(a)
    [] t = "normal-image-smoke" -> InterpretNormalImage(a)
===============================================================================
