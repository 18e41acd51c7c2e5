--------------------------- MODULE Characterization ---------------------------
(***************************************************************************)
(* The characterization of one display: the investigation's evidence and   *)
(* completed tests (investigation/investigation.ts, application/services/  *)
(* observation-resolution-service.ts), the core plan that says what is     *)
(* still to be found out (investigation/core-plan.ts, drivers/coolledux/   *)
(* core-plan.ts), the recommendations (investigation/recommendations.ts),  *)
(* and the going on from one test to the next (presentation/state/guided-  *)
(* controller.ts).                                                         *)
(*                                                                         *)
(* Uploads, timers and attempts are the subject of Guided, the ownership   *)
(* of investigations over several displays that of Investigation: here a   *)
(* test is open, and then answered, abandoned or closed.  The trail of     *)
(* recommendations, whose cycle warning only refuses further starts, is    *)
(* left out.                                                               *)
(***************************************************************************)
EXTENDS GuidedTests, Capabilities, FiniteSets, FiniteSetsExt

CONSTANTS
  Baselines,                    \* what is shipped about the display: "iledhat", "bare"
  Goals,                        \* why it is investigated: "develop" or a symptom
  Offered,                      \* bound: the tests somebody may choose to run
  MaxRuns                       \* bound: tests completed in one investigation
ASSUME CharacterizationAssumption ==
  /\ Baselines \subseteq {"iledhat", "bare"}
  /\ Goals \subseteq {"develop", "content-moves-unexpectedly", "colors-look-wrong"}
  /\ Offered \subseteq Tests /\ MaxRuns \in Nat

VARIABLES
  baseline,                     \* the driver's evidence about the connected display
  goal,                         \* of the investigation
  linked,                       \* is the display connected?
  ledger,                       \* claim evidence of the investigation
  done,                         \* its completed tests, oldest first
  reopened,                     \* tests reopened deliberately
  strategy,                     \* session.validatedRasterStrategy
  open,                         \* the test whose dialog is open
  stored                        \* the record of an investigation saved last

vars == <<baseline, goal, linked, ledger, done, reopened, strategy, open, stored>>

NoTest == "none"
NoAnswer == "none"
------------------------------------------------------------------------------
(* What is shipped.                                                        *)
Shipped(c, status) ==
  [claim |-> c, status |-> status, scope |-> "built-in-profile", hold |-> "none",
   shows |-> "none", at |-> 0]
FromSource(c) == [Shipped(c, "source-supported") EXCEPT !.scope = "source-reference"]
Measured(c) == [Shipped(c, "verified") EXCEPT !.hold = "enough"]

KnownToBoth ==
  {"transport.bluetooth", "protocol.coolledux", "device-info.query", "brightness.control",
   "stored-program.upload", "raster.tiling", "raster.orientation",
   "graffiti.initial-render", "animation.frames", "animation.timing",
   "animation.tile-sync", "animation.black-semantics"}
IledHat ==
  {Shipped(c, "verified") :
     c \in KnownToBoth \cup {"stored-program.receipts", "graffiti.color-mapping",
                             "animation.autonomous-loop", "pixel.channel-map",
                             "pixel.encoder-correctness", "recovery.manual-reset"}}
  \cup {[Shipped("graffiti.black-semantics", "verified") EXCEPT !.shows = "off-black"]}
  \cup {Measured(c) : c \in {"animation.static-single-frame",
                             "animation.static-identical-pair"}}
  \cup {Shipped(c, "rejected") : c \in {"graffiti.playback-stability",
                                        "pixel.fourth-channel", "pixel.white-channel"}}
  \cup {Shipped("pixel.color-calibration", "unresolved")}
  \cup {FromSource(c) : c \in {"power.control", "graffiti.black-semantics", "gif.playback"}}
\* A display of the same model that nobody has measured: what the tests take for one.
Bare ==
  {Shipped(c, "verified") : c \in KnownToBoth}
  \cup {Shipped(c, "unresolved") : c \in {"graffiti.playback-stability",
                                          "pixel.channel-map", "pixel.color-calibration"}}
  \cup {FromSource(c) : c \in {"power.control", "graffiti.black-semantics", "gif.playback"}}

\* Without a connection the session has no profile, and nothing is shipped about a display.
BaselineEvidence ==
  IF ~linked THEN {} ELSE IF baseline = "iledhat" THEN IledHat ELSE Bare
AllEvidence == BaselineEvidence \cup ledger
Ran == {done[k].test : k \in DOMAIN done}
IsAvailable(t) == t \in Offered /\ Available(t, AllEvidence, Ran)
\* A mutant that only takes the authority of what calls itself shipped.
DemotedShipped(evidence) ==
  {IF e.scope = "built-in-profile" THEN [e EXCEPT !.scope = "previous-local-session"] ELSE e :
     e \in evidence}
Demoted(evidence) == {[e EXCEPT !.scope = "previous-local-session"] : e \in evidence}

------------------------------------------------------------------------------
(* The core plan.                                                          *)
Steps ==
  <<[tests |-> {"graffiti-timing"}, satisfiedBy |-> {"graffiti.initial-render"}],
    [tests |-> {"graffiti-staytime", "graffiti-timing"},
     satisfiedBy |-> {"graffiti.playback-stability"}],
    [tests |-> {"graffiti-black"}, satisfiedBy |-> {"graffiti.black-semantics"}],
    [tests |-> {"animation-static"}, satisfiedBy |-> {"animation.static-single-frame"}],
    [tests |-> {"pixel-channels"},
     satisfiedBy |-> {"pixel.channel-map", "pixel.encoder-correctness"}],
    [tests |-> {}, satisfiedBy |-> {"static.strategy"}]>>
TrustedOrRejected(c, pool) == OperationalStatus(c, pool) \in {"verified", "rejected"}
StepSatisfied(k, pool) == \A c \in Steps[k].satisfiedBy : TrustedOrRejected(c, pool)
Skipped(k, pool) ==
  \/ /\ k = 3
     /\ Verdict("graffiti", pool) = "not-viable"
     /\ ~TrustedOrRejected("graffiti.black-semantics", pool)
  \/ /\ k = 4
     /\ Verdict("graffiti", pool) # "not-viable"
Outstanding(k, pool) == ~Skipped(k, pool) /\ ~StepSatisfied(k, pool)
\* The place of the current milestone, 0 when the plan is complete.
CurrentStep(pool) == First({k \in 1 .. 6 : Outstanding(k, pool)})
CurrentTests(pool) == UNION {Steps[k].tests : k \in {CurrentStep(pool)} \ {0}}
CoreTests(pool) == UNION {Steps[k].tests : k \in {j \in 1 .. 6 : ~Skipped(j, pool)}}

------------------------------------------------------------------------------
(* Recommendations.                                                        *)
FocusClaims ==
  CASE goal = "content-moves-unexpectedly" ->
         <<"graffiti.playback-stability", "static.strategy">>
    [] goal = "colors-look-wrong" ->
         <<"pixel.channel-map", "graffiti.color-mapping", "pixel.color-calibration">>
    [] OTHER -> <<>>
SymptomFocus == {FocusClaims[k] : k \in DOMAIN FocusClaims}
StatusValue ==
  [s \in Statuses |-> CASE s = "unresolved" -> 30 [] s = "unknown" -> 20
                        [] s = "source-supported" -> 12 [] s = "rejected" -> 8
                        [] s = "verified" -> 0]
CategoryWeight(category) ==
  CASE category = "core" -> 40 [] category = "recommended" -> 30
    [] category = "advanced" -> 10 [] category = "optional" -> 2
UsabilityClaims ==
  {"static.strategy", "stored-program.upload", "brightness.control",
   "transport.bluetooth", "protocol.coolledux"}
\* The place of the strategy a claim exists to prove, 0 when it proves none.
StrategyOf(c) ==
  CASE c \in {"graffiti.playback-stability", "graffiti.black-semantics"} -> 1
    [] c = "animation.static-single-frame" -> 2
    [] c = "animation.static-identical-pair" -> 3
    [] OTHER -> 0
Points(condition, n) == IF condition THEN n ELSE 0

IsConcluded(t) ==
  /\ t \notin reopened
  /\ \E k \in DOMAIN done : done[k].test = t
                            /\ done[k].resolution \in {"settled", "retryable-incomplete"}
Targets(t, pool) ==
  {c \in TargetClaims(t) : ClaimStatus(c, pool) # "verified" \/ Conflicted(c, pool)}
Recommended ==
  LET pool == AllEvidence
  IN  {t \in Offered : /\ ~IsConcluded(t)
                       /\ Available(t, pool, Ran)
                       /\ Targets(t, pool) # {}}

Unusable(pool) ==
  {b \in UsabilityClaims : ClaimStatus(b, pool) \in {"unresolved", "unknown", "rejected"}}
Unblocks(c, unusable) ==
  \E b \in unusable :
    \/ c = b
    \/ b = "static.strategy" /\ c \in Contributing
    \/ c \in Prerequisites(b)
\* What the evidence says of the strategies and of the plan, the same for every test.
Assessment(pool) ==
  [unusable |-> Unusable(pool), pursued |-> Pursued(pool),
   next |-> NextOpenRequirement(pool), current |-> CurrentTests(pool),
   core |-> CoreTests(pool)]
\* A mutant that forgets that the plan decides the order of core work.
PlanBoostForgotten(t, a) == Points(t \in a.core, 80)
PlanBoost(t, a) == Points(t \in a.current, 200) + Points(t \in a.core, 80)
Score(t, targets, pool, a) ==
  LET unblocks == \E c \in targets : Unblocks(c, a.unusable)
      worth(c) == StatusValue[ClaimStatus(c, pool)] + Points(Conflicted(c, pool), 20)
      category == IF unblocks /\ Category(t) = "advanced" THEN "recommended" ELSE Category(t)
      boosts == Points(targets \cap SymptomFocus # {}, 60)
                + Points(SymptomFocus # {} /\ FocusClaims[1] \in targets, 30)
                + Points(unblocks, 25)
                + Points(a.next \in targets, 60)
                + PlanBoost(t, a)
      penalties == Points(\E c \in targets : StrategyOf(c) > a.pursued, 50)
                   + Points(t \in Ran, 25)
  \* Offset by the sum of the penalties, to stay within the naturals.
  IN  75 + MapThenSumSet(worth, targets) + CategoryWeight(category) + boosts - penalties
Place(t) == CHOOSE k \in DOMAIN TestOrder : TestOrder[k] = t
\* The recommendation ranked first; none when nothing is recommended.
Best(scored) ==
  {x.test : x \in {y \in scored : \A z \in scored :
     \/ y.score > z.score
     \/ y.score = z.score /\ Place(y.test) <= Place(z.test)}}
Scored(pool, a) ==
  {[test |-> t, score |-> Score(t, Targets(t, pool), pool, a)] : t \in Recommended}
Top == Best(Scored(AllEvidence, Assessment(AllEvidence)))

LastRun(t) ==
  CHOOSE k \in DOMAIN done : done[k].test = t
                             /\ \A j \in DOMAIN done : done[j].test = t => j <= k
\* _retryableOnCurrentMilestone: any incomplete run, also one that a later run settled
RetryableOnMilestone ==
  \E k \in DOMAIN done : /\ done[k].test \in CurrentTests(AllEvidence)
                         /\ done[k].resolution = "retryable-incomplete"
------------------------------------------------------------------------------
(* Steps.                                                                  *)
Init ==
  /\ baseline \in Baselines
  /\ goal \in Goals
  /\ linked = TRUE
  /\ ledger = {} /\ done = <<>> /\ reopened = {}
  /\ strategy = NoStrategy
  /\ open = NoTest
  /\ stored = [ledger |-> {}, done |-> <<>>, reopened |-> {}]

\* startGuidedTest, from the catalogue, a recommendation or Measure again; the operation
\* of the test needs the profile of a connected display
StartTest(t) ==
  /\ open = NoTest /\ Len(done) < MaxRuns
  /\ linked /\ IsAvailable(t)
  /\ open' = t
  /\ UNCHANGED <<baseline, goal, linked, ledger, done, reopened, strategy, stored>>

\* continueToNextTest; past a complete plan only when optional tests are asked for
Continue ==
  /\ open = NoTest /\ Len(done) < MaxRuns
  /\ linked
  /\ ~RetryableOnMilestone
  /\ \E t \in Top :
       /\ t \in Ran => done[LastRun(t)].resolution = "retryable-incomplete"
       /\ open' = t
  /\ UNCHANGED <<baseline, goal, linked, ledger, done, reopened, strategy, stored>>

\* reopenExperiment of the controller: reopened, then started
Reopen(t) ==
  /\ open = NoTest /\ Len(done) < MaxRuns
  /\ linked /\ t \in Ran
  /\ reopened' = reopened \cup {t}
  /\ open' = IF IsAvailable(t) THEN t ELSE NoTest
  /\ UNCHANGED <<baseline, goal, linked, ledger, done, strategy, stored>>

Evidence(update, k) ==
  [claim |-> update.claim, status |-> update.status, scope |-> "current-session",
   hold |-> update.hold, shows |-> update.shows, at |-> k]
\* The completed test joins the record, which is saved; a reopening is used up unless the
\* test is to be measured again.
Complete(test, answer, resolution, evidence) ==
  /\ done' = Append(done, [test |-> test, answer |-> answer, resolution |-> resolution,
                           here |-> TRUE])
  /\ ledger' = ledger \cup evidence
  /\ reopened' = IF resolution = "retryable-incomplete" THEN reopened
                 ELSE reopened \ {test}
  /\ stored' = [ledger |-> ledger', done |-> done', reopened |-> reopened']
  /\ open' = NoTest

AnswersNow == IF open = NoTest THEN {} ELSE Answers(open)
\* recordGuidedTestObservations: only a live session makes evidence
Record(answer) ==
  /\ linked
  /\ LET result == Interpret(open, answer)
     IN  Complete(open, answer, result.resolution,
                  {Evidence(u, Len(done) + 1) : u \in result.updates})
  /\ strategy' = Selected(BaselineEvidence \cup ledger')
  /\ UNCHANGED <<baseline, goal, linked>>

\* abandonGuidedTest: the upload went out, nothing is concluded
Abandon ==
  /\ open # NoTest /\ linked
  /\ Complete(open, NoAnswer, "abandoned", {})
  /\ UNCHANGED <<baseline, goal, linked, strategy>>

\* closeGuidedTest before anything was sent
Close ==
  /\ open # NoTest
  /\ open' = NoTest
  /\ UNCHANGED <<baseline, goal, linked, ledger, done, reopened, strategy, stored>>

\* clearConnection
Lose ==
  /\ linked
  /\ linked' = FALSE
  /\ strategy' = NoStrategy
  /\ UNCHANGED <<baseline, goal, ledger, done, reopened, open, stored>>
\* The same display reconnects: the investigation goes on with its evidence.
Reconnect ==
  /\ ~linked
  /\ linked' = TRUE
  /\ UNCHANGED <<baseline, goal, ledger, done, reopened, strategy, open, stored>>

\* startInvestigation while one is active: another goal for the same evidence
Retarget(g) ==
  /\ open = NoTest /\ g # goal
  /\ goal' = g
  /\ UNCHANGED <<baseline, linked, ledger, done, reopened, strategy, open, stored>>
\* startInvestigation after stopActiveInvestigation: a new record, the session goes on
StartOver ==
  /\ open = NoTest /\ linked /\ done # <<>>
  /\ ledger' = {} /\ done' = <<>> /\ reopened' = {}
  /\ UNCHANGED <<baseline, goal, linked, strategy, open, stored>>
\* adoptInvestigation of the saved record, made with the same display
Resume ==
  /\ open = NoTest /\ linked /\ stored.done # <<>>
  /\ ledger' = Demoted(stored.ledger)
  /\ done' = [k \in DOMAIN stored.done |-> [stored.done[k] EXCEPT !.here = FALSE]]
  /\ reopened' = stored.reopened
  /\ UNCHANGED <<baseline, goal, linked, strategy, open, stored>>

Next ==
  \/ \E t \in Tests : StartTest(t) \/ Reopen(t)
  \/ Continue
  \/ \E answer \in AnswersNow : Record(answer)
  \/ Abandon
  \/ Close
  \/ Lose
  \/ Reconnect
  \/ \E g \in Goals : Retarget(g)
  \/ StartOver
  \/ Resume

Spec == Init /\ [][Next]_vars
------------------------------------------------------------------------------
(* Properties.                                                             *)

\* Everything has the shape the code gives it, and what a run concluded is dated by it.
CharacterizationTypeOK ==
  /\ open \in Tests \cup {NoTest} /\ reopened \subseteq Ran \cup {open}
  /\ strategy \in {Strategies[k] : k \in 1 .. 3} \cup {NoStrategy}
  /\ Len(done) <= MaxRuns
  /\ \A e \in ledger : /\ e.claim \in ClaimIds /\ e.status \in Statuses /\ e.hold \in Holds
                       /\ e.at \in DOMAIN done
                       /\ (e.scope = "current-session") = done[e.at].here

LiveRuns == {done[k] : k \in {j \in DOMAIN done : done[j].here /\ done[j].resolution # "abandoned"}}
Still(run, t) == run.test = t /\ run.answer.timeline = "held"
\* What a person saw in this session that tells against showing images with a strategy.
Spoils(run, s) ==
  \/ run.test = "pixel-channels" /\ run.answer.rgb = "permuted"
  \/ /\ s = "graffiti"
     /\ \/ /\ run.test \in {"graffiti-timing", "graffiti-staytime"}
           /\ run.answer.timeline = "wrong" \/ run.answer.layout \in {"broken", "turned"}
        \/ run.test = "graffiti-staytime" /\ run.answer.timeline = "moved"
        \/ run.test = "graffiti-black" /\ run.answer.zero = "another-color"
  \/ /\ \/ s = "animation-single-frame" /\ run.test = "animation-static"
        \/ s = "animation-identical-frames" /\ run.test = "animation-static-pair"
     /\ run.answer.timeline \in {"wrong", "moved"} \/ run.answer.look \in {"lit", "flickers"}

\* An image or a text is offered for a display nobody has measured only after somebody
\* watched, in this session, an image stay still for the whole fifteen seconds with the
\* strategy selected, and saw the colors come out as sent (static-viability.ts, gating.ts,
\* assessment.ts).
StillImagesWereSeenStill ==
  LET selected == Selected(AllEvidence)
  IN  (baseline = "bare"
         /\ \E c \in {"static-frame", "text"} : IsOffered(c, linked, AllEvidence)) =>
        /\ \E run \in LiveRuns :
             CASE selected = "graffiti" ->
                    Still(run, "graffiti-timing") \/ Still(run, "graffiti-staytime")
               [] selected = "animation-single-frame" -> Still(run, "animation-static")
               [] OTHER -> Still(run, "animation-static-pair")
        /\ \E run \in LiveRuns : run.test = "pixel-channels" /\ run.answer.rgb = "as-sent"

\* What was seen to go wrong in this session is not undone by a later, better looking run:
\* images are shown as verified only with a strategy nothing seen in this session tells
\* against (claim-foundation.ts, the priority of contradictions; assessment.ts).
ContradictionsStand ==
  LET selected == Selected(AllEvidence)
  IN  (selected # NoStrategy \/ Confidence("static-frame", AllEvidence) = "verified")
        => \A run \in LiveRuns : ~Spoils(run, selected)

\* A record of an earlier session authorizes nothing, however favourable: without a result
\* of this session the same actions are offered and recommended, and the same requests to
\* send are accepted, as with the shipped evidence alone (demoteInvestigationEvidence,
\* resolveTrust, assessDevice, _requestContentSend).
ResumedRecordsAuthorizeNothing ==
  (LiveRuns = {} /\ ledger # {}) =>
    /\ Actions(linked, AllEvidence) = Actions(linked, BaselineEvidence)
    /\ RecommendedAction(linked, AllEvidence) = RecommendedAction(linked, BaselineEvidence)
    /\ \A p \in Paths : SendAnswer(p, AllEvidence) = SendAnswer(p, BaselineEvidence)

\* The plan decides the order of core work, but for the symptom that is investigated: when
\* the next test is chosen and one of the current milestone is recommended at all, what is
\* recommended first is of that milestone or looks into the symptom (recommendations.ts, the
\* comment on currentCoreTestIds and the focus of a symptom).
OnlyTheSymptomOvertakesThePlan ==
  LET current == CurrentTests(AllEvidence)
  IN  linked /\ open = NoTest /\ current \cap Recommended # {} =>
        \A t \in Top : t \in current \/ \E c \in Targets(t, AllEvidence) : c \in SymptomFocus

\* The comment on currentCoreTestIds says more, "the plan decides the ORDER": that does not
\* hold of every symptom.
PlanDecidesTheOrder ==
  LET current == CurrentTests(AllEvidence)
  IN  linked /\ open = NoTest /\ current \cap Recommended # {} => Top \subseteq current

\* Guided mode reaches a support decision: while the plan is open a core test is on offer,
\* or one was left without an answer (tests/investigation/core-finishability.test.ts).
PlanReachesADecision ==
  linked /\ CurrentStep(AllEvidence) # 0 =>
    \/ Recommended \cap CoreTests(AllEvidence) # {}
    \/ \E k \in DOMAIN done : done[k].resolution # "settled"

\* selectStaticStrategy with the profile's preference
StrategyUsed == IF strategy # NoStrategy THEN strategy ELSE "animation-single-frame"
\* Images are not sent with a strategy that was seen to fail in this session
\* (drivers/coolledux/index.ts, the precedence of selectStaticStrategy).
StrategyInEffect ==
  linked /\ Open("image", AllEvidence) => \A run \in LiveRuns : ~Spoils(run, StrategyUsed)
===============================================================================
