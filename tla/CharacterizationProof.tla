------------------------ MODULE CharacterizationProof ------------------------
(***************************************************************************)
(* Proofs about Characterization for any baselines and goals, any tests on *)
(* offer, any answers and any number of completed tests.                   *)
(***************************************************************************)
EXTENDS Characterization, FiniteSetTheorems, SequenceTheorems, TLAPS

Conclusive == {"settled", "retryable-incomplete"}
Shown == {"none", "off-black", "bright-white", "another-color"}
Updates == [claim : ClaimIds, status : Statuses, hold : Holds, shows : Shown]
AllAnswers == (UNION {Answers(t) : t \in Tests}) \cup {NoAnswer}
Runs == [test : Tests, answer : AllAnswers, resolution : Conclusive \cup {"abandoned"},
         here : BOOLEAN]
Pieces == [claim : ClaimIds, status : Statuses,
           scope : {"current-session", "previous-local-session"},
           hold : Holds, shows : Shown, at : Nat]
TestsOf(runs) == {runs[k].test : k \in DOMAIN runs}

\* A record of an investigation: every piece of evidence is dated by a run of it, and the
\* evidence of this session by a run of this session that came to a conclusion.
SoundRecord(pieces, runs, again) ==
  /\ runs \in Seq(Runs) /\ Len(runs) <= MaxRuns
  /\ pieces \subseteq Pieces
  /\ again \subseteq TestsOf(runs)
  /\ \A e \in pieces :
       /\ e.at \in DOMAIN runs
       /\ e.scope = "current-session" <=> runs[e.at].here = TRUE
       /\ e.scope = "current-session" => runs[e.at].resolution \in Conclusive

\* The inductive invariant: the record at hand and the one saved are sound, and a test is
\* open only where another run has its place.
RecordsAreSound ==
  /\ linked \in BOOLEAN
  /\ open \in Tests \cup {NoTest}
  /\ open # NoTest => Len(done) < MaxRuns
  /\ strategy \in {Strategies[k] : k \in 1 .. 3} \cup {NoStrategy}
  /\ SoundRecord(ledger, done, reopened)
  /\ SoundRecord(stored.ledger, stored.done, stored.reopened)

------------------------------------------------------------------------------
(* What the answers conclude.                                              *)

LEMMA UpdateType ==
  ASSUME NEW c \in ClaimIds, NEW s \in Statuses
  PROVE  /\ Update(c, s) \in Updates
         /\ \A h \in Holds : Held(c, s, h) \in Updates
         /\ \A x \in Shown : [Update(c, s) EXCEPT !.shows = x] \in Updates
BY DEF Update, Held, Updates, Holds, Shown

LEMMA LayoutType == ASSUME NEW layout PROVE LayoutUpdates(layout) \subseteq Updates
<1>1. {"raster.tiling", "raster.orientation"} \subseteq ClaimIds
  BY DEF ClaimIds, Uploading
<1>2. {"unresolved", "verified"} \subseteq Statuses
  BY DEF Statuses
<1>. QED
  BY <1>1, <1>2, UpdateType DEF LayoutUpdates

LEMMA HoldType == ASSUME NEW timeline PROVE MeasuredHold(timeline) \in Holds
BY DEF MeasuredHold, Holds

LEMMA TimingType ==
  ASSUME NEW a, NEW n
  PROVE  /\ InterpretTiming(a, n).updates \subseteq Updates
         /\ InterpretTiming(a, n).resolution \in Conclusive
<1>1. {"graffiti.initial-render", "graffiti.playback-stability"} \subseteq ClaimIds
  BY DEF ClaimIds, Uploading, Rendering
<1>2. {"rejected", "verified", "unknown"} \subseteq Statuses
  BY DEF Statuses
<1>3. PlaybackUpdate(a, n) \in Updates
  <2>. DEFINE s == CASE a.timeline = "held" -> "verified"
                     [] a.timeline = "moved" /\ n = 0 -> "rejected"
                     [] OTHER -> "unknown"
  <2>1. s \in Statuses
    BY <1>2
  <2>2. PlaybackUpdate(a, n) = Held("graffiti.playback-stability", s, MeasuredHold(a.timeline))
    BY DEF PlaybackUpdate
  <2>. HIDE DEF s
  <2>. QED
    BY <1>1, <2>1, <2>2, HoldType, UpdateType
<1>4. Update("graffiti.initial-render",
             IF a.timeline = "wrong" THEN "rejected" ELSE "verified") \in Updates
  BY <1>1, <1>2, UpdateType
<1>. QED
  BY <1>3, <1>4, LayoutType DEF InterpretTiming, Result, Conclusive

LEMMA StillType ==
  ASSUME NEW a, NEW c \in ClaimIds
  PROVE  /\ InterpretStill(a, c).updates \subseteq Updates
         /\ InterpretStill(a, c).resolution \in Conclusive
<1>1. StillStatus(a) \in Statuses
  BY DEF StillStatus, Statuses
<1>2. Held(c, StillStatus(a), MeasuredHold(a.timeline)) \in Updates
  BY <1>1, HoldType, UpdateType
<1>3. Unlit(a) \subseteq Updates
  <2>1. "animation.black-semantics" \in ClaimIds /\ "unresolved" \in Statuses
    BY DEF ClaimIds, Animating, Statuses
  <2>. QED
    BY <2>1, UpdateType DEF Unlit
<1>. QED
  BY <1>2, <1>3 DEF InterpretStill, Result, Conclusive

LEMMA BlackType ==
  ASSUME NEW a \in Answers("graffiti-black")
  PROVE  /\ InterpretBlack(a).updates \subseteq Updates
         /\ InterpretBlack(a).resolution \in Conclusive
<1>1. "graffiti.black-semantics" \in ClaimIds /\ {"unresolved", "verified"} \subseteq Statuses
  BY DEF ClaimIds, Rendering, Statuses
<1>2. a.zero \in Shown
  BY DEF Answers, Shown
<1>. QED
  BY <1>1, <1>2, UpdateType DEF InterpretBlack, Result, Conclusive

LEMMA PixelsType ==
  ASSUME NEW a \in Answers("pixel-channels")
  PROVE  /\ InterpretPixels(a).updates \subseteq Updates
         /\ InterpretPixels(a).resolution \in Conclusive
<1>1. /\ {"pixel.channel-map", "pixel.encoder-correctness", "pixel.fourth-channel",
          "pixel.white-channel"} \subseteq ClaimIds
      /\ {"unresolved", "verified", "rejected"} \subseteq Statuses
  BY DEF ClaimIds, Uploading, Mapped, Statuses
<1>2. ChannelUpdates(a) \subseteq Updates
  BY <1>1, UpdateType DEF ChannelUpdates
<1>3. NibbleUpdates(a) \subseteq Updates
  <2>1. a.nibble \in {"off", "white", "colored"}
    BY AnswersAssumption DEF Answers
  <2>. DEFINE s == CASE a.nibble = "off" -> "rejected" [] a.nibble = "white" -> "verified"
                     [] a.nibble = "colored" -> "unresolved"
  <2>2. s \in Statuses
    BY <1>1, <2>1
  <2>3. NibbleUpdates(a) =
          {Update("pixel.fourth-channel", IF a.nibble = "off" THEN "rejected" ELSE "verified"),
           Update("pixel.white-channel", s)}
    BY DEF NibbleUpdates
  <2>. HIDE DEF s
  <2>. QED
    BY <1>1, <2>2, <2>3, UpdateType
<1>. QED
  BY <1>2, <1>3 DEF InterpretPixels, Result, Conclusive

LEMMA ColorsType ==
  ASSUME NEW a
  PROVE  /\ InterpretColors(a).updates \subseteq Updates
         /\ InterpretColors(a).resolution \in Conclusive
<1>1. "pixel.color-calibration" \in ClaimIds /\ {"unresolved", "verified"} \subseteq Statuses
  BY DEF ClaimIds, Mapped, Statuses
<1>. QED
  BY <1>1, UpdateType DEF InterpretColors, Result, Conclusive

LEMMA NormalImageType ==
  ASSUME NEW a \in Answers("normal-image-smoke")
  PROVE  /\ InterpretNormalImage(a).updates \subseteq Updates
         /\ InterpretNormalImage(a).resolution \in Conclusive
<1>1. /\ {"image.rendering", "raster.orientation"} \subseteq ClaimIds
      /\ {"unresolved", "verified", "rejected"} \subseteq Statuses
      /\ "enough" \in Holds
  BY DEF ClaimIds, Showing, Statuses, Holds
<1>2. a.timeline \in {"wrong", "moved", "short", "held"}
  BY AnswersAssumption DEF Answers
<1>. QED
  BY <1>1, <1>2, UpdateType DEF InterpretNormalImage, Result, Conclusive

\* Whatever is answered, a test comes to a conclusion and speaks of known claims.
LEMMA InterpretType ==
  ASSUME NEW t \in Tests, NEW a \in Answers(t)
  PROVE  /\ Interpret(t, a).updates \subseteq Updates
         /\ Interpret(t, a).resolution \in Conclusive
<1>0. {"animation.static-single-frame", "animation.static-identical-pair"} \subseteq ClaimIds
  BY DEF ClaimIds, Animating
<1>1. CASE t = "graffiti-timing"
  BY <1>1, TimingType DEF Interpret
<1>2. CASE t = "graffiti-staytime"
  BY <1>2, TimingType DEF Interpret
<1>3. CASE t = "animation-static"
  BY <1>0, <1>3, StillType DEF Interpret
<1>4. CASE t = "animation-static-pair"
  BY <1>0, <1>4, StillType DEF Interpret
<1>5. CASE t = "graffiti-black"
  BY <1>5, BlackType DEF Interpret
<1>6. CASE t = "pixel-channels"
  BY <1>6, PixelsType DEF Interpret
<1>7. CASE t = "color-white"
  BY <1>7, ColorsType DEF Interpret
<1>8. CASE t = "normal-image-smoke"
  BY <1>8, NormalImageType DEF Interpret
<1>. QED
  BY <1>1, <1>2, <1>3, <1>4, <1>5, <1>6, <1>7, <1>8 DEF Tests, TestOrder

------------------------------------------------------------------------------
(* Records stay sound.                                                     *)

\* The strategy selected is one of the three, or none.
LEMMA SelectedType ==
  ASSUME NEW pool
  PROVE  Selected(pool) \in {Strategies[k] : k \in 1 .. 3} \cup {NoStrategy}
<1>. DEFINE places == {n \in 1 .. 3 : Verdict(Strategies[n], pool) = "viable"} \cup {4}
<1>1. places \subseteq 1 .. 4 /\ 4 \in places
  OBVIOUS
<1>2. Selected(pool) = Append(Strategies, NoStrategy)[First(places)]
  BY DEF Selected
<1>. HIDE DEF places
<1>3. \E k \in places : \A j \in places : k <= j
  <2>1. CASE 1 \in places
    BY <1>1, <2>1
  <2>2. CASE 1 \notin places /\ 2 \in places
    BY <1>1, <2>2
  <2>3. CASE 1 \notin places /\ 2 \notin places /\ 3 \in places
    BY <1>1, <2>3
  <2>4. CASE 1 \notin places /\ 2 \notin places /\ 3 \notin places
    <3>1. \A k \in places : k = 4
      BY <1>1, <2>4
    <3>. QED
      BY <1>1, <3>1
  <2>. QED
    BY <2>1, <2>2, <2>3, <2>4
<1>4. First(places) \in 1 .. 4
  BY <1>1, <1>3 DEF First
<1>5. /\ Strategies \in Seq({Strategies[k] : k \in 1 .. 3}) /\ Len(Strategies) = 3
  BY DEF Strategies
<1>6. \A k \in 1 .. 4 : Append(Strategies, NoStrategy)[k]
                          \in {Strategies[i] : i \in 1 .. 3} \cup {NoStrategy}
  BY DEF Strategies
<1>. QED
  BY <1>2, <1>4, <1>6

\* What joins the record with a completed test is dated by that test.
LEMMA CompleteSound ==
  ASSUME RecordsAreSound, open # NoTest,
         NEW answer \in AllAnswers, NEW resolution \in Conclusive \cup {"abandoned"},
         NEW updates \in SUBSET Updates,
         updates # {} => resolution \in Conclusive,
         Complete(open, answer, resolution, {Evidence(u, Len(done) + 1) : u \in updates})
  PROVE  /\ SoundRecord(ledger', done', reopened')
         /\ SoundRecord(stored.ledger', stored.done', stored.reopened')
         /\ open' = NoTest
<1>. DEFINE run == [test |-> open, answer |-> answer, resolution |-> resolution, here |-> TRUE]
            new == {Evidence(u, Len(done) + 1) : u \in updates}
<1>1. /\ done \in Seq(Runs) /\ Len(done) < MaxRuns /\ MaxRuns \in Nat
      /\ open \in Tests /\ ledger \subseteq Pieces /\ reopened \subseteq TestsOf(done)
      /\ \A e \in ledger :
           /\ e.at \in DOMAIN done
           /\ e.scope = "current-session" <=> done[e.at].here = TRUE
           /\ e.scope = "current-session" => done[e.at].resolution \in Conclusive
  BY CharacterizationAssumption DEF RecordsAreSound, SoundRecord
<1>2. run \in Runs
  BY <1>1 DEF Runs
<1>3. done' = Append(done, run) /\ ledger' = ledger \cup new
  BY DEF Complete
<1>4. new \subseteq Pieces
  BY <1>1 DEF Evidence, Updates, Pieces
<1>5. \A e \in new : e.at = Len(done) + 1 /\ e.scope = "current-session" /\ updates # {}
  BY DEF Evidence
<1>. HIDE DEF new
<1>6. /\ done' \in Seq(Runs) /\ Len(done') = Len(done) + 1
      /\ DOMAIN done' = 1 .. Len(done) + 1 /\ DOMAIN done = 1 .. Len(done)
      /\ done'[Len(done) + 1] = run
      /\ \A k \in DOMAIN done : done'[k] = done[k]
  <2>. HIDE DEF run
  <2>. QED
    BY <1>1, <1>2, <1>3
<1>7. reopened' \subseteq TestsOf(done')
  <2>1. reopened' \subseteq reopened
    BY DEF Complete
  <2>2. TestsOf(done) \subseteq TestsOf(done')
    BY <1>1, <1>6 DEF TestsOf
  <2>. QED
    BY <1>1, <2>1, <2>2
<1>8. ASSUME NEW e \in ledger'
      PROVE  /\ e.at \in DOMAIN done'
             /\ e.scope = "current-session" <=> done'[e.at].here = TRUE
             /\ e.scope = "current-session" => done'[e.at].resolution \in Conclusive
  <2>1. CASE e \in ledger
    BY <1>1, <1>6, <2>1
  <2>2. CASE e \in new
    <3>1. run.here = TRUE /\ run.resolution = resolution
      OBVIOUS
    <3>. HIDE DEF run
    <3>2. /\ e.at = Len(done) + 1 /\ e.scope = "current-session" /\ updates # {}
          /\ done'[e.at] = run /\ e.at \in DOMAIN done'
      BY <1>1, <1>5, <1>6, <2>2
    <3>. QED
      BY <3>1, <3>2
  <2>. QED
    BY <1>3, <2>1, <2>2
<1>9. SoundRecord(ledger', done', reopened')
  <2>1. Len(done') <= MaxRuns /\ ledger' \subseteq Pieces
    BY <1>1, <1>3, <1>4, <1>6
  <2>. QED
    BY <1>6, <1>7, <1>8, <2>1 DEF SoundRecord
<1>10. stored.ledger' = ledger' /\ stored.done' = done' /\ stored.reopened' = reopened'
  BY DEF Complete
<1>. QED
  BY <1>9, <1>10 DEF Complete

\* A record read back is that of an earlier session, in every part of it.
LEMMA ResumeSound ==
  ASSUME RecordsAreSound, Resume
  PROVE  SoundRecord(ledger', done', reopened')
<1>1. /\ stored.done \in Seq(Runs) /\ Len(stored.done) <= MaxRuns
      /\ stored.ledger \subseteq Pieces
      /\ stored.reopened \subseteq TestsOf(stored.done)
      /\ \A e \in stored.ledger : e.at \in DOMAIN stored.done
  BY DEF RecordsAreSound, SoundRecord
<1>2. /\ ledger' = {[e EXCEPT !.scope = "previous-local-session"] : e \in stored.ledger}
      /\ done' = [k \in DOMAIN stored.done |-> [stored.done[k] EXCEPT !.here = FALSE]]
      /\ reopened' = stored.reopened
  BY DEF Resume, Demoted
<1>3. \A r \in Runs : /\ [r EXCEPT !.here = FALSE] \in Runs
                      /\ [r EXCEPT !.here = FALSE].test = r.test
                      /\ [r EXCEPT !.here = FALSE].here = FALSE
  BY DEF Runs
<1>4. /\ DOMAIN stored.done = 1 .. Len(stored.done)
      /\ \A k \in DOMAIN stored.done : stored.done[k] \in Runs
  BY <1>1
<1>5. /\ done' \in Seq(Runs) /\ Len(done') = Len(stored.done)
      /\ DOMAIN done' = DOMAIN stored.done
  BY <1>1, <1>2, <1>3, <1>4
<1>6. \A k \in DOMAIN done' : done'[k].here = FALSE /\ done'[k].test = stored.done[k].test
  BY <1>2, <1>3, <1>4, <1>5
<1>7. TestsOf(done') = TestsOf(stored.done)
  BY <1>5, <1>6 DEF TestsOf
<1>8. ASSUME NEW e \in stored.ledger
      PROVE  LET old == [e EXCEPT !.scope = "previous-local-session"]
             IN  old \in Pieces /\ old.at = e.at /\ old.scope = "previous-local-session"
  BY <1>1 DEF Pieces
<1>9. \A e \in ledger' : /\ e \in Pieces /\ e.scope # "current-session"
                         /\ e.at \in DOMAIN stored.done
  BY <1>1, <1>2, <1>8
<1>. QED
  BY <1>1, <1>2, <1>5, <1>6, <1>7, <1>9 DEF SoundRecord

LEMMA EmptyRecord == SoundRecord({}, <<>>, {})
<1>1. <<>> \in Seq(Runs) /\ Len(<<>>) = 0 /\ 0 <= MaxRuns
  BY CharacterizationAssumption
<1>. QED
  BY <1>1 DEF SoundRecord, TestsOf

LEMMA RecordsInit == Init => RecordsAreSound
<1>. SUFFICES ASSUME Init PROVE RecordsAreSound
  OBVIOUS
<1>1. /\ ledger = {} /\ done = <<>> /\ reopened = {} /\ open = NoTest /\ linked = TRUE
      /\ strategy = NoStrategy
      /\ stored.ledger = {} /\ stored.done = <<>> /\ stored.reopened = {}
  BY DEF Init
<1>. QED
  BY <1>1, EmptyRecord DEF RecordsAreSound

\* What is recommended is one of the tests.
LEMMA TopType == Top \subseteq Tests
BY CharacterizationAssumption DEF Top, Best, Scored, Recommended

LEMMA AnswersType ==
  ASSUME NEW t \in Tests PROVE Answers(t) \subseteq AllAnswers
BY DEF AllAnswers

LEMMA NoTestIsNoTest == NoTest \notin Tests
BY DEF NoTest, Tests, TestOrder

LEMMA RecordsStep == RecordsAreSound /\ [Next]_vars => RecordsAreSound'
<1>. SUFFICES ASSUME RecordsAreSound, [Next]_vars PROVE RecordsAreSound'
  OBVIOUS
<1>1. ASSUME NEW t \in Tests, StartTest(t) PROVE RecordsAreSound'
  BY <1>1 DEF StartTest, RecordsAreSound
<1>2. ASSUME NEW t \in Tests, Reopen(t) PROVE RecordsAreSound'
  <2>1. reopened' \subseteq TestsOf(done)
    BY <1>2 DEF Reopen, RecordsAreSound, SoundRecord, Ran, TestsOf
  <2>2. SoundRecord(ledger, done, reopened')
    BY <2>1 DEF RecordsAreSound, SoundRecord
  <2>3. open' \in Tests \cup {NoTest} /\ Len(done) < MaxRuns
    BY <1>2 DEF Reopen
  <2>. QED
    BY <1>2, <2>2, <2>3 DEF Reopen, RecordsAreSound
<1>3. CASE Continue
  BY <1>3, TopType DEF Continue, RecordsAreSound
<1>4. ASSUME NEW answer \in AnswersNow, Record(answer) PROVE RecordsAreSound'
  <2>. DEFINE result == Interpret(open, answer)
  <2>1. open # NoTest /\ open \in Tests /\ answer \in Answers(open)
    BY <1>4 DEF AnswersNow, RecordsAreSound
  <2>2. result.updates \subseteq Updates /\ result.resolution \in Conclusive
    BY <2>1, InterpretType
  <2>3. Complete(open, answer, result.resolution,
                 {Evidence(u, Len(done) + 1) : u \in result.updates})
    BY <1>4 DEF Record
  <2>4. answer \in AllAnswers
    BY <2>1, AnswersType
  <2>. HIDE DEF result
  <2>5. /\ SoundRecord(ledger', done', reopened')
        /\ SoundRecord(stored.ledger', stored.done', stored.reopened')
        /\ open' = NoTest
    BY <2>1, <2>2, <2>3, <2>4, CompleteSound
  <2>6. strategy' \in {Strategies[k] : k \in 1 .. 3} \cup {NoStrategy} /\ linked' = linked
    BY <1>4, SelectedType DEF Record
  <2>. QED
    BY <2>5, <2>6 DEF RecordsAreSound
<1>5. CASE Abandon
  <2>1. Complete(open, NoAnswer, "abandoned",
                 {Evidence(u, Len(done) + 1) : u \in {}})
    BY <1>5 DEF Abandon
  <2>2. open # NoTest /\ NoAnswer \in AllAnswers /\ linked' = linked /\ strategy' = strategy
    BY <1>5 DEF Abandon, AllAnswers
  <2>3. /\ SoundRecord(ledger', done', reopened')
        /\ SoundRecord(stored.ledger', stored.done', stored.reopened')
        /\ open' = NoTest
    BY <2>1, <2>2, CompleteSound
  <2>. QED
    BY <2>2, <2>3 DEF RecordsAreSound
<1>6. CASE Close
  BY <1>6 DEF Close, RecordsAreSound
<1>7. CASE Lose
  BY <1>7 DEF Lose, RecordsAreSound
<1>8. CASE Reconnect
  BY <1>8 DEF Reconnect, RecordsAreSound
<1>9. ASSUME NEW g \in Goals, Retarget(g) PROVE RecordsAreSound'
  BY <1>9 DEF Retarget, RecordsAreSound
<1>10. CASE StartOver
  <2>1. SoundRecord(ledger', done', reopened')
    BY <1>10, EmptyRecord DEF StartOver
  <2>. QED
    BY <1>10, <2>1 DEF StartOver, RecordsAreSound
<1>11. CASE Resume
  <2>1. SoundRecord(ledger', done', reopened')
    BY <1>11, ResumeSound
  <2>. QED
    BY <1>11, <2>1 DEF Resume, RecordsAreSound
<1>12. CASE UNCHANGED vars
  BY <1>12 DEF vars, RecordsAreSound
<1>. QED
  BY <1>1, <1>2, <1>3, <1>4, <1>5, <1>6, <1>7, <1>8, <1>9, <1>10, <1>11, <1>12 DEF Next

\* Every record is sound in every state: evidence is dated by a completed test, evidence of
\* this session by one that came to a conclusion here (observation-resolution-service.ts).
THEOREM RecordsAreAlwaysSound == Spec => []RecordsAreSound
BY RecordsInit, RecordsStep, PTL DEF Spec

\* The type invariant, for any tests, answers and number of runs.
THEOREM CharacterizationTyped == Spec => []CharacterizationTypeOK
<1>1. RecordsAreSound => CharacterizationTypeOK
  <2>. SUFFICES ASSUME RecordsAreSound PROVE CharacterizationTypeOK
    OBVIOUS
  <2>1. /\ open \in Tests \cup {NoTest} /\ reopened \subseteq Ran \cup {open}
        /\ strategy \in {Strategies[k] : k \in 1 .. 3} \cup {NoStrategy}
        /\ Len(done) <= MaxRuns
    BY DEF RecordsAreSound, SoundRecord, Ran, TestsOf
  <2>2. ASSUME NEW e \in ledger
        PROVE  /\ e.claim \in ClaimIds /\ e.status \in Statuses /\ e.hold \in Holds
               /\ e.at \in DOMAIN done
               /\ (e.scope = "current-session") = done[e.at].here
    <3>1. e \in Pieces /\ e.at \in DOMAIN done /\ done \in Seq(Runs)
      BY DEF RecordsAreSound, SoundRecord
    <3>2. e.scope = "current-session" <=> done[e.at].here = TRUE
      BY DEF RecordsAreSound, SoundRecord
    <3>3. done[e.at] \in Runs
      BY <3>1
    <3>4. done[e.at].here \in BOOLEAN
      BY <3>3 DEF Runs
    <3>. QED
      BY <3>1, <3>2, <3>4 DEF Pieces
  <2>. QED
    BY <2>1, <2>2 DEF CharacterizationTypeOK
<1>. QED
  BY <1>1, RecordsAreAlwaysSound, PTL

------------------------------------------------------------------------------
(* What a record of the past authorizes.                                   *)

\* Whether a claim authorizes, and with it every permission, depends on the trusted part of
\* the evidence alone.
LEMMA TrustDecides ==
  ASSUME NEW p, NEW q, Trusted(p) = Trusted(q)
  PROVE  /\ \A c : Authorized(c, p) = Authorized(c, q)
         /\ \A path : Open(path, p) = Open(path, q)
         /\ \A path : SendAnswer(path, p) = SendAnswer(path, q)
         /\ \A live : Actions(live, p) = Actions(live, q)
         /\ \A live : RecommendedAction(live, p) = RecommendedAction(live, q)
<1>1. \A c : Authorized(c, p) = Authorized(c, q)
  BY DEF Authorized, OperationalStatus
<1>2. \A path : Open(path, p) = Open(path, q)
  <2>. SUFFICES ASSUME NEW path PROVE Open(path, p) = Open(path, q)
    OBVIOUS
  <2>. QED
    BY <1>1 DEF Open
<1>3. \A path : SendAnswer(path, p) = SendAnswer(path, q)
  BY <1>2 DEF SendAnswer
<1>4. \A c : Missing(c, p) = Missing(c, q)
  BY <1>1 DEF Missing
<1>5. \A c, live : IsOffered(c, live, p) = IsOffered(c, live, q)
  <2>. SUFFICES ASSUME NEW c, NEW live PROVE IsOffered(c, live, p) = IsOffered(c, live, q)
    OBVIOUS
  <2>. QED
    BY <1>2, <1>4 DEF IsOffered
<1>6. \A live : Actions(live, p) = Actions(live, q)
  <2>. SUFFICES ASSUME NEW live PROVE Actions(live, p) = Actions(live, q)
    OBVIOUS
  <2>. QED
    BY <1>5 DEF Actions
<1>7. \A live : RecommendedAction(live, p) = RecommendedAction(live, q)
  <2>. SUFFICES ASSUME NEW live
                PROVE RecommendedAction(live, p) = RecommendedAction(live, q)
    OBVIOUS
  <2>1. Actions(live, p) = Actions(live, q)
    BY <1>6
  <2>. QED
    BY <2>1 DEF RecommendedAction
<1>. QED
  BY <1>1, <1>2, <1>3, <1>6, <1>7

\* Without a conclusive run of this session no evidence of the record is trusted.
LEMMA PastIsUntrusted ==
  ASSUME RecordsAreSound, LiveRuns = {}
  PROVE  Trusted(AllEvidence) = Trusted(BaselineEvidence)
<1>1. ASSUME NEW e \in ledger PROVE e.scope \notin TrustedScopes
  <2>1. e \in Pieces /\ e.at \in DOMAIN done
    BY DEF RecordsAreSound, SoundRecord
  <2>2. e.scope # "current-session"
    <3>. SUFFICES ASSUME e.scope = "current-session" PROVE FALSE
      OBVIOUS
    <3>1. done[e.at].here = TRUE /\ done[e.at].resolution \in Conclusive
      BY DEF RecordsAreSound, SoundRecord
    <3>2. done[e.at] \in LiveRuns
      BY <2>1, <3>1 DEF LiveRuns, Conclusive
    <3>. QED
      BY <3>2
  <2>. QED
    BY <2>1, <2>2 DEF Pieces, TrustedScopes
<1>. QED
  BY <1>1 DEF Trusted, AllEvidence

\* Whatever a record of an earlier session says, for any tests, answers, goals and any number
\* of runs: it offers, recommends and sends nothing that the shipped evidence does not
\* (demoteInvestigationEvidence, resolveTrust, assessDevice, _requestContentSend).
THEOREM RecordsAuthorizeNothing == Spec => []ResumedRecordsAuthorizeNothing
<1>1. RecordsAreSound => ResumedRecordsAuthorizeNothing
  <2>. SUFFICES ASSUME RecordsAreSound, LiveRuns = {}
                PROVE  /\ Actions(linked, AllEvidence) = Actions(linked, BaselineEvidence)
                       /\ RecommendedAction(linked, AllEvidence)
                            = RecommendedAction(linked, BaselineEvidence)
                       /\ \A p \in Paths :
                            SendAnswer(p, AllEvidence) = SendAnswer(p, BaselineEvidence)
    BY DEF ResumedRecordsAuthorizeNothing
  <2>1. Trusted(AllEvidence) = Trusted(BaselineEvidence)
    BY PastIsUntrusted
  <2>. QED
    BY <2>1, TrustDecides
<1>. QED
  BY <1>1, RecordsAreAlwaysSound, PTL

------------------------------------------------------------------------------
(* What a person saw, and what the evidence says of it.                    *)

\* The conclusions of a run, as they join the record.
Conclusions(run, k) == {Evidence(u, k) : u \in Interpret(run.test, run.answer).updates}
Live(run) == run.here = TRUE /\ run.resolution \in Conclusive

\* The evidence of this session is what its runs concluded, all of it and nothing else.
Observed(pieces, runs) ==
  /\ \A k \in DOMAIN runs : Live(runs[k]) =>
       runs[k].answer \in Answers(runs[k].test) /\ Conclusions(runs[k], k) \subseteq pieces
  /\ \A e \in pieces : e.scope = "current-session" => e \in Conclusions(runs[e.at], e.at)
ObservedHere == RecordsAreSound /\ Observed(ledger, done)

LEMMA NothingObserved == Observed({}, <<>>)
BY DEF Observed

LEMMA CompleteObserved ==
  ASSUME ObservedHere, open # NoTest,
         NEW answer \in AllAnswers, NEW resolution \in Conclusive \cup {"abandoned"},
         NEW updates \in SUBSET Updates,
         resolution \in Conclusive => /\ updates = Interpret(open, answer).updates
                                      /\ answer \in Answers(open),
         updates # {} => resolution \in Conclusive,
         Complete(open, answer, resolution, {Evidence(u, Len(done) + 1) : u \in updates})
  PROVE  Observed(ledger', done')
<1>. DEFINE run == [test |-> open, answer |-> answer, resolution |-> resolution, here |-> TRUE]
            new == {Evidence(u, Len(done) + 1) : u \in updates}
<1>1. /\ done \in Seq(Runs) /\ open \in Tests /\ Observed(ledger, done)
      /\ \A e \in ledger : e.at \in DOMAIN done
  BY DEF ObservedHere, RecordsAreSound, SoundRecord
<1>2. run \in Runs
  BY <1>1 DEF Runs
<1>3. done' = Append(done, run) /\ ledger' = ledger \cup new
  BY DEF Complete
<1>4. \A e \in new : e.at = Len(done) + 1 /\ e.scope = "current-session" /\ updates # {}
  BY DEF Evidence
<1>5. resolution \in Conclusive => new = Conclusions(run, Len(done) + 1)
  BY DEF Conclusions
<1>6. run.test = open /\ run.answer = answer /\ run.resolution = resolution
  OBVIOUS
<1>. HIDE DEF new
<1>7. /\ DOMAIN done' = 1 .. Len(done) + 1 /\ DOMAIN done = 1 .. Len(done)
      /\ done'[Len(done) + 1] = run /\ \A k \in DOMAIN done : done'[k] = done[k]
  <2>. HIDE DEF run
  <2>. QED
    BY <1>1, <1>2, <1>3
<1>. HIDE DEF run
<1>8. ASSUME NEW k \in DOMAIN done', Live(done'[k])
      PROVE  /\ done'[k].answer \in Answers(done'[k].test)
             /\ Conclusions(done'[k], k) \subseteq ledger'
  <2>1. CASE k \in DOMAIN done
    <3>1. done'[k] = done[k]
      BY <1>7, <2>1
    <3>2. /\ done[k].answer \in Answers(done[k].test)
          /\ Conclusions(done[k], k) \subseteq ledger
      BY <1>1, <1>8, <2>1, <3>1 DEF Observed
    <3>. QED
      BY <1>3, <3>1, <3>2
  <2>2. CASE k = Len(done) + 1
    <3>1. done'[k] = run /\ resolution \in Conclusive
      BY <1>6, <1>7, <1>8, <2>2 DEF Live
    <3>. QED
      BY <1>3, <1>5, <1>6, <2>2, <3>1
  <2>. QED
    BY <1>1, <1>7, <2>1, <2>2
<1>9. ASSUME NEW e \in ledger', e.scope = "current-session"
      PROVE  e \in Conclusions(done'[e.at], e.at)
  <2>1. CASE e \in ledger
    <3>1. done'[e.at] = done[e.at]
      BY <1>1, <1>7, <2>1
    <3>2. e \in Conclusions(done[e.at], e.at)
      BY <1>1, <1>9, <2>1 DEF Observed
    <3>. QED
      BY <3>1, <3>2
  <2>2. CASE e \in new
    <3>1. e.at = Len(done) + 1 /\ resolution \in Conclusive
      BY <1>4, <2>2
    <3>2. done'[e.at] = run
      BY <1>7, <3>1
    <3>. QED
      BY <1>5, <2>2, <3>1, <3>2
  <2>. QED
    BY <1>3, <2>1, <2>2
<1>. QED
  BY <1>8, <1>9 DEF Observed

LEMMA ResumeObserved == ASSUME ObservedHere, Resume PROVE Observed(ledger', done')
<1>1. /\ stored.done \in Seq(Runs)
      /\ ledger' = {[e EXCEPT !.scope = "previous-local-session"] : e \in stored.ledger}
      /\ done' = [k \in DOMAIN stored.done |-> [stored.done[k] EXCEPT !.here = FALSE]]
      /\ stored.ledger \subseteq Pieces
  BY DEF ObservedHere, RecordsAreSound, SoundRecord, Resume, Demoted
<1>2. \A r \in Runs : [r EXCEPT !.here = FALSE].here = FALSE
  BY DEF Runs
<1>3. \A k \in DOMAIN stored.done : stored.done[k] \in Runs
  BY <1>1
<1>4. \A k \in DOMAIN done' : ~Live(done'[k])
  BY <1>1, <1>2, <1>3 DEF Live
<1>5. \A e \in Pieces : [e EXCEPT !.scope = "previous-local-session"].scope # "current-session"
  BY DEF Pieces
<1>6. \A e \in ledger' : e.scope # "current-session"
  BY <1>1, <1>5
<1>. QED
  BY <1>4, <1>6 DEF Observed

LEMMA ObservedStep == ObservedHere /\ [Next]_vars => ObservedHere'
<1>. SUFFICES ASSUME ObservedHere, [Next]_vars PROVE Observed(ledger', done')
  BY RecordsStep DEF ObservedHere
<1>0. RecordsAreSound /\ Observed(ledger, done)
  BY DEF ObservedHere
<1>1. ASSUME UNCHANGED <<ledger, done>> PROVE Observed(ledger', done')
  BY <1>0, <1>1
<1>2. ASSUME NEW t \in Tests, StartTest(t) \/ Reopen(t) PROVE Observed(ledger', done')
  BY <1>1, <1>2 DEF StartTest, Reopen
<1>3. CASE Continue \/ Close \/ Lose \/ Reconnect \/ (\E g \in Goals : Retarget(g))
  BY <1>1, <1>3 DEF Continue, Close, Lose, Reconnect, Retarget
<1>4. ASSUME NEW answer \in AnswersNow, Record(answer) PROVE Observed(ledger', done')
  <2>. DEFINE result == Interpret(open, answer)
  <2>1. open # NoTest /\ open \in Tests /\ answer \in Answers(open)
    BY <1>0, <1>4 DEF AnswersNow, RecordsAreSound
  <2>2. result.updates \subseteq Updates /\ result.resolution \in Conclusive
    BY <2>1, InterpretType
  <2>3. Complete(open, answer, result.resolution,
                 {Evidence(u, Len(done) + 1) : u \in result.updates})
    BY <1>4 DEF Record
  <2>4. answer \in AllAnswers /\ result.updates = Interpret(open, answer).updates
    BY <2>1, AnswersType
  <2>. HIDE DEF result
  <2>. QED
    BY <2>1, <2>2, <2>3, <2>4, CompleteObserved
<1>5. CASE Abandon
  <2>1. Complete(open, NoAnswer, "abandoned", {Evidence(u, Len(done) + 1) : u \in {}})
    BY <1>5 DEF Abandon
  <2>2. open # NoTest /\ NoAnswer \in AllAnswers /\ "abandoned" \notin Conclusive
    BY <1>5 DEF Abandon, AllAnswers, Conclusive
  <2>. QED
    BY <2>1, <2>2, CompleteObserved
<1>6. CASE StartOver
  BY <1>6, NothingObserved DEF StartOver
<1>7. CASE Resume
  BY <1>7, ResumeObserved
<1>8. CASE UNCHANGED vars
  BY <1>1, <1>8 DEF vars
<1>. QED
  BY <1>2, <1>3, <1>4, <1>5, <1>6, <1>7, <1>8 DEF Next

LEMMA ObservedAlways == Spec => []ObservedHere
<1>1. Init => ObservedHere
  BY RecordsInit, NothingObserved DEF Init, ObservedHere
<1>. QED
  BY <1>1, ObservedStep, PTL DEF Spec

------------------------------------------------------------------------------
(* What the evidence of this session decides.                              *)

\* The least number of a set of them.  (The principle of induction in the form of a
\* well-founded relation.)
LEMMA LeastNatural ==
  ASSUME NEW S \in SUBSET Nat, S # {}
  PROVE  \E n \in S : \A m \in S : n <= m
<1>. DEFINE family == {0 .. n : n \in S}
<1>1. IsWellFoundedOn(StrictSubsetOrdering(Nat), FiniteSubsetsOf(Nat))
  BY FS_StrictSubsetOrderingWellFounded
<1>2. family # {} /\ family \subseteq FiniteSubsetsOf(Nat)
  <2>1. ASSUME NEW n \in S PROVE 0 .. n \in FiniteSubsetsOf(Nat)
    <3>1. IsFiniteSet(0 .. n)
      BY FS_Interval
    <3>. QED
      BY <3>1 DEF FiniteSubsetsOf
  <2>. QED
    BY <2>1
<1>. HIDE DEF family
<1>3. PICK x \in family : \A y \in family : <<y, x>> \notin StrictSubsetOrdering(Nat)
  BY <1>1, <1>2, WFMin
<1>4. PICK n \in S : x = 0 .. n
  BY <1>3 DEF family
<1>5. ASSUME NEW m \in S, m < n PROVE FALSE
  <2>1. 0 .. m \in family
    BY DEF family
  <2>2. 0 .. m \subseteq 0 .. n /\ n \in 0 .. n /\ n \notin 0 .. m
    BY <1>5
  <2>3. <<0 .. m, x>> \in StrictSubsetOrdering(Nat)
    BY <1>4, <2>2 DEF StrictSubsetOrdering
  <2>. QED
    BY <1>3, <2>1, <2>3
<1>. QED
  BY <1>5

Dated(e) == e.scope \in Scopes /\ e.status \in Statuses /\ e.at \in Nat
LEMMA Priorities ==
  /\ \A s \in Scopes : ScopePriority[s] \in 0 .. 50
  /\ \A s \in Statuses : StatusPriority[s] \in 0 .. 50
  /\ \A s \in Scopes : ScopePriority[s] >= 50 <=> s = "current-session"
  /\ \A s \in Statuses : StatusPriority[s] >= 40 <=> s \in {"rejected", "unresolved"}
BY DEF ScopePriority, StatusPriority, Scopes, Statuses

\* However much evidence there is, one piece decides.
LEMMA ForemostExists ==
  ASSUME NEW entries, entries # {}, \A e \in entries : Dated(e)
  PROVE  /\ Foremost(entries) \in entries
         /\ \A f \in entries : Outranks(Foremost(entries), f)
<1>. DEFINE low(e) == 50 - ScopePriority[e.scope]
            below(e) == 50 - StatusPriority[e.status]
            S1 == {low(e) : e \in entries}
<1>1. \A e \in entries : /\ ScopePriority[e.scope] \in 0 .. 50 /\ low(e) \in Nat
                         /\ StatusPriority[e.status] \in 0 .. 50 /\ below(e) \in Nat
                         /\ e.at \in Nat
  BY Priorities DEF Dated
<1>2. PICK e1 \in entries : \A f \in entries : low(e1) <= low(f)
  <2>1. S1 \in SUBSET Nat /\ S1 # {}
    BY <1>1
  <2>2. PICK n \in S1 : \A m \in S1 : n <= m
    <3>. HIDE DEF S1
    <3>. QED
      BY <2>1, LeastNatural
  <2>. QED
    BY <2>2
<1>. DEFINE first == {e \in entries : low(e) = low(e1)}
            S2 == {below(e) : e \in first}
<1>3. PICK e2 \in first : \A f \in first : below(e2) <= below(f)
  <2>1. S2 \in SUBSET Nat /\ S2 # {}
    BY <1>1, <1>2
  <2>2. PICK n \in S2 : \A m \in S2 : n <= m
    <3>. HIDE DEF S2
    <3>. QED
      BY <2>1, LeastNatural
  <2>. QED
    BY <2>2
<1>. DEFINE second == {e \in first : below(e) = below(e2)}
            S3 == {e.at : e \in second}
<1>4. PICK e3 \in second : \A f \in second : e3.at <= f.at
  <2>1. S3 \in SUBSET Nat /\ S3 # {}
    BY <1>1, <1>3
  <2>2. PICK n \in S3 : \A m \in S3 : n <= m
    <3>. HIDE DEF S3
    <3>. QED
      BY <2>1, LeastNatural
  <2>. QED
    BY <2>2
<1>5. e3 \in entries
  BY <1>4
<1>6. ASSUME NEW f \in entries PROVE Outranks(e3, f)
  <2>1. /\ low(e3) = low(e1) /\ below(e3) = below(e2)
        /\ low(e1) <= low(f)
    BY <1>2, <1>4
  <2>2. CASE low(f) = low(e1)
    <3>1. f \in first /\ below(e2) <= below(f)
      BY <1>3, <2>2
    <3>2. CASE below(f) = below(e2)
      <4>1. f \in second
        BY <3>1, <3>2
      <4>2. e3.at <= f.at
        BY <1>4, <4>1
      <4>3. /\ ScopePriority[e3.scope] = ScopePriority[f.scope]
            /\ StatusPriority[e3.status] = StatusPriority[f.status]
        BY <1>1, <1>5, <2>1, <2>2, <3>2
      <4>. QED
        BY <4>2, <4>3 DEF Outranks
    <3>3. CASE below(f) # below(e2)
      <4>1. ScopePriority[e3.scope] = ScopePriority[f.scope]
        BY <1>1, <1>5, <2>1, <2>2
      <4>2. StatusPriority[e3.status] > StatusPriority[f.status]
        BY <1>1, <1>5, <2>1, <3>1, <3>3
      <4>. QED
        BY <4>1, <4>2 DEF Outranks
    <3>. QED
      BY <3>2, <3>3
  <2>3. CASE low(f) # low(e1)
    <3>1. ScopePriority[e3.scope] > ScopePriority[f.scope]
      BY <1>1, <1>5, <2>1, <2>3
    <3>. QED
      BY <3>1 DEF Outranks
  <2>. QED
    BY <2>2, <2>3
<1>. HIDE DEF first, second
<1>. QED
  BY <1>5, <1>6 DEF Foremost

\* What was seen in this session to speak against a claim keeps it from being verified,
\* however much speaks for it.
LEMMA ContradictionDecides ==
  ASSUME NEW pool, \A e \in Trusted(pool) : Dated(e),
         NEW e \in Trusted(pool), e.scope = "current-session",
         e.status \in {"rejected", "unresolved"}
  PROVE  Decided(e.claim, Trusted(pool)) # "verified"
<1>. DEFINE entries == About(e.claim, Trusted(pool))
            f == Foremost(entries)
<1>1. e \in entries /\ \A x \in entries : Dated(x)
  BY DEF About
<1>2. Decided(e.claim, Trusted(pool)) = f.status
  BY <1>1 DEF Decided, StatusOf
<1>. HIDE DEF entries
<1>3. f \in entries /\ Outranks(f, e)
  BY <1>1, ForemostExists
<1>4. /\ ScopePriority[f.scope] \in 0 .. 50 /\ ScopePriority[e.scope] \in 0 .. 50
      /\ StatusPriority[f.status] \in 0 .. 50 /\ StatusPriority[e.status] \in 0 .. 50
      /\ ScopePriority[e.scope] >= 50 /\ StatusPriority[e.status] >= 40 /\ f.status \in Statuses
  BY <1>1, <1>3, Priorities DEF Dated
<1>. HIDE DEF f
<1>5. StatusPriority[f.status] >= 40
  BY <1>3, <1>4 DEF Outranks
<1>6. f.status \in {"rejected", "unresolved"}
  BY <1>4, <1>5, Priorities
<1>. QED
  BY <1>2, <1>6

\* A claim that is verified is so by a piece of evidence.
LEMMA VerifiedByEvidence ==
  ASSUME NEW pool, NEW c, \A e \in Trusted(pool) : Dated(e),
         Decided(c, Trusted(pool)) = "verified"
  PROVE  /\ DecidedBy(c, Trusted(pool)) \in Trusted(pool)
         /\ DecidedBy(c, Trusted(pool)).claim = c
         /\ DecidedBy(c, Trusted(pool)).status = "verified"
<1>. DEFINE entries == About(c, Trusted(pool))
<1>1. entries # {} /\ \A x \in entries : Dated(x) /\ x \in Trusted(pool) /\ x.claim = c
  BY DEF About, Decided, StatusOf
<1>2. Foremost(entries).status = "verified"
  BY <1>1 DEF Decided, StatusOf
<1>3. DecidedBy(c, Trusted(pool)) = Foremost(entries)
  BY DEF DecidedBy
<1>. HIDE DEF entries
<1>. QED
  BY <1>1, <1>2, <1>3, ForemostExists

------------------------------------------------------------------------------
(* What makes a strategy viable.                                           *)

StrategyNames == {"graffiti", "animation-single-frame", "animation-identical-frames"}
LEMMA StrategyPlaces ==
  /\ Strategies[1] = "graffiti" /\ Strategies[2] = "animation-single-frame"
  /\ Strategies[3] = "animation-identical-frames"
  /\ {Strategies[k] : k \in 1 .. 3} = StrategyNames /\ NoStrategy \notin StrategyNames
<1>1. /\ Strategies[1] = "graffiti" /\ Strategies[2] = "animation-single-frame"
      /\ Strategies[3] = "animation-identical-frames"
  BY DEF Strategies
<1>2. \A k \in 1 .. 3 : k = 1 \/ k = 2 \/ k = 3
  OBVIOUS
<1>. QED
  BY <1>1, <1>2 DEF StrategyNames, NoStrategy

\* The selected strategy is a viable one.
LEMMA SelectedIsViable ==
  ASSUME NEW pool, Selected(pool) # NoStrategy
  PROVE  Selected(pool) \in StrategyNames /\ Verdict(Selected(pool), pool) = "viable"
<1>. DEFINE places == {n \in 1 .. 3 : Verdict(Strategies[n], pool) = "viable"} \cup {4}
            k == First(places)
<1>1. Selected(pool) = Append(Strategies, NoStrategy)[k]
  BY DEF Selected
<1>2. k \in places
  <2>1. places \in SUBSET Nat /\ places # {}
    OBVIOUS
  <2>. HIDE DEF places
  <2>2. \E n \in places : \A m \in places : n <= m
    BY <2>1, LeastNatural
  <2>. QED
    BY <2>1, <2>2 DEF First
<1>3. /\ Append(Strategies, NoStrategy)[4] = NoStrategy
      /\ \A n \in 1 .. 3 : Append(Strategies, NoStrategy)[n] = Strategies[n]
  BY DEF Strategies
<1>4. k # 4
  BY <1>1, <1>3
<1>5. k \in 1 .. 3 /\ Verdict(Strategies[k], pool) = "viable"
  BY <1>2, <1>4
<1>. HIDE DEF k
<1>. QED
  BY <1>1, <1>3, <1>5, StrategyPlaces

\* What each strategy rests on, as far as the results below speak of it.
LEMMA RestsOn ==
  /\ {"raster.tiling", "raster.orientation", "graffiti.initial-render",
      "graffiti.playback-stability", "graffiti.black-semantics",
      "pixel.encoder-correctness"} \subseteq RequiredBy("graffiti")
  /\ {"animation.black-semantics", "pixel.encoder-correctness", "animation.static-single-frame"}
       \subseteq RequiredBy("animation-single-frame")
  /\ {"animation.black-semantics", "pixel.encoder-correctness", "animation.static-identical-pair"}
       \subseteq RequiredBy("animation-identical-frames")
<1>1. DOMAIN Requirements = StrategyNames
  BY StrategyPlaces DEF Requirements
<1>2. {"raster.tiling", "raster.orientation", "graffiti.initial-render",
       "graffiti.playback-stability", "graffiti.black-semantics",
       "pixel.encoder-correctness"} \subseteq RequiredBy("graffiti")
  <2>. DEFINE r == <<"stored-program.upload", "raster.tiling", "raster.orientation",
                     "graffiti.initial-render", "graffiti.playback-stability",
                     "graffiti.black-semantics", "pixel.channel-map",
                     "pixel.encoder-correctness">>
  <2>1. Requirements["graffiti"] = r
    BY <1>1 DEF Requirements, StrategyNames
  <2>2. /\ DOMAIN r = 1 .. 8 /\ r[2] = "raster.tiling" /\ r[3] = "raster.orientation"
        /\ r[4] = "graffiti.initial-render" /\ r[5] = "graffiti.playback-stability"
        /\ r[6] = "graffiti.black-semantics" /\ r[8] = "pixel.encoder-correctness"
    OBVIOUS
  <2>. HIDE DEF r
  <2>. QED
    BY <2>1, <2>2 DEF RequiredBy
<1>3. ASSUME NEW s \in StrategyNames, NEW c, Requirements[s] = Append(AnimationCommon, c)
      PROVE  {"animation.black-semantics", "pixel.encoder-correctness", c} \subseteq RequiredBy(s)
  <2>. DEFINE r == Append(AnimationCommon, c)
  <2>1. r[4] = "animation.black-semantics" /\ r[6] = "pixel.encoder-correctness"
    BY DEF AnimationCommon
  <2>2. r[7] = c
    BY DEF AnimationCommon
  <2>3. DOMAIN r = 1 .. 7
    BY DEF AnimationCommon
  <2>. HIDE DEF r
  <2>4. RequiredBy(s) = {r[k] : k \in 1 .. 7}
    <3>1. Requirements[s] = r
      BY <1>3 DEF r
    <3>. QED
      BY <2>3, <3>1 DEF RequiredBy
  <2>5. 4 \in 1 .. 7 /\ 6 \in 1 .. 7 /\ 7 \in 1 .. 7
    OBVIOUS
  <2>. QED
    BY <2>1, <2>2, <2>4, <2>5
<1>4. /\ Requirements["animation-single-frame"]
           = Append(AnimationCommon, "animation.static-single-frame")
      /\ Requirements["animation-identical-frames"]
           = Append(AnimationCommon, "animation.static-identical-pair")
  BY <1>1 DEF Requirements, StrategyNames
<1>5. "animation-single-frame" \in StrategyNames /\ "animation-identical-frames" \in StrategyNames
  BY DEF StrategyNames
<1>. QED
  BY <1>2, <1>3, <1>4, <1>5

\* A strategy is viable only if all it rests on is verified, and no image was watched too
\* briefly.
LEMMA ViableMeansVerified ==
  ASSUME NEW s, NEW pool, Verdict(s, pool) = "viable", NEW c \in RequiredBy(s)
  PROVE  /\ Decided(c, Trusted(pool)) = "verified"
         /\ c \in HoldClaims => DecidedBy(c, Trusted(pool)).hold # "short"
<1>1. /\ RequirementState(c, Trusted(pool)) # "failed"
      /\ RequirementState(c, Trusted(pool)) # "open"
  BY DEF Verdict, VerdictOn, RequirementStates
<1>2. /\ AtomicStatus(c, Trusted(pool)) = "verified"
      /\ ~(c \in HoldClaims /\ DecidedBy(c, Trusted(pool)).hold = "short")
  BY <1>1 DEF RequirementState, StateOf
<1>. QED
  BY <1>2 DEF AtomicStatus, TakenBack

\* Nothing is offered as a still image, nor vouched for, without a strategy.
LEMMA TrustedAlone ==
  ASSUME NEW pool PROVE Trusted(Trusted(pool)) = Trusted(pool)
                        /\ Selected(Trusted(pool)) = Selected(pool)
<1>1. Trusted(Trusted(pool)) = Trusted(pool)
  BY DEF Trusted
<1>. QED
  BY <1>1 DEF Selected, Verdict, RequirementStates
LEMMA OfferedWithStrategy ==
  ASSUME NEW pool, NEW c \in {"static-frame", "text"}, Missing(c, pool) = {}
  PROVE  Selected(pool) # NoStrategy
<1>1. c \in CapabilityIds /\ Needed[c] = {"stored-program.upload", "static.strategy"}
  <2>1. c \in CapabilityIds
    BY DEF CapabilityIds, Provided
  <2>. QED
    BY <2>1 DEF Needed
<1>2. Authorized("static.strategy", pool)
  BY <1>1 DEF Missing
<1>3. StrategyStatus(Trusted(pool)) = "verified"
  BY <1>2 DEF Authorized, OperationalStatus, ClaimStatus
<1>. QED
  BY <1>3, TrustedAlone DEF StrategyStatus
LEMMA VouchedWithStrategy ==
  ASSUME NEW pool, Confidence("static-frame", pool) = "verified"
  PROVE  Selected(pool) # NoStrategy
BY OfferedWithStrategy DEF Confidence

------------------------------------------------------------------------------
(* What the runs of this session decide.                                   *)

\* What is shipped is dated, and belongs to no session.
OfBaseline(e) == Dated(e) /\ e.scope \in {"built-in-profile", "source-reference"}
LEMMA ShippedFields ==
  ASSUME NEW c, NEW status \in Statuses, NEW x
  PROVE  /\ OfBaseline(Shipped(c, status))
         /\ OfBaseline([Shipped(c, status) EXCEPT !.shows = x])
         /\ OfBaseline(Measured(c)) /\ OfBaseline(FromSource(c))
         /\ Shipped(c, status).status = status /\ Shipped(c, status).claim = c
         /\ FromSource(c).status = "source-supported"
<1>1. /\ {"built-in-profile", "source-reference"} \subseteq Scopes
      /\ {"verified", "source-supported"} \subseteq Statuses
  BY DEF Scopes, Statuses
<1>2. /\ OfBaseline(Shipped(c, status))
      /\ OfBaseline([Shipped(c, status) EXCEPT !.shows = x])
      /\ Shipped(c, status).status = status /\ Shipped(c, status).claim = c
  BY <1>1 DEF OfBaseline, Dated, Shipped
<1>3. OfBaseline(Measured(c))
  BY <1>1 DEF OfBaseline, Dated, Shipped, Measured
<1>4. OfBaseline(FromSource(c)) /\ FromSource(c).status = "source-supported"
  BY <1>1 DEF OfBaseline, Dated, Shipped, FromSource
<1>. QED
  BY <1>2, <1>3, <1>4

LEMMA BaselineDated == \A e \in BaselineEvidence : OfBaseline(e)
<1>1. {"verified", "rejected", "unresolved"} \subseteq Statuses
  BY DEF Statuses
<1>2. \A c : /\ OfBaseline(Shipped(c, "verified")) /\ OfBaseline(Shipped(c, "rejected"))
             /\ OfBaseline(Shipped(c, "unresolved"))
             /\ OfBaseline(Measured(c)) /\ OfBaseline(FromSource(c))
  BY <1>1, ShippedFields
<1>3. OfBaseline([Shipped("graffiti.black-semantics", "verified") EXCEPT !.shows = "off-black"])
  BY <1>1, ShippedFields
<1>4. ASSUME NEW e \in IledHat PROVE OfBaseline(e)
  <2>1. \/ \E c : \/ e = Shipped(c, "verified") \/ e = Measured(c) \/ e = FromSource(c)
                  \/ e = Shipped(c, "rejected") \/ e = Shipped(c, "unresolved")
        \/ e = [Shipped("graffiti.black-semantics", "verified") EXCEPT !.shows = "off-black"]
    BY DEF IledHat
  <2>. QED
    BY <1>2, <1>3, <2>1, Zenon
<1>5. ASSUME NEW e \in Bare PROVE OfBaseline(e)
  BY <1>2 DEF Bare
<1>. QED
  BY <1>4, <1>5 DEF BaselineEvidence

\* About a display nobody has measured, nothing that is shipped says that an image stays
\* still or that its colors come out right.
LEMMA BareIsUnmeasured ==
  ASSUME baseline = "bare", NEW e \in BaselineEvidence,
         e.claim \in HoldClaims \cup {"pixel.encoder-correctness"}
  PROVE  e.status # "verified"
<1>1. e \in Bare
  BY DEF BaselineEvidence
<1>2. {"verified", "unresolved"} \subseteq Statuses
  BY DEF Statuses
<1>3. \A c : /\ Shipped(c, "verified").claim = c /\ Shipped(c, "unresolved").status = "unresolved"
             /\ FromSource(c).status = "source-supported"
  BY <1>2, ShippedFields
<1>4. \A c \in KnownToBoth : c \notin HoldClaims \cup {"pixel.encoder-correctness"}
  BY DEF KnownToBoth, HoldClaims
<1>5. \/ \E c \in KnownToBoth : e = Shipped(c, "verified")
      \/ \E c : e = Shipped(c, "unresolved") \/ e = FromSource(c)
  BY <1>1 DEF Bare
<1>. QED
  BY <1>3, <1>4, <1>5

LEMMA AllDated ==
  ASSUME ObservedHere
  PROVE  /\ \A e \in Trusted(AllEvidence) : Dated(e)
         /\ \A e \in ledger : e.scope = "current-session" => e \in Trusted(AllEvidence)
         /\ \A e \in Trusted(AllEvidence) :
              e \in BaselineEvidence \/ (e \in ledger /\ e.scope = "current-session")
<1>1. ledger \subseteq Pieces
  BY DEF ObservedHere, RecordsAreSound, SoundRecord
<1>2. \A e \in ledger : Dated(e) /\ e.scope \in {"current-session", "previous-local-session"}
  BY <1>1 DEF Pieces, Dated, Scopes
<1>. QED
  BY <1>2, BaselineDated DEF OfBaseline, Trusted, TrustedScopes, AllEvidence

\* The updates a test that went wrong makes.
TellAgainst(u, s) == u.claim \in RequiredBy(s) /\ u.status \in {"rejected", "unresolved"}
LEMMA UpdateFields ==
  ASSUME NEW c, NEW status, NEW h
  PROVE  /\ Update(c, status).claim = c /\ Update(c, status).status = status
         /\ Held(c, status, h).claim = c /\ Held(c, status, h).status = status
BY DEF Update, Held

LEMMA SpoiledTest ==
  ASSUME NEW run, NEW s \in StrategyNames, Spoils(run, s)
  PROVE  \E u \in Interpret(run.test, run.answer).updates : TellAgainst(u, s)
<1>. DEFINE a == run.answer
            updates == Interpret(run.test, run.answer).updates
<1>. SUFFICES \E u \in updates : TellAgainst(u, s)
  OBVIOUS
<1>1. CASE run.test = "pixel-channels" /\ a.rgb = "permuted"
  <2>1. Update("pixel.encoder-correctness", "rejected") \in updates
    BY <1>1 DEF Interpret, InterpretPixels, ChannelUpdates, Result
  <2>2. "pixel.encoder-correctness" \in RequiredBy(s)
    BY RestsOn DEF StrategyNames
  <2>. HIDE DEF updates
  <2>. QED
    BY <2>1, <2>2, UpdateFields DEF TellAgainst
<1>2. ASSUME s = "graffiti", run.test \in {"graffiti-timing", "graffiti-staytime"}
      PROVE  \E n \in {0, 3} :
               /\ updates = {Update("graffiti.initial-render",
                                    IF a.timeline = "wrong" THEN "rejected" ELSE "verified"),
                             PlaybackUpdate(a, n)} \cup LayoutUpdates(a.layout)
               /\ run.test = "graffiti-staytime" => n = 0
  BY <1>2 DEF Interpret, InterpretTiming, Result
<1>3. CASE /\ s = "graffiti" /\ run.test \in {"graffiti-timing", "graffiti-staytime"}
           /\ a.timeline = "wrong" \/ a.layout \in {"broken", "turned"}
  <2>1. \/ Update("graffiti.initial-render", "rejected") \in updates
        \/ Update("raster.tiling", "unresolved") \in updates
        \/ Update("raster.orientation", "unresolved") \in updates
    <3>. HIDE DEF updates
    <3>. QED
      BY <1>2, <1>3 DEF LayoutUpdates
  <2>2. {"graffiti.initial-render", "raster.tiling", "raster.orientation"} \subseteq RequiredBy(s)
    BY <1>3, RestsOn
  <2>. HIDE DEF updates
  <2>. QED
    BY <2>1, <2>2, UpdateFields DEF TellAgainst
<1>4. CASE s = "graffiti" /\ run.test = "graffiti-staytime" /\ a.timeline = "moved"
  <2>1. PlaybackUpdate(a, 0) \in updates
    <3>. HIDE DEF updates
    <3>. QED
      BY <1>2, <1>4
  <2>2. PlaybackUpdate(a, 0)
          = Held("graffiti.playback-stability", "rejected", MeasuredHold(a.timeline))
    BY <1>4 DEF PlaybackUpdate
  <2>3. "graffiti.playback-stability" \in RequiredBy(s)
    BY <1>4, RestsOn
  <2>. HIDE DEF updates
  <2>. QED
    BY <2>1, <2>2, <2>3, UpdateFields DEF TellAgainst
<1>5. CASE s = "graffiti" /\ run.test = "graffiti-black" /\ a.zero = "another-color"
  <2>1. Update("graffiti.black-semantics", "unresolved") \in updates
    BY <1>5 DEF Interpret, InterpretBlack, Result
  <2>2. "graffiti.black-semantics" \in RequiredBy(s)
    BY <1>5, RestsOn
  <2>. HIDE DEF updates
  <2>. QED
    BY <2>1, <2>2, UpdateFields DEF TellAgainst
<1>6. ASSUME NEW c, c \in RequiredBy(s), "animation.black-semantics" \in RequiredBy(s),
             updates = InterpretStill(a, c).updates,
             a.timeline \in {"wrong", "moved"} \/ a.look \in {"lit", "flickers"}
      PROVE  \E u \in updates : TellAgainst(u, s)
  <2>0. updates = {Held(c, StillStatus(a), MeasuredHold(a.timeline))} \cup Unlit(a)
    BY <1>6 DEF InterpretStill, Result
  <2>. HIDE DEF updates
  <2>1. CASE a.look = "lit"
    <3>1. Update("animation.black-semantics", "unresolved") \in updates
      BY <2>0, <2>1 DEF Unlit
    <3>. QED
      BY <1>6, <3>1, UpdateFields DEF TellAgainst
  <2>2. CASE a.look # "lit"
    <3>1. a.timeline = "wrong" \/ a.timeline = "moved" \/ a.look = "flickers"
      BY <1>6, <2>2
    <3>. HIDE DEF a
    <3>2. StillStatus(a) = "rejected"
      BY <3>1 DEF StillStatus
    <3>3. Held(c, "rejected", MeasuredHold(a.timeline)) \in updates
      BY <2>0, <3>2
    <3>. QED
      BY <1>6, <3>3, UpdateFields DEF TellAgainst
  <2>. QED
    BY <2>1, <2>2
<1>7. CASE /\ s = "animation-single-frame" /\ run.test = "animation-static"
           /\ a.timeline \in {"wrong", "moved"} \/ a.look \in {"lit", "flickers"}
  <2>1. updates = InterpretStill(a, "animation.static-single-frame").updates
    BY <1>7 DEF Interpret
  <2>. QED
    BY <1>6, <1>7, <2>1, RestsOn
<1>8. CASE /\ s = "animation-identical-frames" /\ run.test = "animation-static-pair"
           /\ a.timeline \in {"wrong", "moved"} \/ a.look \in {"lit", "flickers"}
  <2>1. updates = InterpretStill(a, "animation.static-identical-pair").updates
    BY <1>8 DEF Interpret
  <2>. QED
    BY <1>6, <1>8, <2>1, RestsOn
<1>. QED
  BY <1>1, <1>3, <1>4, <1>5, <1>7, <1>8 DEF Spoils

\* The only tests that verify what a still image rests on, and the only answers.
Verifies(c, t, a) ==
  CASE c = "graffiti.playback-stability" ->
         t \in {"graffiti-timing", "graffiti-staytime"} /\ a.timeline = "held"
    [] c = "animation.static-single-frame" -> t = "animation-static" /\ a.timeline = "held"
    [] c = "animation.static-identical-pair" ->
         t = "animation-static-pair" /\ a.timeline = "held"
    [] c = "pixel.encoder-correctness" -> t = "pixel-channels" /\ a.rgb = "as-sent"
    [] OTHER -> TRUE
Elsewhere == ClaimIds \ (HoldClaims \cup {"pixel.encoder-correctness"})
LEMMA ElsewhereIsFree == \A c \in Elsewhere : \A t, a : Verifies(c, t, a)
BY DEF Elsewhere, Verifies, HoldClaims

LEMMA SpeaksElsewhere ==
  ASSUME NEW c, NEW status PROVE Update(c, status).claim = c
BY DEF Update
LEMMA ElsewhereClaims ==
  {"graffiti.initial-render", "raster.tiling", "raster.orientation", "graffiti.black-semantics",
   "animation.black-semantics", "pixel.channel-map", "pixel.fourth-channel",
   "pixel.white-channel", "pixel.color-calibration", "image.rendering"} \subseteq Elsewhere
BY DEF Elsewhere, ClaimIds, Uploading, Rendering, Animating, Mapped, Showing, HoldClaims

LEMMA VerifyingTest ==
  ASSUME NEW t \in Tests, NEW a \in Answers(t), NEW u \in Interpret(t, a).updates,
         u.status = "verified"
  PROVE  u.claim \in Elsewhere \/ Verifies(u.claim, t, a)
<1>1. ASSUME NEW n, u \in InterpretTiming(a, n).updates,
             t \in {"graffiti-timing", "graffiti-staytime"}
      PROVE  u.claim \in Elsewhere \/ Verifies(u.claim, t, a)
  <2>1. CASE u = PlaybackUpdate(a, n)
    <3>1. PICK s : /\ u = Held("graffiti.playback-stability", s, MeasuredHold(a.timeline))
                   /\ s = "verified" => a.timeline = "held"
      BY <2>1 DEF PlaybackUpdate
    <3>2. u.claim = "graffiti.playback-stability" /\ a.timeline = "held"
      BY <3>1, UpdateFields
    <3>. QED
      BY <1>1, <3>2 DEF Verifies
  <2>2. CASE u # PlaybackUpdate(a, n)
    <3>1. \E c \in {"graffiti.initial-render", "raster.tiling", "raster.orientation"} :
            \E s : u = Update(c, s)
      BY <1>1, <2>2 DEF InterpretTiming, Result, LayoutUpdates
    <3>. QED
      BY <3>1, SpeaksElsewhere, ElsewhereClaims
  <2>. QED
    BY <2>1, <2>2
<1>2. ASSUME NEW c, u \in InterpretStill(a, c).updates,
             \/ t = "animation-static" /\ c = "animation.static-single-frame"
             \/ t = "animation-static-pair" /\ c = "animation.static-identical-pair"
      PROVE  u.claim \in Elsewhere \/ Verifies(u.claim, t, a)
  <2>1. CASE u = Held(c, StillStatus(a), MeasuredHold(a.timeline))
    <3>1. u.claim = c /\ StillStatus(a) = "verified"
      BY <2>1, UpdateFields
    <3>2. a.timeline = "held"
      BY <3>1 DEF StillStatus
    <3>. QED
      BY <1>2, <3>1, <3>2 DEF Verifies
  <2>2. CASE u # Held(c, StillStatus(a), MeasuredHold(a.timeline))
    <3>1. u = Update("animation.black-semantics", "unresolved")
      BY <1>2, <2>2 DEF InterpretStill, Result, Unlit
    <3>. QED
      BY <3>1, SpeaksElsewhere, ElsewhereClaims
  <2>. QED
    BY <2>1, <2>2
<1>3. CASE t = "graffiti-timing"
  BY <1>1, <1>3 DEF Interpret
<1>4. CASE t = "graffiti-staytime"
  BY <1>1, <1>4 DEF Interpret
<1>5. CASE t = "animation-static"
  BY <1>2, <1>5 DEF Interpret
<1>6. CASE t = "animation-static-pair"
  BY <1>2, <1>6 DEF Interpret
<1>7. CASE t = "graffiti-black"
  <2>1. u \in InterpretBlack(a).updates
    BY <1>7 DEF Interpret
  <2>2. u.claim = "graffiti.black-semantics"
    BY <2>1 DEF InterpretBlack, Result, Update
  <2>. QED
    BY <2>2, ElsewhereClaims
<1>8. CASE t = "pixel-channels"
  <2>1. u \in InterpretPixels(a).updates
    BY <1>8 DEF Interpret
  <2>2. \/ u = Update("pixel.encoder-correctness",
                      IF a.rgb = "as-sent" THEN "verified" ELSE "rejected")
        \/ \E c \in {"pixel.channel-map", "pixel.fourth-channel", "pixel.white-channel"} :
             \E s : u = Update(c, s)
    BY <2>1 DEF InterpretPixels, ChannelUpdates, NibbleUpdates, Result
  <2>3. ASSUME u = Update("pixel.encoder-correctness",
                          IF a.rgb = "as-sent" THEN "verified" ELSE "rejected")
        PROVE  Verifies(u.claim, t, a)
    <3>1. u.claim = "pixel.encoder-correctness" /\ a.rgb = "as-sent"
      BY <2>3, UpdateFields
    <3>. QED
      BY <1>8, <3>1 DEF Verifies
  <2>. QED
    BY <2>2, <2>3, SpeaksElsewhere, ElsewhereClaims
<1>9. CASE t = "color-white"
  <2>1. u \in InterpretColors(a).updates
    BY <1>9 DEF Interpret
  <2>2. u.claim = "pixel.color-calibration"
    BY <2>1 DEF InterpretColors, Result, Update
  <2>. QED
    BY <2>2, ElsewhereClaims
<1>10. CASE t = "normal-image-smoke"
  <2>1. u \in InterpretNormalImage(a).updates
    BY <1>10 DEF Interpret
  <2>2. a.timeline \in {"wrong", "moved", "short", "held"}
    BY <1>10, AnswersAssumption DEF Answers
  <2>3. u.claim \in {"image.rendering", "raster.orientation"}
    BY <2>1, <2>2 DEF InterpretNormalImage, Result, Update, Held
  <2>. QED
    BY <2>3, ElsewhereClaims
<1>. QED
  BY <1>3, <1>4, <1>5, <1>6, <1>7, <1>8, <1>9, <1>10 DEF Tests, TestOrder

\* A run of this session that came to a conclusion speaks in the evidence that decides.
LEMMA RunsSpeak ==
  ASSUME ObservedHere, NEW run \in LiveRuns,
         NEW u \in Interpret(run.test, run.answer).updates
  PROVE  \E e \in Trusted(AllEvidence) : /\ e.scope = "current-session"
                                         /\ e.claim = u.claim /\ e.status = u.status
<1>1. PICK k \in DOMAIN done : done[k] = run /\ run.here /\ run.resolution # "abandoned"
  BY DEF LiveRuns
<1>2. run \in Runs
  BY <1>1 DEF ObservedHere, RecordsAreSound, SoundRecord
<1>3. Live(run)
  BY <1>1, <1>2 DEF Runs, Live
<1>4. Conclusions(run, k) \subseteq ledger
  BY <1>1, <1>3 DEF ObservedHere, Observed
<1>5. Evidence(u, k) \in ledger
  BY <1>4 DEF Conclusions
<1>6. /\ Evidence(u, k).scope = "current-session" /\ Evidence(u, k).claim = u.claim
      /\ Evidence(u, k).status = u.status
  BY DEF Evidence
<1>. QED
  BY <1>5, <1>6, AllDated

\* And what decides in this session was said by such a run.
LEMMA EvidenceWasSeen ==
  ASSUME ObservedHere, NEW e \in ledger, e.scope = "current-session", e.status = "verified"
  PROVE  \E run \in LiveRuns : e.claim \in Elsewhere \/ Verifies(e.claim, run.test, run.answer)
<1>. DEFINE run == done[e.at]
<1>1. /\ e.at \in DOMAIN done /\ run.here = TRUE /\ run.resolution \in Conclusive
      /\ run \in Runs /\ e \in Conclusions(run, e.at)
  BY DEF ObservedHere, Observed, RecordsAreSound, SoundRecord
<1>2. run \in LiveRuns
  BY <1>1 DEF LiveRuns, Conclusive
<1>3. run.test \in Tests /\ run.answer \in Answers(run.test)
  <2>1. Live(run)
    BY <1>1 DEF Live
  <2>. QED
    BY <1>1, <2>1 DEF ObservedHere, Observed, Runs
<1>. HIDE DEF run
<1>4. PICK u \in Interpret(run.test, run.answer).updates : e = Evidence(u, e.at)
  BY <1>1 DEF Conclusions
<1>5. u.claim = e.claim /\ u.status = "verified"
  BY <1>4 DEF Evidence
<1>6. u.claim \in Elsewhere \/ Verifies(u.claim, run.test, run.answer)
  BY <1>3, <1>5, VerifyingTest
<1>. QED
  BY <1>2, <1>5, <1>6

\* What was seen to go wrong is not undone by a later, better looking run, in a session with
\* any number of runs in any order: the strategy images are shown with is one that nothing
\* seen in this session tells against (claim-foundation.ts, assessment.ts).
THEOREM ContradictionsAlwaysStand == Spec => []ContradictionsStand
<1>1. ObservedHere => ContradictionsStand
  <2>. DEFINE selected == Selected(AllEvidence)
  <2>. SUFFICES ASSUME ObservedHere,
                       \/ selected # NoStrategy
                       \/ Confidence("static-frame", AllEvidence) = "verified",
                       NEW run \in LiveRuns, Spoils(run, selected)
                PROVE  FALSE
    BY DEF ContradictionsStand
  <2>1. selected # NoStrategy
    BY VouchedWithStrategy
  <2>2. selected \in StrategyNames /\ Verdict(selected, AllEvidence) = "viable"
    BY <2>1, SelectedIsViable
  <2>. HIDE DEF selected
  <2>3. PICK u \in Interpret(run.test, run.answer).updates : TellAgainst(u, selected)
    BY <2>2, SpoiledTest
  <2>4. PICK e \in Trusted(AllEvidence) : /\ e.scope = "current-session"
                                          /\ e.claim = u.claim /\ e.status = u.status
    BY RunsSpeak
  <2>5. Decided(e.claim, Trusted(AllEvidence)) # "verified"
    BY <2>3, <2>4, AllDated, ContradictionDecides DEF TellAgainst
  <2>6. e.claim \in RequiredBy(selected)
    BY <2>3, <2>4 DEF TellAgainst
  <2>. QED
    BY <2>2, <2>5, <2>6, ViableMeansVerified
<1>. QED
  BY <1>1, ObservedAlways, PTL

\* A claim about stillness or about colors that is verified for an unmeasured display was
\* verified by somebody who looked.
LEMMA SomebodyLooked ==
  ASSUME ObservedHere, baseline = "bare",
         NEW c \in HoldClaims \cup {"pixel.encoder-correctness"},
         Decided(c, Trusted(AllEvidence)) = "verified"
  PROVE  \E run \in LiveRuns : Verifies(c, run.test, run.answer)
<1>. DEFINE e == DecidedBy(c, Trusted(AllEvidence))
<1>1. e \in Trusted(AllEvidence) /\ e.claim = c /\ e.status = "verified"
  BY AllDated, VerifiedByEvidence
<1>. HIDE DEF e
<1>2. e \notin BaselineEvidence
  BY <1>1, BareIsUnmeasured
<1>3. e \in ledger /\ e.scope = "current-session"
  BY <1>1, <1>2, AllDated
<1>4. c \notin Elsewhere
  BY DEF Elsewhere
<1>. QED
  BY <1>1, <1>3, <1>4, EvidenceWasSeen

\* For any tests, answers and number of runs, an image or a text is offered for a display
\* nobody has measured only after somebody watched an image hold still with the selected
\* strategy, in this session, and saw the colors come out as sent (static-viability.ts,
\* gating.ts, assessment.ts).
THEOREM StillImagesWereAlwaysSeenStill == Spec => []StillImagesWereSeenStill
<1>1. ObservedHere => StillImagesWereSeenStill
  <2>. DEFINE selected == Selected(AllEvidence)
  <2>. SUFFICES ASSUME ObservedHere, baseline = "bare",
                       NEW c \in {"static-frame", "text"}, IsOffered(c, linked, AllEvidence)
                PROVE
        /\ \E run \in LiveRuns :
             CASE selected = "graffiti" ->
                    Still(run, "graffiti-timing") \/ Still(run, "graffiti-staytime")
               [] selected = "animation-single-frame" -> Still(run, "animation-static")
               [] OTHER -> Still(run, "animation-static-pair")
        /\ \E run \in LiveRuns : run.test = "pixel-channels" /\ run.answer.rgb = "as-sent"
    BY DEF StillImagesWereSeenStill
  <2>1. selected # NoStrategy
    BY OfferedWithStrategy DEF IsOffered
  <2>2. selected \in StrategyNames /\ Verdict(selected, AllEvidence) = "viable"
    BY <2>1, SelectedIsViable
  <2>. HIDE DEF selected
  <2>3. \A x \in RequiredBy(selected) : Decided(x, Trusted(AllEvidence)) = "verified"
    BY <2>2, ViableMeansVerified
  <2>4. \E run \in LiveRuns : run.test = "pixel-channels" /\ run.answer.rgb = "as-sent"
    <3>1. "pixel.encoder-correctness" \in RequiredBy(selected)
      BY <2>2, RestsOn DEF StrategyNames
    <3>2. PICK run \in LiveRuns : Verifies("pixel.encoder-correctness", run.test, run.answer)
      BY <2>3, <3>1, SomebodyLooked
    <3>. QED
      BY <3>2 DEF Verifies
  <2>5. {"graffiti.playback-stability", "animation.static-single-frame",
         "animation.static-identical-pair"} \subseteq HoldClaims
    BY DEF HoldClaims
  <2>6. CASE selected = "graffiti"
    <3>1. PICK run \in LiveRuns : Verifies("graffiti.playback-stability", run.test, run.answer)
      BY <2>3, <2>5, <2>6, RestsOn, SomebodyLooked
    <3>2. Still(run, "graffiti-timing") \/ Still(run, "graffiti-staytime")
      BY <3>1 DEF Verifies, Still
    <3>. QED
      BY <2>4, <2>6, <3>2
  <2>7. CASE selected = "animation-single-frame"
    <3>1. PICK run \in LiveRuns : Verifies("animation.static-single-frame", run.test, run.answer)
      BY <2>3, <2>5, <2>7, RestsOn, SomebodyLooked
    <3>2. Still(run, "animation-static")
      BY <3>1 DEF Verifies, Still
    <3>. QED
      BY <2>4, <2>7, <3>2
  <2>8. CASE selected = "animation-identical-frames"
    <3>1. PICK run \in LiveRuns :
            Verifies("animation.static-identical-pair", run.test, run.answer)
      BY <2>3, <2>5, <2>8, RestsOn, SomebodyLooked
    <3>2. Still(run, "animation-static-pair")
      BY <3>1 DEF Verifies, Still
    <3>. QED
      BY <2>4, <2>8, <3>2
  <2>. QED
    BY <2>2, <2>6, <2>7, <2>8 DEF StrategyNames
<1>. QED
  BY <1>1, ObservedAlways, PTL

------------------------------------------------------------------------------
(* What the claims a test is about add to its score.                       *)

Worth(c, pool) == StatusValue[ClaimStatus(c, pool)] + Points(Conflicted(c, pool), 20)
Total(targets, pool) == MapThenSumSet(LAMBDA c : Worth(c, pool), targets)

\* The sum over at most three claims is what it says it is, in whatever order they are added.
LEMMA TotalOfThree ==
  ASSUME NEW x, NEW y, NEW z, x # y, x # z, y # z, NEW pool,
         Worth(x, pool) \in Nat, Worth(y, pool) \in Nat, Worth(z, pool) \in Nat,
         NEW targets \in SUBSET {x, y, z}
  PROVE  Total(targets, pool) = Points(x \in targets, Worth(x, pool))
                                + Points(y \in targets, Worth(y, pool))
                                + Points(z \in targets, Worth(z, pool))
<1>. DEFINE w(c) == Worth(c, pool)
            pick(s) == CHOOSE c \in s : TRUE
            Sound(g) == g = [s \in SUBSET targets |->
                               IF s = {} THEN 0 ELSE w(pick(s)) + g[s \ {pick(s)}]]
            sum(s) == Points(x \in s, w(x)) + Points(y \in s, w(y)) + Points(z \in s, w(z))
            some == [s \in SUBSET targets |-> sum(s)]
            iter == CHOOSE g : Sound(g)
<1>1. Total(targets, pool) = iter[targets]
  BY DEF Total, MapThenSumSet, MapThenFoldSet
<1>. HIDE DEF w, pick
<1>2. \A s : s # {} => pick(s) \in s
  BY DEF pick
<1>3. w(x) \in Nat /\ w(y) \in Nat /\ w(z) \in Nat
  BY DEF w
<1>4. ASSUME NEW s \in SUBSET targets, NEW c \in s
      PROVE  sum(s) = w(c) + sum(s \ {c})
  <2>1. c = x \/ c = y \/ c = z
    BY <1>4
  <2>. QED
    BY <1>3, <1>4, <2>1 DEF Points
<1>5. sum({}) = 0
  BY DEF Points
<1>. HIDE DEF sum
<1>6. Sound(some)
  <2>1. ASSUME NEW s \in SUBSET targets
        PROVE  some[s] = IF s = {} THEN 0 ELSE w(pick(s)) + some[s \ {pick(s)}]
    BY <1>2, <1>4, <1>5
  <2>. QED
    BY <2>1
<1>7. Sound(iter)
  <2>. HIDE DEF Sound, some
  <2>. QED
    BY <1>6
<1>. HIDE DEF iter
<1>8. /\ iter[{}] = 0
      /\ \A s \in SUBSET targets : s # {} => \E c \in s : iter[s] = w(c) + iter[s \ {c}]
  <2>1. \A s \in SUBSET targets :
          iter[s] = IF s = {} THEN 0 ELSE w(pick(s)) + iter[s \ {pick(s)}]
    BY <1>7
  <2>. QED
    BY <1>2, <2>1
<1>9. \A c \in targets : iter[{c}] = sum({c})
  <2>. SUFFICES ASSUME NEW c \in targets PROVE iter[{c}] = sum({c})
    OBVIOUS
  <2>1. iter[{c}] = w(c) + iter[{}] /\ sum({c}) = w(c) + sum({})
    <3>1. {c} \ {c} = {} /\ {c} \in SUBSET targets /\ \A e \in {c} : e = c
      OBVIOUS
    <3>. QED
      BY <1>4, <1>8, <3>1
  <2>. QED
    BY <1>5, <1>8, <2>1
<1>10. \A c, e \in targets : c # e => iter[{c, e}] = sum({c, e})
  <2>. SUFFICES ASSUME NEW c \in targets, NEW e \in targets, c # e
                PROVE iter[{c, e}] = sum({c, e})
    OBVIOUS
  <2>1. {c, e} \in SUBSET targets /\ {c, e} # {}
        /\ {c, e} \ {c} = {e} /\ {c, e} \ {e} = {c}
    OBVIOUS
  <2>2. PICK d \in {c, e} : iter[{c, e}] = w(d) + iter[{c, e} \ {d}]
    BY <1>8, <2>1
  <2>3. sum({c, e}) = w(d) + sum({c, e} \ {d})
    BY <1>4, <2>1
  <2>4. iter[{c, e} \ {d}] = sum({c, e} \ {d})
    BY <1>9, <2>1, <2>2
  <2>. QED
    BY <2>2, <2>3, <2>4
<1>11. CASE targets = {x, y, z}
  <2>1. targets \ {x} = {y, z} /\ targets \ {y} = {x, z} /\ targets \ {z} = {x, y}
    BY <1>11
  <2>2. PICK d \in targets : iter[targets] = w(d) + iter[targets \ {d}]
    BY <1>8, <1>11
  <2>3. sum(targets) = w(d) + sum(targets \ {d})
    BY <1>4
  <2>4. iter[targets \ {d}] = sum(targets \ {d})
    BY <1>10, <1>11, <2>1
  <2>. QED
    BY <1>1, <2>2, <2>3, <2>4 DEF sum, w
<1>12. CASE targets # {x, y, z}
  <2>1. \/ targets = {} \/ targets = {x} \/ targets = {y} \/ targets = {z}
        \/ targets = {x, y} \/ targets = {x, z} \/ targets = {y, z}
    BY <1>12
  <2>2. targets = {} => iter[targets] = sum(targets)
    BY <1>5, <1>8
  <2>3. targets = {x} \/ targets = {y} \/ targets = {z} => iter[targets] = sum(targets)
    BY <1>9
  <2>4. targets = {x, y} \/ targets = {x, z} \/ targets = {y, z} => iter[targets] = sum(targets)
    BY <1>10
  <2>. QED
    BY <1>1, <2>1, <2>2, <2>3, <2>4 DEF sum, w
<1>. QED
  BY <1>11, <1>12

------------------------------------------------------------------------------
(* What the evidence says of the channels of a pixel.                      *)

\* Nothing a person answers is about the upload as such; a map of the channels that was looked
\* for was found, and only who looked for it says something of the encoder and of the fourth
\* channel, and says it definitely.
Fits(pieces) ==
  \A e \in pieces :
    /\ e.claim # "stored-program.upload"
    /\ e.claim = "pixel.channel-map" => e.status = "verified"
    /\ e.claim \in {"pixel.encoder-correctness", "pixel.fourth-channel"} =>
         /\ e.status \in {"verified", "rejected"}
         /\ \E f \in pieces : f.claim = "pixel.channel-map"
\* The inductive invariant, for the record at hand and the one saved.
PixelsFit == RecordsAreSound /\ Fits(ledger) /\ Fits(stored.ledger)

\* Claims of which Fits says nothing.
OtherClaims ==
  {"graffiti.initial-render", "graffiti.playback-stability", "raster.tiling",
   "raster.orientation", "graffiti.black-semantics", "animation.black-semantics",
   "animation.static-single-frame", "animation.static-identical-pair",
   "pixel.color-calibration", "image.rendering"}
LEMMA FitsElsewhere ==
  ASSUME NEW updates, \A u \in updates : u.claim \in OtherClaims
  PROVE  Fits(updates)
BY DEF Fits, OtherClaims

LEMMA InterpretFits ==
  ASSUME NEW t \in Tests, NEW a \in Answers(t)
  PROVE  Fits(Interpret(t, a).updates)
<1>. DEFINE updates == Interpret(t, a).updates
<1>0. \A c, s, h, x : /\ Update(c, s).claim = c /\ Held(c, s, h).claim = c
                      /\ [Update(c, s) EXCEPT !.shows = x].claim = c
  BY DEF Update, Held
<1>1. CASE t \in {"graffiti-timing", "graffiti-staytime"}
  <2>1. PICK n \in {0, 3} : updates = InterpretTiming(a, n).updates
    BY <1>1 DEF Interpret
  <2>2. updates = {Update("graffiti.initial-render",
                          IF a.timeline = "wrong" THEN "rejected" ELSE "verified"),
                   PlaybackUpdate(a, n)} \cup LayoutUpdates(a.layout)
    BY <2>1 DEF InterpretTiming, Result
  <2>3. \A u \in LayoutUpdates(a.layout) : u.claim \in OtherClaims
    BY <1>0 DEF LayoutUpdates, OtherClaims
  <2>4. PlaybackUpdate(a, n).claim \in OtherClaims
    BY <1>0 DEF PlaybackUpdate, OtherClaims
  <2>5. \A s : Update("graffiti.initial-render", s).claim \in OtherClaims
    BY <1>0 DEF OtherClaims
  <2>. HIDE DEF updates
  <2>6. \A u \in updates : u.claim \in OtherClaims
    BY <2>2, <2>3, <2>4, <2>5
  <2>. QED
    BY <2>6, FitsElsewhere DEF updates
<1>2. CASE t \in {"animation-static", "animation-static-pair"}
  <2>1. PICK c \in OtherClaims : updates = InterpretStill(a, c).updates
    BY <1>2 DEF Interpret, OtherClaims
  <2>2. updates = {Held(c, StillStatus(a), MeasuredHold(a.timeline))} \cup Unlit(a)
    BY <2>1 DEF InterpretStill, Result
  <2>3. \A u \in Unlit(a) : u.claim \in OtherClaims
    BY <1>0 DEF Unlit, OtherClaims
  <2>. HIDE DEF updates
  <2>4. \A u \in updates : u.claim \in OtherClaims
    BY <1>0, <2>2, <2>3
  <2>. QED
    BY <2>4, FitsElsewhere DEF updates
<1>3. CASE t = "graffiti-black"
  <2>1. updates = InterpretBlack(a).updates
    BY <1>3 DEF Interpret
  <2>2. \A u \in updates : \E s, x : \/ u = Update("graffiti.black-semantics", s)
                                     \/ u = [Update("graffiti.black-semantics", s)
                                              EXCEPT !.shows = x]
    <3>. HIDE DEF updates
    <3>. QED
      BY <2>1 DEF InterpretBlack, Result
  <2>. HIDE DEF updates
  <2>3. \A u \in updates : u.claim \in OtherClaims
    <3>. SUFFICES ASSUME NEW u \in updates PROVE u.claim = "graffiti.black-semantics"
      BY DEF OtherClaims
    <3>1. PICK s, x : \/ u = Update("graffiti.black-semantics", s)
                      \/ u = [Update("graffiti.black-semantics", s) EXCEPT !.shows = x]
      BY <2>2
    <3>2. CASE u = Update("graffiti.black-semantics", s)
      BY <3>2 DEF Update
    <3>3. CASE u = [Update("graffiti.black-semantics", s) EXCEPT !.shows = x]
      BY <3>3 DEF Update
    <3>. QED
      BY <3>1, <3>2, <3>3
  <2>. QED
    BY <2>3, FitsElsewhere DEF updates
<1>4. CASE t = "pixel-channels"
  <2>1. updates = ChannelUpdates(a) \cup NibbleUpdates(a)
    BY <1>4 DEF Interpret, InterpretPixels, Result
  <2>2. \E s \in {"verified", "rejected"} :
          ChannelUpdates(a) = {Update("pixel.channel-map", "verified"),
                               Update("pixel.encoder-correctness", s)}
    BY DEF ChannelUpdates
  <2>3. \E s \in {"verified", "rejected"} : \E x :
          NibbleUpdates(a) = {Update("pixel.fourth-channel", s), Update("pixel.white-channel", x)}
    BY DEF NibbleUpdates
  <2>. HIDE DEF updates
  <2>. QED
    BY <2>1, <2>2, <2>3, UpdateFields DEF Fits, updates
<1>5. CASE t = "color-white"
  <2>1. \A u \in updates : u.claim \in OtherClaims
    BY <1>0, <1>5 DEF Interpret, InterpretColors, Result, OtherClaims
  <2>. QED
    BY <2>1, FitsElsewhere
<1>6. CASE t = "normal-image-smoke"
  <2>1. updates = InterpretNormalImage(a).updates /\ a.timeline \in Timelines
    BY <1>6 DEF Interpret, Answers
  <2>2. \A u \in updates : \E c \in OtherClaims : \E s, h : u = Update(c, s) \/ u = Held(c, s, h)
    BY <2>1, AnswersAssumption DEF InterpretNormalImage, Result, OtherClaims
  <2>3. \A u \in updates : u.claim \in OtherClaims
    BY <1>0, <2>2
  <2>. QED
    BY <2>3, FitsElsewhere
<1>. QED
  <2>1. t \in {"animation-static", "animation-static-pair", "color-white", "graffiti-black",
               "graffiti-staytime", "graffiti-timing", "normal-image-smoke", "pixel-channels"}
    BY DEF Tests, TestOrder
  <2>. QED
    BY <1>1, <1>2, <1>3, <1>4, <1>5, <1>6, <2>1

LEMMA FitsTogether ==
  ASSUME NEW p, NEW q, Fits(p), Fits(q)
  PROVE  Fits(p \cup q)
BY DEF Fits

\* What fits is a matter of the claims and of what is said of them.
LEMMA SameFits ==
  ASSUME NEW p, NEW q, Fits(p),
         \A f \in q : \E e \in p : f.claim = e.claim /\ f.status = e.status,
         \A e \in p : \E f \in q : f.claim = e.claim
  PROVE  Fits(q)
<1>. SUFFICES ASSUME NEW f \in q
              PROVE  /\ f.claim # "stored-program.upload"
                     /\ f.claim = "pixel.channel-map" => f.status = "verified"
                     /\ f.claim \in {"pixel.encoder-correctness", "pixel.fourth-channel"} =>
                          /\ f.status \in {"verified", "rejected"}
                          /\ \E g \in q : g.claim = "pixel.channel-map"
  BY DEF Fits
<1>1. PICK e \in p : f.claim = e.claim /\ f.status = e.status
  OBVIOUS
<1>. QED
  BY <1>1 DEF Fits

LEMMA FitsAsEvidence ==
  ASSUME NEW updates, Fits(updates), NEW k
  PROVE  Fits({Evidence(u, k) : u \in updates})
<1>. DEFINE new == {Evidence(u, k) : u \in updates}
<1>1. \A u : Evidence(u, k).claim = u.claim /\ Evidence(u, k).status = u.status
  BY DEF Evidence
<1>. QED
  <2>1. \A f \in new : \E u \in updates : f.claim = u.claim /\ f.status = u.status
    BY <1>1
  <2>2. \A u \in updates : Evidence(u, k) \in new
    OBVIOUS
  <2>3. \A u \in updates : \E f \in new : f.claim = u.claim
    BY <1>1, <2>2
  <2>. HIDE DEF new
  <2>4. Fits(new)
    BY <2>1, <2>3, SameFits
  <2>. QED
    BY <2>4 DEF new

LEMMA FitsDemoted ==
  ASSUME NEW pieces \in SUBSET Pieces, Fits(pieces)
  PROVE  Fits(Demoted(pieces))
<1>1. \A e \in Pieces : /\ [e EXCEPT !.scope = "previous-local-session"].claim = e.claim
                        /\ [e EXCEPT !.scope = "previous-local-session"].status = e.status
  BY DEF Pieces
<1>2. Demoted(pieces) = {[e EXCEPT !.scope = "previous-local-session"] : e \in pieces}
  BY DEF Demoted
<1>3. \A f \in Demoted(pieces) : \E e \in pieces : f.claim = e.claim /\ f.status = e.status
  BY <1>1, <1>2
<1>4. \A e \in pieces : \E f \in Demoted(pieces) : f.claim = e.claim
  <2>. SUFFICES ASSUME NEW e \in pieces PROVE \E f \in Demoted(pieces) : f.claim = e.claim
    OBVIOUS
  <2>1. [e EXCEPT !.scope = "previous-local-session"] \in Demoted(pieces)
    BY <1>2
  <2>. QED
    BY <1>1, <2>1
<1>. QED
  BY <1>3, <1>4, SameFits

\* A run adds what it concludes, and a record of the past keeps what it said.
LEMMA PixelsFitStep == PixelsFit /\ [Next]_vars => PixelsFit'
<1>. SUFFICES ASSUME PixelsFit, [Next]_vars PROVE Fits(ledger') /\ Fits(stored.ledger')
  BY RecordsStep DEF PixelsFit
<1>0. RecordsAreSound /\ Fits(ledger) /\ Fits(stored.ledger)
  BY DEF PixelsFit
<1>1. ASSUME UNCHANGED <<ledger, stored>> PROVE Fits(ledger') /\ Fits(stored.ledger')
  BY <1>0, <1>1
<1>2. ASSUME NEW t \in Tests, StartTest(t) \/ Reopen(t) PROVE Fits(ledger') /\ Fits(stored.ledger')
  BY <1>1, <1>2 DEF StartTest, Reopen
<1>3. CASE Continue \/ Close \/ Lose \/ Reconnect \/ (\E g \in Goals : Retarget(g))
  BY <1>1, <1>3 DEF Continue, Close, Lose, Reconnect, Retarget
<1>4. ASSUME NEW answer \in AnswersNow, Record(answer)
      PROVE  Fits(ledger') /\ Fits(stored.ledger')
  <2>. DEFINE new == {Evidence(u, Len(done) + 1) : u \in Interpret(open, answer).updates}
  <2>1. open \in Tests /\ answer \in Answers(open)
    BY <1>0, <1>4 DEF AnswersNow, RecordsAreSound
  <2>2. Fits(new)
    BY <2>1, InterpretFits, FitsAsEvidence
  <2>3. ledger' = ledger \cup new /\ stored'.ledger = ledger'
    BY <1>4 DEF Record, Complete
  <2>. HIDE DEF new
  <2>. QED
    BY <1>0, <2>2, <2>3, FitsTogether
<1>5. CASE Abandon
  <2>1. ledger' = ledger \cup {} /\ stored'.ledger = ledger'
    BY <1>5 DEF Abandon, Complete
  <2>. QED
    BY <1>0, <2>1
<1>6. CASE StartOver
  <2>1. Fits({})
    BY DEF Fits
  <2>. QED
    BY <1>0, <1>6, <2>1 DEF StartOver
<1>7. CASE Resume
  <2>1. stored.ledger \in SUBSET Pieces
    BY <1>0 DEF RecordsAreSound, SoundRecord
  <2>. QED
    BY <1>0, <1>7, <2>1, FitsDemoted DEF Resume
<1>8. CASE UNCHANGED vars
  BY <1>1, <1>8 DEF vars
<1>. QED
  BY <1>2, <1>3, <1>4, <1>5, <1>6, <1>7, <1>8 DEF Next

LEMMA PixelsAlwaysFit == Spec => []PixelsFit
<1>1. Init => PixelsFit
  BY RecordsInit DEF Init, PixelsFit, Fits
<1>. QED
  BY <1>1, PixelsFitStep, PTL DEF Spec

------------------------------------------------------------------------------
(* What claims are worth.                                                  *)

LEMMA StatusValues ==
  /\ \A s \in Statuses : StatusValue[s] \in 0 .. 30 /\ (s # "verified" => StatusValue[s] >= 8)
  /\ StatusValue["verified"] = 0 /\ StatusValue["rejected"] = 8 /\ StatusValue["unknown"] = 20
BY DEF StatusValue, Statuses

\* A claim has the status of a piece of evidence about it, or nothing is known of it.
LEMMA StatusByEvidence ==
  ASSUME NEW pool, \A e \in pool : Dated(e), NEW c
  PROVE  /\ About(c, pool) = {} => Decided(c, pool) = "unknown"
         /\ About(c, pool) # {} =>
              \E e \in pool : /\ e.claim = c /\ Decided(c, pool) = e.status
                              /\ \A f \in pool : f.claim = c => Outranks(e, f)
         /\ Decided(c, pool) \in Statuses
<1>. DEFINE entries == About(c, pool)
<1>1. \A x \in entries : Dated(x) /\ x \in pool /\ x.claim = c
  BY DEF About
<1>2. \A f \in pool : f.claim = c => f \in entries
  BY DEF About
<1>3. Decided(c, pool) = IF entries = {} THEN "unknown" ELSE Foremost(entries).status
  BY DEF Decided, StatusOf
<1>. HIDE DEF entries
<1>4. entries # {} =>
        \E e \in pool : /\ e.claim = c /\ Decided(c, pool) = e.status /\ Dated(e)
                        /\ \A f \in pool : f.claim = c => Outranks(e, f)
  <2>. SUFFICES ASSUME entries # {}
                PROVE \E e \in pool : /\ e.claim = c /\ Decided(c, pool) = e.status /\ Dated(e)
                                      /\ \A f \in pool : f.claim = c => Outranks(e, f)
    OBVIOUS
  <2>1. /\ Foremost(entries) \in entries
        /\ \A f \in entries : Outranks(Foremost(entries), f)
    BY <1>1, ForemostExists
  <2>. QED
    BY <1>1, <1>2, <1>3, <2>1
<1>5. Decided(c, pool) \in Statuses
  <2>1. "unknown" \in Statuses
    BY DEF Statuses
  <2>. QED
    BY <1>3, <1>4, <2>1 DEF Dated
<1>. QED
  BY <1>3, <1>4, <1>5 DEF entries

\* How much a claim adds, and that what a test would still find out adds something.
LEMMA WorthBounds ==
  ASSUME NEW pool, \A e \in pool : Dated(e), NEW c, c # "static.strategy"
  PROVE  /\ Worth(c, pool) \in 0 .. 50
         /\ ClaimStatus(c, pool) # "verified" \/ Conflicted(c, pool) => Worth(c, pool) >= 8
         /\ ClaimStatus(c, pool) = "verified" => Worth(c, pool) <= 20
<1>1. ClaimStatus(c, pool) \in Statuses
  <2>1. Decided(c, pool) \in Statuses /\ "unresolved" \in Statuses
    BY StatusByEvidence DEF Statuses
  <2>. QED
    BY <2>1 DEF ClaimStatus, AtomicStatus, TakenBack
<1>. QED
  BY <1>1, StatusValues DEF Worth, Points

\* What is shipped about the upload and about the channels of a pixel.
LEMMA ShippedPixels ==
  ASSUME linked
  PROVE  /\ \E e \in BaselineEvidence : e.claim = "stored-program.upload"
         /\ \A e \in BaselineEvidence :
              /\ e.claim = "stored-program.upload" => e.status = "verified"
              /\ e.claim \in {"pixel.channel-map", "pixel.encoder-correctness",
                              "pixel.fourth-channel"} => e.scope = "built-in-profile"
              /\ e.claim = "pixel.channel-map" => e.status \in {"verified", "unresolved"}
              /\ e.claim \in {"pixel.encoder-correctness", "pixel.fourth-channel"} =>
                   e.status \in {"verified", "rejected"}
<1>. DEFINE Right(e) ==
              /\ e.claim = "stored-program.upload" => e.status = "verified"
              /\ e.claim \in {"pixel.channel-map", "pixel.encoder-correctness",
                              "pixel.fourth-channel"} => e.scope = "built-in-profile"
              /\ e.claim = "pixel.channel-map" => e.status \in {"verified", "unresolved"}
              /\ e.claim \in {"pixel.encoder-correctness", "pixel.fourth-channel"} =>
                   e.status \in {"verified", "rejected"}
<1>1. \A c : /\ Right(Shipped(c, "verified"))
             /\ Shipped(c, "verified").claim = c
  BY DEF Shipped
<1>2. \A c : c \in {"graffiti.playback-stability", "pixel.fourth-channel",
                    "pixel.white-channel"} => Right(Shipped(c, "rejected"))
  BY DEF Shipped
<1>3. \A c : c \in {"graffiti.playback-stability", "pixel.channel-map",
                    "pixel.color-calibration"} => Right(Shipped(c, "unresolved"))
  BY DEF Shipped
<1>4. \A c : c \in {"power.control", "graffiti.black-semantics", "gif.playback"} =>
               Right(FromSource(c))
  BY DEF Shipped, FromSource
<1>5. \A c : c \in {"animation.static-single-frame", "animation.static-identical-pair"} =>
               Right(Measured(c))
  BY DEF Shipped, Measured
<1>6. Right([Shipped("graffiti.black-semantics", "verified") EXCEPT !.shows = "off-black"])
  BY DEF Shipped
<1>. HIDE DEF Right
<1>7. "stored-program.upload" \in KnownToBoth
  BY DEF KnownToBoth
<1>8. \A e \in IledHat : Right(e)
  <2>. SUFFICES ASSUME NEW e \in IledHat PROVE Right(e)
    OBVIOUS
  <2>1. \/ \E c : e = Shipped(c, "verified")
        \/ e = [Shipped("graffiti.black-semantics", "verified") EXCEPT !.shows = "off-black"]
        \/ \E c \in {"animation.static-single-frame", "animation.static-identical-pair"} :
             e = Measured(c)
        \/ \E c \in {"graffiti.playback-stability", "pixel.fourth-channel",
                     "pixel.white-channel"} : e = Shipped(c, "rejected")
        \/ e = Shipped("pixel.color-calibration", "unresolved")
        \/ \E c \in {"power.control", "graffiti.black-semantics", "gif.playback"} :
             e = FromSource(c)
    BY DEF IledHat
  <2>. QED
    BY <1>1, <1>2, <1>3, <1>4, <1>5, <1>6, <2>1
<1>9. \A e \in Bare : Right(e)
  <2>. SUFFICES ASSUME NEW e \in Bare PROVE Right(e)
    OBVIOUS
  <2>1. \/ \E c : e = Shipped(c, "verified")
        \/ \E c \in {"graffiti.playback-stability", "pixel.channel-map",
                     "pixel.color-calibration"} : e = Shipped(c, "unresolved")
        \/ \E c \in {"power.control", "graffiti.black-semantics", "gif.playback"} :
             e = FromSource(c)
    BY DEF Bare
  <2>. QED
    BY <1>1, <1>3, <1>4, <2>1
<1>10. /\ Shipped("stored-program.upload", "verified") \in IledHat
       /\ Shipped("stored-program.upload", "verified") \in Bare
  BY <1>7 DEF IledHat, Bare
<1>11. BaselineEvidence = IledHat \/ BaselineEvidence = Bare
  BY DEF BaselineEvidence
<1>12. \A e \in BaselineEvidence : Right(e)
  BY <1>8, <1>9, <1>11
<1>13. \E e \in BaselineEvidence : e.claim = "stored-program.upload"
  BY <1>1, <1>10, <1>11
<1>. QED
  BY <1>12, <1>13 DEF Right

LEMMA PoolDated ==
  ASSUME RecordsAreSound
  PROVE  /\ \A e \in AllEvidence : Dated(e)
         /\ \A e \in BaselineEvidence :
              e.scope \in {"built-in-profile", "source-reference"}
         /\ \A e \in ledger : e.scope \in {"current-session", "previous-local-session"}
<1>1. ledger \subseteq Pieces
  BY DEF RecordsAreSound, SoundRecord
<1>2. \A e \in ledger : Dated(e) /\ e.scope \in {"current-session", "previous-local-session"}
  BY <1>1 DEF Pieces, Dated, Scopes
<1>. QED
  BY <1>2, BaselineDated DEF OfBaseline, AllEvidence

\* What a run says comes before what is shipped.
LEMMA RunsComeFirst ==
  ASSUME RecordsAreSound, NEW e \in BaselineEvidence, NEW f \in ledger
  PROVE  ~Outranks(e, f)
<1>1. /\ e.scope \in {"built-in-profile", "source-reference"}
      /\ f.scope \in {"current-session", "previous-local-session"}
  BY PoolDated
<1>2. /\ ScopePriority["built-in-profile"] = 20 /\ ScopePriority["source-reference"] = 10
      /\ ScopePriority["current-session"] = 50 /\ ScopePriority["previous-local-session"] = 40
  BY DEF ScopePriority, Scopes
<1>. QED
  BY <1>1, <1>2 DEF Outranks

\* What the channels of a pixel rest on is not rejected.
LEMMA PixelsUnblocked ==
  ASSUME PixelsFit, linked
  PROVE  /\ Decided("pixel.channel-map", AllEvidence) \in {"verified", "unresolved", "unknown"}
         /\ \A c \in {"pixel.channel-map", "pixel.encoder-correctness", "pixel.fourth-channel"} :
              ClaimStatus(c, AllEvidence) = Decided(c, AllEvidence)
<1>. DEFINE P == AllEvidence
<1>1. /\ \A e \in P : Dated(e) /\ (e \in BaselineEvidence \/ e \in ledger)
      /\ \A e \in BaselineEvidence : e \in P
      /\ Fits(ledger)
  BY PoolDated DEF PixelsFit, AllEvidence
<1>. HIDE DEF P
<1>2. Decided("stored-program.upload", P) = "verified"
  <2>1. About("stored-program.upload", P) # {}
    BY <1>1, ShippedPixels DEF About
  <2>2. PICK e \in P : /\ e.claim = "stored-program.upload"
                       /\ Decided("stored-program.upload", P) = e.status
    BY <1>1, <2>1, StatusByEvidence
  <2>3. e \in BaselineEvidence
    BY <1>1, <2>2 DEF Fits
  <2>. QED
    BY <2>2, <2>3, ShippedPixels
<1>3. Decided("pixel.channel-map", P) \in {"verified", "unresolved", "unknown"}
  <2>1. CASE About("pixel.channel-map", P) = {}
    BY <1>1, <2>1, StatusByEvidence
  <2>2. CASE About("pixel.channel-map", P) # {}
    <3>1. PICK e \in P : /\ e.claim = "pixel.channel-map"
                         /\ Decided("pixel.channel-map", P) = e.status
      BY <1>1, <2>2, StatusByEvidence
    <3>2. e.status \in {"verified", "unresolved"}
      BY <1>1, <3>1, ShippedPixels DEF Fits
    <3>. QED
      BY <3>1, <3>2
  <2>. QED
    BY <2>1, <2>2
<1>4. /\ Prerequisites("pixel.channel-map") = {"stored-program.upload"}
      /\ Prerequisites("pixel.encoder-correctness") = {"pixel.channel-map"}
      /\ Prerequisites("pixel.fourth-channel") = {"pixel.channel-map"}
  BY DEF Prerequisites, Identified, Answering, Uploading, Rendering, Animating, Mapped, Showing
<1>5. \A c \in {"pixel.channel-map", "pixel.encoder-correctness", "pixel.fourth-channel"} :
        ~Blocked(c, P)
  BY <1>2, <1>3, <1>4 DEF Blocked
<1>6. \A c \in {"pixel.channel-map", "pixel.encoder-correctness", "pixel.fourth-channel"} :
        ClaimStatus(c, P) = Decided(c, P)
  BY <1>5 DEF ClaimStatus, AtomicStatus, TakenBack
<1>. QED
  BY <1>3, <1>6 DEF P

LEMMA ConflictByEvidence ==
  ASSUME NEW c, NEW pool, Conflicted(c, pool)
  PROVE  \E e \in pool : /\ e.claim = c /\ e \notin Trusted(pool)
                         /\ Disagrees(e, OperationalStatus(c, pool))
BY DEF Conflicted, Conflicts, About

\* Once the channels were mapped, only the past can contradict, and not the map itself.
LEMMA MappedPixels ==
  ASSUME PixelsFit, linked, NEW f \in ledger, f.claim = "pixel.channel-map"
  PROVE  /\ Worth("pixel.channel-map", AllEvidence) = 0
         /\ Worth("pixel.encoder-correctness", AllEvidence) <= 28
         /\ Worth("pixel.fourth-channel", AllEvidence) <= 28
<1>. DEFINE P == AllEvidence
            map == "pixel.channel-map"
<1>1. /\ \A e \in P : Dated(e) /\ (e \in BaselineEvidence \/ e \in ledger)
      /\ \A e \in BaselineEvidence : e \in P
      /\ Fits(ledger) /\ RecordsAreSound /\ f \in P
  BY PoolDated DEF PixelsFit, AllEvidence
<1>2. \A c \in {map, "pixel.encoder-correctness", "pixel.fourth-channel"} :
        ClaimStatus(c, P) = Decided(c, P)
  BY PixelsUnblocked
<1>3. \A e \in P : e.scope = "built-in-profile" => e \in Trusted(P)
  BY DEF Trusted, TrustedScopes
<1>. HIDE DEF P
<1>4. Decided(map, P) = "verified"
  <2>1. About(map, P) # {}
    BY <1>1 DEF About
  <2>2. PICK e \in P : /\ e.claim = map /\ Decided(map, P) = e.status
                       /\ \A g \in P : g.claim = map => Outranks(e, g)
    BY <1>1, <2>1, StatusByEvidence
  <2>3. e \in ledger
    BY <1>1, <2>2, RunsComeFirst
  <2>. QED
    BY <1>1, <2>2, <2>3 DEF Fits
<1>5. ~Conflicted(map, P)
  <2>. SUFFICES ASSUME Conflicted(map, P) PROVE FALSE
    OBVIOUS
  <2>1. PICK e \in P : /\ e.claim = map /\ e \notin Trusted(P)
                       /\ Disagrees(e, OperationalStatus(map, P))
    BY ConflictByEvidence
  <2>2. e \in ledger
    BY <1>1, <1>3, <2>1, ShippedPixels
  <2>3. e.status = "verified"
    BY <1>1, <2>1, <2>2 DEF Fits
  <2>4. OperationalStatus(map, P) = "rejected"
    BY <2>1, <2>3 DEF Disagrees
  <2>5. Decided(map, Trusted(P)) = "rejected"
    BY <2>4 DEF OperationalStatus, ClaimStatus, AtomicStatus, TakenBack
  <2>6. \A e1 \in Trusted(P) : e1 \in P /\ Dated(e1)
    BY <1>1 DEF Trusted
  <2>7. PICK d \in Trusted(P) : d.claim = map /\ d.status = "rejected"
    BY <2>5, <2>6, StatusByEvidence
  <2>. QED
    BY <1>1, <2>6, <2>7, ShippedPixels DEF Fits
<1>6. ASSUME NEW c \in {"pixel.encoder-correctness", "pixel.fourth-channel"}
      PROVE  Worth(c, P) <= 28
  <2>1. CASE About(c, P) = {}
    <3>1. Decided(c, P) = "unknown"
      BY <1>1, <2>1, StatusByEvidence
    <3>2. ~Conflicted(c, P)
      BY <2>1, ConflictByEvidence DEF About
    <3>. QED
      BY <1>2, <3>1, <3>2, StatusValues DEF Worth, Points
  <2>2. CASE About(c, P) # {}
    <3>1. PICK e \in P : e.claim = c /\ Decided(c, P) = e.status
      BY <1>1, <2>2, StatusByEvidence
    <3>2. e.status \in {"verified", "rejected"}
      BY <1>1, <3>1, ShippedPixels DEF Fits
    <3>3. StatusValue[Decided(c, P)] \in {0, 8}
      BY <3>1, <3>2, StatusValues
    <3>. QED
      BY <1>2, <3>3 DEF Worth, Points
  <2>. QED
    BY <2>1, <2>2
<1>. QED
  BY <1>2, <1>4, <1>5, <1>6, StatusValues DEF Worth, Points, P

\* Before that there is only what is shipped, and nothing to contradict it.
LEMMA UnmappedPixels ==
  ASSUME PixelsFit, linked, \A f \in ledger : f.claim # "pixel.channel-map"
  PROVE  /\ Worth("pixel.channel-map", AllEvidence) <= 30
         /\ Worth("pixel.encoder-correctness", AllEvidence) <= 20
         /\ Worth("pixel.fourth-channel", AllEvidence) <= 20
<1>. DEFINE P == AllEvidence
            pixels == {"pixel.channel-map", "pixel.encoder-correctness", "pixel.fourth-channel"}
<1>1. /\ \A e \in P : Dated(e) /\ (e \in BaselineEvidence \/ e \in ledger)
      /\ Fits(ledger)
  BY PoolDated DEF PixelsFit, AllEvidence
<1>2. \A c \in pixels : ClaimStatus(c, P) = Decided(c, P)
  BY PixelsUnblocked
<1>3. \A e \in P : e.scope = "built-in-profile" => e \in Trusted(P)
  BY DEF Trusted, TrustedScopes
<1>. HIDE DEF P
<1>4. \A e \in P : e.claim \in pixels => e \in BaselineEvidence
  BY <1>1 DEF Fits
<1>5. \A c \in pixels : ~Conflicted(c, P)
  <2>. SUFFICES ASSUME NEW c \in pixels, Conflicted(c, P) PROVE FALSE
    OBVIOUS
  <2>1. PICK e \in P : e.claim = c /\ e \notin Trusted(P)
    BY ConflictByEvidence
  <2>. QED
    BY <1>3, <1>4, <2>1, ShippedPixels
<1>6. Decided("pixel.channel-map", P) \in Statuses
  BY <1>1, StatusByEvidence
<1>7. ASSUME NEW c \in {"pixel.encoder-correctness", "pixel.fourth-channel"}
      PROVE  StatusValue[Decided(c, P)] <= 20
  <2>1. CASE About(c, P) = {}
    BY <1>1, <2>1, StatusByEvidence, StatusValues
  <2>2. CASE About(c, P) # {}
    <3>1. PICK e \in P : e.claim = c /\ Decided(c, P) = e.status
      BY <1>1, <2>2, StatusByEvidence
    <3>2. e.status \in {"verified", "rejected"}
      BY <1>4, <3>1, ShippedPixels
    <3>. QED
      BY <3>1, <3>2, StatusValues
  <2>. QED
    BY <2>1, <2>2
<1>8. \A c \in pixels : Worth(c, P) = StatusValue[Decided(c, P)] + 0
  BY <1>2, <1>5 DEF Worth, Points
<1>9. StatusValue[Decided("pixel.channel-map", P)] \in 0 .. 30
  BY <1>6, StatusValues
<1>10. \A c \in pixels : StatusValue[Decided(c, P)] \in 0 .. 30
  BY <1>1, StatusByEvidence, StatusValues
<1>. QED
  BY <1>7, <1>8, <1>9, <1>10 DEF P

\* What each test is about.
LEMMA TargetsOf ==
  /\ Tests = {"animation-static", "animation-static-pair", "color-white", "graffiti-black",
              "graffiti-staytime", "graffiti-timing", "normal-image-smoke", "pixel-channels"}
  /\ TargetClaims("graffiti-black") = {"graffiti.black-semantics"}
  /\ TargetClaims("graffiti-timing") = {"graffiti.playback-stability", "graffiti.initial-render"}
  /\ TargetClaims("graffiti-staytime") = {"graffiti.playback-stability"}
  /\ TargetClaims("animation-static") = {"animation.static-single-frame"}
  /\ TargetClaims("animation-static-pair") = {"animation.static-identical-pair"}
  /\ TargetClaims("pixel-channels")
       = {"pixel.channel-map", "pixel.encoder-correctness", "pixel.fourth-channel"}
  /\ TargetClaims("color-white") = {"pixel.color-calibration"}
  /\ TargetClaims("normal-image-smoke") = {"image.rendering"}
BY DEF Tests, TestOrder, TargetClaims

\* The claims that are the only one a test is about.
SoleTargets == {"graffiti.black-semantics", "graffiti.playback-stability",
                "animation.static-single-frame", "animation.static-identical-pair",
                "pixel.color-calibration", "image.rendering"}
LEMMA TotalOfOne ==
  ASSUME PixelsFit, NEW c \in SoleTargets, NEW targets \in SUBSET {c}
  PROVE  /\ Total(targets, AllEvidence) \in 0 .. 50
         /\ c \in targets => Total(targets, AllEvidence) = Worth(c, AllEvidence)
<1>. DEFINE P == AllEvidence
            y == "raster.tiling"
            z == "raster.orientation"
<1>1. \A x : x # "static.strategy" => Worth(x, P) \in 0 .. 50
  BY PoolDated, WorthBounds DEF PixelsFit
<1>2. c # y /\ c # z /\ y # z /\ c # "static.strategy"
  BY DEF SoleTargets
<1>. HIDE DEF P
<1>3. Worth(c, P) \in Nat /\ Worth(y, P) \in Nat /\ Worth(z, P) \in Nat /\ Worth(c, P) <= 50
  BY <1>1, <1>2
<1>4. targets \in SUBSET {c, y, z} /\ y \notin targets /\ z \notin targets
  BY <1>2
<1>. HIDE DEF y, z
<1>5. Total(targets, P) = Points(c \in targets, Worth(c, P)) + Points(y \in targets, Worth(y, P))
                          + Points(z \in targets, Worth(z, P))
  BY <1>2, <1>3, <1>4, TotalOfThree
<1>. QED
  BY <1>3, <1>4, <1>5 DEF Points, P

\* What the claims of each test add at most; and a test on stayTime that is worth running adds
\* something.
LEMMA Totals ==
  ASSUME PixelsFit, linked, NEW t \in Tests
  PROVE  LET total == Total(Targets(t, AllEvidence), AllEvidence)
         IN  /\ total \in Nat
             /\ t \notin {"graffiti-timing", "pixel-channels"} => total <= 50
             /\ t = "graffiti-timing" /\ Available(t, AllEvidence, Ran) => total <= 70
             /\ t = "pixel-channels" => total <= 70
             /\ t = "graffiti-staytime" /\ Targets(t, AllEvidence) # {} => total >= 8
<1>. DEFINE P == AllEvidence
            targets == Targets(t, P)
            total == Total(targets, P)
<1>0. /\ targets \subseteq TargetClaims(t)
      /\ \A c \in targets : ClaimStatus(c, P) # "verified" \/ Conflicted(c, P)
  BY DEF Targets
<1>1. \A c : c # "static.strategy" =>
               /\ Worth(c, P) \in 0 .. 50
               /\ ClaimStatus(c, P) # "verified" \/ Conflicted(c, P) => Worth(c, P) >= 8
               /\ ClaimStatus(c, P) = "verified" => Worth(c, P) <= 20
  BY PoolDated, WorthBounds DEF PixelsFit
<1>. HIDE DEF P, targets
<1>2. CASE t \notin {"graffiti-timing", "pixel-channels"}
  <2>1. PICK c \in SoleTargets : TargetClaims(t) = {c}
    BY <1>2, TargetsOf DEF SoleTargets
  <2>2. targets \in SUBSET {c} /\ c # "static.strategy"
    BY <1>0, <2>1 DEF SoleTargets
  <2>3. total \in 0 .. 50 /\ (c \in targets => total = Worth(c, P))
    BY <2>2, TotalOfOne DEF P
  <2>4. targets # {} => total >= 8
    BY <1>0, <1>1, <2>2, <2>3
  <2>. QED
    BY <1>2, <2>3, <2>4 DEF targets, P
<1>3. CASE t = "graffiti-timing"
  <2>. DEFINE x == "graffiti.playback-stability"
              y == "graffiti.initial-render"
              z == "raster.tiling"
  <2>1. targets \in SUBSET {x, y, z} /\ z \notin targets
    BY <1>0, <1>3, TargetsOf
  <2>2. Worth(x, P) \in 0 .. 50 /\ Worth(y, P) \in 0 .. 50 /\ Worth(z, P) \in 0 .. 50
    BY <1>1
  <2>6. x # y /\ x # z /\ y # z
    OBVIOUS
  <2>7. Worth(x, P) \in Nat /\ Worth(y, P) \in Nat /\ Worth(z, P) \in Nat
    BY <2>2
  <2>3. total = Points(x \in targets, Worth(x, P)) + Points(y \in targets, Worth(y, P))
                + Points(z \in targets, Worth(z, P))
    <3>. HIDE DEF x, y, z
    <3>. QED
      BY <2>1, <2>6, <2>7, TotalOfThree
  <2>4. Available(t, P, Ran) => Worth(y, P) <= 20
    <3>1. Available(t, P, Ran) => ClaimStatus(y, P) = "verified"
      BY <1>3 DEF Available, Needs
    <3>. QED
      BY <1>1, <3>1
  <2>5. total \in Nat /\ (Available(t, P, Ran) => total <= 70)
    BY <2>1, <2>2, <2>3, <2>4 DEF Points
  <2>. QED
    BY <1>3, <2>5 DEF targets, P
<1>4. CASE t = "pixel-channels"
  <2>. DEFINE x == "pixel.channel-map"
              y == "pixel.encoder-correctness"
              z == "pixel.fourth-channel"
  <2>1. targets \in SUBSET {x, y, z}
    BY <1>0, <1>4, TargetsOf
  <2>2. Worth(x, P) \in 0 .. 50 /\ Worth(y, P) \in 0 .. 50 /\ Worth(z, P) \in 0 .. 50
    BY <1>1
  <2>6. x # y /\ x # z /\ y # z
    OBVIOUS
  <2>7. Worth(x, P) \in Nat /\ Worth(y, P) \in Nat /\ Worth(z, P) \in Nat
    BY <2>2
  <2>3. total = Points(x \in targets, Worth(x, P)) + Points(y \in targets, Worth(y, P))
                + Points(z \in targets, Worth(z, P))
    <3>. HIDE DEF x, y, z
    <3>. QED
      BY <2>1, <2>6, <2>7, TotalOfThree
  <2>4. Worth(x, P) + Worth(y, P) + Worth(z, P) <= 70
    <3>1. CASE \E f \in ledger : f.claim = x
      BY <2>2, <3>1, MappedPixels DEF P
    <3>2. CASE \A f \in ledger : f.claim # x
      BY <2>2, <3>2, UnmappedPixels DEF P
    <3>. QED
      BY <3>1, <3>2
  <2>5. total \in Nat /\ total <= 70
    BY <2>2, <2>3, <2>4 DEF Points
  <2>. QED
    BY <1>4, <2>5 DEF targets, P
<1>. QED
  BY <1>2, <1>3, <1>4

------------------------------------------------------------------------------
(* Scores.                                                                 *)

\* Score, with the sum named.
LEMMA ScoreIs ==
  ASSUME NEW t, NEW targets, NEW pool, NEW a
  PROVE  Score(t, targets, pool, a) =
    LET unblocks == \E c \in targets : Unblocks(c, a.unusable)
        category == IF unblocks /\ Category(t) = "advanced" THEN "recommended" ELSE Category(t)
    IN  75 + Total(targets, pool) + CategoryWeight(category)
        + (Points(targets \cap SymptomFocus # {}, 60)
           + Points(SymptomFocus # {} /\ FocusClaims[1] \in targets, 30)
           + Points(unblocks, 25)
           + Points(a.next \in targets, 60)
           + PlanBoost(t, a))
        - (Points(\E c \in targets : StrategyOf(c) > a.pursued, 50) + Points(t \in Ran, 25))
BY DEF Score, Total, Worth

LEMMA FocusFirst == SymptomFocus # {} => FocusClaims[1] \in SymptomFocus
BY DEF SymptomFocus, FocusClaims

\* What a test scores that is outside the milestone and away from the symptom, at most; and
\* what one of the milestone scores at least, unless it is for a strategy that comes later.
LEMMA ScoreBounds ==
  ASSUME NEW t \in Tests, NEW targets, NEW pool, NEW a, Total(targets, pool) \in Nat
  PROVE  LET total == Total(targets, pool)
             score == Score(t, targets, pool, a)
         IN  /\ score \in Int
             /\ t \notin a.current /\ targets \cap SymptomFocus = {} => score <= 270 + total
             /\ (/\ t \in a.current /\ t \in a.core
                 /\ \A c \in targets : ~(StrategyOf(c) > a.pursued))
                => /\ Category(t) = "advanced" => score >= 340 + total
                   /\ Category(t) = "recommended" => score >= 360 + total
<1>. DEFINE unblocks == \E c \in targets : Unblocks(c, a.unusable)
            category == IF unblocks /\ Category(t) = "advanced" THEN "recommended" ELSE Category(t)
            weight == CategoryWeight(category)
            total == Total(targets, pool)
            focused == Points(targets \cap SymptomFocus # {}, 60)
            first == Points(SymptomFocus # {} /\ FocusClaims[1] \in targets, 30)
            unblocking == Points(unblocks, 25)
            next == Points(a.next \in targets, 60)
            boost == PlanBoost(t, a)
            late == Points(\E c \in targets : StrategyOf(c) > a.pursued, 50)
            ran == Points(t \in Ran, 25)
            score == Score(t, targets, pool, a)
<1>1. score = 75 + total + weight + (focused + first + unblocking + next + boost) - (late + ran)
  BY ScoreIs
<1>2. /\ weight \in 2 .. 30 /\ (Category(t) # "optional" => weight >= 10)
      /\ (Category(t) = "recommended" => weight = 30)
  BY DEF CategoryWeight, Category
<1>3. /\ focused \in 0 .. 60 /\ first \in 0 .. 30 /\ unblocking \in 0 .. 25 /\ next \in 0 .. 60
      /\ late \in 0 .. 50 /\ ran \in 0 .. 25
  BY DEF Points
<1>4. /\ boost \in 0 .. 280 /\ (t \notin a.current => boost <= 80)
      /\ (t \in a.current /\ t \in a.core => boost = 280)
  BY DEF PlanBoost, Points
<1>5. targets \cap SymptomFocus = {} => focused = 0 /\ first = 0
  BY FocusFirst DEF Points
<1>6. (\A c \in targets : ~(StrategyOf(c) > a.pursued)) => late = 0
  BY DEF Points
<1>. HIDE DEF unblocks, category, weight, total, focused, first, unblocking, next, boost, late, ran,
              score
<1>7. total \in Nat
  BY DEF total
<1>8. score \in Int
  BY <1>1, <1>2, <1>3, <1>4, <1>7
<1>9. t \notin a.current /\ targets \cap SymptomFocus = {} => score <= 270 + total
  BY <1>1, <1>2, <1>3, <1>4, <1>5, <1>7
<1>10. (/\ t \in a.current /\ t \in a.core
        /\ \A c \in targets : ~(StrategyOf(c) > a.pursued))
       => /\ Category(t) = "advanced" => score >= 340 + total
          /\ Category(t) = "recommended" => score >= 360 + total
  <2>. SUFFICES ASSUME t \in a.current, t \in a.core,
                       \A c \in targets : ~(StrategyOf(c) > a.pursued)
                PROVE  /\ Category(t) = "advanced" => score >= 340 + total
                       /\ Category(t) = "recommended" => score >= 360 + total
    OBVIOUS
  <2>1. boost = 280 /\ late = 0
    BY <1>4, <1>6
  <2>. QED
    BY <1>1, <1>2, <1>3, <1>7, <2>1
<1>. QED
  BY <1>8, <1>9, <1>10 DEF score, total

------------------------------------------------------------------------------
(* The milestone.                                                          *)

LEMMA FirstOf ==
  ASSUME NEW places \in SUBSET Nat, places # {}
  PROVE  First(places) \in places /\ \A k \in places : First(places) <= k
<1>1. \E n \in places : \A m \in places : n <= m
  BY LeastNatural
<1>. QED
  BY <1>1 DEF First

LEMMA StepTests ==
  /\ Steps[1].tests = {"graffiti-timing"}
  /\ Steps[2].tests = {"graffiti-staytime", "graffiti-timing"}
  /\ Steps[3].tests = {"graffiti-black"}
  /\ Steps[4].tests = {"animation-static"}
  /\ Steps[5].tests = {"pixel-channels"}
  /\ Steps[6].tests = {}
BY DEF Steps

\* The tests of the current milestone are core work, those of one step.
LEMMA OfTheMilestone ==
  ASSUME NEW pool, NEW t \in CurrentTests(pool)
  PROVE  \E k \in 1 .. 5 : /\ t \in Steps[k].tests /\ CurrentTests(pool) = Steps[k].tests
                           /\ ~Skipped(k, pool) /\ t \in CoreTests(pool)
<1>. DEFINE k == CurrentStep(pool)
            places == {j \in 1 .. 6 : Outstanding(j, pool)}
<1>1. k # 0 /\ t \in Steps[k].tests /\ CurrentTests(pool) = Steps[k].tests
  <2>1. k # 0
    BY DEF CurrentTests
  <2>. HIDE DEF k
  <2>. QED
    BY <2>1 DEF CurrentTests, k
<1>2. k = First(places)
  BY DEF CurrentStep
<1>3. k \in places
  <2>1. places # {}
    BY <1>1, <1>2 DEF First
  <2>2. places \in SUBSET Nat
    OBVIOUS
  <2>. HIDE DEF places, k
  <2>. QED
    BY <1>2, <2>1, <2>2, FirstOf
<1>. HIDE DEF k
<1>4. k \in 1 .. 6 /\ ~Skipped(k, pool)
  BY <1>3 DEF Outstanding
<1>5. t \in CoreTests(pool)
  BY <1>1, <1>4 DEF CoreTests
<1>6. k # 6
  BY <1>1, StepTests
<1>. QED
  BY <1>1, <1>4, <1>5, <1>6

\* No test of the milestone is for a strategy that comes after the one pursued.
LEMMA NoneTooLate ==
  ASSUME NEW pool, NEW t \in CurrentTests(pool), NEW c \in TargetClaims(t)
  PROVE  ~(StrategyOf(c) > Pursued(pool))
<1>. DEFINE places == {n \in 1 .. 3 : Verdict(Strategies[n], pool) # "not-viable"} \cup {4}
<1>1. PICK k \in 1 .. 5 : t \in Steps[k].tests /\ ~Skipped(k, pool)
  BY OfTheMilestone
<1>2. Pursued(pool) \in places
  <2>1. places \in SUBSET Nat /\ places # {}
    OBVIOUS
  <2>2. Pursued(pool) = First(places)
    BY DEF Pursued
  <2>. HIDE DEF places
  <2>. QED
    BY <2>1, <2>2, FirstOf
<1>3. Pursued(pool) \in 1 .. 4
  BY <1>2
<1>4. CASE t = "animation-static"
  <2>1. k = 4
    BY <1>1, <1>4, StepTests
  <2>2. Verdict("graffiti", pool) = "not-viable"
    BY <1>1, <2>1 DEF Skipped
  <2>3. Pursued(pool) # 1
    BY <1>2, <2>2, StrategyPlaces
  <2>4. StrategyOf(c) = 2
    BY <1>4, TargetsOf DEF StrategyOf
  <2>. QED
    BY <1>3, <2>3, <2>4
<1>5. CASE t # "animation-static"
  <2>1. t \in {"graffiti-timing", "graffiti-staytime", "graffiti-black", "pixel-channels"}
    BY <1>1, <1>5, StepTests
  <2>2. StrategyOf(c) \in {0, 1}
    BY <2>1, TargetsOf DEF StrategyOf
  <2>. QED
    BY <1>3, <2>2
<1>. QED
  BY <1>4, <1>5

\* What is ranked first scores no less than anything recommended.
LEMMA TopScores ==
  ASSUME NEW t \in Top, NEW u \in Recommended
  PROVE  LET s(x) == Score(x, Targets(x, AllEvidence), AllEvidence, Assessment(AllEvidence))
         IN  t \in Recommended /\ (s(t) > s(u) \/ s(t) = s(u))
<1>. DEFINE s(x) == Score(x, Targets(x, AllEvidence), AllEvidence, Assessment(AllEvidence))
            scored == {[test |-> x, score |-> s(x)] : x \in Recommended}
<1>1. Top = Best(scored)
  BY DEF Top, Scored
<1>. HIDE DEF s
<1>2. PICK y \in scored : y.test = t /\ \A z \in scored : y.score > z.score \/ y.score = z.score
  BY <1>1 DEF Best
<1>3. y.test \in Recommended /\ y.score = s(y.test)
  OBVIOUS
<1>4. [test |-> u, score |-> s(u)] \in scored
  OBVIOUS
<1>5. y.score > s(u) \/ y.score = s(u)
  BY <1>2, <1>4
<1>. QED
  BY <1>2, <1>3, <1>5 DEF s

\* For any evidence the answers can add up to, in any number of runs, resumed or not: the plan
\* decides the order of core work, but for the symptom that is investigated.  Whatever the other
\* reasons to recommend a test add up to, none of the current milestone is passed over for one
\* that is neither of the milestone nor looks into the symptom (recommendations.ts).
THEOREM OnlyTheSymptomEverOvertakesThePlan == Spec => []OnlyTheSymptomOvertakesThePlan
<1>1. PixelsFit => OnlyTheSymptomOvertakesThePlan
  <2>. DEFINE P == AllEvidence
              a == Assessment(P)
              s(x) == Score(x, Targets(x, P), P, a)
              total(x) == Total(Targets(x, P), P)
              current == CurrentTests(P)
  <2>. SUFFICES ASSUME PixelsFit, linked, NEW u \in current \cap Recommended,
                       NEW t \in Top, t \notin current,
                       \A c \in Targets(t, P) : c \notin SymptomFocus
                PROVE  FALSE
    BY DEF OnlyTheSymptomOvertakesThePlan
  <2>1. t \in Recommended /\ (s(t) > s(u) \/ s(t) = s(u))
    BY TopScores
  <2>2. /\ t \in Tests /\ u \in Tests /\ Available(t, P, Ran)
        /\ Targets(u, P) # {} /\ a.current = current
    BY <2>1, CharacterizationAssumption DEF Recommended, Assessment
  <2>3. PICK k \in 1 .. 5 : /\ u \in Steps[k].tests /\ current = Steps[k].tests
                            /\ u \in CoreTests(P)
    BY OfTheMilestone
  <2>4. \A c \in Targets(u, P) : ~(StrategyOf(c) > a.pursued)
    <3>1. a.pursued = Pursued(P) /\ Targets(u, P) \subseteq TargetClaims(u)
      BY DEF Assessment, Targets
    <3>. QED
      BY <3>1, NoneTooLate
  <2>5. u \in a.core
    BY <2>3 DEF Assessment
  <2>6. total(t) \in Nat /\ total(u) \in Nat
    BY <2>2, Totals
  <2>7. s(t) \in Int /\ s(t) <= 270 + total(t)
    <3>1. Targets(t, P) \cap SymptomFocus = {}
      OBVIOUS
    <3>. HIDE DEF P, a
    <3>. QED
      BY <2>2, <2>6, <3>1, ScoreBounds
  <2>8. /\ s(u) \in Int
        /\ Category(u) = "advanced" => s(u) >= 340 + total(u)
        /\ Category(u) = "recommended" => s(u) >= 360 + total(u)
    <3>. HIDE DEF P, a
    <3>. QED
      BY <2>2, <2>4, <2>5, <2>6, ScoreBounds
  <2>9. u \in {"graffiti-timing", "graffiti-staytime", "graffiti-black", "animation-static",
               "pixel-channels"}
    BY <2>3, StepTests
  <2>10. total(t) <= 70
    BY <2>2, Totals
  <2>11. CASE u # "graffiti-staytime"
    <3>1. Category(u) = "recommended"
      BY <2>9, <2>11 DEF Category
    <3>. HIDE DEF s, total
    <3>. QED
      BY <2>1, <2>6, <2>7, <2>8, <2>10, <3>1
  <2>12. CASE u = "graffiti-staytime"
    <3>1. Category(u) = "advanced" /\ total(u) >= 8
      BY <2>2, <2>12, Totals DEF Category
    <3>. HIDE DEF s, total
    <3>. QED
      BY <2>1, <2>6, <2>7, <2>8, <2>10, <3>1
  <2>. QED
    BY <2>11, <2>12
<1>. QED
  BY <1>1, PixelsAlwaysFit, PTL
===============================================================================
