----------------------------- MODULE GuidedProof -----------------------------
(***************************************************************************)
(* Proofs about Guided for any tests, displays and bounds: the history of  *)
(* an investigation and the dialog that adds to it.                        *)
(***************************************************************************)
EXTENDS Guided, SequenceTheorems, WellFoundedInduction, TLAPS

------------------------------------------------------------------------------
(* The inductive invariant.                                                *)

Executes(i, run) == \E k \in DOMAIN i.runs : i.runs[k].id = run

\* The m-th result is the last one of the k-th run and has its resolution.
Concludes(i, k, m) ==
  /\ m \in DOMAIN i.completed
  /\ i.completed[m].run = i.runs[k].id
  /\ i.completed[m].resolution = i.runs[k].resolution
  /\ \A l \in DOMAIN i.completed : l > m => i.completed[l].run # i.runs[k].id

\* No run or result has a number that was not handed out yet, and run numbers are unique.
Numbered(i, n) ==
  /\ \A k \in DOMAIN i.runs : i.runs[k].id <= n
  /\ \A k \in DOMAIN i.completed : i.completed[k].run <= n
  /\ \A j, k \in DOMAIN i.runs : i.runs[j].id = i.runs[k].id => j = k

AttemptsOn(r, d) ==
  \A m \in DOMAIN r.attempts :
    r.attempts[m].transfer = "done" => r.attempts[m].on = d /\ d # NoDisplay

OneDisplay(i) ==
  /\ \A k \in DOMAIN i.runs : AttemptsOn(i.runs[k], i.binding)
  /\ \A k \in DOMAIN i.completed :
       i.completed[k].current \/ Executes(i, i.completed[k].run) =>
         i.completed[k].on = i.binding

Concluding(i) ==
  /\ \A k \in DOMAIN i.runs : ~i.runs[k].open => \E m \in Nat : Concludes(i, k, m)
  /\ \A j, k \in DOMAIN i.runs :
       i.runs[j].open /\ i.runs[k].open /\ i.runs[j].test = i.runs[k].test => j = k

RecordOK(i, n) == i \in Investigations /\ Numbered(i, n) /\ OneDisplay(i) /\ Concluding(i)

Pending(a) == a.transfer = "done" /\ a.named /\ a.validity = "in-progress"
RunSettled(r) == \A m \in DOMAIN r.attempts : ~Pending(r.attempts[m])
AllSettled(i) == \A k \in DOMAIN i.runs : RunSettled(i.runs[k])

\* The dialog: fl is the open flow, as the attempts of its run.
TestTimed(fl) == fl.test \in TimedTests
LastTry(fl) == fl.tries[Len(fl.tries)]
Watches(fl) == fl.machine \in {"timed", "questions", "retry"}
Ahead(fl) == IF fl.pc = "send" THEN 1 ELSE 0

\* While an attempt is observed it is the last of both lists, its content reached the panel,
\* and it is open until the timer ends, or until the result when there is no timer.
Shape(fl, atts) ==
  /\ fl.pc = "none" <=> fl.machine # "transferring"
  /\ fl.pc = "send" => Len(atts) > 0
  /\ fl.machine = "retry" => TestTimed(fl)
  /\ Watches(fl) =>
       /\ Len(fl.tries) > 0
       /\ atts[LastTry(fl).number].transfer = "done"
       /\ Observing(fl) = "timed" => TestTimed(fl) /\ LastTry(fl).validity = "open"
       /\ Observing(fl) = "questions" =>
            LastTry(fl).validity \in IF TestTimed(fl) THEN {"valid", "missed"} ELSE {"open"}

Agree(fl, atts) ==
  \A k \in 1 .. Len(fl.tries) :
    LET mine == fl.tries[k]
    IN  /\ mine.number + Ahead(fl) = Len(atts) - Len(fl.tries) + k
        /\ mine.validity = "valid" => atts[mine.number].validity = "valid"
        /\ mine.validity \in {"missed", "user-restarted"} => atts[mine.number].validity = "invalid"

Clean(fl) ==
  \A f \in Fields : fl.values[f] # 0 =>
    \E k \in 1 .. Len(fl.tries) :
      fl.tries[k].number = fl.values[f] /\ fl.tries[k].validity \in {"open", "valid"}

FlowOK(fl, i) ==
  fl # NoFlow =>
    /\ fl \in Flows /\ i # NoInvestigation /\ Executes(i, fl.run)
    /\ Shape(fl, RunAttempts(i, fl.run))
    /\ Agree(fl, RunAttempts(i, fl.run))
    /\ Clean(fl)

\* The only attempt that is transferred, names its transactions and is still in progress is
\* the observed one, and then the dialog names transactions too.
Observed(fl, i) ==
  i # NoInvestigation =>
    \A k \in DOMAIN i.runs : \A m \in DOMAIN i.runs[k].attempts :
      Pending(i.runs[k].attempts[m]) =>
        /\ fl # NoFlow /\ Watches(fl) /\ fl.named
        /\ fl.run = i.runs[k].id /\ LastTry(fl).number = m

SessionOK ==
  /\ link \in Displays \cup {NoDisplay} /\ quarantined \in BOOLEAN
  /\ epoch \in 0 .. MaxEpoch /\ investigationEpoch \in 0 .. MaxEpoch
  /\ lastRun \in 0 .. MaxRuns

\* What is kept for later has no open measurement; the current investigation may have one.
Kept(i, n) == i # NoInvestigation => RecordOK(i, n) /\ AllSettled(i)
Current(i, n) == i # NoInvestigation => RecordOK(i, n)
Bound ==
  investigation # NoInvestigation /\ link # NoDisplay =>
    investigation.binding = link /\ investigationEpoch = epoch

Inv ==
  /\ SessionOK
  /\ Kept(detached, lastRun) /\ Kept(stored, lastRun) /\ Current(investigation, lastRun)
  /\ Bound
  /\ FlowOK(flow, investigation)
  /\ Observed(flow, investigation)

------------------------------------------------------------------------------
(* Selecting a run.                                                        *)

\* A non-empty set of natural numbers has a least element.
LEMMA MinExists ==
  ASSUME NEW S \in SUBSET Nat, S # {}
  PROVE  Min(S) \in S /\ \A y \in S : Min(S) <= y
<1>. DEFINE R == {ss \in Nat \X Nat : ss[1] < ss[2]}
<1>1. IsWellFoundedOn(R, Nat)
  BY NatLessThanWellFounded DEF OpToRel
<1>. HIDE DEF R
<1>2. \E x \in S : \A y \in S : ~ (<<y, x>> \in R)
  BY <1>1, WFMin
<1>3. PICK x \in S : \A y \in S : ~ (<<y, x>> \in R)
  BY <1>2
<1>4. ASSUME NEW y \in S PROVE x <= y
  <2>1. x \in Nat /\ y \in Nat
    OBVIOUS
  <2>2. <<y, x>> \in R <=> y < x
    BY <2>1 DEF R
  <2>. QED
    BY <1>3, <2>1, <2>2
<1>. QED
  BY <1>4 DEF Min

\* A run is found by its number.
LEMMA RunIndexFound ==
  ASSUME NEW i \in Investigations, NEW n, Numbered(i, n), NEW k \in DOMAIN i.runs
  PROVE  RunIndex(i, i.runs[k].id) = k
<1>. DEFINE S == {j \in 1 .. Len(i.runs) : i.runs[j].id = i.runs[k].id}
<1>1. i.runs \in Seq(Runs) /\ DOMAIN i.runs = 1 .. Len(i.runs) /\ k \in Nat
  BY DEF Investigations
<1>2. S = {k}
  BY <1>1 DEF Numbered
<1>3. RunIndex(i, i.runs[k].id) = IF S # {} THEN Min(S) ELSE 0
  BY DEF RunIndex, SelectInSeq
<1>. HIDE DEF S
<1>4. Min({k}) = k
  BY <1>1 DEF Min
<1>. QED
  BY <1>2, <1>3, <1>4

\* A run that was executed is found.
LEMMA RunOf ==
  ASSUME NEW i \in Investigations, NEW n, Numbered(i, n), NEW run, Executes(i, run)
  PROVE  RunIndex(i, run) \in DOMAIN i.runs /\ i.runs[RunIndex(i, run)].id = run
BY RunIndexFound DEF Executes

\* A test with an open run has one that beginExperiment finds.
LEMMA OpenRunFound ==
  ASSUME NEW i \in Investigations, Concluding(i), NEW t, HasOpenRun(i, t)
  PROVE  OpenRun(i, t) \in DOMAIN i.runs
<1>1. PICK k \in DOMAIN i.runs : i.runs[k].test = t /\ i.runs[k].open
  BY DEF HasOpenRun
<1>. DEFINE S == {j \in 1 .. Len(i.runs) : i.runs[j].test = t /\ i.runs[j].open}
<1>2. i.runs \in Seq(Runs) /\ DOMAIN i.runs = 1 .. Len(i.runs) /\ k \in S
  BY <1>1 DEF Investigations
<1>3. OpenRun(i, t) = IF S # {} THEN Min(S) ELSE 0
  BY DEF OpenRun, SelectInSeq
<1>4. S \in SUBSET Nat
  BY <1>2
<1>5. S \subseteq DOMAIN i.runs
  BY <1>2
<1>. HIDE DEF S
<1>6. Min(S) \in S
  BY <1>2, <1>4, MinExists
<1>. QED
  BY <1>2, <1>3, <1>5, <1>6

\* What is selected as a retryable run is a run of that test.
LEMMA RetryableRunFound ==
  ASSUME NEW i \in Investigations, NEW t, RetryableRun(i, t) # 0
  PROVE  /\ RetryableRun(i, t) \in DOMAIN i.runs
         /\ i.runs[RetryableRun(i, t)].test = t
<1>. DEFINE S == {j \in 1 .. Len(i.runs) :
                    i.runs[j].test = t /\ i.runs[j].resolution = "retryable-incomplete"}
<1>2. i.runs \in Seq(Runs) /\ DOMAIN i.runs = 1 .. Len(i.runs)
  BY DEF Investigations
<1>3. RetryableRun(i, t) = IF S # {} THEN Min(S) ELSE 0
  BY DEF RetryableRun, SelectInSeq
<1>4. S \in SUBSET Nat
  BY <1>2
<1>5. \A j \in S : j \in DOMAIN i.runs /\ i.runs[j].test = t
  BY <1>2
<1>. HIDE DEF S
<1>6. Min(S) \in S
  BY <1>3, <1>4, MinExists
<1>. QED
  BY <1>3, <1>5, <1>6

------------------------------------------------------------------------------
(* What the operators on records preserve.                                 *)

\* A record with the same runs, results and binding
Alike(i, j) == j.runs = i.runs /\ j.completed = i.completed /\ j.binding = i.binding

\* What a record says of its history depends on runs, results and binding only.
LEMMA AlikeFacts ==
  ASSUME NEW i, NEW n, RecordOK(i, n), NEW j \in Investigations, Alike(i, j)
  PROVE  RecordOK(j, n) /\ (AllSettled(i) => AllSettled(j))
BY DEF RecordOK, Alike, Numbered, OneDisplay, AttemptsOn, Concluding, Concludes, Executes,
       AllSettled, RunSettled

\* Stopping, resuming and forgetting the panel leave the history alone.
LEMMA FlagFacts ==
  ASSUME NEW i \in Investigations
  PROVE  /\ Stopped(i) \in Investigations /\ Alike(i, Stopped(i))
         /\ Resumed(i) \in Investigations /\ Alike(i, Resumed(i))
         /\ [i EXCEPT !.panel = NoTest] \in Investigations
         /\ Alike(i, [i EXCEPT !.panel = NoTest])
BY DEF Stopped, Resumed, Alike, Investigations

\* Reopening a test leaves the history alone.
LEMMA ReopenedFacts ==
  ASSUME NEW i \in Investigations, NEW t \in Tests
  PROVE  LET j == [i EXCEPT !.reopened = @ \cup {t}]
         IN  j \in Investigations /\ Alike(i, j)
BY DEF Alike, Investigations

\* Forgetting the panel yields a record with the same history.
LEMMA PanelUnknownFacts ==
  ASSUME NEW i \in Investigations
  PROVE  /\ PanelUnknown(i) \in Investigations /\ Alike(i, PanelUnknown(i))
         /\ PanelUnknown(i) # NoInvestigation
BY FlagFacts, NoInvestigationAssumption DEF PanelUnknown

\* A new investigation has an empty history and belongs to its display.
LEMMA NewFacts ==
  ASSUME NEW d \in Displays \cup {NoDisplay}, NEW n
  PROVE  /\ RecordOK(NewInvestigation(d), n) /\ AllSettled(NewInvestigation(d))
         /\ NewInvestigation(d).binding = d
<1>. DEFINE i == NewInvestigation(d)
<1>1. i.runs = <<>> /\ i.completed = <<>> /\ i.binding = d /\ i \in Investigations
  BY DEF NewInvestigation, Investigations
<1>. HIDE DEF i
<1>2. DOMAIN i.runs = {} /\ DOMAIN i.completed = {}
  BY <1>1
<1>. QED
  BY <1>1, <1>2 DEF RecordOK, Numbered, OneDisplay, Concluding, AllSettled, i

\* Demotion changes whether a result is current, and nothing else of runs and results.
LEMMA DemotedFacts ==
  ASSUME NEW i \in Investigations
  PROVE  /\ Demoted(i) \in Investigations
         /\ Demoted(i).runs = i.runs /\ Demoted(i).binding = i.binding
         /\ DOMAIN Demoted(i).completed = DOMAIN i.completed
         /\ \A k \in DOMAIN i.completed :
              LET c == Demoted(i).completed[k]
              IN  /\ ~c.current /\ c.run = i.completed[k].run
                  /\ c.on = i.completed[k].on /\ c.resolution = i.completed[k].resolution
<1>. DEFINE done == i.completed
            old == [k \in DOMAIN done |-> [done[k] EXCEPT !.current = FALSE]]
<1>1. /\ done \in Seq(CompletedTests) /\ DOMAIN done = 1 .. Len(done) /\ Len(done) \in Nat
      /\ \A k \in 1 .. Len(done) : done[k] \in CompletedTests
  BY DEF Investigations
<1>2. \A k \in 1 .. Len(done) :
        LET c == [done[k] EXCEPT !.current = FALSE]
        IN  /\ c \in CompletedTests /\ ~c.current /\ c.run = done[k].run
            /\ c.on = done[k].on /\ c.resolution = done[k].resolution
  BY <1>1 DEF CompletedTests
<1>3. old = [k \in 1 .. Len(done) |-> [done[k] EXCEPT !.current = FALSE]]
  BY <1>1
<1>4. old \in [1 .. Len(done) -> CompletedTests]
  BY <1>2, <1>3
<1>5. old \in Seq(CompletedTests) /\ DOMAIN old = DOMAIN done
  BY <1>1, <1>4, SeqDef
<1>6. \A k \in DOMAIN done : old[k] = [done[k] EXCEPT !.current = FALSE]
  OBVIOUS
<1>7. Demoted(i) = [[i EXCEPT !.completed = old] EXCEPT !.panel = NoTest]
  BY DEF Demoted, Investigations
<1>. HIDE DEF old
<1>8. /\ Demoted(i) \in Investigations /\ Demoted(i).completed = old
      /\ Demoted(i).runs = i.runs /\ Demoted(i).binding = i.binding
  BY <1>5, <1>7 DEF Investigations
<1>. QED
  BY <1>1, <1>2, <1>5, <1>6, <1>8

\* A demoted record is as sound as before.
LEMMA DemotedOK ==
  ASSUME NEW i, NEW n, RecordOK(i, n)
  PROVE  RecordOK(Demoted(i), n) /\ (AllSettled(i) => AllSettled(Demoted(i)))
<1>. DEFINE j == Demoted(i)
<1>1. /\ j \in Investigations /\ j.runs = i.runs /\ j.binding = i.binding
      /\ DOMAIN j.completed = DOMAIN i.completed
      /\ \A k \in DOMAIN i.completed :
           LET c == j.completed[k]
           IN  /\ ~c.current /\ c.run = i.completed[k].run
               /\ c.on = i.completed[k].on /\ c.resolution = i.completed[k].resolution
  BY DemotedFacts DEF RecordOK
<1>. HIDE DEF j
<1>2. Numbered(j, n)
  BY <1>1 DEF RecordOK, Numbered
<1>3. OneDisplay(j)
  BY <1>1 DEF RecordOK, OneDisplay, Executes
<1>4. Concluding(j)
  BY <1>1 DEF RecordOK, Concluding, Concludes
<1>. QED
  BY <1>1, <1>2, <1>3, <1>4 DEF RecordOK, AllSettled, j

\* Resuming on another display takes no run and no current result along.
LEMMA AdoptedOK ==
  ASSUME NEW i, NEW n, RecordOK(i, n), link \in Displays \cup {NoDisplay}
  PROVE  /\ RecordOK(Adopted(i), n) /\ (AllSettled(i) => AllSettled(Adopted(i)))
         /\ link # NoDisplay => Adopted(i).binding = link
<1>. DEFINE d == IF link = NoDisplay THEN i.binding ELSE link
            old == Demoted(i)
            same == SameDevice(i.binding, link)
            kept == IF same THEN old ELSE WithoutOrchestration(old)
            new == [kept EXCEPT !.binding = d]
<1>1. /\ old \in Investigations /\ old.runs = i.runs /\ old.binding = i.binding
      /\ \A k \in DOMAIN old.completed : ~old.completed[k].current
  BY DemotedFacts DEF RecordOK
<1>2. RecordOK(old, n) /\ (AllSettled(i) => AllSettled(old))
  BY DemotedOK
<1>3. i.binding \in Displays \cup {NoDisplay}
  BY DEF RecordOK, Investigations
<1>. HIDE DEF old
<1>4. kept \in Investigations /\ kept.binding = i.binding
  <2>1. /\ WithoutOrchestration(old) \in Investigations
        /\ WithoutOrchestration(old).binding = old.binding
    <3>. <<>> \in Seq(Runs) /\ {} \in SUBSET Tests
      OBVIOUS
    <3>. QED
      BY <1>1 DEF Investigations, WithoutOrchestration
  <2>. QED
    BY <1>1, <2>1
<1>5. Adopted(i) =
        Resumed([kept EXCEPT !.binding = IF link = NoDisplay THEN kept.binding ELSE link])
  BY DEF Adopted, old
<1>6. Adopted(i) = Resumed(new)
  BY <1>4, <1>5
<1>7. new \in Investigations /\ new.binding = d /\ new.runs = kept.runs
      /\ new.completed = kept.completed
  BY <1>3, <1>4 DEF Investigations
<1>8. RecordOK(new, n) /\ (AllSettled(i) => AllSettled(new))
  <2>1. CASE same
    <3>1. link # NoDisplay => i.binding = link
      BY <2>1 DEF SameDevice
    <3>2. kept = old /\ d = i.binding
      BY <2>1, <3>1
    <3>3. Alike(old, new)
      BY <1>1, <1>7, <3>2 DEF Alike
    <3>. QED
      BY <1>2, <1>7, <3>3, AlikeFacts
  <2>2. CASE ~same
    <3>1. kept = WithoutOrchestration(old)
      BY <2>2
    <3>2. kept.runs = <<>> /\ kept.completed = old.completed
      BY <1>1, <3>1 DEF Investigations, WithoutOrchestration
    <3>. HIDE DEF new, kept
    <3>3. DOMAIN new.runs = {} /\ new.completed = old.completed /\ new \in Investigations
      BY <1>7, <3>2
    <3>. QED
      BY <1>1, <1>2, <3>3 DEF RecordOK, Numbered, OneDisplay, Concluding, AllSettled, Executes
  <2>. QED
    BY <2>1, <2>2
<1>. HIDE DEF new
<1>9. Resumed(new) \in Investigations /\ Alike(new, Resumed(new))
  BY <1>7, FlagFacts
<1>10. RecordOK(Resumed(new), n) /\ (AllSettled(new) => AllSettled(Resumed(new)))
  BY <1>8, <1>9, AlikeFacts
<1>. QED
  BY <1>6, <1>7, <1>8, <1>9, <1>10 DEF Alike

\* Changing the attempts of one run.
RunReplaced(i, k, r) == [i EXCEPT !.runs[k] = r]

\* Replacing one run leaves every other run, the results and the binding alone.
LEMMA ReplacedFacts ==
  ASSUME NEW i \in Investigations, NEW k \in DOMAIN i.runs, NEW r \in Runs
  PROVE  LET j == RunReplaced(i, k, r)
         IN  /\ j \in Investigations /\ j.completed = i.completed /\ j.binding = i.binding
             /\ DOMAIN j.runs = DOMAIN i.runs
             /\ \A l \in DOMAIN i.runs : j.runs[l] = IF l = k THEN r ELSE i.runs[l]
<1>1. i.runs \in Seq(Runs)
  BY DEF Investigations
<1>2. [i.runs EXCEPT ![k] = r] \in Seq(Runs)
  BY <1>1
<1>3. RunReplaced(i, k, r) = [i EXCEPT !.runs = [i.runs EXCEPT ![k] = r]]
  BY DEF RunReplaced, Investigations
<1>. QED
  BY <1>1, <1>2, <1>3 DEF Investigations

\* A run may be replaced by one that differs in its attempts only.
LEMMA ReplacedOK ==
  ASSUME NEW i, NEW n, RecordOK(i, n), NEW k \in DOMAIN i.runs, NEW r \in Runs,
         r.id = i.runs[k].id, r.test = i.runs[k].test, r.open = i.runs[k].open,
         r.resolution = i.runs[k].resolution, AttemptsOn(r, i.binding)
  PROVE  RecordOK(RunReplaced(i, k, r), n)
<1>. DEFINE j == RunReplaced(i, k, r)
<1>1. /\ j \in Investigations /\ j.completed = i.completed /\ j.binding = i.binding
      /\ DOMAIN j.runs = DOMAIN i.runs
      /\ \A l \in DOMAIN i.runs : j.runs[l] = IF l = k THEN r ELSE i.runs[l]
  BY ReplacedFacts DEF RecordOK
<1>. HIDE DEF j
<1>2. \A l \in DOMAIN i.runs :
        /\ j.runs[l].id = i.runs[l].id /\ j.runs[l].test = i.runs[l].test
        /\ j.runs[l].open = i.runs[l].open /\ j.runs[l].resolution = i.runs[l].resolution
  BY <1>1
<1>3. Numbered(j, n)
  BY <1>1, <1>2 DEF RecordOK, Numbered
<1>4. OneDisplay(j)
  BY <1>1, <1>2 DEF RecordOK, OneDisplay, Executes
<1>5. Concluding(j)
  BY <1>1, <1>2 DEF RecordOK, Concluding, Concludes
<1>. QED
  BY <1>1, <1>3, <1>4, <1>5 DEF RecordOK, j

\* A run with other attempts
LEMMA WithAttemptsFacts ==
  ASSUME NEW r \in Runs, NEW atts \in Seq(Attempts)
  PROVE  LET s == [r EXCEPT !.attempts = atts]
         IN  /\ s \in Runs /\ s.attempts = atts /\ s.id = r.id /\ s.test = r.test
             /\ s.open = r.open /\ s.resolution = r.resolution
BY DEF Runs

\* j is i with the m-th attempt of the k-th run settled as v.
SettledAs(i, j, k, m, v) ==
  /\ j.completed = i.completed /\ j.binding = i.binding
  /\ DOMAIN j.runs = DOMAIN i.runs
  /\ \A l \in DOMAIN i.runs : l # k => j.runs[l] = i.runs[l]
  /\ j.runs[k].id = i.runs[k].id
  /\ DOMAIN j.runs[k].attempts = DOMAIN i.runs[k].attempts
  /\ Len(j.runs[k].attempts) = Len(i.runs[k].attempts)
  /\ \A l \in DOMAIN i.runs[k].attempts :
       /\ l # m => j.runs[k].attempts[l] = i.runs[k].attempts[l]
       /\ j.runs[k].attempts[l].transfer = i.runs[k].attempts[l].transfer
       /\ j.runs[k].attempts[l].on = i.runs[k].attempts[l].on
       /\ l = m => j.runs[k].attempts[l].validity = v

\* settleAttempt changes the validity of one attempt and nothing else.
LEMMA SettleOK ==
  ASSUME NEW i, NEW n, RecordOK(i, n), NEW k \in DOMAIN i.runs, NEW m,
         NEW v \in {"valid", "invalid"}
  PROVE  /\ RecordOK(Settle(i, i.runs[k].id, m, v), n)
         /\ SettledAs(i, Settle(i, i.runs[k].id, m, v), k, m, v)
<1>. DEFINE r == i.runs[k]
            atts == r.attempts
            bs == [atts EXCEPT ![m].validity = v]
            s == [r EXCEPT !.attempts = bs]
<1>1. i \in Investigations /\ i.runs \in Seq(Runs) /\ r \in Runs /\ atts \in Seq(Attempts)
  <2>1. i \in Investigations
    BY DEF RecordOK
  <2>2. i.runs \in Seq(Runs)
    BY <2>1 DEF Investigations
  <2>3. r \in Runs
    BY <2>2
  <2>. QED
    BY <2>1, <2>2, <2>3 DEF Runs
<1>2. RunIndex(i, i.runs[k].id) = k
  BY <1>1, RunIndexFound DEF RecordOK
<1>3. Settle(i, i.runs[k].id, m, v) = [i EXCEPT !.runs[k].attempts[m].validity = v]
  BY <1>2 DEF Settle
<1>4. [i EXCEPT !.runs[k].attempts[m].validity = v] = RunReplaced(i, k, s)
  BY <1>1 DEF RunReplaced, Investigations, Runs
<1>5. /\ bs \in Seq(Attempts) /\ DOMAIN bs = DOMAIN atts /\ Len(bs) = Len(atts)
      /\ \A l \in DOMAIN atts :
           /\ l # m => bs[l] = atts[l]
           /\ bs[l].transfer = atts[l].transfer /\ bs[l].on = atts[l].on
           /\ l = m => bs[l].validity = v
  <2>1. CASE m \in DOMAIN atts
    <3>. DEFINE a == [atts[m] EXCEPT !.validity = v]
    <3>1. atts[m] \in Attempts
      BY <1>1, <2>1
    <3>2. a \in Attempts /\ a.transfer = atts[m].transfer /\ a.on = atts[m].on /\ a.validity = v
      BY <3>1 DEF Attempts
    <3>3. bs = [atts EXCEPT ![m] = a]
      BY <2>1
    <3>. HIDE DEF a, bs
    <3>4. /\ [atts EXCEPT ![m] = a] \in Seq(Attempts)
          /\ DOMAIN [atts EXCEPT ![m] = a] = DOMAIN atts
          /\ Len([atts EXCEPT ![m] = a]) = Len(atts)
          /\ \A l \in DOMAIN atts : [atts EXCEPT ![m] = a][l] = IF l = m THEN a ELSE atts[l]
      BY <1>1, <2>1, <3>2
    <3>. QED
      BY <3>2, <3>3, <3>4
  <2>2. CASE m \notin DOMAIN atts
    <3>1. bs = atts
      BY <1>1, <2>2
    <3>. QED
      BY <1>1, <2>2, <3>1
  <2>. QED
    BY <2>1, <2>2
<1>. HIDE DEF bs
<1>6. /\ s \in Runs /\ s.attempts = bs /\ s.id = r.id /\ s.test = r.test
      /\ s.open = r.open /\ s.resolution = r.resolution
  BY <1>1, <1>5, WithAttemptsFacts
<1>7. AttemptsOn(s, i.binding)
  <2>1. AttemptsOn(r, i.binding)
    BY DEF RecordOK, OneDisplay
  <2>. QED
    BY <1>5, <1>6, <2>1 DEF AttemptsOn
<1>. HIDE DEF s
<1>8. RecordOK(RunReplaced(i, k, s), n)
  BY <1>6, <1>7, ReplacedOK
<1>9. LET j == RunReplaced(i, k, s)
      IN  /\ j.completed = i.completed /\ j.binding = i.binding
          /\ DOMAIN j.runs = DOMAIN i.runs
          /\ \A l \in DOMAIN i.runs : j.runs[l] = IF l = k THEN s ELSE i.runs[l]
  BY <1>1, <1>6, ReplacedFacts
<1>. QED
  BY <1>3, <1>4, <1>5, <1>6, <1>8, <1>9 DEF s, SettledAs

\* A run whose attempts are replaced by others that went to the same display
LEMMA AttemptsReplaced ==
  ASSUME NEW i, NEW n, RecordOK(i, n), NEW k \in DOMAIN i.runs, NEW atts \in Seq(Attempts),
         \A m \in DOMAIN atts : atts[m].transfer = "done" =>
           atts[m].on = i.binding /\ i.binding # NoDisplay
  PROVE  LET j == [i EXCEPT !.runs[k].attempts = atts]
         IN  /\ RecordOK(j, n) /\ j.completed = i.completed /\ j.binding = i.binding
             /\ DOMAIN j.runs = DOMAIN i.runs
             /\ \A l \in DOMAIN i.runs : l # k => j.runs[l] = i.runs[l]
             /\ j.runs[k].id = i.runs[k].id /\ j.runs[k].attempts = atts
<1>. DEFINE r == i.runs[k]
            s == [r EXCEPT !.attempts = atts]
<1>1. i \in Investigations /\ i.runs \in Seq(Runs) /\ r \in Runs
  <2>1. i \in Investigations
    BY DEF RecordOK
  <2>2. i.runs \in Seq(Runs)
    BY <2>1 DEF Investigations
  <2>. QED
    BY <2>1, <2>2
<1>2. [i EXCEPT !.runs[k].attempts = atts] = RunReplaced(i, k, s)
  BY <1>1 DEF RunReplaced, Investigations, Runs
<1>3. /\ s \in Runs /\ s.attempts = atts /\ s.id = r.id /\ s.test = r.test
      /\ s.open = r.open /\ s.resolution = r.resolution
  BY <1>1, WithAttemptsFacts
<1>4. AttemptsOn(s, i.binding)
  BY <1>3 DEF AttemptsOn
<1>. HIDE DEF s
<1>5. RecordOK(RunReplaced(i, k, s), n)
  BY <1>3, <1>4, ReplacedOK
<1>6. LET j == RunReplaced(i, k, s)
      IN  /\ j.completed = i.completed /\ j.binding = i.binding
          /\ DOMAIN j.runs = DOMAIN i.runs
          /\ \A l \in DOMAIN i.runs : j.runs[l] = IF l = k THEN s ELSE i.runs[l]
  BY <1>1, <1>3, ReplacedFacts
<1>. QED
  BY <1>2, <1>3, <1>5, <1>6

\* The fields of a record, its runs and their attempts have their types.
LEMMA RecordFields ==
  ASSUME NEW i \in Investigations
  PROVE  /\ i.runs \in Seq(Runs) /\ i.completed \in Seq(CompletedTests)
         /\ i.binding \in Displays \cup {NoDisplay}
         /\ \A k \in DOMAIN i.runs :
              /\ i.runs[k] \in Runs /\ i.runs[k].attempts \in Seq(Attempts)
              /\ i.runs[k].id \in 1 .. MaxRuns /\ i.runs[k].test \in Tests
<1>1. i.runs \in Seq(Runs)
  BY DEF Investigations
<1>2. \A k \in DOMAIN i.runs : i.runs[k] \in Runs
  BY <1>1
<1>. QED
  BY <1>1, <1>2 DEF Investigations, Runs

NewAttempt ==
  [validity |-> "in-progress", transfer |-> "none", named |-> FALSE, on |-> NoDisplay]

\* beginAttempt appends an attempt that is neither transferred nor settled.
WithAttempt(i, k) == [i EXCEPT !.runs[k].attempts = Append(i.runs[k].attempts, NewAttempt)]
AddedTo(i, j, k) ==
  /\ j.completed = i.completed /\ j.binding = i.binding
  /\ DOMAIN j.runs = DOMAIN i.runs
  /\ \A l \in DOMAIN i.runs : l # k => j.runs[l] = i.runs[l]
  /\ j.runs[k].id = i.runs[k].id
  /\ Len(j.runs[k].attempts) = Len(i.runs[k].attempts) + 1
  /\ \A m \in DOMAIN i.runs[k].attempts :
       j.runs[k].attempts[m] = i.runs[k].attempts[m]
  /\ j.runs[k].attempts[Len(i.runs[k].attempts) + 1] = NewAttempt

\* beginAttempt adds one attempt to one run and nothing else.
LEMMA AttemptAdded ==
  ASSUME NEW i, NEW n, RecordOK(i, n), NEW k \in DOMAIN i.runs
  PROVE  RecordOK(WithAttempt(i, k), n) /\ AddedTo(i, WithAttempt(i, k), k)
<1>. DEFINE atts == i.runs[k].attempts
            bs == Append(atts, NewAttempt)
<1>1. i \in Investigations /\ atts \in Seq(Attempts)
  BY RecordFields DEF RecordOK
<1>2. NewAttempt \in Attempts /\ NewAttempt.transfer # "done"
  BY DEF NewAttempt, Attempts
<1>3. /\ bs \in Seq(Attempts) /\ Len(bs) = Len(atts) + 1
      /\ \A m \in DOMAIN atts : bs[m] = atts[m]
      /\ bs[Len(atts) + 1] = NewAttempt
      /\ DOMAIN bs = 1 .. Len(atts) + 1 /\ DOMAIN atts = 1 .. Len(atts)
  BY <1>1, <1>2
<1>. HIDE DEF bs
<1>4. AttemptsOn(i.runs[k], i.binding)
  BY DEF RecordOK, OneDisplay
<1>5. \A m \in DOMAIN bs : bs[m].transfer = "done" => bs[m].on = i.binding /\ i.binding # NoDisplay
  <2>. SUFFICES ASSUME NEW m \in DOMAIN bs, bs[m].transfer = "done"
                PROVE  bs[m].on = i.binding /\ i.binding # NoDisplay
    OBVIOUS
  <2>1. m \in DOMAIN atts
    <3>1. m # Len(atts) + 1
      BY <1>2, <1>3
    <3>. QED
      BY <1>1, <1>3, <3>1
  <2>. QED
    BY <1>3, <1>4, <2>1 DEF AttemptsOn
<1>6. LET j == [i EXCEPT !.runs[k].attempts = bs]
      IN  /\ RecordOK(j, n) /\ j.completed = i.completed /\ j.binding = i.binding
          /\ DOMAIN j.runs = DOMAIN i.runs
          /\ \A l \in DOMAIN i.runs : l # k => j.runs[l] = i.runs[l]
          /\ j.runs[k].id = i.runs[k].id /\ j.runs[k].attempts = bs
  BY <1>3, <1>5, AttemptsReplaced
<1>. QED
  BY <1>3, <1>6 DEF bs, WithAttempt, AddedTo

\* Recording the transfer of an attempt: one that is done went to the display the record
\* is bound to.
WithTransfer(i, k, m, how, named, d, panel) ==
  [i EXCEPT !.panel = panel, !.runs[k].attempts[m].transfer = how,
            !.runs[k].attempts[m].named = named, !.runs[k].attempts[m].on = d]
TransferredAs(i, j, k, m, how, named, d) ==
  /\ j.completed = i.completed /\ j.binding = i.binding
  /\ DOMAIN j.runs = DOMAIN i.runs
  /\ \A l \in DOMAIN i.runs : l # k => j.runs[l] = i.runs[l]
  /\ j.runs[k].id = i.runs[k].id
  /\ Len(j.runs[k].attempts) = Len(i.runs[k].attempts)
  /\ DOMAIN j.runs[k].attempts = DOMAIN i.runs[k].attempts
  /\ \A l \in DOMAIN i.runs[k].attempts :
       /\ l # m => j.runs[k].attempts[l] = i.runs[k].attempts[l]
       /\ j.runs[k].attempts[l].validity = i.runs[k].attempts[l].validity
  /\ j.runs[k].attempts[m].transfer = how /\ j.runs[k].attempts[m].on = d
  /\ j.runs[k].attempts[m].named = named

\* Replacing the attempts of one run leaves a record of the same shape.
LEMMA AttemptsChanged ==
  ASSUME NEW p \in Investigations, NEW k \in DOMAIN p.runs, NEW atts \in Seq(Attempts)
  PROVE  LET q == [p EXCEPT !.runs[k].attempts = atts]
         IN  q \in Investigations /\ q.runs[k].attempts = atts /\ k \in DOMAIN q.runs
<1>1. p.runs \in Seq(Runs) /\ p.runs[k] \in Runs
  BY RecordFields
<1>2. [p.runs[k] EXCEPT !.attempts = atts] \in Runs
  BY <1>1 DEF Runs
<1>3. [p.runs EXCEPT ![k].attempts = atts] \in Seq(Runs)
  BY <1>1, <1>2
<1>. QED
  BY <1>1, <1>2, <1>3 DEF Investigations, Runs

\* Recording a transfer changes one attempt; its display is that of the record.
LEMMA TransferRecorded ==
  ASSUME NEW i, NEW n, RecordOK(i, n), NEW k \in DOMAIN i.runs,
         NEW m \in DOMAIN i.runs[k].attempts,
         NEW how \in {"failed", "done"}, NEW named \in BOOLEAN,
         NEW d \in Displays \cup {NoDisplay},
         how = "done" => d = i.binding /\ d # NoDisplay,
         NEW panel \in Tests \cup {NoTest}
  PROVE  /\ RecordOK(WithTransfer(i, k, m, how, named, d, panel), n)
         /\ TransferredAs(i, WithTransfer(i, k, m, how, named, d, panel), k, m, how, named, d)
<1>. DEFINE atts == i.runs[k].attempts
            a == [[[atts[m] EXCEPT !.transfer = how] EXCEPT !.named = named] EXCEPT !.on = d]
            bs == [atts EXCEPT ![m] = a]
            p == [i EXCEPT !.panel = panel]
<1>1. /\ i \in Investigations /\ atts \in Seq(Attempts) /\ i.runs \in Seq(Runs)
      /\ i.runs[k] \in Runs
  BY RecordFields DEF RecordOK
<1>2. atts[m] \in Attempts
  BY <1>1
<1>3. /\ a \in Attempts /\ a.transfer = how /\ a.on = d /\ a.validity = atts[m].validity
      /\ a.named = named
  BY <1>2 DEF Attempts
<1>4. p \in Investigations /\ Alike(i, p) /\ p.runs = i.runs
  BY <1>1 DEF Alike, Investigations
<1>5. RecordOK(p, n)
  BY <1>4, AlikeFacts
<1>6. WithTransfer(i, k, m, how, named, d, panel) = [p EXCEPT !.runs[k].attempts = bs]
  <2>. DEFINE one == [atts EXCEPT ![m].transfer = how]
              two == [one EXCEPT ![m].named = named]
              q == [p EXCEPT !.runs[k].attempts = one]
              s == [p EXCEPT !.runs[k].attempts = two]
  <2>1. WithTransfer(i, k, m, how, named, d, panel)
          = [[[p EXCEPT !.runs[k].attempts[m].transfer = how] EXCEPT
                !.runs[k].attempts[m].named = named] EXCEPT !.runs[k].attempts[m].on = d]
    BY DEF WithTransfer
  <2>. HIDE DEF p
  <2>2. [p EXCEPT !.runs[k].attempts[m].transfer = how] = q
    BY <1>1, <1>4 DEF Investigations, Runs
  <2>3. one \in Seq(Attempts) /\ one[m] \in Attempts /\ m \in DOMAIN one
    BY <1>1, <1>2 DEF Attempts
  <2>4. two \in Seq(Attempts)
    <3>. DEFINE b == [one[m] EXCEPT !.named = named]
    <3>1. b \in Attempts
      BY <2>3 DEF Attempts
    <3>2. two = [one EXCEPT ![m] = b]
      OBVIOUS
    <3>. HIDE DEF b, one
    <3>3. [one EXCEPT ![m] = b] \in Seq(Attempts)
      <4>1. one \in [1 .. Len(one) -> Attempts] /\ Len(one) \in Nat
        BY <2>3
      <4>2. [one EXCEPT ![m] = b] \in [1 .. Len(one) -> Attempts]
        BY <3>1, <4>1
      <4>. QED
        BY <4>1, <4>2, SeqDef
    <3>. QED
      BY <3>2, <3>3
  <2>5. [two EXCEPT ![m].on = d] = bs
    BY <1>1, <1>2 DEF Attempts
  <2>. HIDE DEF one
  <2>6. [q EXCEPT !.runs[k].attempts[m].named = named] = s
    <3>1. q.runs[k].attempts = one /\ k \in DOMAIN q.runs /\ q \in Investigations
      BY <1>1, <1>4, <2>3, AttemptsChanged
    <3>2. [q EXCEPT !.runs[k].attempts[m].named = named] = [q EXCEPT !.runs[k].attempts = two]
      BY <3>1 DEF Investigations, Runs
    <3>. HIDE DEF two
    <3>3. [q EXCEPT !.runs[k].attempts = two] = s
      BY <1>1, <1>4 DEF Investigations, Runs
    <3>. QED
      BY <3>2, <3>3
  <2>. HIDE DEF two
  <2>7. [s EXCEPT !.runs[k].attempts[m].on = d] = [p EXCEPT !.runs[k].attempts = bs]
    <3>1. s.runs[k].attempts = two /\ k \in DOMAIN s.runs /\ s \in Investigations
      BY <1>1, <1>4, <2>4, AttemptsChanged
    <3>2. [s EXCEPT !.runs[k].attempts[m].on = d]
            = [s EXCEPT !.runs[k].attempts = [two EXCEPT ![m].on = d]]
      BY <3>1 DEF Investigations, Runs
    <3>3. [s EXCEPT !.runs[k].attempts = [two EXCEPT ![m].on = d]]
            = [p EXCEPT !.runs[k].attempts = [two EXCEPT ![m].on = d]]
      BY <1>1, <1>4 DEF Investigations, Runs
    <3>. QED
      BY <2>5, <3>2, <3>3
  <2>. QED
    BY <2>1, <2>2, <2>6, <2>7
<1>. HIDE DEF a, p
<1>7. /\ bs \in Seq(Attempts) /\ DOMAIN bs = DOMAIN atts /\ Len(bs) = Len(atts)
      /\ \A l \in DOMAIN atts : bs[l] = IF l = m THEN a ELSE atts[l]
  BY <1>1, <1>3
<1>. HIDE DEF bs
<1>8. AttemptsOn(i.runs[k], i.binding)
  BY DEF RecordOK, OneDisplay
<1>9. \A l \in DOMAIN bs : bs[l].transfer = "done" => bs[l].on = p.binding /\ p.binding # NoDisplay
  BY <1>3, <1>4, <1>7, <1>8 DEF AttemptsOn, Alike
<1>10. LET j == [p EXCEPT !.runs[k].attempts = bs]
       IN  /\ RecordOK(j, n) /\ j.completed = p.completed /\ j.binding = p.binding
           /\ DOMAIN j.runs = DOMAIN p.runs
           /\ \A l \in DOMAIN p.runs : l # k => j.runs[l] = p.runs[l]
           /\ j.runs[k].id = p.runs[k].id /\ j.runs[k].attempts = bs
  BY <1>4, <1>5, <1>7, <1>9, AttemptsReplaced
<1>. QED
  BY <1>3, <1>4, <1>6, <1>7, <1>10 DEF Alike, TransferredAs

\* A result of a run, added when the run is settled with the same resolution.
LEMMA ResultAdded ==
  ASSUME NEW i, NEW n, RecordOK(i, n), NEW k \in DOMAIN i.runs,
         NEW c \in CompletedTests, c.run = i.runs[k].id, c.on = i.binding
  PROVE  LET j == SettleRun([i EXCEPT !.completed = Append(i.completed, c)], c.run, c.resolution)
         IN  /\ RecordOK(j, n) /\ j.binding = i.binding
             /\ DOMAIN j.runs = DOMAIN i.runs
             /\ \A l \in DOMAIN i.runs :
                  j.runs[l].attempts = i.runs[l].attempts /\ j.runs[l].id = i.runs[l].id
             /\ Len(j.completed) = Len(i.completed) + 1
<1>. DEFINE p == [i EXCEPT !.completed = Append(i.completed, c)]
            r == i.runs[k]
            s == [[r EXCEPT !.open = FALSE] EXCEPT !.resolution = c.resolution]
            q == RunReplaced(p, k, s)
            undone == IF c.resolution = "retryable-incomplete" THEN q.reopened
                      ELSE q.reopened \ {r.test}
            j == [q EXCEPT !.reopened = undone]
<1>1. /\ i \in Investigations /\ i.runs \in Seq(Runs) /\ r \in Runs
      /\ i.completed \in Seq(CompletedTests)
  BY RecordFields DEF RecordOK
<1>2. c.resolution \in Resolutions \ {"none"}
  BY DEF CompletedTests
<1>3. /\ Append(i.completed, c) \in Seq(CompletedTests)
      /\ DOMAIN Append(i.completed, c) = 1 .. Len(i.completed) + 1
      /\ Len(Append(i.completed, c)) = Len(i.completed) + 1
      /\ DOMAIN i.completed = 1 .. Len(i.completed) /\ Len(i.completed) \in Nat
      /\ \A m \in DOMAIN i.completed : Append(i.completed, c)[m] = i.completed[m]
      /\ Append(i.completed, c)[Len(i.completed) + 1] = c
  BY <1>1
<1>4. /\ p \in Investigations /\ p.runs = i.runs /\ p.binding = i.binding
      /\ p.completed = Append(i.completed, c)
  BY <1>1, <1>3 DEF Investigations
<1>5. /\ s \in Runs /\ s.id = r.id /\ s.test = r.test /\ ~s.open
      /\ s.resolution = c.resolution /\ s.attempts = r.attempts
  BY <1>1, <1>2 DEF Runs
<1>. HIDE DEF s, p
<1>6. /\ q \in Investigations /\ q.completed = p.completed /\ q.binding = p.binding
      /\ DOMAIN q.runs = DOMAIN p.runs
      /\ \A l \in DOMAIN p.runs : q.runs[l] = IF l = k THEN s ELSE p.runs[l]
  BY <1>4, <1>5, ReplacedFacts
<1>7. undone \in SUBSET Tests
  BY <1>6 DEF Investigations
<1>8. RunIndex(p, c.run) = k
  <2>1. RunIndex(i, i.runs[k].id) = k
    BY <1>1, RunIndexFound DEF RecordOK
  <2>. QED
    BY <1>4, <2>1 DEF RunIndex
<1>9. SettleRun(p, c.run, c.resolution) = j
  <2>1. SettleRun(p, c.run, c.resolution) =
          [p EXCEPT !.runs[k].open = FALSE, !.runs[k].resolution = c.resolution,
                    !.reopened = IF c.resolution = "retryable-incomplete" THEN @
                                 ELSE @ \ {p.runs[k].test}]
    BY <1>8 DEF SettleRun
  <2>2. [[p EXCEPT !.runs[k].open = FALSE] EXCEPT !.runs[k].resolution = c.resolution] = q
    BY <1>1, <1>4 DEF RunReplaced, Investigations, Runs, s
  <2>. QED
    BY <1>4, <2>1, <2>2
<1>. HIDE DEF q, undone
<1>10. /\ j \in Investigations /\ j.runs = q.runs /\ j.completed = p.completed
       /\ j.binding = i.binding
  BY <1>4, <1>6, <1>7 DEF Investigations
<1>. HIDE DEF j
<1>11. /\ DOMAIN j.runs = DOMAIN i.runs
       /\ \A l \in DOMAIN i.runs : j.runs[l] = IF l = k THEN s ELSE i.runs[l]
       /\ \A l \in DOMAIN i.runs :
            j.runs[l].attempts = i.runs[l].attempts /\ j.runs[l].id = i.runs[l].id
  BY <1>4, <1>5, <1>6, <1>10
<1>12. Numbered(j, n)
  BY <1>3, <1>4, <1>10, <1>11 DEF RecordOK, Numbered
<1>13. OneDisplay(j)
  <2>1. \A run : Executes(j, run) <=> Executes(i, run)
    BY <1>11 DEF Executes
  <2>2. \A l \in DOMAIN j.runs : AttemptsOn(j.runs[l], j.binding)
    BY <1>10, <1>11 DEF RecordOK, OneDisplay, AttemptsOn
  <2>3. ASSUME NEW m \in DOMAIN j.completed,
               j.completed[m].current \/ Executes(j, j.completed[m].run)
        PROVE  j.completed[m].on = j.binding
    <3>1. CASE m \in DOMAIN i.completed
      BY <1>3, <1>4, <1>10, <2>1, <2>3, <3>1 DEF RecordOK, OneDisplay
    <3>2. CASE m = Len(i.completed) + 1
      BY <1>3, <1>4, <1>10, <3>2
    <3>. QED
      BY <1>3, <1>4, <1>10, <3>1, <3>2
  <2>. QED
    BY <2>2, <2>3 DEF OneDisplay
<1>14. Concluding(j)
  <2>1. ASSUME NEW l \in DOMAIN j.runs, ~j.runs[l].open
        PROVE  \E m \in Nat : Concludes(j, l, m)
    <3>1. CASE l = k
      <4>1. Concludes(j, l, Len(i.completed) + 1)
        BY <1>3, <1>4, <1>5, <1>10, <1>11, <3>1 DEF Concludes
      <4>. QED
        BY <1>3, <4>1
    <3>2. CASE l # k
      <4>1. PICK m \in Nat : Concludes(i, l, m)
        BY <1>11, <2>1, <3>2 DEF RecordOK, Concluding
      <4>2. i.runs[l].id # i.runs[k].id
        BY <1>11, <3>2 DEF RecordOK, Numbered
      <4>3. Concludes(j, l, m)
        BY <1>3, <1>4, <1>10, <1>11, <3>2, <4>1, <4>2 DEF Concludes
      <4>. QED
        BY <4>3
    <3>. QED
      BY <3>1, <3>2
  <2>2. \A l, m \in DOMAIN j.runs :
          j.runs[l].open /\ j.runs[m].open /\ j.runs[l].test = j.runs[m].test => l = m
    BY <1>5, <1>11 DEF RecordOK, Concluding
  <2>. QED
    BY <2>1, <2>2 DEF Concluding
<1>15. RecordOK(j, n)
  BY <1>10, <1>12, <1>13, <1>14 DEF RecordOK
<1>16. Len(j.completed) = Len(i.completed) + 1
  BY <1>3, <1>4, <1>10
<1>. QED
  BY <1>9, <1>10, <1>11, <1>15, <1>16 DEF p

\* beginExperiment: the run it returns is one of the record; a new one has a new number.
LEMMA BegunFacts ==
  ASSUME NEW i, lastRun \in 0 .. MaxRuns, RecordOK(i, lastRun), NEW t \in Tests,
         NEW again \in BOOLEAN, Begun(i, t, again)[2] <= MaxRuns
  PROVE  LET j == Begun(i, t, again)[1]
             run == Begun(i, t, again)[2]
             n == IF run > lastRun THEN run ELSE lastRun
         IN  /\ n \in 0 .. MaxRuns /\ run \in 1 .. MaxRuns
             /\ RecordOK(j, n) /\ (AllSettled(i) => AllSettled(j))
             /\ j.binding = i.binding /\ Executes(j, run)
<1>0. /\ i \in Investigations /\ i.runs \in Seq(Runs) /\ MaxRuns \in Nat
      /\ \A k \in DOMAIN i.runs :
           i.runs[k] \in Runs /\ i.runs[k].id \in 1 .. MaxRuns /\ i.runs[k].id <= lastRun
  BY RecordFields, InvestigationAssumption DEF RecordOK, Numbered
<1>1. CASE HasOpenRun(i, t)
  <2>1. OpenRun(i, t) \in DOMAIN i.runs
    BY <1>1, OpenRunFound DEF RecordOK
  <2>2. Begun(i, t, again) = <<i, i.runs[OpenRun(i, t)].id>>
    BY <1>1 DEF Begun
  <2>. QED
    BY <1>0, <2>1, <2>2 DEF Executes
<1>2. CASE ~HasOpenRun(i, t) /\ again /\ RetryableRun(i, t) # 0
  <2>. DEFINE k == RetryableRun(i, t)
              s == [i.runs[k] EXCEPT !.open = TRUE]
              j == RunReplaced(i, k, s)
  <2>1. k \in DOMAIN i.runs /\ i.runs[k].test = t
    BY <1>0, <1>2, RetryableRunFound
  <2>2. Begun(i, t, again) = <<j, i.runs[k].id>>
    <3>1. Begun(i, t, again) = <<[i EXCEPT !.runs[k].open = TRUE], i.runs[k].id>>
      BY <1>2 DEF Begun
    <3>2. [i EXCEPT !.runs[k].open = TRUE] = j
      BY <1>0, <2>1 DEF RunReplaced, Investigations
    <3>. QED
      BY <3>1, <3>2
  <2>. HIDE DEF k
  <2>3. /\ s \in Runs /\ s.id = i.runs[k].id /\ s.test = t /\ s.open
        /\ s.attempts = i.runs[k].attempts
    BY <1>0, <2>1 DEF Runs
  <2>. HIDE DEF s
  <2>4. /\ j \in Investigations /\ j.completed = i.completed /\ j.binding = i.binding
        /\ DOMAIN j.runs = DOMAIN i.runs
        /\ \A l \in DOMAIN i.runs : j.runs[l] = IF l = k THEN s ELSE i.runs[l]
    BY <1>0, <2>1, <2>3, ReplacedFacts
  <2>. HIDE DEF j
  <2>5. Numbered(j, lastRun)
    BY <2>1, <2>3, <2>4 DEF RecordOK, Numbered
  <2>6. OneDisplay(j)
    BY <2>1, <2>3, <2>4 DEF RecordOK, OneDisplay, Executes, AttemptsOn
  <2>7. Concluding(j)
    <3>1. \A l \in DOMAIN i.runs : i.runs[l].test = t => ~i.runs[l].open
      BY <1>2 DEF HasOpenRun
    <3>2. \A l, m \in DOMAIN j.runs :
            j.runs[l].open /\ j.runs[m].open /\ j.runs[l].test = j.runs[m].test => l = m
      BY <2>1, <2>3, <2>4, <3>1 DEF RecordOK, Concluding
    <3>3. ASSUME NEW l \in DOMAIN j.runs, ~j.runs[l].open
          PROVE  \E m \in Nat : Concludes(j, l, m)
      <4>1. l # k /\ j.runs[l] = i.runs[l] /\ l \in DOMAIN i.runs
        BY <2>3, <2>4, <3>3
      <4>2. PICK m \in Nat : Concludes(i, l, m)
        BY <3>3, <4>1 DEF RecordOK, Concluding
      <4>3. Concludes(j, l, m)
        BY <2>4, <4>1, <4>2 DEF Concludes
      <4>. QED
        BY <4>3
    <3>. QED
      BY <3>2, <3>3 DEF Concluding
  <2>8. AllSettled(i) => AllSettled(j)
    BY <2>1, <2>3, <2>4 DEF AllSettled, RunSettled
  <2>9. Executes(j, i.runs[k].id)
    BY <2>1, <2>3, <2>4 DEF Executes
  <2>10. i.runs[k].id \in 1 .. MaxRuns /\ i.runs[k].id <= lastRun
    BY <1>0, <2>1
  <2>. QED
    BY <2>2, <2>4, <2>5, <2>6, <2>7, <2>8, <2>9, <2>10 DEF RecordOK
<1>3. CASE ~HasOpenRun(i, t) /\ ~(again /\ RetryableRun(i, t) # 0)
  <2>. DEFINE r == [id |-> lastRun + 1, test |-> t, open |-> TRUE, resolution |-> "none",
                    reopened |-> t \in i.reopened, attempts |-> <<>>]
              rs == Append(i.runs, r)
              j == [i EXCEPT !.runs = rs]
  <2>1. Begun(i, t, again) = <<j, lastRun + 1>>
    BY <1>3 DEF Begun
  <2>2. lastRun + 1 \in 1 .. MaxRuns
    BY <1>0, <2>1
  <2>3. /\ r \in Runs /\ r.id = lastRun + 1 /\ r.test = t /\ r.open
        /\ DOMAIN r.attempts = {}
    <3>1. (t \in i.reopened) \in BOOLEAN /\ <<>> \in Seq(Attempts)
      OBVIOUS
    <3>2. "none" \in Resolutions
      BY DEF Resolutions
    <3>. QED
      BY <2>2, <3>1, <3>2 DEF Runs
  <2>. HIDE DEF r
  <2>4. /\ rs \in Seq(Runs) /\ DOMAIN rs = 1 .. Len(i.runs) + 1
        /\ DOMAIN i.runs = 1 .. Len(i.runs) /\ Len(i.runs) \in Nat
        /\ \A l \in DOMAIN i.runs : rs[l] = i.runs[l]
        /\ rs[Len(i.runs) + 1] = r
    BY <1>0, <2>3
  <2>. HIDE DEF rs
  <2>5. /\ j \in Investigations /\ j.runs = rs /\ j.completed = i.completed
        /\ j.binding = i.binding
    BY <1>0, <2>4 DEF Investigations
  <2>. HIDE DEF j
  <2>6. \A l \in DOMAIN rs : \/ l \in DOMAIN i.runs /\ rs[l] = i.runs[l]
                             \/ l = Len(i.runs) + 1 /\ rs[l] = r
    BY <2>4
  <2>7. Numbered(j, lastRun + 1)
    <3>1. lastRun \in Nat
      OBVIOUS
    <3>2. \A l \in DOMAIN j.runs : j.runs[l].id <= lastRun + 1
      BY <1>0, <2>3, <2>5, <2>6, <3>1
    <3>3. \A l \in DOMAIN j.completed : j.completed[l].run <= lastRun + 1
      <4>. SUFFICES ASSUME NEW l \in DOMAIN i.completed
                    PROVE  i.completed[l].run <= lastRun + 1
        BY <2>5
      <4>1. i.completed[l] \in CompletedTests
        BY <1>0, RecordFields
      <4>2. i.completed[l].run <= lastRun /\ i.completed[l].run \in Nat
        BY <1>0, <4>1 DEF RecordOK, Numbered, CompletedTests
      <4>. QED
        BY <3>1, <4>2
    <3>4. \A l, m \in DOMAIN j.runs : j.runs[l].id = j.runs[m].id => l = m
      BY <1>0, <2>3, <2>5, <2>6, <3>1 DEF RecordOK, Numbered
    <3>. QED
      BY <3>2, <3>3, <3>4 DEF Numbered
  <2>8. OneDisplay(j)
    <3>1. \A l \in DOMAIN j.runs : AttemptsOn(j.runs[l], j.binding)
      BY <2>3, <2>5, <2>6 DEF RecordOK, OneDisplay, AttemptsOn
    <3>2. ASSUME NEW l \in DOMAIN i.completed, Executes(j, i.completed[l].run)
          PROVE  Executes(i, i.completed[l].run)
      <4>1. i.completed[l] \in CompletedTests
        BY <1>0, RecordFields
      <4>2. i.completed[l].run <= lastRun /\ i.completed[l].run \in Nat
        BY <1>0, <4>1 DEF RecordOK, Numbered, CompletedTests
      <4>3. i.completed[l].run # lastRun + 1
        BY <4>2
      <4>. QED
        BY <2>3, <2>5, <2>6, <3>2, <4>3 DEF Executes
    <3>. QED
      BY <2>5, <3>1, <3>2 DEF OneDisplay, RecordOK
  <2>9. Concluding(j)
    <3>1. \A l \in DOMAIN i.runs : i.runs[l].test = t => ~i.runs[l].open
      BY <1>3 DEF HasOpenRun
    <3>2. \A l, m \in DOMAIN j.runs :
            j.runs[l].open /\ j.runs[m].open /\ j.runs[l].test = j.runs[m].test => l = m
      BY <2>3, <2>5, <2>6, <3>1 DEF RecordOK, Concluding
    <3>3. ASSUME NEW l \in DOMAIN j.runs, ~j.runs[l].open
          PROVE  \E m \in Nat : Concludes(j, l, m)
      <4>1. l \in DOMAIN i.runs /\ j.runs[l] = i.runs[l]
        BY <2>3, <2>5, <2>6, <3>3
      <4>2. PICK m \in Nat : Concludes(i, l, m)
        BY <3>3, <4>1 DEF RecordOK, Concluding
      <4>3. Concludes(j, l, m)
        BY <2>5, <4>1, <4>2 DEF Concludes
      <4>. QED
        BY <4>3
    <3>. QED
      BY <3>2, <3>3 DEF Concluding
  <2>10. AllSettled(i) => AllSettled(j)
    BY <2>3, <2>5, <2>6 DEF AllSettled, RunSettled
  <2>11. Executes(j, lastRun + 1)
    BY <2>3, <2>4, <2>5 DEF Executes
  <2>. QED
    BY <1>0, <2>1, <2>2, <2>5, <2>7, <2>8, <2>9, <2>10, <2>11 DEF RecordOK
<1>. QED
  BY <1>1, <1>2, <1>3

------------------------------------------------------------------------------
(* Steps of the session while no measurement is open.                      *)

Calm ==
  /\ SessionOK /\ Bound
  /\ Kept(detached, lastRun) /\ Kept(stored, lastRun) /\ Kept(investigation, lastRun)

\* What stop, save, demote and resume do to a record that is kept.
LEMMA KeptFacts ==
  ASSUME NEW i, NEW n, Kept(i, n), i # NoInvestigation
  PROVE  /\ i \in Investigations
         /\ Kept(Stopped(Demoted(i)), n) /\ Kept(Stopped(i), n) /\ Kept(PanelUnknown(i), n)
         /\ Kept(Saved(i), n) /\ Kept(Resumed(i), n)
         /\ PanelUnknown(i) # NoInvestigation /\ Stopped(i) # NoInvestigation
         /\ Resumed(i) # NoInvestigation
         /\ PanelUnknown(i).binding = i.binding /\ Stopped(i).binding = i.binding
         /\ Resumed(i).binding = i.binding
<1>1. RecordOK(i, n) /\ AllSettled(i) /\ i \in Investigations
  BY DEF Kept, RecordOK
<1>2. RecordOK(Demoted(i), n) /\ AllSettled(Demoted(i)) /\ Demoted(i) \in Investigations
  BY <1>1, DemotedOK DEF RecordOK
<1>3. Kept(Stopped(Demoted(i)), n)
  BY <1>2, FlagFacts, AlikeFacts DEF Kept
<1>4. Kept(Stopped(i), n) /\ Kept(Resumed(i), n) /\ Kept(PanelUnknown(i), n)
  BY <1>1, FlagFacts, PanelUnknownFacts, AlikeFacts DEF Kept
<1>5. /\ Stopped(i).binding = i.binding /\ Resumed(i).binding = i.binding
      /\ PanelUnknown(i).binding = i.binding
      /\ PanelUnknown(i) # NoInvestigation /\ Stopped(i) # NoInvestigation
      /\ Resumed(i) # NoInvestigation
  BY <1>1, FlagFacts, PanelUnknownFacts, NoInvestigationAssumption DEF Alike
<1>. QED
  BY <1>1, <1>3, <1>4, <1>5 DEF Saved

\* A new investigation may be kept.
LEMMA KeptNew ==
  ASSUME NEW d \in Displays \cup {NoDisplay}, NEW n
  PROVE  /\ Kept(NewInvestigation(d), n) /\ NewInvestigation(d).binding = d
         /\ NewInvestigation(d) # NoInvestigation
BY NewFacts, NoInvestigationAssumption DEF Kept, RecordOK

\* What ensureInvestigation and startInvestigation leave as current and detached.
LEMMA EnsuredFacts ==
  ASSUME Calm
  PROVE  /\ Kept(Ensured, lastRun) /\ Ensured # NoInvestigation
         /\ Kept(Started, lastRun) /\ Started # NoInvestigation
         /\ Kept(Displaced, lastRun)
         /\ link # NoDisplay => Ensured.binding = link /\ Started.binding = link
<1>1. link \in Displays \cup {NoDisplay}
  BY DEF Calm, SessionOK
<1>2. /\ Kept(NewInvestigation(link), lastRun) /\ NewInvestigation(link).binding = link
      /\ NewInvestigation(link) # NoInvestigation
  BY <1>1, KeptNew
<1>3. Kept(investigation, lastRun) /\ Kept(detached, lastRun) /\ Bound
  BY DEF Calm
<1>4. /\ Kept(Started, lastRun) /\ Started # NoInvestigation
      /\ link # NoDisplay => Started.binding = link
  BY <1>2, <1>3 DEF Started, OfThisSession, Bound
<1>5. Kept(Displaced, lastRun)
  BY <1>3, KeptFacts DEF Displaced
<1>6. /\ Kept(Ensured, lastRun) /\ Ensured # NoInvestigation
      /\ link # NoDisplay => Ensured.binding = link
  BY <1>3, <1>4, KeptFacts DEF Ensured, IsActive, OfThisSession, Bound
<1>. QED
  BY <1>4, <1>5, <1>6

\* ensureInvestigation detaches a sound record and takes the epoch of the session.
LEMMA EnsureKeeps ==
  ASSUME Calm, EnsureEffects
  PROVE  /\ Kept(detached', lastRun) /\ investigationEpoch' \in 0 .. MaxEpoch
         /\ link # NoDisplay => investigationEpoch' = epoch
<1>1. Kept(Displaced, lastRun)
  BY EnsuredFacts
<1>. QED
  BY <1>1 DEF EnsureEffects, Calm, SessionOK, Bound, IsActive, OfThisSession

\* Saving a settled investigation stores a sound record.
LEMMA PersistKeeps ==
  ASSUME Kept(stored, lastRun), Persist, Kept(investigation', lastRun)
  PROVE  Kept(stored', lastRun)
BY KeptFacts DEF Persist

\* connect() with its reconciliation of the device boundary.
LEMMA ConnectKeeps ==
  ASSUME Calm, NEW d \in Displays, Connect(d)
  PROVE  Calm'
<1>1. /\ Kept(investigation, lastRun) /\ Kept(detached, lastRun) /\ Kept(stored, lastRun)
      /\ SessionOK
  BY DEF Calm
<1>2. /\ link' = d /\ epoch' = epoch + 1 /\ epoch < MaxEpoch
      /\ quarantined' = quarantined /\ lastRun' = lastRun
  BY DEF Connect
<1>3. epoch' \in 0 .. MaxEpoch
  BY <1>1, <1>2, InvestigationAssumption DEF SessionOK
<1>4. CASE investigation # NoInvestigation /\ SameDevice(investigation.binding, d)
  <2>1. /\ investigation' = PanelUnknown(investigation) /\ investigationEpoch' = epoch + 1
        /\ detached' = NoInvestigation
        /\ stored' = IF detached = NoInvestigation THEN Saved(investigation)
                     ELSE Saved(detached)
    BY <1>4 DEF Connect
  <2>2. Kept(investigation', lastRun) /\ investigation'.binding = d
    BY <1>1, <1>4, <2>1, KeptFacts DEF SameDevice
  <2>3. Kept(stored', lastRun)
    BY <1>1, <1>4, <2>1, KeptFacts
  <2>4. Kept(detached', lastRun)
    BY <2>1 DEF Kept
  <2>5. Bound'
    BY <1>2, <2>1, <2>2 DEF Bound
  <2>6. SessionOK'
    BY <1>1, <1>2, <1>3, <2>1 DEF SessionOK
  <2>. QED
    BY <1>2, <2>2, <2>3, <2>4, <2>5, <2>6 DEF Calm
<1>5. CASE ~(investigation # NoInvestigation /\ SameDevice(investigation.binding, d))
  <2>. DEFINE left == IF investigation = NoInvestigation THEN detached
                      ELSE Stopped(Demoted(investigation))
  <2>1. /\ investigation' = NoInvestigation /\ detached' = NoInvestigation
        /\ stored' = IF left = NoInvestigation THEN stored ELSE Saved(left)
        /\ investigationEpoch' = investigationEpoch
    BY <1>5 DEF Connect
  <2>2. Kept(left, lastRun)
    BY <1>1, KeptFacts
  <2>. HIDE DEF left
  <2>3. Kept(stored', lastRun)
    BY <1>1, <2>1, <2>2, KeptFacts
  <2>4. Kept(detached', lastRun) /\ Kept(investigation', lastRun) /\ Bound'
    BY <2>1 DEF Kept, Bound
  <2>5. SessionOK'
    BY <1>1, <1>2, <1>3, <2>1 DEF SessionOK
  <2>. QED
    BY <1>2, <2>3, <2>4, <2>5 DEF Calm
<1>. QED
  BY <1>4, <1>5

\* Whatever happens without a dialog.
LEMMA ElsewhereKeeps ==
  ASSUME Calm, Elsewhere \/ OtherTransactions
  PROVE  Calm' /\ flow' = NoFlow
<1>0. /\ Kept(investigation, lastRun) /\ Kept(detached, lastRun) /\ Kept(stored, lastRun)
      /\ SessionOK /\ Bound /\ flow' = NoFlow
  BY DEF Calm, Elsewhere, OtherTransactions
<1>1. CASE \E d \in Displays : Connect(d)
  BY <1>0, <1>1, ConnectKeeps
<1>2. CASE ConnectFails
  <2>1. /\ UNCHANGED <<link, quarantined, epoch, investigation, investigationEpoch, detached,
                       lastRun>>
        /\ Persist
    BY <1>2 DEF ConnectFails
  <2>2. Kept(stored', lastRun)
    BY <1>0, <2>1, PersistKeeps
  <2>. QED
    BY <1>0, <2>1, <2>2 DEF Calm, SessionOK, Bound
<1>3. CASE Disconnect \/ OtherContent
  <2>1. /\ link' \in Displays \cup {NoDisplay} /\ quarantined' \in BOOLEAN
        /\ investigation' = PanelUnknown(investigation)
        /\ UNCHANGED <<epoch, investigationEpoch, detached, stored, lastRun>>
        /\ link' = NoDisplay \/ link' = link
    BY <1>0, <1>3 DEF Disconnect, OtherContent, SessionOK
  <2>2. /\ Kept(investigation', lastRun)
        /\ investigation # NoInvestigation =>
             investigation' # NoInvestigation /\ investigation'.binding = investigation.binding
        /\ investigation = NoInvestigation => investigation' = NoInvestigation
    BY <1>0, <2>1, KeptFacts DEF PanelUnknown
  <2>3. SessionOK'
    BY <1>0, <2>1 DEF SessionOK
  <2>4. Bound'
    BY <1>0, <2>1, <2>2 DEF Bound
  <2>. QED
    BY <1>0, <2>1, <2>2, <2>3, <2>4 DEF Calm
<1>4. CASE StartInvestigation
  <2>1. /\ investigation' = Started /\ investigationEpoch' = epoch
        /\ detached' = detached \/ detached' = Displaced
        /\ Persist /\ UNCHANGED <<link, quarantined, epoch, lastRun>>
    BY <1>4 DEF StartInvestigation
  <2>2. /\ Kept(investigation', lastRun) /\ Kept(detached', lastRun)
        /\ link # NoDisplay => investigation'.binding = link
    BY <1>0, <2>1, EnsuredFacts
  <2>3. Kept(stored', lastRun)
    BY <1>0, <2>1, <2>2, PersistKeeps
  <2>4. SessionOK' /\ Bound'
    BY <1>0, <2>1, <2>2 DEF SessionOK, Bound
  <2>. QED
    BY <1>0, <2>1, <2>2, <2>3, <2>4 DEF Calm
<1>5. CASE Ensure \/ \E t \in Tests : ReopenStops(t)
  <2>1. /\ EnsureEffects /\ UNCHANGED <<link, quarantined, epoch, stored, lastRun>>
        /\ \/ investigation' = Ensured
           \/ \E t \in Tests : investigation' = [Ensured EXCEPT !.reopened = @ \cup {t}]
    BY <1>5 DEF Ensure, ReopenStops, Reopen
  <2>2. /\ Kept(Ensured, lastRun) /\ Ensured # NoInvestigation /\ Ensured \in Investigations
        /\ link # NoDisplay => Ensured.binding = link
    BY EnsuredFacts DEF Kept, RecordOK
  <2>3. Kept(investigation', lastRun) /\ (link # NoDisplay => investigation'.binding = link)
    BY <2>1, <2>2, ReopenedFacts, AlikeFacts DEF Kept, Alike
  <2>4. /\ Kept(detached', lastRun) /\ investigationEpoch' \in 0 .. MaxEpoch
        /\ link # NoDisplay => investigationEpoch' = epoch
    BY <2>1, EnsureKeeps
  <2>5. SessionOK' /\ Bound'
    BY <1>0, <2>1, <2>3, <2>4 DEF SessionOK, Bound
  <2>. QED
    BY <1>0, <2>1, <2>3, <2>4, <2>5 DEF Calm
<1>6. CASE StopInvestigation
  <2>1. /\ investigation # NoInvestigation /\ investigation' = Stopped(investigation)
        /\ Persist
        /\ UNCHANGED <<link, quarantined, epoch, investigationEpoch, detached, lastRun>>
    BY <1>6 DEF StopInvestigation, IsActive
  <2>2. Kept(investigation', lastRun) /\ investigation'.binding = investigation.binding
    BY <1>0, <2>1, KeptFacts
  <2>3. Kept(stored', lastRun)
    BY <1>0, <2>1, <2>2, PersistKeeps
  <2>4. SessionOK' /\ Bound'
    BY <1>0, <2>1, <2>2 DEF SessionOK, Bound
  <2>. QED
    BY <1>0, <2>1, <2>2, <2>3, <2>4 DEF Calm
<1>7. CASE ResumeStored
  <2>1. /\ stored # NoInvestigation /\ investigation' = Adopted(stored)
        /\ investigationEpoch' = epoch
        /\ UNCHANGED <<link, quarantined, epoch, detached, stored, lastRun>>
    BY <1>7 DEF ResumeStored
  <2>2. Kept(investigation', lastRun) /\ (link # NoDisplay => investigation'.binding = link)
    BY <1>0, <2>1, AdoptedOK DEF Kept, SessionOK
  <2>3. SessionOK' /\ Bound'
    BY <1>0, <2>1, <2>2 DEF SessionOK, Bound
  <2>. QED
    BY <1>0, <2>1, <2>2, <2>3 DEF Calm
<1>8. CASE UNCHANGED investigationVars
  BY <1>0, <1>8 DEF investigationVars, Calm, SessionOK, Bound
<1>. QED
  BY <1>0, <1>1, <1>2, <1>3, <1>4, <1>5, <1>6, <1>7, <1>8 DEF Elsewhere, OtherTransactions

------------------------------------------------------------------------------
(* Opening a flow, and the link that drops beneath one.                    *)

\* Without an observed attempt, every record is settled.
LEMMA CalmUnlessWatched ==
  ASSUME Inv, flow # NoFlow => ~Watches(flow)
  PROVE  Calm
<1>1. Kept(investigation, lastRun)
  BY DEF Inv, Current, Kept, Observed, AllSettled, RunSettled
<1>. QED
  BY <1>1 DEF Inv, Calm

\* Run numbers handed out later leave a kept record sound.
LEMMA KeptLonger ==
  ASSUME NEW i, NEW n \in Nat, NEW m \in Nat, n <= m, Kept(i, n)
  PROVE  Kept(i, m)
<1>. SUFFICES ASSUME i # NoInvestigation
              PROVE  RecordOK(i, m) /\ AllSettled(i)
  BY DEF Kept
<1>1. RecordOK(i, n) /\ AllSettled(i) /\ i \in Investigations
  BY DEF Kept, RecordOK
<1>2. \A k \in DOMAIN i.runs : i.runs[k].id \in Nat
  BY <1>1, RecordFields, InvestigationAssumption
<1>3. \A k \in DOMAIN i.completed : i.completed[k].run \in Nat
  <2>1. \A k \in DOMAIN i.completed : i.completed[k] \in CompletedTests
    BY <1>1, RecordFields
  <2>. QED
    BY <2>1, InvestigationAssumption DEF CompletedTests
<1>4. Numbered(i, m)
  BY <1>1, <1>2, <1>3 DEF RecordOK, Numbered
<1>. QED
  BY <1>1, <1>4 DEF RecordOK

\* The tail of startGuidedTest begins or continues a run and opens the dialog.
LEMMA OpenFlowKeeps ==
  ASSUME Calm, link # NoDisplay, NEW i, Kept(i, lastRun), i # NoInvestigation, i.binding = link,
         NEW t \in Tests, NEW same \in BOOLEAN,
         NEW opened \in {"initial-experiment", "explicit-measure-again"},
         OpenFlow(i, t, same, opened), EnsureEffects,
         UNCHANGED <<link, quarantined, epoch, stored>>
  PROVE  Inv'
<1>. DEFINE j == Begun(i, t, same)[1]
            run == Begun(i, t, same)[2]
            k == RunIndex(j, run)
            n == IF run > lastRun THEN run ELSE lastRun
            why == IF opened # "initial-experiment" THEN opened
                   ELSE IF j.runs[k].reopened THEN "explicit-reopen"
                   ELSE "initial-experiment"
            new == [test |-> t, run |-> run, machine |-> "about", back |-> "questions",
                    retryable |-> FALSE, pc |-> "none", again |-> FALSE, tails |-> 0,
                    phase |-> 0, values |-> NoValues, tries |-> <<>>, named |-> FALSE,
                    reason |-> why]
<1>1. /\ run <= MaxRuns /\ investigation' = j /\ lastRun' = n
      /\ flow' = IF quarantined THEN NoFlow ELSE new
  BY DEF OpenFlow
<1>2. why \in Reasons
  BY DEF Reasons
<1>3. /\ Kept(detached', lastRun) /\ investigationEpoch' \in 0 .. MaxEpoch
      /\ investigationEpoch' = epoch
  BY EnsureKeeps
<1>4. /\ SessionOK /\ Kept(stored, lastRun) /\ lastRun \in 0 .. MaxRuns
      /\ RecordOK(i, lastRun) /\ AllSettled(i)
  BY DEF Calm, SessionOK, Kept
<1>5. /\ n \in 0 .. MaxRuns /\ run \in 1 .. MaxRuns
      /\ RecordOK(j, n) /\ AllSettled(j) /\ j.binding = i.binding /\ Executes(j, run)
  BY <1>1, <1>4, BegunFacts
<1>. HIDE DEF j, run, why
<1>6. /\ new \in Flows /\ new.tries = <<>> /\ new.machine = "about" /\ new.pc = "none"
      /\ new.run = run /\ new.values = NoValues
  <2>1. NoValues \in [Fields -> Nat] /\ 0 \in 0 .. 2 /\ 0 \in Nat
    BY DEF NoValues
  <2>2. <<>> \in Seq([number : Nat \ {0}, validity : Validities])
    OBVIOUS
  <2>. QED
    BY <1>2, <1>5, <2>1, <2>2 DEF Flows, Machines
<1>. HIDE DEF new, n
<1>7. lastRun \in Nat /\ n \in Nat /\ lastRun <= n
  BY <1>4, <1>5, InvestigationAssumption DEF n
<1>8. Kept(detached', lastRun') /\ Kept(stored', lastRun')
  BY <1>1, <1>3, <1>4, <1>7, KeptLonger
<1>9. Kept(investigation', lastRun')
  BY <1>1, <1>5 DEF Kept
<1>10. SessionOK' /\ Bound'
  BY <1>1, <1>3, <1>4, <1>5 DEF SessionOK, Bound
<1>11. Calm'
  BY <1>8, <1>9, <1>10 DEF Calm
<1>12. FlowOK(flow', investigation')
  <2>1. CASE quarantined
    BY <1>1, <2>1 DEF FlowOK
  <2>2. CASE ~quarantined
    <3>1. flow' = new /\ investigation' = j /\ j # NoInvestigation
      BY <1>1, <1>5, <2>2, NoInvestigationAssumption DEF RecordOK
    <3>2. Len(new.tries) = 0
      BY <1>6
    <3>3. Shape(new, RunAttempts(j, run))
      BY <1>6 DEF Shape, Watches
    <3>4. Agree(new, RunAttempts(j, run))
      BY <3>2 DEF Agree
    <3>5. Clean(new)
      BY <1>6 DEF Clean, NoValues
    <3>. QED
      BY <1>5, <1>6, <3>1, <3>3, <3>4, <3>5 DEF FlowOK
  <2>. QED
    BY <2>1, <2>2
<1>13. Current(investigation', lastRun') /\ Observed(flow', investigation')
  BY <1>11 DEF Calm, Kept, Current, Observed, AllSettled, RunSettled
<1>. QED
  BY <1>11, <1>12, <1>13 DEF Inv, Calm

\* Every way to open a dialog keeps the invariant.
LEMMA OpeningKeeps ==
  ASSUME Inv, Opening
  PROVE  Inv'
<1>1. PICK t \in Tests, same \in BOOLEAN :
        StartTest(t, same) \/ Continue(t, same) \/ MeasureAgain(t, same) \/ ReopenTest(t, same)
  BY DEF Opening
<1>2. Calm
  <2>1. flow # NoFlow => flow.machine = "result"
    BY <1>1 DEF StartTest, Continue, MeasureAgain, MayStart, ReopenTest, IsOpen
  <2>. QED
    BY <2>1, CalmUnlessWatched DEF Watches
<1>3. /\ Kept(Ensured, lastRun) /\ Ensured # NoInvestigation /\ Ensured \in Investigations
      /\ link # NoDisplay => Ensured.binding = link
  BY <1>2, EnsuredFacts DEF Kept, RecordOK
<1>4. CASE ReopenTest(t, same)
  <2>. DEFINE i == [Ensured EXCEPT !.reopened = @ \cup {t}]
  <2>1. /\ link # NoDisplay /\ OpenFlow(i, t, same, "initial-experiment") /\ EnsureEffects
        /\ UNCHANGED <<link, quarantined, epoch, stored>>
    BY <1>4 DEF ReopenTest
  <2>2. i \in Investigations /\ Alike(Ensured, i)
    BY <1>3, ReopenedFacts
  <2>. HIDE DEF i
  <2>3. Kept(i, lastRun) /\ i # NoInvestigation /\ i.binding = link
    BY <1>3, <2>1, <2>2, AlikeFacts, NoInvestigationAssumption DEF Kept, Alike
  <2>. QED
    BY <1>2, <2>1, <2>3, OpenFlowKeeps
<1>5. CASE StartTest(t, same) \/ Continue(t, same) \/ MeasureAgain(t, same)
  <2>1. PICK opened \in {"initial-experiment", "explicit-measure-again"} :
          StartFlow(t, same, opened)
    BY <1>5 DEF StartTest, Continue, MeasureAgain
  <2>2. /\ link # NoDisplay /\ OpenFlow(Ensured, t, same, opened) /\ EnsureEffects
        /\ UNCHANGED <<link, quarantined, epoch, stored>>
    BY <2>1 DEF StartFlow
  <2>. QED
    BY <1>2, <1>3, <2>2, OpenFlowKeeps
<1>. QED
  BY <1>1, <1>4, <1>5

\* A start that stops after ensureInvestigation keeps the invariant.
LEMMA StoppedStartKeeps ==
  ASSUME Inv, StartStops
  PROVE  Inv'
<1>1. Calm
  <2>1. flow # NoFlow => flow.machine = "result"
    BY DEF StartStops, MayStart
  <2>. QED
    BY <2>1, CalmUnlessWatched DEF Watches
<1>2. /\ investigation' = Ensured /\ EnsureEffects /\ flow' = NoFlow
      /\ UNCHANGED <<link, quarantined, epoch, stored, lastRun>>
  BY DEF StartStops, Ensure
<1>3. /\ Kept(Ensured, lastRun) /\ (link # NoDisplay => Ensured.binding = link)
  BY <1>1, EnsuredFacts
<1>4. /\ Kept(detached', lastRun) /\ investigationEpoch' \in 0 .. MaxEpoch
      /\ link # NoDisplay => investigationEpoch' = epoch
  BY <1>1, <1>2, EnsureKeeps
<1>5. Calm'
  BY <1>1, <1>2, <1>3, <1>4 DEF Calm, SessionOK, Bound
<1>6. FlowOK(flow', investigation')
  BY <1>2 DEF FlowOK
<1>7. Current(investigation', lastRun') /\ Observed(flow', investigation')
  BY <1>5 DEF Calm, Kept, Current, Observed, AllSettled, RunSettled
<1>. QED
  BY <1>5, <1>6, <1>7 DEF Inv, Calm

\* A step without a dialog keeps the invariant.
LEMMA ElsewhereStep ==
  ASSUME Inv, Elsewhere \/ OtherTransactions
  PROVE  Inv'
<1>1. Calm
  BY CalmUnlessWatched DEF Elsewhere, OtherTransactions
<1>2. Calm' /\ flow' = NoFlow
  BY <1>1, ElsewhereKeeps
<1>3. FlowOK(flow', investigation')
  BY <1>2 DEF FlowOK
<1>4. Current(investigation', lastRun') /\ Observed(flow', investigation')
  BY <1>2 DEF Calm, Kept, Current, Observed, AllSettled, RunSettled
<1>. QED
  BY <1>2, <1>3, <1>4 DEF Inv, Calm

\* An unexpected disconnect keeps the invariant, the dialog open or not.
LEMMA LinkDropsKeeps ==
  ASSUME Inv, LinkDrops
  PROVE  Inv'
<1>1. /\ link' = NoDisplay /\ quarantined' = FALSE /\ epoch < MaxEpoch /\ epoch' = epoch + 1
      /\ investigation' = PanelUnknown(investigation) /\ flow' = flow
      /\ UNCHANGED <<investigationEpoch, detached, stored, lastRun>>
  BY DEF LinkDrops, Drop
<1>2. SessionOK' /\ Bound' /\ Kept(detached', lastRun') /\ Kept(stored', lastRun')
  <2>1. SessionOK /\ Kept(detached, lastRun) /\ Kept(stored, lastRun)
    BY DEF Inv
  <2>2. epoch' \in 0 .. MaxEpoch
    BY <1>1, <2>1, InvestigationAssumption DEF SessionOK
  <2>. QED
    BY <1>1, <2>1, <2>2 DEF SessionOK, Bound
<1>3. CASE investigation = NoInvestigation
  <2>1. investigation' = investigation
    BY <1>1, <1>3 DEF PanelUnknown
  <2>. QED
    BY <1>1, <1>2, <2>1 DEF Inv
<1>4. CASE investigation # NoInvestigation
  <2>1. /\ RecordOK(investigation, lastRun) /\ investigation \in Investigations
    BY <1>4 DEF Inv, Current, RecordOK
  <2>2. /\ investigation' \in Investigations /\ Alike(investigation, investigation')
        /\ investigation' # NoInvestigation
    BY <1>1, <2>1, PanelUnknownFacts
  <2>3. Current(investigation', lastRun')
    BY <1>1, <2>1, <2>2, AlikeFacts DEF Current
  <2>4. FlowOK(flow', investigation') /\ Observed(flow', investigation')
    BY <1>1, <1>4, <2>2
    DEF Inv, FlowOK, Observed, Alike, Executes, RunAttempts, RunIndex
  <2>. QED
    BY <1>2, <2>3, <2>4 DEF Inv
<1>. QED
  BY <1>3, <1>4

------------------------------------------------------------------------------
(* Steps of an open flow.                                                  *)

\* The parts of the invariant about an open dialog.
LEMMA FlowFacts ==
  ASSUME Inv, flow # NoFlow
  PROVE  /\ flow \in Flows /\ flow.tries \in Seq([number : Nat \ {0}, validity : Validities])
         /\ investigation # NoInvestigation /\ investigation \in Investigations
         /\ RecordOK(investigation, lastRun) /\ Executes(investigation, flow.run)
         /\ RunIndex(investigation, flow.run) \in DOMAIN investigation.runs
         /\ investigation.runs[RunIndex(investigation, flow.run)].id = flow.run
         /\ RunAttempts(investigation, flow.run) \in Seq(Attempts)
         /\ Shape(flow, RunAttempts(investigation, flow.run))
         /\ Agree(flow, RunAttempts(investigation, flow.run))
         /\ Clean(flow)
<1>1. /\ flow \in Flows /\ investigation # NoInvestigation
      /\ Executes(investigation, flow.run)
      /\ Shape(flow, RunAttempts(investigation, flow.run))
      /\ Agree(flow, RunAttempts(investigation, flow.run)) /\ Clean(flow)
  BY DEF Inv, FlowOK
<1>2. RecordOK(investigation, lastRun) /\ investigation \in Investigations
  BY <1>1 DEF Inv, Current, RecordOK
<1>3. /\ RunIndex(investigation, flow.run) \in DOMAIN investigation.runs
      /\ investigation.runs[RunIndex(investigation, flow.run)].id = flow.run
  BY <1>1, <1>2, RunOf DEF RecordOK
<1>4. RunAttempts(investigation, flow.run) \in Seq(Attempts)
  BY <1>2, <1>3, RecordFields DEF RunAttempts
<1>. QED
  BY <1>1, <1>2, <1>3, <1>4 DEF Flows

\* The last attempt of the dialog is the last one of the run, but for one being sent.
LEMMA LastNumberFacts ==
  ASSUME NEW fl \in Flows, NEW atts \in Seq(Attempts), Agree(fl, atts), Len(fl.tries) > 0
  PROVE  /\ LastTry(fl) \in [number : Nat \ {0}, validity : Validities]
         /\ LastTry(fl) = fl.tries[Len(fl.tries)] /\ Len(fl.tries) \in 1 .. Len(fl.tries)
         /\ LastTry(fl).number + Ahead(fl) = Len(atts)
         /\ LastTry(fl).number \in DOMAIN atts
         /\ LastTry(fl).validity = "valid" => atts[LastTry(fl).number].validity = "valid"
         /\ LastTry(fl).validity \in {"missed", "user-restarted"} =>
              atts[LastTry(fl).number].validity = "invalid"
<1>1. fl.tries \in Seq([number : Nat \ {0}, validity : Validities])
  BY DEF Flows
<1>2. Len(fl.tries) \in 1 .. Len(fl.tries) /\ Len(fl.tries) \in Nat /\ Len(atts) \in Nat
  BY <1>1
<1>3. LastTry(fl) \in [number : Nat \ {0}, validity : Validities]
  BY <1>1, <1>2, ElementOfSeq DEF LastTry
<1>4. LastTry(fl).number + Ahead(fl) = Len(atts) - Len(fl.tries) + Len(fl.tries)
  BY <1>2 DEF Agree, LastTry
<1>5. LastTry(fl).number + Ahead(fl) = Len(atts)
  BY <1>2, <1>4
<1>6. LastTry(fl).number \in 1 .. Len(atts)
  BY <1>2, <1>3, <1>5 DEF Ahead
<1>7. DOMAIN atts = 1 .. Len(atts)
  OBVIOUS
<1>. QED
  BY <1>2, <1>3, <1>5, <1>6, <1>7 DEF Agree, LastTry

\* A step of the dialog that leaves the attempts alone.
LEMMA DialogKeeps ==
  ASSUME Inv, flow # NoFlow, KeepInvestigation, flow' # NoFlow, flow' \in Flows,
         flow'.run = flow.run, flow'.tries = flow.tries, Ahead(flow') = Ahead(flow),
         Shape(flow', RunAttempts(investigation, flow.run)), Clean(flow'),
         Watches(flow) => Watches(flow'), flow'.named = flow.named
  PROVE  Inv'
<1>1. /\ UNCHANGED <<link, quarantined, epoch, investigation, investigationEpoch, detached,
                     stored, lastRun>>
  BY DEF KeepInvestigation, investigationVars
<1>2. /\ investigation # NoInvestigation /\ Executes(investigation, flow.run)
      /\ Agree(flow, RunAttempts(investigation, flow.run))
  BY FlowFacts
<1>3. Agree(flow', RunAttempts(investigation, flow.run))
  BY <1>2 DEF Agree
<1>4. FlowOK(flow', investigation')
  BY <1>1, <1>2, <1>3 DEF FlowOK
<1>5. Observed(flow', investigation')
  BY <1>1 DEF Inv, Observed, LastTry
<1>. QED
  BY <1>1, <1>4, <1>5 DEF Inv, SessionOK, Bound

\* closeGuidedTest keeps the invariant: an attempt that is observed when it settles nothing
\* names no transaction.
LEMMA CloseKeeps ==
  ASSUME Inv, Close
  PROVE  Inv'
<1>1. /\ flow # NoFlow /\ flow' = NoFlow /\ (Watches(flow) => ~flow.named)
      /\ UNCHANGED <<link, quarantined, epoch, investigation, investigationEpoch, detached,
                     stored, lastRun>>
  BY DEF Close, Watching, IsOpen, KeepInvestigation, investigationVars, Watches
<1>2. Observed(flow', investigation')
  BY <1>1 DEF Inv, Observed
<1>. QED
  BY <1>1, <1>2 DEF Inv, SessionOK, Bound, FlowOK

\* Marking the image visible and undoing it keep the invariant.
LEMMA MarkingKeeps ==
  ASSUME Inv, MarkVisible \/ UndoMark
  PROVE  Inv'
<1>. DEFINE atts == RunAttempts(investigation, flow.run)
<1>1. flow # NoFlow /\ flow.machine = "timed" /\ KeepInvestigation
  BY DEF MarkVisible, UndoMark, IsOpen
<1>2. /\ flow \in Flows /\ atts \in Seq(Attempts) /\ Shape(flow, atts) /\ Agree(flow, atts)
      /\ Clean(flow)
  BY <1>1, FlowFacts
<1>. HIDE DEF atts
<1>3. Len(flow.tries) > 0 /\ LastTry(flow).validity = "open"
  BY <1>1, <1>2 DEF Shape, Watches, Observing
<1>4. /\ LastTry(flow) = flow.tries[Len(flow.tries)] /\ Len(flow.tries) \in 1 .. Len(flow.tries)
      /\ LastTry(flow).number \in Nat \ {0} /\ Number = LastTry(flow).number
  BY <1>2, <1>3, LastNumberFacts DEF Number, LastTry
<1>5. CASE MarkVisible
  <2>. DEFINE vs == [[flow.values EXCEPT !["image-visible"] = Number]
                        EXCEPT !["initial-correct"] = Number]
  <2>1. flow' = [[flow EXCEPT !.phase = 1] EXCEPT !.values = vs]
    BY <1>2, <1>5 DEF MarkVisible, Flows
  <2>2. /\ vs \in [Fields -> Nat]
        /\ \A f \in Fields : vs[f] = Number \/ vs[f] = flow.values[f]
    BY <1>2, <1>4 DEF Flows
  <2>. HIDE DEF vs
  <2>3. /\ flow' \in Flows /\ flow'.values = vs /\ flow'.tries = flow.tries
        /\ flow'.machine = flow.machine /\ flow'.pc = flow.pc /\ flow'.back = flow.back
        /\ flow'.test = flow.test /\ flow'.run = flow.run /\ flow'.named = flow.named
    <3>1. 0 \in 0 .. 2 /\ 1 \in 0 .. 2
      OBVIOUS
    <3>. QED
      BY <1>2, <2>1, <2>2, <3>1 DEF Flows
  <2>4. Clean(flow')
    BY <1>2, <1>3, <1>4, <2>2, <2>3 DEF Clean
  <2>5. Shape(flow', atts)
    BY <1>2, <2>3 DEF Shape, Watches, Observing, LastTry, TestTimed
  <2>. QED
    BY <1>1, <2>3, <2>4, <2>5, DialogKeeps, NoFlowAssumption DEF Watches, Ahead, atts
<1>6. CASE UndoMark
  <2>. DEFINE vs == [[flow.values EXCEPT !["image-visible"] = 0]
                        EXCEPT !["initial-correct"] = 0]
  <2>1. flow' = [[flow EXCEPT !.phase = 0] EXCEPT !.values = vs]
    BY <1>2, <1>6 DEF UndoMark, Flows
  <2>2. /\ vs \in [Fields -> Nat]
        /\ \A f \in Fields : vs[f] = 0 \/ vs[f] = flow.values[f]
    BY <1>2 DEF Flows
  <2>. HIDE DEF vs
  <2>3. /\ flow' \in Flows /\ flow'.values = vs /\ flow'.tries = flow.tries
        /\ flow'.machine = flow.machine /\ flow'.pc = flow.pc /\ flow'.back = flow.back
        /\ flow'.test = flow.test /\ flow'.run = flow.run /\ flow'.named = flow.named
    <3>1. 0 \in 0 .. 2 /\ 1 \in 0 .. 2
      OBVIOUS
    <3>. QED
      BY <1>2, <2>1, <2>2, <3>1 DEF Flows
  <2>4. Clean(flow')
    BY <1>2, <2>2, <2>3 DEF Clean
  <2>5. Shape(flow', atts)
    BY <1>2, <2>3 DEF Shape, Watches, Observing, LastTry, TestTimed
  <2>. QED
    BY <1>1, <2>3, <2>4, <2>5, DialogKeeps, NoFlowAssumption DEF Watches, Ahead, atts
<1>. QED
  BY <1>5, <1>6

\* The steps of the dialog that touch no attempt keep the invariant.
LEMMA DialogStepsKeep ==
  ASSUME Inv, RequestRetry \/ CancelRetry \/ Confirm \/ RetryFailed \/ ReasonChanges
  PROVE  Inv'
<1>. DEFINE atts == RunAttempts(investigation, flow.run)
<1>1. flow # NoFlow /\ KeepInvestigation
  BY DEF RequestRetry, CancelRetry, Confirm, RetryFailed, ReasonChanges, IsOpen
<1>2. flow \in Flows /\ Shape(flow, atts) /\ Clean(flow)
  BY <1>1, FlowFacts
<1>. HIDE DEF atts
<1>3. /\ flow' \in Flows /\ flow'.values = flow.values /\ flow'.tries = flow.tries
      /\ flow'.test = flow.test /\ flow'.run = flow.run /\ flow'.named = flow.named
      /\ \/ /\ flow.machine \in {"timed", "questions"} /\ TestTimed(flow)
            /\ flow'.machine = "retry" /\ flow'.back = flow.machine /\ flow'.pc = flow.pc
         \/ /\ flow.machine = "retry" /\ flow'.machine = flow.back /\ flow'.pc = flow.pc
         \/ /\ flow.machine \in {"about", "failed"} /\ flow'.machine = "transferring"
            /\ flow'.pc = "acquire"
         \/ /\ flow'.machine = flow.machine /\ flow'.back = flow.back /\ flow'.pc = flow.pc
  <2>1. CASE RequestRetry
    BY <1>2, <2>1 DEF RequestRetry, Timed, TestTimed, Flows, Machines, Reasons
  <2>2. CASE CancelRetry
    BY <1>2, <2>2 DEF CancelRetry, Flows, Machines
  <2>3. CASE Confirm \/ RetryFailed
    BY <1>2, <2>3 DEF Confirm, RetryFailed, Confirmed, Flows, Machines
  <2>4. CASE ReasonChanges
    <3>1. flow.tails - 1 \in Nat
      BY <1>2, <2>4 DEF ReasonChanges, Flows
    <3>. QED
      BY <1>2, <2>4, <3>1 DEF ReasonChanges, Flows, Reasons
  <2>. QED
    BY <2>1, <2>2, <2>3, <2>4
<1>4. flow.back \in {"timed", "questions"}
  BY <1>2 DEF Flows
<1>5. Shape(flow', atts)
  BY <1>2, <1>3, <1>4 DEF Shape, Watches, Observing, LastTry, TestTimed
<1>6. Ahead(flow') = Ahead(flow) /\ (Watches(flow) => Watches(flow')) /\ Clean(flow')
  BY <1>2, <1>3, <1>4 DEF Shape, Ahead, Watches, Clean
<1>. QED
  BY <1>1, <1>3, <1>5, <1>6, DialogKeeps, NoFlowAssumption DEF atts

------------------------------------------------------------------------------
(* Steps that change the attempts of the run beneath the flow.             *)

Changed(j, run) ==
  /\ RecordOK(j, lastRun) /\ j.binding = investigation.binding
  /\ DOMAIN j.runs = DOMAIN investigation.runs
  /\ \A k \in DOMAIN investigation.runs :
       /\ j.runs[k].id = investigation.runs[k].id
       /\ investigation.runs[k].id # run => j.runs[k].attempts = investigation.runs[k].attempts

\* The run of the dialog is still found after a change to its attempts.
LEMMA ChangedFacts ==
  ASSUME Inv, flow # NoFlow, NEW j, Changed(j, flow.run)
  PROVE  /\ j \in Investigations /\ j # NoInvestigation /\ Executes(j, flow.run)
         /\ RunIndex(j, flow.run) = RunIndex(investigation, flow.run)
         /\ RunAttempts(j, flow.run) = j.runs[RunIndex(investigation, flow.run)].attempts
<1>. DEFINE k == RunIndex(investigation, flow.run)
<1>1. k \in DOMAIN investigation.runs /\ investigation.runs[k].id = flow.run
  BY FlowFacts
<1>. HIDE DEF k
<1>2. k \in DOMAIN j.runs /\ j.runs[k].id = flow.run /\ j \in Investigations /\ Numbered(j, lastRun)
  BY <1>1 DEF Changed, RecordOK
<1>3. RunIndex(j, flow.run) = k
  BY <1>2, RunIndexFound
<1>. QED
  BY <1>2, <1>3, NoInvestigationAssumption DEF Executes, RunAttempts, k

\* A change to the attempts of one run concerns the pending ones of that run only.
LEMMA ObservedChanged ==
  ASSUME Inv, flow # NoFlow, NEW j, Changed(j, flow.run), NEW fl,
         \A m \in DOMAIN RunAttempts(j, flow.run) :
           Pending(RunAttempts(j, flow.run)[m]) =>
             /\ fl # NoFlow /\ Watches(fl) /\ fl.named
             /\ fl.run = flow.run /\ LastTry(fl).number = m
  PROVE  Observed(fl, j)
<1>. SUFFICES ASSUME NEW k \in DOMAIN j.runs, NEW m \in DOMAIN j.runs[k].attempts,
                     Pending(j.runs[k].attempts[m])
              PROVE  /\ fl # NoFlow /\ Watches(fl) /\ fl.named
                     /\ fl.run = j.runs[k].id /\ LastTry(fl).number = m
  BY DEF Observed
<1>1. k \in DOMAIN investigation.runs /\ j.runs[k].id = investigation.runs[k].id
  BY DEF Changed
<1>2. CASE j.runs[k].id = flow.run
  <2>1. RunIndex(j, flow.run) = k
    BY <1>2, RunIndexFound DEF Changed, RecordOK
  <2>. QED
    BY <1>2, <2>1 DEF RunAttempts
<1>3. CASE j.runs[k].id # flow.run
  <2>1. j.runs[k].attempts = investigation.runs[k].attempts
    BY <1>1, <1>3 DEF Changed
  <2>2. flow.run = investigation.runs[k].id
    BY <1>1, <2>1, FlowFacts DEF Inv, Observed
  <2>. QED
    BY <1>1, <1>3, <2>2
<1>. QED
  BY <1>2, <1>3

\* A step that changes the attempts of the observed run keeps the invariant when the
\* dialog still agrees with them.
LEMMA ChangedKeeps ==
  ASSUME Inv, flow # NoFlow, Changed(investigation', flow.run),
         UNCHANGED <<link, epoch, investigationEpoch, detached, lastRun>>,
         quarantined' \in BOOLEAN, Kept(stored', lastRun),
         FlowOK(flow', investigation'),
         \A m \in DOMAIN RunAttempts(investigation', flow.run) :
           Pending(RunAttempts(investigation', flow.run)[m]) =>
             /\ flow' # NoFlow /\ Watches(flow') /\ flow'.named
             /\ flow'.run = flow.run /\ LastTry(flow').number = m
  PROVE  Inv'
<1>1. Observed(flow', investigation')
  BY ObservedChanged
<1>2. RecordOK(investigation', lastRun) /\ investigation'.binding = investigation.binding
  BY DEF Changed
<1>3. investigation # NoInvestigation
  BY FlowFacts
<1>4. SessionOK' /\ Bound'
  BY <1>2, <1>3 DEF Inv, SessionOK, Bound
<1>. QED
  BY <1>1, <1>2, <1>4 DEF Inv, Current

\* Settling the attempt that the dialog observes
LEMMA SettledHere ==
  ASSUME Inv, flow # NoFlow, NEW m, NEW v \in {"valid", "invalid"}
  PROVE  LET j == Settle(investigation, flow.run, m, v)
             old == RunAttempts(investigation, flow.run)
             new == RunAttempts(j, flow.run)
         IN  /\ Changed(j, flow.run) /\ j.completed = investigation.completed
             /\ new \in Seq(Attempts) /\ Len(new) = Len(old) /\ DOMAIN new = DOMAIN old
             /\ \A l \in DOMAIN old :
                  /\ l # m => new[l] = old[l]
                  /\ new[l].transfer = old[l].transfer /\ new[l].on = old[l].on
                  /\ l = m => new[l].validity = v
<1>. DEFINE k == RunIndex(investigation, flow.run)
            j == Settle(investigation, flow.run, m, v)
<1>1. /\ RecordOK(investigation, lastRun) /\ k \in DOMAIN investigation.runs
      /\ investigation.runs[k].id = flow.run /\ investigation \in Investigations
      /\ RunAttempts(investigation, flow.run) = investigation.runs[k].attempts
  BY FlowFacts DEF RunAttempts
<1>. HIDE DEF k
<1>2. RecordOK(j, lastRun) /\ SettledAs(investigation, j, k, m, v)
  BY <1>1, SettleOK
<1>. HIDE DEF j
<1>3. Changed(j, flow.run)
  BY <1>1, <1>2 DEF Changed, SettledAs
<1>4. /\ RunAttempts(j, flow.run) = j.runs[k].attempts
      /\ j \in Investigations
  BY <1>3, ChangedFacts DEF k
<1>5. j.runs[k].attempts \in Seq(Attempts)
  BY <1>1, <1>2, <1>4, RecordFields DEF SettledAs
<1>. QED
  BY <1>1, <1>2, <1>3, <1>4, <1>5 DEF j, SettledAs

\* The last attempt of the dialog closes and the questions are shown.
Closed(fl, v) ==
  [fl EXCEPT !.tries[Len(fl.tries)].validity = v, !.machine = "questions"]

\* g has the attempts of fl, the last one closed as v.
TriesClosed(fl, g, v) ==
  /\ Len(g.tries) = Len(fl.tries)
  /\ \A l \in 1 .. Len(fl.tries) :
       /\ g.tries[l].number = fl.tries[l].number
       /\ l # Len(fl.tries) => g.tries[l] = fl.tries[l]
  /\ LastTry(g).validity = v /\ LastTry(g).number = LastTry(fl).number

SameBut(old, new, m) == Len(new) = Len(old) /\ \A l \in DOMAIN old : l # m => new[l] = old[l]

\* Closing the last attempt of the dialog changes its validity and nothing else.
LEMMA ClosedFacts ==
  ASSUME NEW fl \in Flows, Len(fl.tries) > 0, NEW v \in Validities
  PROVE  LET g == Closed(fl, v)
         IN  /\ g \in Flows /\ g.machine = "questions" /\ g.pc = fl.pc /\ g.test = fl.test
             /\ g.run = fl.run /\ g.values = fl.values /\ TriesClosed(fl, g, v)
<1>. DEFINE T == [number : Nat \ {0}, validity : Validities]
            n == Len(fl.tries)
            a == [fl.tries[n] EXCEPT !.validity = v]
            ts == [fl.tries EXCEPT ![n] = a]
            h == [fl EXCEPT !.tries = ts]
            g == [h EXCEPT !.machine = "questions"]
<1>1. fl.tries \in Seq(T)
  BY DEF Flows
<1>. HIDE DEF T
<1>2. n \in 1 .. n /\ n \in DOMAIN fl.tries /\ DOMAIN fl.tries = 1 .. n
  BY <1>1
<1>3. fl.tries[n] \in T
  BY <1>1, <1>2, ElementOfSeq
<1>4. a \in T /\ a.number = fl.tries[n].number /\ a.validity = v
  BY <1>3 DEF T
<1>5. Closed(fl, v) = g
  BY <1>1, <1>2, <1>3 DEF Closed, Flows, T
<1>. HIDE DEF a
<1>6. ts \in Seq(T) /\ Len(ts) = n /\ \A l \in 1 .. n : ts[l] = IF l = n THEN a ELSE fl.tries[l]
  BY <1>1, <1>2, <1>4
<1>. HIDE DEF ts
<1>7. /\ h \in Flows /\ h.tries = ts /\ h.pc = fl.pc /\ h.test = fl.test
      /\ h.run = fl.run /\ h.values = fl.values
  BY <1>6 DEF Flows, T
<1>. HIDE DEF h
<1>8. /\ g \in Flows /\ g.tries = ts /\ g.pc = fl.pc /\ g.test = fl.test
      /\ g.run = fl.run /\ g.values = fl.values /\ g.machine = "questions"
  BY <1>7 DEF Flows, Machines
<1>. QED
  BY <1>2, <1>4, <1>5, <1>6, <1>8 DEF LastTry, TriesClosed

\* The last attempt may be closed in the dialog and in the run at once.
LEMMA AgreeClosed ==
  ASSUME NEW fl \in Flows, Len(fl.tries) > 0, Ahead(fl) = 0,
         NEW v \in Validities, NEW g,
         Ahead(g) = 0, TriesClosed(fl, g, v),
         NEW old \in Seq(Attempts), NEW new \in Seq(Attempts), Agree(fl, old),
         SameBut(old, new, LastTry(fl).number),
         v = "valid" => new[LastTry(fl).number].validity = "valid",
         v \in {"missed", "user-restarted"} => new[LastTry(fl).number].validity = "invalid"
  PROVE  Agree(g, new)
<1>. DEFINE n == Len(fl.tries)
<1>1. n \in Nat /\ n > 0 /\ Len(old) \in Nat /\ DOMAIN old = 1 .. Len(old)
  BY DEF Flows
<1>2. /\ LastTry(fl) = fl.tries[n] /\ LastTry(g) = g.tries[n]
      /\ LastTry(fl).number = Len(old) /\ n \in 1 .. n
  <2>1. LastTry(fl).number + 0 = Len(old) /\ LastTry(fl).number \in Nat
    BY LastNumberFacts
  <2>. QED
    BY <1>1, <2>1 DEF LastTry, TriesClosed
<1>3. \A k \in 1 .. n : fl.tries[k].number \in Nat \ {0}
  <2>1. fl.tries \in Seq([number : Nat \ {0}, validity : Validities])
    BY DEF Flows
  <2>2. \A k \in 1 .. n : fl.tries[k] \in [number : Nat \ {0}, validity : Validities]
    BY <2>1, ElementOfSeq
  <2>. QED
    BY <2>2
<1>. SUFFICES ASSUME NEW k \in 1 .. n
              PROVE  /\ g.tries[k].number + 0 = Len(new) - n + k
                     /\ g.tries[k].validity = "valid" =>
                          new[g.tries[k].number].validity = "valid"
                     /\ g.tries[k].validity \in {"missed", "user-restarted"} =>
                          new[g.tries[k].number].validity = "invalid"
  BY DEF Agree, TriesClosed
<1>4. /\ fl.tries[k].number + 0 = Len(old) - n + k
      /\ fl.tries[k].validity = "valid" => old[fl.tries[k].number].validity = "valid"
      /\ fl.tries[k].validity \in {"missed", "user-restarted"} =>
           old[fl.tries[k].number].validity = "invalid"
  BY DEF Agree
<1>5. CASE k = n
  BY <1>2, <1>4, <1>5 DEF TriesClosed, SameBut
<1>6. CASE k # n
  <2>1. /\ fl.tries[k].number # Len(old) /\ fl.tries[k].number \in DOMAIN old
    BY <1>1, <1>3, <1>4, <1>6
  <2>. QED
    BY <1>2, <1>4, <1>6, <2>1 DEF TriesClosed, SameBut
<1>. QED
  BY <1>5, <1>6

\* A pending attempt of the observed run is the last one of the dialog.
LEMMA PendingFacts ==
  ASSUME Inv, flow # NoFlow, NEW m \in DOMAIN RunAttempts(investigation, flow.run),
         Pending(RunAttempts(investigation, flow.run)[m])
  PROVE  Watches(flow) /\ LastTry(flow).number = m
BY FlowFacts DEF Inv, Observed, RunAttempts

\* Nothing is pending once the observed attempt is settled.
LEMMA SettledQuiet ==
  ASSUME Inv, flow # NoFlow, Watches(flow), NEW v \in {"valid", "invalid"},
         NEW m \in DOMAIN RunAttempts(Settle(investigation, flow.run, LastTry(flow).number, v),
                                     flow.run)
  PROVE  ~Pending(RunAttempts(Settle(investigation, flow.run, LastTry(flow).number, v),
                              flow.run)[m])
<1>. DEFINE old == RunAttempts(investigation, flow.run)
            new == RunAttempts(Settle(investigation, flow.run, LastTry(flow).number, v), flow.run)
<1>1. /\ DOMAIN new = DOMAIN old
      /\ \A l \in DOMAIN old :
           /\ l # LastTry(flow).number => new[l] = old[l]
           /\ l = LastTry(flow).number => new[l].validity = v
  BY SettledHere
<1>2. \A l \in DOMAIN old : Pending(old[l]) => LastTry(flow).number = l
  BY PendingFacts
<1>. HIDE DEF old
<1>. QED
  BY <1>1, <1>2 DEF Pending

\* While an attempt is observed it is the last one of the run as well.
LEMMA ObservedFacts ==
  ASSUME Inv, flow # NoFlow, Watches(flow)
  PROVE  LET atts == RunAttempts(investigation, flow.run)
         IN  /\ Len(flow.tries) > 0 /\ Len(flow.tries) \in Nat /\ flow.tries # <<>>
             /\ Number = LastTry(flow).number /\ Number \in Nat \ {0}
             /\ flow.pc = "none" /\ Ahead(flow) = 0 /\ Number = Len(atts)
             /\ Number \in DOMAIN atts /\ atts[Number].transfer = "done"
             /\ LastTry(flow) = flow.tries[Len(flow.tries)]
             /\ LastTry(flow).validity \in Validities
<1>. DEFINE atts == RunAttempts(investigation, flow.run)
<1>1. /\ flow \in Flows /\ atts \in Seq(Attempts) /\ Shape(flow, atts) /\ Agree(flow, atts)
  BY FlowFacts
<1>. HIDE DEF atts
<1>2. /\ Len(flow.tries) > 0 /\ atts[LastTry(flow).number].transfer = "done"
      /\ flow.pc = "none" /\ Ahead(flow) = 0
  BY <1>1 DEF Shape, Watches, Ahead
<1>3. Number = LastTry(flow).number
  BY DEF Number, LastTry
<1>4. /\ LastTry(flow) \in [number : Nat \ {0}, validity : Validities]
      /\ LastTry(flow).number + Ahead(flow) = Len(atts)
      /\ LastTry(flow).number \in DOMAIN atts
  BY <1>1, <1>2, LastNumberFacts
<1>5. Number = Len(atts) /\ Number \in Nat \ {0}
  BY <1>2, <1>3, <1>4
<1>6. flow.tries # <<>> /\ Len(flow.tries) \in Nat
  BY <1>1, <1>2 DEF Flows
<1>. QED
  BY <1>2, <1>3, <1>4, <1>5, <1>6 DEF atts, LastTry

\* The timer ends: the attempt is valid and its values are its own.
LEMMA TimelineKeeps ==
  ASSUME Inv, TimelineEnds
  PROVE  Inv'
<1>. DEFINE atts == RunAttempts(investigation, flow.run)
            j == Settle(investigation, flow.run, Number, "valid")
            new == RunAttempts(j, flow.run)
<1>1. PICK field \in Fields :
        /\ flow # NoFlow /\ flow.machine = "timed"
        /\ flow' = Completed([flow EXCEPT !.values[field] = Number], "valid")
        /\ investigation' = SettledBy(flow, "valid")
        /\ KeepSession /\ UNCHANGED stored
  BY DEF TimelineEnds, EndTimeline, IsOpen, Fields
<1>2. /\ flow \in Flows /\ atts \in Seq(Attempts) /\ Shape(flow, atts) /\ Agree(flow, atts)
      /\ Clean(flow)
  BY <1>1, FlowFacts
<1>3. Watches(flow) /\ LastTry(flow).validity = "open" /\ TestTimed(flow)
  BY <1>1, <1>2 DEF Shape, Watches, Observing
<1>4. /\ Len(flow.tries) > 0 /\ flow.tries # <<>> /\ Number = LastTry(flow).number
      /\ Number \in Nat \ {0} /\ flow.pc = "none" /\ Ahead(flow) = 0
      /\ Number \in DOMAIN atts /\ atts[Number].transfer = "done"
      /\ LastTry(flow) = flow.tries[Len(flow.tries)]
  BY <1>1, <1>3, ObservedFacts
<1>5. LastIsOpen(flow)
  BY <1>3, <1>4 DEF LastIsOpen
<1>6. investigation' = j
  BY <1>1, <1>5 DEF SettledBy
<1>7. /\ Changed(j, flow.run) /\ new \in Seq(Attempts) /\ Len(new) = Len(atts)
      /\ DOMAIN new = DOMAIN atts
      /\ \A l \in DOMAIN atts :
           /\ l # Number => new[l] = atts[l]
           /\ new[l].transfer = atts[l].transfer
           /\ l = Number => new[l].validity = "valid"
  BY <1>1, SettledHere
<1>8. \A m \in DOMAIN new : ~Pending(new[m])
  BY <1>1, <1>3, <1>4, SettledQuiet
<1>9. Executes(j, flow.run) /\ j # NoInvestigation
  BY <1>1, <1>7, ChangedFacts
<1>. HIDE DEF atts, new, j
<1>. DEFINE vs == [flow.values EXCEPT ![field] = Number]
            fl == [flow EXCEPT !.values = vs]
            g == Closed(fl, "valid")
<1>10. vs \in [Fields -> Nat] /\ \A f \in Fields : vs[f] = Number \/ vs[f] = flow.values[f]
  BY <1>2, <1>4 DEF Flows
<1>11. [flow EXCEPT !.values[field] = Number] = fl
  BY <1>2 DEF Flows
<1>. HIDE DEF vs
<1>12. /\ fl \in Flows /\ fl.tries = flow.tries /\ fl.pc = flow.pc /\ fl.run = flow.run
       /\ fl.test = flow.test /\ fl.values = vs
  BY <1>2, <1>10 DEF Flows
<1>. HIDE DEF fl
<1>13. LastIsOpen(fl) /\ LastTry(fl) = LastTry(flow) /\ Ahead(fl) = 0
  BY <1>4, <1>5, <1>12 DEF LastIsOpen, LastTry, Ahead
<1>14. flow' = g
  BY <1>1, <1>11, <1>13 DEF Completed, Closed
<1>15. "valid" \in Validities
  BY DEF Validities
<1>16. /\ g \in Flows /\ g.machine = "questions" /\ g.pc = fl.pc /\ g.test = fl.test
       /\ g.run = fl.run /\ g.values = fl.values /\ TriesClosed(fl, g, "valid")
  BY <1>4, <1>12, <1>15, ClosedFacts
<1>. HIDE DEF g
<1>17. Agree(g, new)
  <2>1. Agree(fl, atts)
    BY <1>2, <1>12 DEF Agree, Ahead
  <2>2. Ahead(g) = 0
    BY <1>4, <1>12, <1>16 DEF Ahead
  <2>3. new[LastTry(fl).number].validity = "valid"
    BY <1>4, <1>7, <1>13
  <2>4. SameBut(atts, new, LastTry(fl).number)
    BY <1>4, <1>7, <1>13 DEF SameBut
  <2>5. Len(fl.tries) > 0
    BY <1>4, <1>12
  <2>. QED
    BY <1>2, <1>7, <1>12, <1>13, <1>15, <1>16, <2>1, <2>2, <2>3, <2>4, <2>5, AgreeClosed
<1>18. Shape(g, new)
  BY <1>3, <1>4, <1>7, <1>12, <1>13, <1>16
  DEF Shape, Watches, Observing, TestTimed, TriesClosed
<1>19. Clean(g)
  <2>. SUFFICES ASSUME NEW f \in Fields, vs[f] # 0
                PROVE  \E k \in 1 .. Len(g.tries) :
                         g.tries[k].number = vs[f] /\ g.tries[k].validity \in {"open", "valid"}
    BY <1>12, <1>16 DEF Clean
  <2>0. Len(fl.tries) \in 1 .. Len(fl.tries)
    BY <1>4, <1>12 DEF Flows
  <2>1. CASE vs[f] = Number
    <3>1. /\ g.tries[Len(g.tries)].number = vs[f]
          /\ g.tries[Len(g.tries)].validity = "valid"
      BY <1>4, <1>13, <1>16, <2>1 DEF LastTry, TriesClosed
    <3>. QED
      BY <1>16, <2>0, <3>1 DEF TriesClosed
  <2>2. CASE vs[f] = flow.values[f]
    <3>1. PICK k \in 1 .. Len(flow.tries) :
            flow.tries[k].number = vs[f] /\ flow.tries[k].validity \in {"open", "valid"}
      BY <1>2, <2>2 DEF Clean
    <3>2. g.tries[k].number = vs[f] /\ g.tries[k].validity \in {"open", "valid"}
      BY <1>12, <1>16, <3>1 DEF LastTry, TriesClosed
    <3>. QED
      BY <1>12, <1>16, <3>2 DEF TriesClosed
  <2>. QED
    BY <1>10, <2>1, <2>2
<1>20. FlowOK(flow', investigation')
  BY <1>6, <1>9, <1>12, <1>14, <1>16, <1>17, <1>18, <1>19 DEF FlowOK, new
<1>21. Kept(stored', lastRun) /\ quarantined' \in BOOLEAN
       /\ UNCHANGED <<link, epoch, investigationEpoch, detached, lastRun>>
  BY <1>1 DEF KeepSession, Inv, SessionOK
<1>. QED
  BY <1>1, <1>6, <1>7, <1>8, <1>20, <1>21, ChangedKeeps DEF new

\* An attempt that is missed or restarted loses its values and is invalid in the run.
LEMMA DiscardedFacts ==
  ASSUME Inv, flow # NoFlow, Watches(flow), Observing(flow) = "timed",
         NEW v \in {"missed", "user-restarted"}
  PROVE  LET g == Completed(Discarded(flow), v)
             j == SettledBy(flow, v)
             new == RunAttempts(j, flow.run)
         IN  /\ g \in Flows /\ g.pc = "none" /\ g.test = flow.test /\ g.run = flow.run
             /\ g.values = NoValues /\ TestTimed(flow)
             /\ Len(g.tries) > 0 /\ LastTry(g).validity = v
             /\ new[LastTry(g).number].transfer = "done"
             /\ Agree(g, new) /\ Changed(j, flow.run) /\ new \in Seq(Attempts)
             /\ \A m \in DOMAIN new : ~Pending(new[m])
             /\ Executes(j, flow.run) /\ j # NoInvestigation
<1>. DEFINE atts == RunAttempts(investigation, flow.run)
            j == Settle(investigation, flow.run, Number, "invalid")
            new == RunAttempts(j, flow.run)
            fl == Discarded(flow)
            g == Closed(fl, v)
<1>1. /\ flow \in Flows /\ atts \in Seq(Attempts) /\ Shape(flow, atts) /\ Agree(flow, atts)
      /\ Clean(flow)
  BY FlowFacts
<1>2. LastTry(flow).validity = "open" /\ TestTimed(flow)
  BY <1>1 DEF Shape
<1>3. /\ Len(flow.tries) > 0 /\ flow.tries # <<>> /\ Number = LastTry(flow).number
      /\ Number \in Nat \ {0} /\ flow.pc = "none" /\ Ahead(flow) = 0
      /\ Number \in DOMAIN atts /\ atts[Number].transfer = "done"
      /\ LastTry(flow) = flow.tries[Len(flow.tries)]
  BY ObservedFacts
<1>4. LastIsOpen(flow)
  BY <1>2, <1>3 DEF LastIsOpen
<1>5. SettledBy(flow, v) = j
  BY <1>4 DEF SettledBy
<1>6. /\ Changed(j, flow.run) /\ new \in Seq(Attempts) /\ Len(new) = Len(atts)
      /\ DOMAIN new = DOMAIN atts
      /\ \A l \in DOMAIN atts :
           /\ l # Number => new[l] = atts[l]
           /\ new[l].transfer = atts[l].transfer
           /\ l = Number => new[l].validity = "invalid"
  BY SettledHere
<1>7. \A m \in DOMAIN new : ~Pending(new[m])
  BY <1>3, SettledQuiet
<1>8. Executes(j, flow.run) /\ j # NoInvestigation
  BY <1>6, ChangedFacts
<1>. HIDE DEF atts, new, j
<1>9. /\ fl \in Flows /\ fl.tries = flow.tries /\ fl.pc = flow.pc /\ fl.run = flow.run
      /\ fl.test = flow.test /\ fl.values = NoValues
  <2>1. NoValues \in [Fields -> Nat] /\ 0 \in 0 .. 2
    BY DEF NoValues
  <2>. QED
    BY <1>1, <2>1 DEF Discarded, Flows
<1>. HIDE DEF fl
<1>10. LastIsOpen(fl) /\ LastTry(fl) = LastTry(flow) /\ Ahead(fl) = 0 /\ Len(fl.tries) > 0
  BY <1>3, <1>4, <1>9 DEF LastIsOpen, LastTry, Ahead
<1>11. Completed(fl, v) = g
  BY <1>10 DEF Completed, Closed
<1>12. v \in Validities
  BY DEF Validities
<1>13. /\ g \in Flows /\ g.machine = "questions" /\ g.pc = fl.pc /\ g.test = fl.test
       /\ g.run = fl.run /\ g.values = fl.values /\ TriesClosed(fl, g, v)
  BY <1>9, <1>10, <1>12, ClosedFacts
<1>. HIDE DEF g
<1>14. Agree(g, new)
  <2>1. Agree(fl, atts)
    BY <1>1, <1>9 DEF Agree, Ahead
  <2>2. Ahead(g) = 0
    BY <1>3, <1>9, <1>13 DEF Ahead
  <2>3. new[LastTry(fl).number].validity = "invalid"
    BY <1>3, <1>6, <1>10
  <2>4. SameBut(atts, new, LastTry(fl).number)
    BY <1>3, <1>6, <1>10 DEF SameBut
  <2>. QED
    BY <1>1, <1>6, <1>9, <1>10, <1>12, <1>13, <2>1, <2>2, <2>3, <2>4, AgreeClosed
<1>15. /\ Len(g.tries) > 0 /\ LastTry(g).validity = v
       /\ new[LastTry(g).number].transfer = "done"
  BY <1>3, <1>6, <1>10, <1>13 DEF TriesClosed
<1>. QED
  BY <1>2, <1>3, <1>5, <1>6, <1>7, <1>8, <1>9, <1>11, <1>13, <1>14, <1>15 DEF new, fl

\* markObservationMissed keeps the invariant.
LEMMA MarkMissedKeeps ==
  ASSUME Inv, MarkMissed
  PROVE  Inv'
<1>. DEFINE g == Completed(Discarded(flow), "missed")
            j == SettledBy(flow, "missed")
            new == RunAttempts(j, flow.run)
            h == [g EXCEPT !.machine = "retry", !.back = "questions",
                           !.reason = "explicit-retry-missed-observation"]
<1>1. /\ flow # NoFlow /\ flow.machine = "timed" /\ flow' = h /\ investigation' = j
      /\ KeepSession /\ stored' = stored
  BY DEF MarkMissed, IsOpen
<1>2. Watches(flow) /\ Observing(flow) = "timed"
  BY <1>1 DEF Watches, Observing
<1>3. /\ g \in Flows /\ g.pc = "none" /\ g.test = flow.test /\ g.run = flow.run
      /\ g.values = NoValues /\ TestTimed(flow)
      /\ Len(g.tries) > 0 /\ LastTry(g).validity = "missed"
      /\ new[LastTry(g).number].transfer = "done"
      /\ Agree(g, new) /\ Changed(j, flow.run) /\ new \in Seq(Attempts)
      /\ \A m \in DOMAIN new : ~Pending(new[m])
      /\ Executes(j, flow.run) /\ j # NoInvestigation
  BY <1>1, <1>2, DiscardedFacts
<1>. HIDE DEF g, j, new
<1>4. /\ h \in Flows /\ h.pc = "none" /\ h.test = flow.test /\ h.run = flow.run
      /\ h.values = NoValues /\ h.tries = g.tries /\ h.machine = "retry" /\ h.back = "questions"
  BY <1>3 DEF Flows, Machines, Reasons
<1>. HIDE DEF h
<1>5. Agree(h, new)
  BY <1>3, <1>4 DEF Agree, Ahead
<1>6. Shape(h, new)
  BY <1>3, <1>4 DEF Shape, Watches, Observing, LastTry, TestTimed
<1>7. Clean(h)
  BY <1>4 DEF Clean, NoValues
<1>8. FlowOK(flow', investigation')
  BY <1>1, <1>3, <1>4, <1>5, <1>6, <1>7 DEF FlowOK, new
<1>9. Kept(stored', lastRun) /\ quarantined' \in BOOLEAN
      /\ UNCHANGED <<link, epoch, investigationEpoch, detached, lastRun>>
  BY <1>1 DEF KeepSession, Inv, SessionOK
<1>. QED
  BY <1>1, <1>3, <1>8, <1>9, ChangedKeeps DEF new

\* retryTimingAttempt keeps the invariant, from a running timer and from the questions.
LEMMA RetryTimingKeeps ==
  ASSUME Inv, RetryTiming
  PROVE  Inv'
<1>1. /\ flow # NoFlow /\ flow.machine = "retry" /\ KeepSession /\ stored' = stored
  BY DEF RetryTiming, IsOpen
<1>2. /\ flow \in Flows /\ Watches(flow) /\ Observing(flow) = flow.back
      /\ Shape(flow, RunAttempts(investigation, flow.run)) /\ Clean(flow)
  BY <1>1, FlowFacts DEF Watches, Observing
<1>3. CASE flow.back = "timed"
  <2>. DEFINE g == Completed(Discarded(flow), "user-restarted")
              j == SettledBy(flow, "user-restarted")
              new == RunAttempts(j, flow.run)
              h == Confirmed(g, TRUE)
  <2>1. flow' = h /\ investigation' = j
    BY <1>3 DEF RetryTiming
  <2>2. /\ g \in Flows /\ g.pc = "none" /\ g.test = flow.test /\ g.run = flow.run
        /\ g.values = NoValues /\ TestTimed(flow)
        /\ Len(g.tries) > 0 /\ LastTry(g).validity = "user-restarted"
        /\ new[LastTry(g).number].transfer = "done"
        /\ Agree(g, new) /\ Changed(j, flow.run) /\ new \in Seq(Attempts)
        /\ \A m \in DOMAIN new : ~Pending(new[m])
        /\ Executes(j, flow.run) /\ j # NoInvestigation
    BY <1>1, <1>2, <1>3, DiscardedFacts
  <2>. HIDE DEF g, j, new
  <2>3. /\ h \in Flows /\ h.pc = "acquire" /\ h.run = flow.run /\ h.values = NoValues
        /\ h.tries = g.tries /\ h.machine = "transferring"
    BY <2>2 DEF Confirmed, Flows, Machines
  <2>. HIDE DEF h
  <2>4. Agree(h, new)
    BY <2>2, <2>3 DEF Agree, Ahead
  <2>5. Shape(h, new) /\ Clean(h)
    BY <2>3 DEF Shape, Watches, Clean, NoValues
  <2>6. FlowOK(flow', investigation')
    BY <2>1, <2>2, <2>3, <2>4, <2>5 DEF FlowOK, new
  <2>7. Kept(stored', lastRun) /\ quarantined' \in BOOLEAN
        /\ UNCHANGED <<link, epoch, investigationEpoch, detached, lastRun>>
    BY <1>1 DEF KeepSession, Inv, SessionOK
  <2>. QED
    BY <1>1, <2>1, <2>2, <2>6, <2>7, ChangedKeeps DEF new
<1>4. CASE flow.back # "timed"
  <2>. DEFINE atts == RunAttempts(investigation, flow.run)
              h == Confirmed(flow, TRUE)
  <2>1. flow' = h /\ investigation' = investigation
    BY <1>4 DEF RetryTiming
  <2>2. /\ h \in Flows /\ h.pc = "acquire" /\ h.run = flow.run /\ h.values = flow.values
        /\ h.tries = flow.tries /\ h.machine = "transferring"
    BY <1>2 DEF Confirmed, Flows, Machines
  <2>. HIDE DEF h
  <2>3. /\ Agree(flow, atts) /\ flow.pc = "none" /\ Executes(investigation, flow.run)
        /\ investigation # NoInvestigation
    BY <1>1, <1>2, FlowFacts, ObservedFacts
  <2>4. Agree(h, atts)
    BY <2>2, <2>3 DEF Agree, Ahead
  <2>5. Shape(h, atts) /\ Clean(h)
    BY <1>2, <2>2 DEF Shape, Watches, Clean
  <2>6. FlowOK(flow', investigation')
    BY <2>1, <2>2, <2>3, <2>4, <2>5 DEF FlowOK
  <2>7. \A m \in DOMAIN atts : ~Pending(atts[m])
    <3>. SUFFICES ASSUME NEW m \in DOMAIN atts, Pending(atts[m])
                  PROVE  FALSE
      OBVIOUS
    <3>1. m = LastTry(flow).number
      BY <1>1, PendingFacts
    <3>2. flow.back = "questions"
      BY <1>2, <1>4 DEF Flows
    <3>3. LastTry(flow).validity \in {"valid", "missed"}
      BY <1>1, <1>2, <3>2 DEF Shape
    <3>4. /\ atts \in Seq(Attempts) /\ Len(flow.tries) > 0
      BY <1>1, <1>2, FlowFacts, ObservedFacts
    <3>5. atts[LastTry(flow).number].validity \in {"valid", "invalid"}
      BY <1>2, <2>3, <3>3, <3>4, LastNumberFacts
    <3>. QED
      BY <3>1, <3>5 DEF Pending
  <2>8. Changed(investigation, flow.run)
    BY <1>1, FlowFacts DEF Changed
  <2>9. Kept(stored', lastRun) /\ quarantined' \in BOOLEAN
        /\ UNCHANGED <<link, epoch, investigationEpoch, detached, lastRun>>
    BY <1>1 DEF KeepSession, Inv, SessionOK
  <2>. QED
    BY <1>1, <2>1, <2>6, <2>7, <2>8, <2>9, ChangedKeeps
<1>. QED
  BY <1>3, <1>4

\* A new attempt of the dialog, numbered as the last one of the run
LEMMA AgreeAdded ==
  ASSUME NEW fl \in Flows, NEW g, Ahead(g) = 0,
         NEW t \in [number : Nat \ {0}, validity : Validities], g.tries = Append(fl.tries, t),
         t.validity \in {"open", "transfer-failed"},
         NEW old \in Seq(Attempts), NEW new \in Seq(Attempts), Agree(fl, old),
         t.number = Len(new), Len(new) + Ahead(fl) = Len(old) + 1,
         \A m \in 1 .. Len(new) - 1 : new[m].validity = old[m].validity
  PROVE  Agree(g, new)
<1>. DEFINE n == Len(fl.tries)
<1>1. /\ fl.tries \in Seq([number : Nat \ {0}, validity : Validities]) /\ n \in Nat
      /\ Len(old) \in Nat /\ Len(new) \in Nat
  BY DEF Flows
<1>2. /\ Len(g.tries) = n + 1 /\ g.tries[n + 1] = t
      /\ \A k \in 1 .. n : g.tries[k] = fl.tries[k]
  BY <1>1
<1>3. \A k \in 1 .. n : fl.tries[k] \in [number : Nat \ {0}, validity : Validities]
  BY <1>1, ElementOfSeq
<1>4. Ahead(fl) \in {0, 1}
  BY DEF Ahead
<1>. SUFFICES ASSUME NEW k \in 1 .. n + 1
              PROVE  /\ g.tries[k].number + 0 = Len(new) - (n + 1) + k
                     /\ g.tries[k].validity = "valid" =>
                          new[g.tries[k].number].validity = "valid"
                     /\ g.tries[k].validity \in {"missed", "user-restarted"} =>
                          new[g.tries[k].number].validity = "invalid"
  BY <1>2 DEF Agree
<1>5. CASE k = n + 1
  BY <1>1, <1>2, <1>5
<1>6. CASE k # n + 1
  <2>1. k \in 1 .. n
    BY <1>1, <1>6
  <2>2. /\ fl.tries[k].number + Ahead(fl) = Len(old) - n + k
        /\ fl.tries[k].validity = "valid" => old[fl.tries[k].number].validity = "valid"
        /\ fl.tries[k].validity \in {"missed", "user-restarted"} =>
             old[fl.tries[k].number].validity = "invalid"
    BY <2>1 DEF Agree
  <2>3. fl.tries[k].number \in Nat \ {0}
    BY <1>3, <2>1
  <2>4. fl.tries[k].number = Len(new) - (n + 1) + k
    <3>. DEFINE x == fl.tries[k].number
                a == Len(new)
                b == Len(old)
    <3>1. /\ x \in Nat /\ a \in Nat /\ b \in Nat /\ k \in Nat /\ n \in Nat
      BY <1>1, <2>1, <2>3
    <3>2. x + Ahead(fl) = b - n + k
      BY <2>2
    <3>3. a + Ahead(fl) = b + 1
      OBVIOUS
    <3>. HIDE DEF x, a, b, n
    <3>4. CASE Ahead(fl) = 0
      <4>1. x = b - n + k /\ a = b + 1
        BY <3>1, <3>2, <3>3, <3>4
      <4>2. x = a - (n + 1) + k
        BY <3>1, <4>1
      <4>. QED
        BY <4>2 DEF x, a
    <3>5. CASE Ahead(fl) = 1
      <4>1. x + 1 = b - n + k /\ a + 1 = b + 1
        BY <3>1, <3>2, <3>3, <3>5
      <4>2. x = a - (n + 1) + k
        BY <3>1, <4>1
      <4>. QED
        BY <4>2 DEF x, a
    <3>. QED
      BY <1>4, <3>4, <3>5
  <2>5. fl.tries[k].number \in 1 .. Len(new) - 1
    BY <1>1, <2>1, <2>3, <2>4
  <2>6. new[fl.tries[k].number].validity = old[fl.tries[k].number].validity
    BY <2>5
  <2>7. g.tries[k] = fl.tries[k]
    BY <1>2, <2>1
  <2>8. g.tries[k].number + 0 = Len(new) - (n + 1) + k
    <3>1. fl.tries[k].number + 0 = fl.tries[k].number
      BY <2>3
    <3>. HIDE DEF n
    <3>. QED
      BY <2>4, <2>7, <3>1
  <2>9. fl.tries[k].validity = "valid" => new[fl.tries[k].number].validity = "valid"
    BY <2>2, <2>6
  <2>10. fl.tries[k].validity \in {"missed", "user-restarted"} =>
           new[fl.tries[k].number].validity = "invalid"
    BY <2>2, <2>6
  <2>. HIDE DEF n
  <2>. QED
    BY <2>7, <2>8, <2>9, <2>10
<1>. QED
  BY <1>5, <1>6

\* A new attempt invalidates no recorded value.
LEMMA CleanAdded ==
  ASSUME NEW fl \in Flows, NEW g, Clean(fl), g.values = fl.values,
         NEW t \in [number : Nat \ {0}, validity : Validities], g.tries = Append(fl.tries, t)
  PROVE  Clean(g)
<1>1. /\ Len(g.tries) = Len(fl.tries) + 1 /\ Len(fl.tries) \in Nat
      /\ \A k \in 1 .. Len(fl.tries) : g.tries[k] = fl.tries[k]
  <2>1. fl.tries \in Seq([number : Nat \ {0}, validity : Validities])
    BY DEF Flows
  <2>. QED
    BY <2>1
<1>2. \A k \in 1 .. Len(fl.tries) : k \in 1 .. Len(g.tries)
  BY <1>1
<1>. QED
  BY <1>1, <1>2 DEF Clean

\* What a call that returns leaves in the flow: a new attempt, and no call at work.
WithReturned(fl, n, v, m, r, p) ==
  Returned([WithTry(fl, n, v) EXCEPT !.machine = m, !.retryable = r, !.phase = p])

ReturnedAs(fl, g, n, v, m) ==
  /\ g.tries = Append(fl.tries, [number |-> n, validity |-> v])
  /\ g.machine = m /\ g.pc = "none"
  /\ g.test = fl.test /\ g.run = fl.run /\ g.values = fl.values /\ g.named = fl.named
  /\ Len(g.tries) > 0 /\ LastTry(g) = [number |-> n, validity |-> v]

\* A call that returns has added its attempt, and changed machine, phase and flag.
LEMMA ReturnedFacts ==
  ASSUME NEW fl \in Flows, NEW n \in Nat \ {0}, NEW v \in Validities, NEW m \in Machines,
         NEW r \in BOOLEAN, NEW p \in 0 .. 2
  PROVE  /\ WithReturned(fl, n, v, m, r, p) \in Flows
         /\ ReturnedAs(fl, WithReturned(fl, n, v, m, r, p), n, v, m)
<1>. DEFINE T == [number : Nat \ {0}, validity : Validities]
            t == [number |-> n, validity |-> v]
            ts == Append(fl.tries, t)
            a == [fl EXCEPT !.tries = ts]
            b == [a EXCEPT !.machine = m, !.retryable = r, !.phase = p]
            g == [b EXCEPT !.pc = "none", !.tails = IF b.again THEN b.tails + 1 ELSE b.tails]
<1>1. fl.tries \in Seq(T) /\ t \in T
  BY DEF Flows
<1>2. /\ ts \in Seq(T) /\ Len(ts) = Len(fl.tries) + 1 /\ ts[Len(fl.tries) + 1] = t
      /\ Len(fl.tries) \in Nat
  BY <1>1
<1>3. WithReturned(fl, n, v, m, r, p) = g
  BY DEF WithReturned, Returned, WithTry
<1>. HIDE DEF ts
<1>4. /\ a \in Flows /\ a.tries = ts /\ a.test = fl.test /\ a.run = fl.run
      /\ a.values = fl.values /\ a.named = fl.named
  BY <1>2 DEF Flows
<1>. HIDE DEF a
<1>5. /\ b \in Flows /\ b.tries = ts /\ b.test = fl.test /\ b.run = fl.run
      /\ b.values = fl.values /\ b.machine = m /\ b.tails \in Nat /\ b.named = fl.named
  BY <1>4 DEF Flows
<1>. HIDE DEF b
<1>6. (IF b.again THEN b.tails + 1 ELSE b.tails) \in Nat
  BY <1>5
<1>7. /\ g \in Flows /\ g.tries = ts /\ g.machine = m /\ g.pc = "none"
      /\ g.test = fl.test /\ g.run = fl.run /\ g.values = fl.values /\ g.named = fl.named
  BY <1>5, <1>6 DEF Flows
<1>. HIDE DEF g
<1>8. Len(g.tries) > 0 /\ LastTry(g) = t
  BY <1>2, <1>7 DEF LastTry
<1>. QED
  BY <1>3, <1>7, <1>8 DEF ts, ReturnedAs

------------------------------------------------------------------------------
(* Transferring.                                                           *)

\* new is old with one attempt more, which is neither transferred nor settled.
OneMore(old, new) ==
  /\ Len(new) = Len(old) + 1
  /\ \A m \in DOMAIN old : new[m] = old[m]
  /\ new[Len(old) + 1] = NewAttempt

\* beginAttempt as confirmGuidedTransfer calls it, for the run of the dialog.
LEMMA AttemptedFacts ==
  ASSUME Inv, flow # NoFlow
  PROVE  LET old == RunAttempts(investigation, flow.run)
             new == RunAttempts(Attempted, flow.run)
         IN  /\ Changed(Attempted, flow.run)
             /\ new \in Seq(Attempts) /\ OneMore(old, new)
<1>. DEFINE k == RunIndex(investigation, flow.run)
            j == Attempted
<1>1. /\ RecordOK(investigation, lastRun) /\ k \in DOMAIN investigation.runs
      /\ investigation.runs[k].id = flow.run /\ investigation \in Investigations
  BY FlowFacts
<1>2. investigation.runs \in Seq(Runs)
  BY <1>1, RecordFields
<1>3. j = WithAttempt(investigation, k)
  BY DEF Attempted, WithAttempt, NewAttempt
<1>4. RecordOK(j, lastRun) /\ AddedTo(investigation, j, k)
  BY <1>1, <1>3, AttemptAdded
<1>. HIDE DEF j, k
<1>5. Changed(j, flow.run)
  BY <1>1, <1>4 DEF Changed, AddedTo
<1>6. j \in Investigations /\ RunAttempts(j, flow.run) = j.runs[k].attempts
  BY <1>5, ChangedFacts DEF k
<1>7. RunAttempts(investigation, flow.run) = investigation.runs[k].attempts
  BY DEF RunAttempts, k
<1>8. k \in DOMAIN j.runs
  BY <1>1, <1>4 DEF AddedTo
<1>9. j.runs[k].attempts \in Seq(Attempts)
  BY <1>6, <1>8, RecordFields
<1>10. OneMore(investigation.runs[k].attempts, j.runs[k].attempts)
  BY <1>4 DEF AddedTo, OneMore
<1>. QED
  BY <1>5, <1>6, <1>7, <1>9, <1>10 DEF j

\* Nothing is pending while a transfer is under way.
LEMMA QuietInTransfer ==
  ASSUME Inv, flow # NoFlow, flow.pc # "none"
  PROVE  /\ flow.machine = "transferring" /\ ~Watches(flow)
         /\ \A m \in DOMAIN RunAttempts(investigation, flow.run) :
              ~Pending(RunAttempts(investigation, flow.run)[m])
<1>1. flow.machine = "transferring"
  BY FlowFacts DEF Shape
<1>2. ~Watches(flow)
  BY <1>1 DEF Watches
<1>. QED
  BY <1>1, <1>2, PendingFacts

\* A new attempt is not pending: nothing was transferred for it.
LEMMA OneMoreQuiet ==
  ASSUME NEW old \in Seq(Attempts), NEW new \in Seq(Attempts), OneMore(old, new),
         \A m \in DOMAIN old : ~Pending(old[m])
  PROVE  \A m \in DOMAIN new : ~Pending(new[m])
<1>. SUFFICES ASSUME NEW m \in DOMAIN new, Pending(new[m])
              PROVE  FALSE
  OBVIOUS
<1>1. m \in 1 .. Len(old) + 1 /\ Len(old) \in Nat /\ DOMAIN old = 1 .. Len(old)
  BY DEF OneMore
<1>2. CASE m = Len(old) + 1
  BY <1>2 DEF OneMore, NewAttempt, Pending
<1>3. CASE m # Len(old) + 1
  <2>1. m \in DOMAIN old
    BY <1>1, <1>3
  <2>. QED
    BY <2>1 DEF OneMore
<1>. QED
  BY <1>2, <1>3

\* The send that begins keeps the invariant: the run is one attempt ahead of the dialog.
LEMMA SendBeginsKeeps ==
  ASSUME Inv, SendBegins
  PROVE  Inv'
<1>. DEFINE old == RunAttempts(investigation, flow.run)
            new == RunAttempts(investigation', flow.run)
<1>1. /\ flow # NoFlow /\ flow.pc = "acquire" /\ investigation' = Attempted
      /\ flow' = [flow EXCEPT !.pc = "send"] /\ KeepSession /\ UNCHANGED stored
  BY DEF SendBegins, IsOpen
<1>2. /\ flow \in Flows /\ Agree(flow, old) /\ Clean(flow) /\ old \in Seq(Attempts)
  BY <1>1, FlowFacts
<1>3. /\ Changed(investigation', flow.run) /\ new \in Seq(Attempts) /\ OneMore(old, new)
  BY <1>1, AttemptedFacts
<1>4. /\ flow.machine = "transferring" /\ \A m \in DOMAIN old : ~Pending(old[m])
  BY <1>1, QuietInTransfer
<1>5. /\ flow' \in Flows /\ flow'.pc = "send" /\ flow'.machine = "transferring"
      /\ flow'.run = flow.run /\ flow'.tries = flow.tries /\ flow'.values = flow.values
  BY <1>1, <1>2, <1>4 DEF Flows
<1>6. /\ Executes(investigation', flow.run) /\ investigation' # NoInvestigation
  BY <1>1, <1>3, ChangedFacts
<1>. HIDE DEF old, new
<1>7. Shape(flow', new)
  BY <1>2, <1>3, <1>5 DEF Shape, Watches, OneMore
<1>8. Agree(flow', new)
  <2>1. Ahead(flow) = 0 /\ Ahead(flow') = 1
    BY <1>1, <1>5 DEF Ahead
  <2>2. Len(new) = Len(old) + 1 /\ Len(old) \in Nat /\ Len(flow.tries) \in Nat
    BY <1>2, <1>3 DEF OneMore, Flows
  <2>. SUFFICES ASSUME NEW k \in 1 .. Len(flow.tries)
                PROVE  /\ flow.tries[k].number + 1 = Len(new) - Len(flow.tries) + k
                       /\ flow.tries[k].validity = "valid" =>
                            new[flow.tries[k].number].validity = "valid"
                       /\ flow.tries[k].validity \in {"missed", "user-restarted"} =>
                            new[flow.tries[k].number].validity = "invalid"
    BY <1>5, <2>1 DEF Agree
  <2>3. /\ flow.tries[k].number + 0 = Len(old) - Len(flow.tries) + k
        /\ flow.tries[k].validity = "valid" => old[flow.tries[k].number].validity = "valid"
        /\ flow.tries[k].validity \in {"missed", "user-restarted"} =>
             old[flow.tries[k].number].validity = "invalid"
    BY <1>2, <2>1 DEF Agree
  <2>4. flow.tries \in Seq([number : Nat \ {0}, validity : Validities])
    BY <1>2 DEF Flows
  <2>5. flow.tries[k] \in [number : Nat \ {0}, validity : Validities]
    BY <2>4, ElementOfSeq
  <2>6. flow.tries[k].number \in Nat \ {0}
    BY <2>5
  <2>7. /\ flow.tries[k].number + 1 = Len(new) - Len(flow.tries) + k
        /\ flow.tries[k].number \in 1 .. Len(old)
    <3>. DEFINE x == flow.tries[k].number
                a == Len(new)
                b == Len(old)
                c == Len(flow.tries)
    <3>1. /\ x \in Nat \ {0} /\ a = b + 1 /\ b \in Nat /\ c \in Nat /\ k \in 1 .. c
      BY <2>2, <2>6
    <3>2. x + 0 = b - c + k
      BY <2>3
    <3>. HIDE DEF x, a, b, c
    <3>3. x + 1 = a - c + k /\ x \in 1 .. b
      BY <3>1, <3>2
    <3>. QED
      BY <3>3 DEF x, a, b, c
  <2>8. flow.tries[k].number \in 1 .. Len(old)
    BY <2>7
  <2>9. new[flow.tries[k].number] = old[flow.tries[k].number]
    BY <1>2, <1>3, <2>8 DEF OneMore
  <2>10. /\ flow.tries[k].validity = "valid" => new[flow.tries[k].number].validity = "valid"
         /\ flow.tries[k].validity \in {"missed", "user-restarted"} =>
              new[flow.tries[k].number].validity = "invalid"
    BY <2>3, <2>9
  <2>. QED
    BY <2>7, <2>10
<1>9. Clean(flow')
  BY <1>2, <1>5 DEF Clean
<1>10. FlowOK(flow', investigation')
  BY <1>5, <1>6, <1>7, <1>8, <1>9 DEF FlowOK, new
<1>11. \A m \in DOMAIN new : ~Pending(new[m])
  BY <1>2, <1>3, <1>4, OneMoreQuiet
<1>12. Kept(stored', lastRun) /\ quarantined' \in BOOLEAN
       /\ UNCHANGED <<link, epoch, investigationEpoch, detached, lastRun>>
  BY <1>1 DEF KeepSession, Inv, SessionOK
<1>. QED
  BY <1>1, <1>3, <1>10, <1>11, <1>12, ChangedKeeps DEF new

\* A transfer that fails leaves a failed attempt in the dialog, which agrees with the run.
LEMMA FailedFacts ==
  ASSUME NEW fl \in Flows, NEW n \in Nat \ {0}, Clean(fl), NEW old \in Seq(Attempts),
         NEW new \in Seq(Attempts), Agree(fl, old), n = Len(new),
         Len(new) + Ahead(fl) = Len(old) + 1,
         \A m \in 1 .. Len(new) - 1 : new[m].validity = old[m].validity,
         quarantined' \in BOOLEAN
  PROVE  LET g == TransferFailed(fl, n)
         IN  /\ g \in Flows /\ g.run = fl.run /\ Shape(g, new) /\ Agree(g, new) /\ Clean(g)
             /\ ~Watches(g)
<1>. DEFINE g == TransferFailed(fl, n)
            t == [number |-> n, validity |-> "transfer-failed"]
            r == (link # NoDisplay /\ ~quarantined')
<1>1. "transfer-failed" \in Validities /\ "failed" \in Machines /\ fl.phase \in 0 .. 2
      /\ r \in BOOLEAN
  BY DEF Validities, Machines, Flows
<1>2. g = Returned([WithTry(fl, n, "transfer-failed") EXCEPT !.machine = "failed", !.retryable = r])
  BY DEF TransferFailed
<1>3. WithTry(fl, n, "transfer-failed") \in Flows
  <2>1. fl.tries \in Seq([number : Nat \ {0}, validity : Validities])
    BY DEF Flows
  <2>2. t \in [number : Nat \ {0}, validity : Validities]
    BY <1>1
  <2>3. Append(fl.tries, t) \in Seq([number : Nat \ {0}, validity : Validities])
    BY <2>1, <2>2
  <2>4. WithTry(fl, n, "transfer-failed") = [fl EXCEPT !.tries = Append(fl.tries, t)]
    BY DEF WithTry
  <2>. HIDE DEF t
  <2>. QED
    BY <2>3, <2>4 DEF Flows
<1>4. [WithTry(fl, n, "transfer-failed") EXCEPT !.machine = "failed", !.retryable = r] =
      [WithTry(fl, n, "transfer-failed") EXCEPT !.machine = "failed", !.retryable = r,
                                                !.phase = fl.phase]
  BY <1>3 DEF WithTry, Flows
<1>. HIDE DEF r
<1>5. /\ g \in Flows /\ g.tries = Append(fl.tries, t) /\ g.machine = "failed" /\ g.pc = "none"
      /\ g.run = fl.run /\ g.values = fl.values
  <2>1. g = WithReturned(fl, n, "transfer-failed", "failed", r, fl.phase)
    BY <1>2, <1>4 DEF WithReturned
  <2>. HIDE DEF g
  <2>2. g \in Flows /\ ReturnedAs(fl, g, n, "transfer-failed", "failed")
    BY <1>1, <2>1, ReturnedFacts
  <2>. QED
    BY <2>2 DEF ReturnedAs
<1>. HIDE DEF g
<1>6. t \in [number : Nat \ {0}, validity : Validities] /\ t.validity = "transfer-failed"
      /\ t.number = Len(new)
  BY <1>1
<1>. HIDE DEF t
<1>7. Shape(g, new) /\ ~Watches(g) /\ Ahead(g) = 0
  BY <1>5 DEF Shape, Watches, Ahead
<1>8. Agree(g, new)
  BY <1>5, <1>6, <1>7, AgreeAdded
<1>9. Clean(g)
  BY <1>5, <1>6, CleanAdded
<1>. QED
  BY <1>5, <1>7, <1>8, <1>9 DEF g

\* A precondition that throws keeps the invariant.
LEMMA RefusedKeeps ==
  ASSUME Inv, Refused
  PROVE  Inv'
<1>. DEFINE old == RunAttempts(investigation, flow.run)
            new == RunAttempts(investigation', flow.run)
<1>1. /\ flow # NoFlow /\ flow.pc = "acquire" /\ investigation' = Attempted
      /\ flow' = TransferFailed(flow, Len(old) + 1) /\ KeepSession /\ UNCHANGED stored
  BY DEF Refused, IsOpen, NextNumber
<1>2. /\ flow \in Flows /\ Agree(flow, old) /\ Clean(flow) /\ old \in Seq(Attempts)
  BY <1>1, FlowFacts
<1>3. /\ Changed(investigation', flow.run) /\ new \in Seq(Attempts) /\ OneMore(old, new)
  BY <1>1, AttemptedFacts
<1>4. \A m \in DOMAIN old : ~Pending(old[m])
  BY <1>1, QuietInTransfer
<1>5. /\ Executes(investigation', flow.run) /\ investigation' # NoInvestigation
  BY <1>1, <1>3, ChangedFacts
<1>6. Kept(stored', lastRun) /\ quarantined' \in BOOLEAN
      /\ UNCHANGED <<link, epoch, investigationEpoch, detached, lastRun>>
  BY <1>1 DEF KeepSession, Inv, SessionOK
<1>. HIDE DEF old, new
<1>7. /\ Len(old) + 1 = Len(new) /\ Len(new) \in Nat \ {0} /\ Ahead(flow) = 0
      /\ \A m \in 1 .. Len(new) - 1 : new[m].validity = old[m].validity
  BY <1>1, <1>2, <1>3 DEF OneMore, Ahead
<1>8. Len(new) + Ahead(flow) = Len(old) + 1
  BY <1>7
<1>9. /\ flow' \in Flows /\ flow'.run = flow.run /\ Shape(flow', new) /\ Agree(flow', new)
      /\ Clean(flow')
  BY <1>1, <1>2, <1>3, <1>6, <1>7, <1>8, FailedFacts
<1>10. FlowOK(flow', investigation')
  BY <1>5, <1>9 DEF FlowOK, new
<1>11. \A m \in DOMAIN new : ~Pending(new[m])
  BY <1>2, <1>3, <1>4, OneMoreQuiet
<1>. QED
  BY <1>1, <1>3, <1>10, <1>11, <1>6, ChangedKeeps DEF new

\* new is old with the transfer of its last attempt recorded.
LastTransferred(old, new, how, named) ==
  /\ Len(new) = Len(old) /\ DOMAIN new = DOMAIN old
  /\ \A m \in DOMAIN old :
       /\ m # Len(old) => new[m] = old[m]
       /\ new[m].validity = old[m].validity
  /\ new[Len(old)].transfer = how /\ new[Len(old)].on = link
  /\ new[Len(old)].named = named

\* Recording the transfer of the attempt that was begun last.
LEMMA TransferredFacts ==
  ASSUME Inv, flow # NoFlow, flow.pc = "send", NEW how \in {"failed", "done"},
         NEW named \in BOOLEAN, how = "done" => link # NoDisplay, NEW panel \in Tests \cup {NoTest}
  PROVE  LET old == RunAttempts(investigation, flow.run)
             new == RunAttempts(Transferred(how, named, panel), flow.run)
         IN  /\ Changed(Transferred(how, named, panel), flow.run) /\ new \in Seq(Attempts)
             /\ Len(old) \in Nat \ {0} /\ LastTransferred(old, new, how, named)
<1>. DEFINE k == RunIndex(investigation, flow.run)
            old == RunAttempts(investigation, flow.run)
            m == Len(old)
            j == Transferred(how, named, panel)
<1>1. /\ RecordOK(investigation, lastRun) /\ k \in DOMAIN investigation.runs
      /\ investigation.runs[k].id = flow.run /\ investigation \in Investigations
      /\ investigation # NoInvestigation /\ old \in Seq(Attempts) /\ Len(old) > 0
  BY FlowFacts DEF Shape
<1>2. link \in Displays \cup {NoDisplay} /\ (link # NoDisplay => investigation.binding = link)
  BY <1>1 DEF Inv, SessionOK, Bound
<1>3. old = investigation.runs[k].attempts
  BY DEF RunAttempts
<1>4. m \in DOMAIN investigation.runs[k].attempts /\ m \in Nat \ {0}
  BY <1>1, <1>3
<1>5. j = WithTransfer(investigation, k, m, how, named, link, panel)
  BY DEF Transferred, WithTransfer, LastNumber
<1>. HIDE DEF j, k, m, old
<1>6. RecordOK(j, lastRun) /\ TransferredAs(investigation, j, k, m, how, named, link)
  BY <1>1, <1>2, <1>4, <1>5, TransferRecorded
<1>7. Changed(j, flow.run)
  BY <1>1, <1>6 DEF Changed, TransferredAs
<1>8. j \in Investigations /\ RunAttempts(j, flow.run) = j.runs[k].attempts
  BY <1>7, ChangedFacts DEF k
<1>9. k \in DOMAIN j.runs
  BY <1>1, <1>6 DEF TransferredAs
<1>10. j.runs[k].attempts \in Seq(Attempts)
  BY <1>8, <1>9, RecordFields
<1>11. LastTransferred(old, j.runs[k].attempts, how, named)
  BY <1>3, <1>6 DEF TransferredAs, LastTransferred, m
<1>. QED
  BY <1>4, <1>7, <1>8, <1>10, <1>11 DEF j, old, m

\* A send that succeeds keeps the invariant: its attempt is the one observed from now on.
LEMMA SendSucceedsKeeps ==
  ASSUME Inv, SendSucceeds
  PROVE  Inv'
<1>. DEFINE old == RunAttempts(investigation, flow.run)
            new == RunAttempts(investigation', flow.run)
            n == Len(old)
            fl == [flow EXCEPT !.named = flow.named \/ Names]
            machine == IF Timed THEN "timed" ELSE "questions"
<1>1. /\ flow # NoFlow /\ flow.pc = "send" /\ link # NoDisplay
      /\ investigation' = Transferred("done", Names, flow.test)
      /\ UNCHANGED <<link, quarantined, epoch, investigationEpoch, detached, lastRun, stored>>
  BY DEF SendSucceeds, IsOpen
<1>2. flow' = Returned([WithTry(fl, n, "open") EXCEPT !.machine = machine, !.phase = 0])
  BY DEF SendSucceeds, LastNumber
<1>3. /\ flow \in Flows /\ Agree(flow, old) /\ Clean(flow) /\ old \in Seq(Attempts)
  BY <1>1, FlowFacts
<1>4. /\ flow.test \in Tests /\ flow.retryable \in BOOLEAN /\ Names \in BOOLEAN
      /\ fl \in Flows /\ fl.named = (flow.named \/ Names) /\ fl.tries = flow.tries
      /\ fl.values = flow.values /\ fl.test = flow.test /\ fl.run = flow.run
      /\ fl.retryable = flow.retryable /\ fl.pc = flow.pc
  BY <1>3 DEF Flows, Names
<1>5. /\ Changed(investigation', flow.run) /\ new \in Seq(Attempts)
      /\ n \in Nat \ {0} /\ LastTransferred(old, new, "done", Names)
  BY <1>1, <1>4, TransferredFacts
<1>6. \A m \in DOMAIN old : ~Pending(old[m])
  BY <1>1, QuietInTransfer
<1>7. /\ Executes(investigation', flow.run) /\ investigation' # NoInvestigation
  BY <1>1, <1>5, ChangedFacts
<1>8. Kept(stored', lastRun) /\ quarantined' \in BOOLEAN
      /\ UNCHANGED <<link, epoch, investigationEpoch, detached, lastRun>>
  BY <1>1 DEF Inv, SessionOK
<1>9. "open" \in Validities /\ machine \in Machines /\ 0 \in 0 .. 2
  BY DEF Validities, Machines
<1>. HIDE DEF fl
<1>10. WithTry(fl, n, "open") \in Flows
  <2>1. fl.tries \in Seq([number : Nat \ {0}, validity : Validities])
    BY <1>4 DEF Flows
  <2>2. [number |-> n, validity |-> "open"] \in [number : Nat \ {0}, validity : Validities]
    BY <1>5, <1>9
  <2>3. Append(fl.tries, [number |-> n, validity |-> "open"])
          \in Seq([number : Nat \ {0}, validity : Validities])
    BY <2>1, <2>2
  <2>4. WithTry(fl, n, "open") =
          [fl EXCEPT !.tries = Append(fl.tries, [number |-> n, validity |-> "open"])]
    BY DEF WithTry
  <2>. QED
    BY <1>4, <2>3, <2>4 DEF Flows
<1>11. flow' = WithReturned(fl, n, "open", machine, flow.retryable, 0)
  <2>1. WithTry(fl, n, "open").retryable = flow.retryable
    BY <1>4 DEF WithTry, Flows
  <2>2. [WithTry(fl, n, "open") EXCEPT !.machine = machine, !.phase = 0] =
        [WithTry(fl, n, "open") EXCEPT !.machine = machine, !.retryable = flow.retryable,
                                         !.phase = 0]
    BY <1>10, <2>1 DEF Flows
  <2>. QED
    BY <1>2, <2>2 DEF WithReturned
<1>12. (machine = "timed" /\ Timed) \/ (machine = "questions" /\ ~Timed)
  <2>1. CASE Timed
    BY <2>1
  <2>2. CASE ~Timed
    BY <2>2
  <2>. QED
    BY <2>1, <2>2
<1>. HIDE DEF old, new, n, machine
<1>13. flow' \in Flows /\ ReturnedAs(fl, flow', n, "open", machine)
  BY <1>4, <1>5, <1>9, <1>11, ReturnedFacts
<1>14. /\ flow' # NoFlow /\ flow'.run = flow.run /\ flow'.test = flow.test
       /\ flow'.values = flow.values /\ flow'.machine = machine /\ flow'.pc = "none"
       /\ flow'.tries = Append(flow.tries, [number |-> n, validity |-> "open"])
       /\ Len(flow'.tries) > 0 /\ LastTry(flow').number = n /\ LastTry(flow').validity = "open"
       /\ flow'.named = (flow.named \/ Names)
  BY <1>4, <1>13, NoFlowAssumption DEF ReturnedAs
<1>15. Len(new) = n /\ new[n].transfer = "done" /\ new[n].named = Names /\ Len(old) = n
  BY <1>5 DEF LastTransferred, n
<1>16. Watches(flow') /\ (TestTimed(flow') <=> Timed) /\ Observing(flow') = machine
       /\ Ahead(flow') = 0
  BY <1>12, <1>14 DEF Watches, Observing, TestTimed, Timed, Ahead
<1>17. Shape(flow', new)
  BY <1>12, <1>14, <1>15, <1>16 DEF Shape
<1>18. Agree(flow', new)
  <2>. DEFINE t == [number |-> n, validity |-> "open"]
  <2>1. /\ t \in [number : Nat \ {0}, validity : Validities] /\ t.validity = "open"
        /\ t.number = Len(new)
    BY <1>5, <1>9, <1>15
  <2>2. Len(new) + Ahead(flow) = Len(old) + 1
    BY <1>1, <1>5, <1>15 DEF Ahead
  <2>3. \A m \in 1 .. Len(new) - 1 : new[m].validity = old[m].validity
    <3>1. \A m \in 1 .. Len(new) - 1 : m \in DOMAIN old
      BY <1>3, <1>5, <1>15
    <3>. QED
      BY <1>5, <3>1 DEF LastTransferred
  <2>4. flow'.tries = Append(flow.tries, t)
    BY <1>14
  <2>. HIDE DEF t
  <2>. QED
    BY <1>3, <1>5, <1>16, <2>1, <2>2, <2>3, <2>4, AgreeAdded
<1>19. Clean(flow')
  <2>. DEFINE t == [number |-> n, validity |-> "open"]
  <2>1. t \in [number : Nat \ {0}, validity : Validities]
    BY <1>5, <1>9
  <2>2. flow'.tries = Append(flow.tries, t) /\ flow'.values = flow.values
    BY <1>14
  <2>. HIDE DEF t
  <2>. QED
    BY <1>3, <2>1, <2>2, CleanAdded
<1>20. FlowOK(flow', investigation')
  BY <1>7, <1>13, <1>14, <1>17, <1>18, <1>19 DEF FlowOK, new
<1>21. ASSUME NEW m \in DOMAIN new, Pending(new[m])
       PROVE  m = n /\ flow'.named
  <2>1. m = n
    BY <1>5, <1>6, <1>15, <1>21 DEF LastTransferred
  <2>. QED
    BY <1>14, <1>15, <1>21, <2>1 DEF Pending
<1>. QED
  BY <1>1, <1>5, <1>8, <1>14, <1>16, <1>20, <1>21, ChangedKeeps DEF new

\* A send that fails keeps the invariant: its attempt is settled at once.
LEMMA SendFailsKeeps ==
  ASSUME Inv, SendFails
  PROVE  Inv'
<1>. DEFINE k == RunIndex(investigation, flow.run)
            old == RunAttempts(investigation, flow.run)
            n == Len(old)
            new == RunAttempts(investigation', flow.run)
<1>1. /\ flow # NoFlow /\ flow.pc = "send"
      /\ quarantined' \in IF link = NoDisplay THEN {FALSE} ELSE BOOLEAN
      /\ UNCHANGED <<link, epoch, investigationEpoch, detached, lastRun, stored>>
      /\ flow' = TransferFailed(flow, n)
  BY DEF SendFails, IsOpen, LastNumber
<1>2. PICK panel \in {NoTest, investigation.panel} :
        investigation' = Settle(Transferred("failed", FALSE, panel), flow.run, n, "invalid")
  BY DEF SendFails, LastNumber
<1>3. quarantined' \in BOOLEAN /\ Kept(stored', lastRun)
  BY <1>1 DEF Inv
<1>4. /\ flow \in Flows /\ Agree(flow, old) /\ Clean(flow) /\ old \in Seq(Attempts)
      /\ investigation \in Investigations /\ k \in DOMAIN investigation.runs
      /\ investigation.runs[k].id = flow.run
  BY <1>1, FlowFacts
<1>5. panel \in Tests \cup {NoTest}
  BY <1>4 DEF Investigations
<1>. DEFINE mid == Transferred("failed", FALSE, panel)
            between == RunAttempts(mid, flow.run)
<1>6. /\ Changed(mid, flow.run) /\ between \in Seq(Attempts)
      /\ n \in Nat \ {0} /\ LastTransferred(old, between, "failed", FALSE)
  BY <1>1, <1>5, TransferredFacts
<1>7. /\ RunIndex(mid, flow.run) = k /\ mid \in Investigations /\ between = mid.runs[k].attempts
  BY <1>1, <1>6, ChangedFacts
<1>8. \A m \in DOMAIN old : ~Pending(old[m])
  BY <1>1, QuietInTransfer
<1>9. investigation' = Settle(mid, flow.run, n, "invalid")
  BY <1>2
<1>. HIDE DEF k, old, n, new, mid, between
<1>10. /\ RecordOK(mid, lastRun) /\ k \in DOMAIN mid.runs /\ mid.runs[k].id = flow.run
  BY <1>4, <1>6 DEF Changed
<1>11. /\ RecordOK(investigation', lastRun)
       /\ SettledAs(mid, investigation', k, n, "invalid")
  BY <1>9, <1>10, SettleOK
<1>12. Changed(investigation', flow.run)
  BY <1>6, <1>10, <1>11 DEF Changed, SettledAs
<1>13. /\ Executes(investigation', flow.run) /\ investigation' # NoInvestigation
       /\ investigation' \in Investigations
       /\ new = investigation'.runs[k].attempts
  BY <1>1, <1>12, ChangedFacts DEF k, new
<1>14. new \in Seq(Attempts)
  <2>1. k \in DOMAIN investigation'.runs
    BY <1>10, <1>11 DEF SettledAs
  <2>. QED
    BY <1>13, <2>1, RecordFields
<1>15. Len(new) = n /\ Len(old) = n
  BY <1>6, <1>7, <1>11, <1>13 DEF SettledAs, LastTransferred, n
<1>16. /\ \A m \in DOMAIN old : new[m].transfer = between[m].transfer
       /\ \A m \in DOMAIN old : m # n => new[m] = old[m]
       /\ DOMAIN new = DOMAIN old
  BY <1>6, <1>7, <1>11, <1>13, <1>15 DEF SettledAs, LastTransferred
<1>17. new[n].transfer = "failed"
  <2>1. n \in DOMAIN old
    BY <1>4, <1>6, <1>15
  <2>. QED
    BY <1>6, <1>15, <1>16, <2>1 DEF LastTransferred
<1>18. \A m \in DOMAIN new : ~Pending(new[m])
  BY <1>8, <1>16, <1>17 DEF Pending
<1>19. /\ Len(new) + Ahead(flow) = Len(old) + 1
       /\ \A m \in 1 .. Len(new) - 1 : new[m].validity = old[m].validity
  <2>1. \A m \in 1 .. Len(new) - 1 : m \in DOMAIN old /\ m # n
    BY <1>4, <1>6, <1>15
  <2>. QED
    BY <1>1, <1>6, <1>15, <1>16, <2>1 DEF Ahead
<1>20. /\ flow' \in Flows /\ flow'.run = flow.run /\ Shape(flow', new) /\ Agree(flow', new)
       /\ Clean(flow')
  BY <1>1, <1>3, <1>4, <1>6, <1>14, <1>15, <1>19, FailedFacts
<1>21. FlowOK(flow', investigation')
  BY <1>13, <1>20 DEF FlowOK, new
<1>. QED
  BY <1>1, <1>3, <1>12, <1>18, <1>21, ChangedKeeps DEF new

------------------------------------------------------------------------------
(* Results.                                                                *)

\* Recording a result for the attempt that was observed changes no attempt.
LEMMA ResultRecorded ==
  ASSUME Inv, flow # NoFlow, NEW j, Changed(j, flow.run),
         Number \in DOMAIN RunAttempts(j, flow.run),
         RunAttempts(j, flow.run)[Number].transfer = "done",
         NEW resolution \in Resolutions \ {"none"}, NEW current \in BOOLEAN
  PROVE  LET r == SettleRun(Result(j, resolution, current), flow.run, resolution)
         IN  /\ Changed(r, flow.run) /\ RunAttempts(r, flow.run) = RunAttempts(j, flow.run)
             /\ Len(r.completed) = Len(j.completed) + 1
<1>. DEFINE k == RunIndex(investigation, flow.run)
            d == RunAttempts(j, flow.run)[Number].on
            c == [test |-> flow.test, run |-> flow.run, resolution |-> resolution,
                  on |-> d, current |-> current]
            r == SettleRun(Result(j, resolution, current), flow.run, resolution)
<1>1. /\ flow \in Flows /\ k \in DOMAIN investigation.runs
      /\ investigation.runs[k].id = flow.run
  BY FlowFacts
<1>2. /\ RecordOK(j, lastRun) /\ j \in Investigations
      /\ RunAttempts(j, flow.run) = j.runs[k].attempts
      /\ k \in DOMAIN j.runs /\ j.runs[k].id = flow.run
  BY <1>1, ChangedFacts DEF Changed
<1>3. d = j.binding /\ d # NoDisplay
  <2>1. AttemptsOn(j.runs[k], j.binding)
    BY <1>2 DEF RecordOK, OneDisplay
  <2>. QED
    BY <1>2, <2>1 DEF AttemptsOn
<1>4. d \in Displays
  BY <1>2, <1>3, RecordFields
<1>5. c \in CompletedTests
  BY <1>1, <1>4 DEF CompletedTests, Flows
<1>6. r = SettleRun([j EXCEPT !.completed = Append(j.completed, c)], c.run, c.resolution)
  BY DEF Result
<1>7. c.run = j.runs[k].id /\ c.on = j.binding
  BY <1>2, <1>3
<1>. HIDE DEF k, d, c, r
<1>8. /\ RecordOK(r, lastRun) /\ r.binding = j.binding
      /\ DOMAIN r.runs = DOMAIN j.runs
      /\ \A l \in DOMAIN j.runs :
           r.runs[l].attempts = j.runs[l].attempts /\ r.runs[l].id = j.runs[l].id
      /\ Len(r.completed) = Len(j.completed) + 1
  BY <1>2, <1>5, <1>6, <1>7, ResultAdded
<1>9. Changed(r, flow.run)
  BY <1>8 DEF Changed
<1>10. RunAttempts(r, flow.run) = r.runs[k].attempts
  BY <1>9, ChangedFacts DEF k
<1>. QED
  BY <1>2, <1>8, <1>9, <1>10 DEF r

\* A record whose observed run has nothing pending is settled throughout.
LEMMA QuietSettled ==
  ASSUME Inv, flow # NoFlow, NEW j, Changed(j, flow.run),
         \A m \in DOMAIN RunAttempts(j, flow.run) : ~Pending(RunAttempts(j, flow.run)[m])
  PROVE  Kept(j, lastRun)
<1>1. Observed(NoFlow, j)
  BY ObservedChanged
<1>2. j # NoInvestigation
  BY ChangedFacts
<1>3. AllSettled(j)
  BY <1>1, <1>2 DEF Observed, AllSettled, RunSettled
<1>. QED
  BY <1>3 DEF Kept, Changed

\* What is settled before a result is recorded: nothing is pending any more.
LEMMA BeforeResultFacts ==
  ASSUME Inv, flow # NoFlow, flow.machine = "questions"
  PROVE  LET new == RunAttempts(BeforeResult, flow.run)
         IN  /\ Changed(BeforeResult, flow.run) /\ new \in Seq(Attempts)
             /\ Number \in DOMAIN new /\ new[Number].transfer = "done"
             /\ Agree(flow, new) /\ Shape(flow, new)
             /\ \A m \in DOMAIN new : ~Pending(new[m])
<1>. DEFINE old == RunAttempts(investigation, flow.run)
            new == RunAttempts(BeforeResult, flow.run)
<1>1. /\ Watches(flow) /\ Observing(flow) = "questions"
  BY DEF Watches, Observing
<1>2. /\ flow \in Flows /\ old \in Seq(Attempts) /\ Agree(flow, old) /\ Shape(flow, old)
      /\ Len(flow.tries) > 0 /\ Number = LastTry(flow).number /\ flow.pc = "none"
      /\ Ahead(flow) = 0 /\ Number \in DOMAIN old /\ old[Number].transfer = "done"
  BY <1>1, FlowFacts, ObservedFacts
<1>3. /\ Timed => LastTry(flow).validity \in {"valid", "missed"}
      /\ ~Timed => LastTry(flow).validity = "open"
  BY <1>1, <1>2 DEF Shape, TestTimed, Timed
<1>4. CASE Timed
  <2>1. BeforeResult = investigation
    BY <1>4 DEF BeforeResult
  <2>2. Changed(investigation, flow.run)
    BY FlowFacts DEF Changed
  <2>3. old[Number].validity \in {"valid", "invalid"}
    BY <1>2, <1>3, <1>4, LastNumberFacts
  <2>4. \A m \in DOMAIN old : ~Pending(old[m])
    <3>1. \A m \in DOMAIN old : Pending(old[m]) => m = Number
      BY <1>2, PendingFacts
    <3>2. ~Pending(old[Number])
      BY <2>3 DEF Pending
    <3>. QED
      BY <3>1, <3>2
  <2>. QED
    BY <1>2, <2>1, <2>2, <2>4
<1>5. CASE ~Timed
  <2>1. BeforeResult = Settle(investigation, flow.run, LastTry(flow).number, "valid")
    BY <1>2, <1>5 DEF BeforeResult
  <2>. HIDE DEF old, new
  <2>2. /\ Changed(BeforeResult, flow.run)
        /\ new \in Seq(Attempts) /\ Len(new) = Len(old) /\ DOMAIN new = DOMAIN old
        /\ \A l \in DOMAIN old :
             /\ l # LastTry(flow).number => new[l] = old[l]
             /\ new[l].transfer = old[l].transfer /\ new[l].on = old[l].on
    BY <2>1, SettledHere DEF old, new
  <2>3. \A m \in DOMAIN new : ~Pending(new[m])
    BY <1>1, <2>1, SettledQuiet DEF new
  <2>4. TriesClosed(flow, flow, "open") /\ SameBut(old, new, LastTry(flow).number)
    BY <1>3, <1>5, <2>2 DEF TriesClosed, SameBut
  <2>5. "open" \in Validities
    BY DEF Validities
  <2>6. Agree(flow, new)
    BY <1>2, <2>2, <2>4, <2>5, AgreeClosed
  <2>7. Shape(flow, new)
    BY <1>2, <2>2 DEF Shape
  <2>. QED
    BY <1>2, <2>2, <2>3, <2>6, <2>7 DEF new
<1>. QED
  BY <1>4, <1>5

\* submitGuidedObservations keeps the invariant.
LEMMA SubmitKeeps ==
  ASSUME Inv, NEW resolution \in {"settled", "retryable-incomplete"}, Submit(resolution)
  PROVE  Inv'
<1>. DEFINE between == RunAttempts(BeforeResult, flow.run)
            new == RunAttempts(investigation', flow.run)
<1>1. /\ flow # NoFlow /\ flow.machine = "questions"
      /\ investigation' = SettleRun(Result(BeforeResult, resolution, TRUE), flow.run, resolution)
      /\ flow' = [flow EXCEPT !.machine = "result"] /\ Persist /\ KeepSession
  BY DEF Submit, IsOpen
<1>2. /\ Changed(BeforeResult, flow.run) /\ between \in Seq(Attempts)
      /\ Number \in DOMAIN between /\ between[Number].transfer = "done"
      /\ Agree(flow, between) /\ Shape(flow, between)
      /\ \A m \in DOMAIN between : ~Pending(between[m])
  BY <1>1, BeforeResultFacts
<1>3. resolution \in Resolutions \ {"none"} /\ TRUE \in BOOLEAN
  BY DEF Resolutions
<1>4. Changed(investigation', flow.run) /\ new = between
  BY <1>1, <1>2, <1>3, ResultRecorded
<1>5. /\ Executes(investigation', flow.run) /\ investigation' # NoInvestigation
  BY <1>1, <1>4, ChangedFacts
<1>6. flow \in Flows /\ Clean(flow) /\ "result" \in Machines
  BY <1>1, FlowFacts DEF Machines
<1>7. /\ flow' \in Flows /\ flow'.machine = "result" /\ flow'.pc = flow.pc
      /\ flow'.run = flow.run /\ flow'.tries = flow.tries /\ flow'.values = flow.values
  BY <1>1, <1>6 DEF Flows
<1>. HIDE DEF between, new
<1>8. Shape(flow', new) /\ Agree(flow', new) /\ Clean(flow')
  <2>1. flow.pc = "none"
    BY <1>1, <1>2 DEF Shape
  <2>2. Shape(flow', new)
    BY <1>7, <2>1 DEF Shape, Watches
  <2>3. Agree(flow', new)
    BY <1>2, <1>4, <1>7 DEF Agree, Ahead
  <2>4. Clean(flow')
    BY <1>6, <1>7 DEF Clean
  <2>. QED
    BY <2>2, <2>3, <2>4
<1>9. FlowOK(flow', investigation')
  BY <1>5, <1>7, <1>8 DEF FlowOK, new
<1>10. \A m \in DOMAIN new : ~Pending(new[m])
  BY <1>2, <1>4
<1>11. Kept(investigation', lastRun)
  BY <1>1, <1>4, <1>10, QuietSettled DEF new
<1>12. Kept(stored', lastRun)
  BY <1>1, <1>11, PersistKeeps DEF Inv
<1>13. quarantined' \in BOOLEAN
       /\ UNCHANGED <<link, epoch, investigationEpoch, detached, lastRun>>
  BY <1>1 DEF KeepSession, Inv, SessionOK
<1>. QED
  BY <1>1, <1>4, <1>9, <1>10, <1>12, <1>13, ChangedKeeps DEF new

\* A submission that is rejected keeps the invariant.
LEMMA SubmitRejectedKeeps ==
  ASSUME Inv, SubmitRejected
  PROVE  Inv'
<1>. DEFINE new == RunAttempts(investigation', flow.run)
<1>1. /\ flow # NoFlow /\ flow.machine = "questions" /\ investigation' = BeforeResult
      /\ flow' = flow /\ KeepSession /\ UNCHANGED stored
  BY DEF SubmitRejected, IsOpen
<1>2. /\ Changed(investigation', flow.run)
      /\ Agree(flow, new) /\ Shape(flow, new)
      /\ \A m \in DOMAIN new : ~Pending(new[m])
  BY <1>1, BeforeResultFacts
<1>3. /\ Executes(investigation', flow.run) /\ investigation' # NoInvestigation
  BY <1>1, <1>2, ChangedFacts
<1>4. flow \in Flows /\ Clean(flow)
  BY <1>1, FlowFacts
<1>5. FlowOK(flow', investigation')
  BY <1>1, <1>2, <1>3, <1>4 DEF FlowOK
<1>6. Kept(stored', lastRun) /\ quarantined' \in BOOLEAN
      /\ UNCHANGED <<link, epoch, investigationEpoch, detached, lastRun>>
  BY <1>1 DEF KeepSession, Inv, SessionOK
<1>. QED
  BY <1>1, <1>2, <1>5, <1>6, ChangedKeeps

\* abandonGuidedTest keeps the invariant, with a display or without.
LEMMA AbandonKeeps ==
  ASSUME Inv, Abandon
  PROVE  Inv'
<1>. DEFINE mid == Settle(investigation, flow.run, LastTry(flow).number, "invalid")
            old == RunAttempts(investigation, flow.run)
            between == RunAttempts(mid, flow.run)
            new == RunAttempts(investigation', flow.run)
<1>1. flow # NoFlow /\ Watches(flow) /\ flow' = NoFlow /\ KeepSession
  BY DEF Abandon, Watching, IsOpen, Watches
<1>2. /\ flow \in Flows /\ Shape(flow, old) /\ Number = LastTry(flow).number
      /\ Number \in DOMAIN old /\ old[Number].transfer = "done" /\ flow.tries # <<>>
      /\ LastTry(flow) = flow.tries[Len(flow.tries)]
  BY <1>1, FlowFacts, ObservedFacts
<1>3. AttemptAbandoned = mid
  <2>1. CASE Timed /\ Observing(flow) = "timed"
    <3>1. LastIsOpen(flow)
      BY <1>1, <1>2, <2>1 DEF Shape, LastIsOpen
    <3>2. SettledBy(flow, "incomplete") = mid
      BY <1>2, <3>1 DEF SettledBy
    <3>. QED
      BY <2>1, <3>2 DEF AttemptAbandoned
  <2>2. CASE ~(Timed /\ Observing(flow) = "timed")
    BY <1>2, <2>2 DEF AttemptAbandoned
  <2>. QED
    BY <2>1, <2>2
<1>. HIDE DEF old
<1>4. /\ Changed(mid, flow.run) /\ DOMAIN between = DOMAIN old
      /\ \A l \in DOMAIN old : between[l].transfer = old[l].transfer
  BY <1>1, SettledHere DEF old
<1>5. \A m \in DOMAIN between : ~Pending(between[m])
  BY <1>1, SettledQuiet
<1>6. Number \in DOMAIN between /\ between[Number].transfer = "done"
  BY <1>2, <1>4
<1>. HIDE DEF mid, between, new
<1>7. /\ Changed(investigation', flow.run) /\ new = between
      /\ UNCHANGED stored \/ Persist
  <2>1. CASE link = NoDisplay \/ ~flow.named
    BY <1>3, <1>4, <2>1 DEF Abandon, new, between
  <2>2. CASE ~(link = NoDisplay \/ ~flow.named)
    <3>1. /\ investigation' = SettleRun(Result(mid, "abandoned", FALSE), flow.run, "abandoned")
          /\ Persist
      BY <1>3, <2>2 DEF Abandon
    <3>2. "abandoned" \in Resolutions \ {"none"} /\ FALSE \in BOOLEAN
      BY DEF Resolutions
    <3>3. LET r == SettleRun(Result(mid, "abandoned", FALSE), flow.run, "abandoned")
          IN  Changed(r, flow.run) /\ RunAttempts(r, flow.run) = RunAttempts(mid, flow.run)
      BY <1>1, <1>4, <1>6, <3>2, ResultRecorded DEF between
    <3>. QED
      BY <3>1, <3>3 DEF new, between
  <2>. QED
    BY <2>1, <2>2
<1>8. \A m \in DOMAIN new : ~Pending(new[m])
  BY <1>5, <1>7
<1>9. Kept(investigation', lastRun)
  BY <1>1, <1>7, <1>8, QuietSettled DEF new
<1>10. Kept(stored', lastRun)
  BY <1>7, <1>9, PersistKeeps DEF Inv
<1>11. quarantined' \in BOOLEAN
       /\ UNCHANGED <<link, epoch, investigationEpoch, detached, lastRun>>
  BY <1>1 DEF KeepSession, Inv, SessionOK
<1>12. FlowOK(flow', investigation')
  BY <1>1 DEF FlowOK
<1>. QED
  BY <1>1, <1>7, <1>8, <1>10, <1>11, <1>12, ChangedKeeps DEF new

------------------------------------------------------------------------------
(* The theorems.                                                           *)

\* The invariant holds initially.
LEMMA InitInv == Init => Inv
<1>. SUFFICES ASSUME Init
              PROVE  Inv
  OBVIOUS
<1>1. /\ link = NoDisplay /\ quarantined = FALSE /\ epoch = 0 /\ investigationEpoch = 0
      /\ lastRun = 0 /\ investigation = NoInvestigation /\ detached = NoInvestigation
      /\ stored = NoInvestigation /\ flow = NoFlow
  BY DEF Init, InvestigationInit
<1>2. 0 \in 0 .. MaxEpoch /\ 0 \in 0 .. MaxRuns
  BY InvestigationAssumption
<1>3. SessionOK
  BY <1>1, <1>2 DEF SessionOK
<1>. QED
  BY <1>1, <1>3 DEF Inv, Kept, Current, Bound, FlowOK, Observed

\* Every step keeps the invariant.
LEMMA NextInv == Inv /\ [Next]_vars => Inv'
<1>. SUFFICES ASSUME Inv, [Next]_vars
              PROVE  Inv'
  OBVIOUS
<1>1. CASE Elsewhere \/ OtherTransactions
  BY <1>1, ElsewhereStep
<1>2. CASE LinkDrops
  BY <1>2, LinkDropsKeeps
<1>3. CASE Opening
  BY <1>3, OpeningKeeps
<1>4. CASE StartStops
  BY <1>4, StoppedStartKeeps
<1>5. CASE Measuring
  <2>1. CASE MarkVisible \/ UndoMark
    BY <2>1, MarkingKeeps
  <2>2. CASE TimelineEnds
    BY <2>2, TimelineKeeps
  <2>3. CASE MarkMissed
    BY <2>3, MarkMissedKeeps
  <2>4. CASE RequestRetry \/ CancelRetry
    BY <2>4, DialogStepsKeep
  <2>. QED
    BY <1>5, <2>1, <2>2, <2>3, <2>4 DEF Measuring
<1>6. CASE Confirming
  <2>1. CASE Confirm \/ RetryFailed
    BY <2>1, DialogStepsKeep
  <2>2. CASE RetryTiming
    BY <2>2, RetryTimingKeeps
  <2>. QED
    BY <1>6, <2>1, <2>2 DEF Confirming
<1>7. CASE Preparing
  BY <1>7, RefusedKeeps, SendBeginsKeeps DEF Preparing
<1>8. CASE Sending
  BY <1>8, SendSucceedsKeeps, SendFailsKeeps DEF Sending
<1>9. CASE ReasonChanges
  BY <1>9, DialogStepsKeep
<1>10. CASE Finishing
  <2>1. ASSUME NEW resolution \in {"settled", "retryable-incomplete"}, Submit(resolution)
        PROVE  Inv'
    BY <2>1, SubmitKeeps
  <2>2. CASE SubmitRejected
    BY <2>2, SubmitRejectedKeeps
  <2>3. CASE Abandon
    BY <2>3, AbandonKeeps
  <2>4. CASE Close
    BY <2>4, CloseKeeps
  <2>. QED
    BY <1>10, <2>1, <2>2, <2>3, <2>4 DEF Finishing
<1>11. CASE UNCHANGED vars
  BY <1>11 DEF vars, investigationVars, Inv, SessionOK, Kept, Current, Bound, FlowOK, Observed
<1>. QED
  BY <1>1, <1>2, <1>3, <1>4, <1>5, <1>6, <1>7, <1>8, <1>9, <1>10, <1>11 DEF Next

\* The transaction list never grows beyond its limit.
LEMMA ListedStays ==
  ASSUME listed \in 0 .. TransactionLimit, [Next]_vars
  PROVE  listed' \in 0 .. TransactionLimit
<1>1. Listed \in 0 .. TransactionLimit
  BY GuidedAssumption DEF Listed
<1>2. UNCHANGED listed \/ listed' = Listed
  <2>1. CASE Elsewhere \/ OtherTransactions \/ LinkDrops \/ StartStops
    BY <2>1 DEF Elsewhere, OtherTransactions, LinkDrops, StartStops
  <2>2. CASE Opening
    BY <2>2 DEF Opening, StartTest, Continue, MeasureAgain, ReopenTest, StartFlow
  <2>3. CASE Measuring \/ Confirming
    BY <2>3 DEF Measuring, Confirming, MarkVisible, TimelineEnds, EndTimeline, UndoMark,
                MarkMissed, RequestRetry, CancelRetry, Confirm, RetryFailed, RetryTiming,
                KeepSession, KeepInvestigation
  <2>4. CASE Preparing \/ Sending \/ ReasonChanges
    BY <2>4 DEF Preparing, Sending, Refused, SendBegins, SendSucceeds, SendFails, ReasonChanges,
                KeepSession, KeepInvestigation
  <2>5. CASE Finishing
    BY <2>5 DEF Finishing, Submit, SubmitRejected, Abandon, Close, KeepSession,
                KeepInvestigation
  <2>6. CASE UNCHANGED vars
    BY <2>6 DEF vars
  <2>. QED
    BY <2>1, <2>2, <2>3, <2>4, <2>5, <2>6 DEF Next
<1>. QED
  BY <1>1, <1>2

\* The inductive invariant: every record the program holds is of one display, numbers its
\* runs apart and concludes its closed runs; the dialog's attempts are the last ones of its
\* run, and only the one it observes is still open.
THEOREM Invariance == Spec => []Inv
<1>1. Inv /\ [Next]_vars => Inv'
  BY NextInv
<1>. QED
  BY InitInv, <1>1, PTL DEF Spec

\* Every variable has its type; whatever a record or the dialog is, it is well formed.
THEOREM TypeCorrect == Spec => []TypeOK
<1>. DEFINE ListOK == listed \in 0 .. TransactionLimit
<1>1. Inv /\ ListOK => TypeOK
  BY DEF Inv, SessionOK, Kept, Current, RecordOK, FlowOK, TypeOK
<1>2. Init => ListOK
  BY GuidedAssumption DEF Init
<1>3. ListOK /\ [Next]_vars => ListOK'
  BY ListedStays
<1>. HIDE DEF ListOK
<1>. QED
  BY Invariance, <1>1, <1>2, <1>3, PTL DEF Spec

\* No way out of the dialog leaves a recorded measurement open: an attempt whose content
\* reached the panel, and whose transfer names its transactions, is in progress only while its
\* own flow observes it.
THEOREM ObservedAttemptsSettleAlways == Spec => []ObservedAttemptsSettle
<1>1. Inv => ObservedAttemptsSettle
  BY DEF Inv, Observed, ObservedAttemptsSettle, Pending, Watches, Watching, LastTry, Number,
         IsOpen, RunsOf
<1>. QED
  BY Invariance, <1>1, PTL

\* The attempts of the dialog are numbered like those of its run and agree with them.
THEOREM AttemptsAgreeAlways == Spec => []AttemptsAgree
<1>1. Inv => AttemptsAgree
  <2>. SUFFICES ASSUME Inv, IsOpen
                PROVE  AttemptsAgree
    BY DEF AttemptsAgree
  <2>1. /\ Agree(flow, RunAttempts(investigation, flow.run))
        /\ flow.tries \in Seq([number : Nat \ {0}, validity : Validities])
    BY FlowFacts DEF IsOpen
  <2>2. DOMAIN flow.tries = 1 .. Len(flow.tries)
    BY <2>1
  <2>. QED
    BY <2>1, <2>2 DEF AttemptsAgree, Agree, Ahead
<1>. QED
  BY Invariance, <1>1, PTL

\* A discarded attempt leaves no value behind in the dialog.
THEOREM DiscardedAttemptsContributeNothingAlways == Spec => []DiscardedAttemptsContributeNothing
<1>1. Inv => DiscardedAttemptsContributeNothing
  <2>. SUFFICES ASSUME Inv, IsOpen
                PROVE  DiscardedAttemptsContributeNothing
    BY DEF DiscardedAttemptsContributeNothing
  <2>1. /\ Clean(flow) /\ flow.tries \in Seq([number : Nat \ {0}, validity : Validities])
    BY FlowFacts DEF IsOpen
  <2>2. DOMAIN flow.tries = 1 .. Len(flow.tries)
    BY <2>1
  <2>. QED
    BY <2>1, <2>2 DEF DiscardedAttemptsContributeNothing, Clean
<1>. QED
  BY Invariance, <1>1, PTL

LastOf(i, run) == SelectLastInSeq(i.completed, LAMBDA c : c.run = run)

\* The result that concludes a run is the last one selected for it.
LEMMA LastResult ==
  ASSUME NEW i \in Investigations, NEW k, NEW m \in Nat, Concludes(i, k, m)
  PROVE  LastOf(i, i.runs[k].id) = m
<1>. DEFINE S == {l \in 1 .. Len(i.completed) : i.completed[l].run = i.runs[k].id}
<1>1. i.completed \in Seq(CompletedTests) /\ DOMAIN i.completed = 1 .. Len(i.completed)
  BY RecordFields
<1>2. m \in S /\ S \subseteq Nat
  BY <1>1 DEF Concludes
<1>3. \A l \in S : l <= m
  BY <1>1, <1>2 DEF Concludes
<1>4. LastOf(i, i.runs[k].id) = IF S # {} THEN Max(S) ELSE 0
  BY DEF LastOf, SelectLastInSeq
<1>. HIDE DEF S
<1>5. \A x \in S : (\A y \in S : x >= y) => x = m
  BY <1>2, <1>3
<1>6. \A y \in S : m >= y
  BY <1>2, <1>3
<1>7. Max(S) = m
  BY <1>2, <1>5, <1>6 DEF Max
<1>. QED
  BY <1>2, <1>4, <1>7

\* The history of an investigation was made on the display it belongs to, its finished runs
\* have a result of their own, and a test has one unfinished run at most.
THEOREM HistoryIsSoundAlways == Spec => []HistoryIsSound
<1>1. Inv => HistoryOfOneDisplay
  <2>. SUFFICES ASSUME Inv, investigation # NoInvestigation
                PROVE  HistoryOfOneDisplay
    BY DEF HistoryOfOneDisplay
  <2>1. OneDisplay(investigation) /\ Bound
    BY DEF Inv, Current, RecordOK
  <2>2. link # NoDisplay => investigation.binding = link /\ investigationEpoch = epoch
    BY <2>1 DEF Bound
  <2>3. \A r \in RunsOf(investigation) : AttemptsOn(r, investigation.binding)
    BY <2>1 DEF OneDisplay, RunsOf
  <2>4. \A run : (\E r \in RunsOf(investigation) : r.id = run) => Executes(investigation, run)
    BY DEF RunsOf, Executes
  <2>5. \A k \in DOMAIN investigation.completed :
          investigation.completed[k].current
            \/ (\E r \in RunsOf(investigation) : r.id = investigation.completed[k].run) =>
          investigation.completed[k].on = investigation.binding
    BY <2>1, <2>4 DEF OneDisplay
  <2>. QED
    BY <2>2, <2>3, <2>5 DEF HistoryOfOneDisplay, AttemptsOn
<1>2. Inv => ResultsMatchRuns
  <2>. SUFFICES ASSUME Inv, investigation # NoInvestigation, NEW k \in DOMAIN investigation.runs
                PROVE  LET r == investigation.runs[k]
                           last == SelectLastInSeq(investigation.completed,
                                                   LAMBDA c : c.run = r.id)
                       IN  /\ ~r.open => last # 0
                                        /\ investigation.completed[last].resolution = r.resolution
                           /\ r.open => \A j \in DOMAIN investigation.runs :
                                investigation.runs[j].open /\ investigation.runs[j].test = r.test
                                  => j = k
    BY DEF ResultsMatchRuns
  <2>1. investigation \in Investigations /\ Concluding(investigation)
    BY DEF Inv, Current, RecordOK
  <2>2. ASSUME ~investigation.runs[k].open
        PROVE  LET last == SelectLastInSeq(investigation.completed,
                                           LAMBDA c : c.run = investigation.runs[k].id)
               IN  /\ last # 0
                   /\ investigation.completed[last].resolution = investigation.runs[k].resolution
    <3>1. PICK m \in Nat : Concludes(investigation, k, m)
      BY <2>1, <2>2 DEF Concluding
    <3>2. SelectLastInSeq(investigation.completed, LAMBDA c : c.run = investigation.runs[k].id) = m
      <4>1. LastOf(investigation, investigation.runs[k].id) = m
        BY <2>1, <3>1, LastResult
      <4>. QED
        BY <4>1 DEF LastOf, SelectLastInSeq
    <3>3. m # 0
      BY <2>1, <3>1, RecordFields DEF Concludes
    <3>. QED
      BY <3>1, <3>2, <3>3 DEF Concludes
  <2>3. investigation.runs[k].open =>
          \A j \in DOMAIN investigation.runs :
            investigation.runs[j].open /\ investigation.runs[j].test = investigation.runs[k].test
              => j = k
    BY <2>1 DEF Concluding
  <2>. QED
    BY <2>2, <2>3
<1>3. Inv => HistoryIsSound
  BY <1>1, <1>2 DEF HistoryIsSound
<1>. QED
  BY Invariance, <1>3, PTL
=============================================================================
