---------------------------- MODULE Investigation ----------------------------
(***************************************************************************)
(* InvestigationService and ExperimentService (src/application/services/)  *)
(* with the records they keep (src/investigation/investigation.ts and      *)
(* orchestration.ts) and the store actions that start, stop, save and      *)
(* resume an investigation (presentation/state/investigation-store.ts).    *)
(*                                                                         *)
(* An investigation belongs to one physical display: when another display  *)
(* connects it is detached with its whole execution history.  A display is *)
(* its browserDeviceId; the link is what module Connection describes, here *)
(* only the display whose fingerprint the session holds.  Claims, goals,   *)
(* notes, the recommendation trail and time stamps are left out; a display *)
(* program is the test whose diagnostic it is.                             *)
(***************************************************************************)
EXTENDS Naturals, Sequences, SequencesExt

CONSTANTS
  Tests,            \* guided tests
  Displays,         \* physical displays
  NoDisplay, NoTest, NoInvestigation,
  MaxEpoch,         \* bound on connection epochs
  MaxRuns           \* bound on experiment runs
ASSUME InvestigationAssumption ==
  /\ NoDisplay \notin Displays
  /\ NoTest \notin Tests
  /\ MaxEpoch \in Nat /\ MaxRuns \in Nat

VARIABLES
  link,                \* display of session.fingerprint, NoDisplay for null
  quarantined,         \* the transport's state is "quarantined"
  epoch,               \* _connectionEpoch
  investigation,       \* _investigation
  investigationEpoch,  \* _investigationEpoch
  detached,            \* _detachedInvestigation
  stored,              \* newest entry of the stored history
  lastRun              \* number of experimentRunIds handed out

investigationVars ==
  <<link, quarantined, epoch, investigation, investigationEpoch, detached, stored, lastRun>>

------------------------------------------------------------------------------
(* The records.  An attempt holds the transfer recorded for it: none yet,  *)
(* failed or done, whether a transfer that is done names any transaction,  *)
(* and the display it went to; its id is its run and its place in the run. *)
(* A completed test keeps whether its claim evidence has the scope         *)
(* current-session.                                                        *)
Attempts == [validity : {"in-progress", "valid", "invalid"},
             transfer : {"none", "failed", "done"}, named : BOOLEAN,
             on : Displays \cup {NoDisplay}]
Resolutions == {"none", "settled", "retryable-incomplete", "abandoned"}
Runs == [id : 1 .. MaxRuns, test : Tests, open : BOOLEAN, resolution : Resolutions,
         reopened : BOOLEAN, attempts : Seq(Attempts)]
CompletedTests == [test : Tests, run : 1 .. MaxRuns, resolution : Resolutions \ {"none"},
                   on : Displays, current : BOOLEAN]
Investigations == [binding : Displays \cup {NoDisplay}, active : BOOLEAN,
                   completed : Seq(CompletedTests), runs : Seq(Runs),
                   panel : Tests \cup {NoTest}, reopened : SUBSET Tests]
\* null is no record
ASSUME NoInvestigationAssumption == NoInvestigation \notin Investigations

NewInvestigation(d) ==
  [binding |-> d, active |-> TRUE, completed |-> <<>>,
   runs |-> <<>>, panel |-> NoTest, reopened |-> {}]

Stopped(i) == [i EXCEPT !.active = FALSE]
Resumed(i) == [i EXCEPT !.active = TRUE]
PanelUnknown(i) == IF i = NoInvestigation THEN i ELSE [i EXCEPT !.panel = NoTest]
\* demoteInvestigationEvidence with demoteOrchestration
Demoted(i) ==
  [i EXCEPT !.completed = [k \in DOMAIN @ |-> [@[k] EXCEPT !.current = FALSE]],
            !.panel = NoTest]
WithoutOrchestration(i) == [i EXCEPT !.runs = <<>>, !.panel = NoTest, !.reopened = {}]

\* bindingAllowsSessionContinuity: only an equal browserDeviceId proves the unit.
SameDevice(a, b) == a # NoDisplay /\ a = b

RunIndex(i, run) == SelectInSeq(i.runs, LAMBDA r : r.id = run)
HasOpenRun(i, t) == \E k \in DOMAIN i.runs : i.runs[k].test = t /\ i.runs[k].open
OpenRun(i, t) == SelectInSeq(i.runs, LAMBDA r : r.test = t /\ r.open)
RetryableRun(i, t) ==
  SelectInSeq(i.runs, LAMBDA r : r.test = t /\ r.resolution = "retryable-incomplete")

\* settleAttempt of the n-th attempt of a run
Settle(i, run, n, validity) ==
  [i EXCEPT !.runs[RunIndex(i, run)].attempts[n].validity = validity]

\* A mutant that settles every run for good.
SettleRunForGood(i, run, resolution) ==
  LET k == RunIndex(i, run)
  IN  [i EXCEPT !.runs[k].open = FALSE, !.runs[k].resolution = "settled",
                !.reopened = @ \ {i.runs[k].test}]
\* settleExperiment
SettleRun(i, run, resolution) ==
  LET k == RunIndex(i, run)
  IN  [i EXCEPT !.runs[k].open = FALSE,
                !.runs[k].resolution = resolution,
                !.reopened = IF resolution = "retryable-incomplete" THEN @
                             ELSE @ \ {i.runs[k].test}]
------------------------------------------------------------------------------
InvestigationInit ==
  /\ link = NoDisplay
  /\ quarantined = FALSE
  /\ epoch = 0
  /\ investigation = NoInvestigation
  /\ investigationEpoch = 0
  /\ detached = NoInvestigation
  /\ stored = NoInvestigation
  /\ lastRun = 0

\* saveInvestigation keeps no belief about the panel; _persistInvestigation
Saved(i) == PanelUnknown(i)
Persist == stored' = IF investigation' = NoInvestigation THEN stored ELSE Saved(investigation')

\* A connect() or reconnectAuthorized() that succeeds, from the save before it to the
\* save of what _reconcileDeviceBoundary detached.  A connected transport refuses.
Connect(d) ==
  /\ epoch < MaxEpoch
  /\ link = NoDisplay
  /\ link' = d
  /\ epoch' = epoch + 1
  /\ IF investigation # NoInvestigation /\ SameDevice(investigation.binding, d)
     THEN /\ investigation' = PanelUnknown(investigation)
          /\ investigationEpoch' = epoch + 1
          /\ detached' = NoInvestigation
          /\ stored' = IF detached = NoInvestigation THEN Saved(investigation) ELSE Saved(detached)
     ELSE LET left == IF investigation = NoInvestigation THEN detached
                      ELSE Stopped(Demoted(investigation))
          IN  /\ investigation' = NoInvestigation
              /\ detached' = NoInvestigation
              /\ stored' = IF left = NoInvestigation THEN stored ELSE Saved(left)
              /\ UNCHANGED investigationEpoch
  /\ UNCHANGED <<quarantined, lastRun>>

\* The attempt that fails, or is refused, has saved the investigation.
ConnectFails ==
  /\ UNCHANGED <<link, quarantined, epoch, investigation, investigationEpoch, detached, lastRun>>
  /\ Persist

\* disconnect(): the session ends, the epoch does not.
Disconnect ==
  /\ link # NoDisplay
  /\ link' = NoDisplay
  /\ quarantined' = FALSE
  /\ investigation' = PanelUnknown(investigation)
  /\ UNCHANGED <<epoch, investigationEpoch, detached, stored, lastRun>>

\* _handleTransportState: an unexpected disconnect ends the epoch as well.
Drop ==
  /\ link # NoDisplay
  /\ epoch < MaxEpoch
  /\ link' = NoDisplay
  /\ quarantined' = FALSE
  /\ epoch' = epoch + 1
  /\ investigation' = PanelUnknown(investigation)
  /\ UNCHANGED <<investigationEpoch, detached, stored, lastRun>>

\* startInvestigation: an active investigation of this session is retargeted, any other
\* is detached.
OfThisSession == investigation # NoInvestigation /\ investigationEpoch = epoch
Started ==
  IF OfThisSession /\ investigation.active THEN investigation ELSE NewInvestigation(link)
Displaced ==
  IF investigation = NoInvestigation THEN detached ELSE Stopped(Demoted(investigation))

StartInvestigation ==
  /\ investigation' = Started
  /\ investigationEpoch' = epoch
  /\ detached' = IF OfThisSession /\ investigation.active THEN detached ELSE Displaced
  /\ Persist
  /\ UNCHANGED <<link, quarantined, epoch, lastRun>>

\* ensureInvestigation: what it returns, and what it does to the other two variables.
IsActive == investigation # NoInvestigation /\ investigation.active
Ensured ==
  IF IsActive THEN investigation
  ELSE IF OfThisSession THEN Resumed(investigation) ELSE Started
EnsureEffects ==
  IF IsActive \/ OfThisSession THEN UNCHANGED <<investigationEpoch, detached>>
  ELSE investigationEpoch' = epoch /\ detached' = Displaced

Ensure ==
  /\ investigation' = Ensured
  /\ EnsureEffects
  /\ UNCHANGED <<link, quarantined, epoch, stored, lastRun>>

\* stopActiveInvestigation, then saved
StopInvestigation ==
  /\ IsActive
  /\ investigation' = Stopped(investigation)
  /\ Persist
  /\ UNCHANGED <<link, quarantined, epoch, investigationEpoch, detached, lastRun>>

\* A mutant that resumes the execution history on any display.
AdoptedWithHistory(i) ==
  Resumed([Demoted(i) EXCEPT !.binding = IF link = NoDisplay THEN @ ELSE link])
\* resumeStoredInvestigation and adoptInvestigation: the execution history comes along
\* only when the same display is connected.
Adopted(i) ==
  LET same == SameDevice(i.binding, link)
      kept == IF same THEN Demoted(i) ELSE WithoutOrchestration(Demoted(i))
  IN  Resumed([kept EXCEPT !.binding = IF link = NoDisplay THEN @ ELSE link])

ResumeStored ==
  /\ stored # NoInvestigation
  /\ investigation' = Adopted(stored)
  /\ investigationEpoch' = epoch
  /\ UNCHANGED <<link, quarantined, epoch, detached, stored, lastRun>>

\* Any other persistent content replaces the diagnostic on the panel; one of its writes
\* may time out.
OtherContent ==
  /\ link # NoDisplay /\ ~quarantined
  /\ quarantined' \in BOOLEAN
  /\ investigation' = PanelUnknown(investigation)
  /\ UNCHANGED <<link, epoch, investigationEpoch, detached, stored, lastRun>>

\* reopenExperiment (followed by startGuidedTest)
Reopen(t) ==
  /\ investigation' = [Ensured EXCEPT !.reopened = @ \cup {t}]
  /\ EnsureEffects
  /\ UNCHANGED <<link, quarantined, epoch, stored, lastRun>>

\* beginExperiment within an investigation: the run in progress, a retryable one with the
\* same fingerprint (again), or a new one.  The result is <<investigation, run id>>.
Begun(i, t, again) ==
  IF HasOpenRun(i, t) THEN <<i, i.runs[OpenRun(i, t)].id>>
  ELSE IF again /\ RetryableRun(i, t) # 0
  THEN <<[i EXCEPT !.runs[RetryableRun(i, t)].open = TRUE], i.runs[RetryableRun(i, t)].id>>
  ELSE <<[i EXCEPT !.runs = Append(@, [id |-> lastRun + 1, test |-> t, open |-> TRUE,
                                       resolution |-> "none", reopened |-> t \in i.reopened,
                                       attempts |-> <<>>])],
         lastRun + 1>>
=============================================================================
