------------------------------- MODULE Guided -------------------------------
(***************************************************************************)
(* A guided hardware test, from the start button to its result:            *)
(* GuidedController (src/presentation/state/guided-controller.ts) with its *)
(* machine (application/machines/guided-test-machine.ts), over             *)
(* GuidedOrchestrationService, ObservationResolutionService and module     *)
(* Investigation.                                                          *)
(*                                                                         *)
(* The dialog is modal: while a flow is open nothing but its own buttons   *)
(* and an unexpected disconnect happens.  The send itself is module        *)
(* Transmission's; here it succeeds while the link is up, or fails.        *)
(* Observations are reduced to the fields a timer fills in, each with the  *)
(* number of the attempt that measured it; what a person answers, the      *)
(* claims a result establishes and the choice of the next test are inputs. *)
(***************************************************************************)
EXTENDS Investigation

CONSTANTS
  TimedTests,       \* tests with a timer
  MaxAttempts,      \* bound on the attempts of an investigation
  TransactionLimit, \* INPUT_LIMITS.transactions
  NoFlow
ASSUME GuidedAssumption ==
  /\ TimedTests \subseteq Tests
  /\ MaxAttempts \in Nat
  /\ TransactionLimit \in Nat \ {0}

VARIABLES
  flow,             \* _guidedFlow
  listed            \* length of _transactions, which the oldest leave at the limit
vars == <<investigationVars, flow, listed>>

------------------------------------------------------------------------------
(* STATIC_TIMELINE has two phases; these are the fields they fill in that  *)
(* the properties tell apart.                                              *)
Fields == {"initial-correct", "image-visible", "movement-start", "observation-end"}
Machines == {"about", "transferring", "timed", "questions", "retry", "result", "failed"}
Reasons == {"initial-experiment", "explicit-reopen", "explicit-measure-again",
            "explicit-retry-missed-observation"}
\* open stands for incomplete with endedAt null
Validities == {"open", "valid", "missed", "user-restarted", "transfer-failed"}

NoValues == [f \in Fields |-> 0]
IsOpen == flow # NoFlow
Timed == flow.test \in TimedTests
Number == flow.tries[Len(flow.tries)].number   \* of machine.run.runId while observing

Flows == [test : Tests, run : 1 .. MaxRuns, machine : Machines,
          back : {"timed", "questions"},       \* resume of retry-confirmation
          retryable : BOOLEAN,                 \* failure.retryable
          pc : {"none", "acquire", "send"},    \* where confirmGuidedTransfer waits
          again : BOOLEAN,                     \* it was called by retryTimingAttempt
          tails : Nat,                         \* such calls that wait for release()
          phase : 0 .. 2, values : [Fields -> Nat],
          tries : Seq([number : Nat \ {0}, validity : Validities]),
          named : BOOLEAN,                     \* transactionIds is not empty
          reason : Reasons]
\* null is no flow
ASSUME NoFlowAssumption == NoFlow \notin Flows

TypeOK ==
  /\ link \in Displays \cup {NoDisplay} /\ quarantined \in BOOLEAN
  /\ epoch \in 0 .. MaxEpoch /\ investigationEpoch \in 0 .. MaxEpoch
  /\ lastRun \in 0 .. MaxRuns
  /\ {investigation, detached, stored} \subseteq Investigations \cup {NoInvestigation}
  /\ flow \in Flows \cup {NoFlow}
  /\ listed \in 0 .. TransactionLimit

Init == InvestigationInit /\ flow = NoFlow /\ listed = 0

KeepSession ==
  UNCHANGED <<link, quarantined, epoch, investigationEpoch, detached, lastRun, listed>>
KeepInvestigation == UNCHANGED <<investigationVars, listed>>

\* _recordTransaction and _trimTransactions.  A transfer finds its own transactions behind
\* the length the list had before it: there are none when the list was full.
Listed == IF listed < TransactionLimit THEN listed + 1 ELSE listed
Names == Listed # listed

AttemptCount(i) == SumFunction([k \in DOMAIN i.runs |-> Len(i.runs[k].attempts)])
RunAttempts(i, run) == i.runs[RunIndex(i, run)].attempts
WithTry(fl, n, validity) ==
  [fl EXCEPT !.tries = Append(@, [number |-> n, validity |-> validity])]

------------------------------------------------------------------------------
(* Opening and closing.                                                    *)

\* The tail of startGuidedTest on the investigation i that ensureInvestigation left:
\* beginExperiment, planGuidedTest, which a quarantined transport refuses, and the new
\* flow.  opened is the reason a caller sets afterwards.
OpenFlow(i, t, same, opened) ==
  LET begun == Begun(i, t, same)
      k == RunIndex(begun[1], begun[2])
  IN  /\ begun[2] <= MaxRuns
      /\ AttemptCount(i) < MaxAttempts
      /\ investigation' = begun[1]
      /\ lastRun' = IF begun[2] > lastRun THEN begun[2] ELSE lastRun
      /\ flow' = IF quarantined THEN NoFlow ELSE
           [test |-> t, run |-> begun[2], machine |-> "about", back |-> "questions",
            retryable |-> FALSE, pc |-> "none", again |-> FALSE, tails |-> 0,
            phase |-> 0, values |-> NoValues, tries |-> <<>>, named |-> FALSE,
            reason |-> IF opened # "initial-experiment" THEN opened
                       ELSE IF begun[1].runs[k].reopened THEN "explicit-reopen"
                       ELSE "initial-experiment"]

\* startGuidedTest.  It does nothing when the test is unavailable; it stops after
\* ensureInvestigation when the recommendations cycle.
StartFlow(t, same, opened) ==
  /\ link # NoDisplay
  /\ OpenFlow(Ensured, t, same, opened)
  /\ EnsureEffects
  /\ UNCHANGED <<link, quarantined, epoch, stored, listed>>
\* No dialog, or one whose result is closed first
MayStart == IF flow = NoFlow THEN TRUE ELSE flow.machine = "result"
StartStops ==
  /\ MayStart
  /\ link # NoDisplay
  /\ Ensure
  /\ flow' = NoFlow
  /\ UNCHANGED listed

\* From the catalogue, the next action, or a stored choice
StartTest(t, same) == flow = NoFlow /\ StartFlow(t, same, "initial-experiment")

\* continueToNextTest: the recommended test must not have an outcome already.
Concluded(t) ==
  LET k == SelectLastInSeq(investigation.completed, LAMBDA c : c.test = t)
  IN  k # 0 /\ investigation.completed[k].resolution # "retryable-incomplete"
Continue(t, same) ==
  /\ IsOpen /\ flow.machine = "result"
  /\ ~Concluded(t)
  /\ StartFlow(t, same, "initial-experiment")

\* measureAgain
MeasureAgain(t, same) ==
  /\ MayStart
  /\ StartFlow(t, same, "explicit-measure-again")

\* reopenExperiment
ReopenTest(t, same) ==
  /\ flow = NoFlow /\ link # NoDisplay
  /\ OpenFlow([Ensured EXCEPT !.reopened = @ \cup {t}], t, same, "initial-experiment")
  /\ EnsureEffects
  /\ UNCHANGED <<link, quarantined, epoch, stored, listed>>
ReopenStops(t) == flow = NoFlow /\ link # NoDisplay /\ Reopen(t)

Watching == flow.machine \in {"timed", "questions", "retry"}
\* closeGuidedTest where it does not turn into abandonGuidedTest: nothing is observed, or
\* the flow names no transaction of what it transferred, and then nothing is settled.
Close ==
  /\ IsOpen
  /\ flow.machine # "transferring"
  /\ Watching => ~flow.named
  /\ flow' = NoFlow
  /\ KeepInvestigation

------------------------------------------------------------------------------
(* Measuring: _completeAttempt, _discardAttemptValues and the timeline.    *)

\* The observation state beneath a retry confirmation
Observing(fl) == IF fl.machine = "retry" THEN fl.back ELSE fl.machine

\* _completeAttempt on the flow and on the investigation; nothing when the last attempt is
\* settled already.
LastIsOpen(fl) == fl.tries # <<>> /\ fl.tries[Len(fl.tries)].validity = "open"
Completed(fl, validity) ==
  IF LastIsOpen(fl)
  THEN [fl EXCEPT !.tries[Len(fl.tries)].validity = validity, !.machine = "questions"]
  ELSE fl
SettledBy(fl, validity) ==
  IF LastIsOpen(fl)
  THEN Settle(investigation, fl.run, Number, IF validity = "valid" THEN "valid" ELSE "invalid")
  ELSE investigation

\* A mutant that resets the timer and keeps what it measured.
DiscardedKeepsValues(fl) == [fl EXCEPT !.phase = 0]
\* _discardAttemptValues (every field here is driven by the timer)
Discarded(fl) == [fl EXCEPT !.values = NoValues, !.phase = 0]

\* recordGuidedTimeline: the event of the first phase, or one that ends the timeline (the
\* image is wrong, movement began, it stayed still)
MarkVisible ==
  /\ IsOpen /\ flow.machine = "timed" /\ flow.phase = 0
  /\ flow' = [flow EXCEPT !.phase = 1,
                          !.values["image-visible"] = Number,
                          !.values["initial-correct"] = Number]
  /\ KeepInvestigation

EndTimeline(field, phase) ==
  /\ IsOpen /\ flow.machine = "timed" /\ flow.phase = phase
  /\ flow' = Completed([flow EXCEPT !.values[field] = Number], "valid")
  /\ investigation' = SettledBy(flow, "valid")
  /\ KeepSession /\ UNCHANGED stored

TimelineEnds ==
  \/ EndTimeline("initial-correct", 0)
  \/ EndTimeline("movement-start", 1)
  \/ EndTimeline("observation-end", 1)

UndoMark ==
  /\ IsOpen /\ flow.machine = "timed" /\ flow.phase = 1
  /\ flow' = [flow EXCEPT !.phase = 0, !.values["image-visible"] = 0,
                          !.values["initial-correct"] = 0]
  /\ KeepInvestigation

\* markObservationMissed
MarkMissed ==
  /\ IsOpen /\ flow.machine = "timed"
  /\ flow' = [Completed(Discarded(flow), "missed") EXCEPT
                !.machine = "retry", !.back = "questions",
                !.reason = "explicit-retry-missed-observation"]
  /\ investigation' = SettledBy(flow, "missed")
  /\ KeepSession /\ UNCHANGED stored

\* requestTimingRetry, offered for timed tests only; cancelTimingRetry
RequestRetry ==
  /\ IsOpen /\ Timed /\ flow.machine \in {"timed", "questions"}
  /\ flow' = [flow EXCEPT !.machine = "retry", !.back = flow.machine,
                !.reason = IF @ = "explicit-retry-missed-observation" THEN @
                           ELSE "explicit-measure-again"]
  /\ KeepInvestigation

CancelRetry ==
  /\ IsOpen /\ flow.machine = "retry"
  /\ flow' = [flow EXCEPT !.machine = flow.back]
  /\ KeepInvestigation

------------------------------------------------------------------------------
(* Transferring: confirmGuidedTransfer and runGuidedTestTransfer.          *)

\* START_TRANSFER; then the wake lock is awaited.
Confirmed(fl, again) == [fl EXCEPT !.machine = "transferring", !.pc = "acquire", !.again = again]
MayAttempt == AttemptCount(investigation) < MaxAttempts

Confirm ==
  /\ IsOpen /\ MayAttempt
  /\ flow.machine = "about"
  /\ flow' = Confirmed(flow, FALSE)
  /\ KeepInvestigation

\* retryFailedGuidedTransfer
RetryFailed ==
  /\ IsOpen /\ MayAttempt
  /\ flow.machine = "failed" /\ flow.retryable
  /\ flow' = Confirmed(flow, FALSE)
  /\ KeepInvestigation

\* retryTimingAttempt: an attempt under observation is superseded, its values discarded.
RetryTiming ==
  /\ IsOpen /\ MayAttempt
  /\ flow.machine = "retry"
  /\ IF flow.back = "timed"
     THEN /\ flow' = Confirmed(Completed(Discarded(flow), "user-restarted"), TRUE)
          /\ investigation' = SettledBy(flow, "user-restarted")
     ELSE /\ flow' = Confirmed(flow, TRUE)
          /\ UNCHANGED investigation
  /\ KeepSession /\ UNCHANGED stored

\* Mutants: numbers that start at zero, and numbers of this flow instead of the run's.
NextNumberFromZero == Len(RunAttempts(investigation, flow.run))
NextNumberOfFlow == Len(flow.tries) + 1
\* beginAttempt
NextNumber == Len(RunAttempts(investigation, flow.run)) + 1
Attempted ==
  [investigation EXCEPT !.runs[RunIndex(investigation, flow.run)].attempts =
     Append(@, [validity |-> "in-progress", transfer |-> "none", named |-> FALSE,
                on |-> NoDisplay])]

\* The call's way out: retryTimingAttempt changes the reason only after release().
Returned(fl) == [fl EXCEPT !.pc = "none", !.tails = IF fl.again THEN @ + 1 ELSE @]
\* A mutant that forgets the FAIL event.
TransferFailedUnnoticed(fl, n) == Returned(WithTry(fl, n, "transfer-failed"))
TransferFailed(fl, n) ==
  Returned([WithTry(fl, n, "transfer-failed") EXCEPT
              !.machine = "failed", !.retryable = link # NoDisplay /\ ~quarantined'])

\* After acquire(): the new attempt meets a precondition of runGuidedTestTransfer that
\* throws (no display, no plan in quarantine, or the diagnostic shows already), or the send
\* begins.
Showing == investigation.panel = flow.test /\ flow.reason = "initial-experiment"
Refused ==
  /\ IsOpen /\ flow.pc = "acquire"
  /\ link = NoDisplay \/ quarantined \/ Showing
  /\ KeepSession /\ UNCHANGED stored
  /\ investigation' = Attempted
  /\ flow' = TransferFailed(flow, NextNumber)

SendBegins ==
  /\ IsOpen /\ flow.pc = "acquire"
  /\ link # NoDisplay /\ ~quarantined /\ ~Showing
  /\ investigation' = Attempted
  /\ flow' = [flow EXCEPT !.pc = "send"]
  /\ KeepSession /\ UNCHANGED stored

\* The transfer is recorded with the attempt that begins it, the last one of the run.  What
\* the record of a failed transfer names is left out.
LastNumber == Len(RunAttempts(investigation, flow.run))
Transferred(transfer, named, panel) ==
  [investigation EXCEPT
     !.panel = panel,
     !.runs[RunIndex(investigation, flow.run)].attempts[LastNumber].transfer = transfer,
     !.runs[RunIndex(investigation, flow.run)].attempts[LastNumber].named = named,
     !.runs[RunIndex(investigation, flow.run)].attempts[LastNumber].on = link]

SendSucceeds ==
  /\ IsOpen /\ flow.pc = "send" /\ link # NoDisplay
  /\ investigation' = Transferred("done", Names, flow.test)
  /\ flow' = Returned([WithTry([flow EXCEPT !.named = @ \/ Names], LastNumber, "open") EXCEPT
                         !.machine = IF Timed THEN "timed" ELSE "questions", !.phase = 0])
  /\ listed' = Listed
  /\ UNCHANGED <<link, quarantined, epoch, investigationEpoch, detached, lastRun, stored>>

\* A send that is refused, or cannot subscribe, leaves panel and transactions alone; one
\* whose writes began records a transaction, what the panel shows is unknown, and the link
\* may be quarantined.
SendFails ==
  /\ IsOpen /\ flow.pc = "send"
  /\ quarantined' \in IF link = NoDisplay THEN {FALSE} ELSE BOOLEAN
  /\ \E begun \in IF quarantined' THEN {TRUE} ELSE BOOLEAN :
       /\ investigation' =
            Settle(Transferred("failed", FALSE, IF begun THEN NoTest ELSE investigation.panel),
                   flow.run, LastNumber, "invalid")
       /\ listed' = IF begun THEN Listed ELSE listed
  /\ flow' = TransferFailed(flow, LastNumber)
  /\ UNCHANGED <<link, epoch, investigationEpoch, detached, lastRun, stored>>

\* The continuation of retryTimingAttempt
ReasonChanges ==
  /\ IsOpen /\ flow.tails > 0
  /\ flow' = [flow EXCEPT !.tails = @ - 1, !.reason = "explicit-measure-again"]
  /\ KeepInvestigation

------------------------------------------------------------------------------
(* Results: submitGuidedObservations and abandonGuidedTest.                *)

Result(i, resolution, current) ==
  [i EXCEPT !.completed = Append(@,
     [test |-> flow.test, run |-> flow.run, resolution |-> resolution,
      on |-> RunAttempts(i, flow.run)[Number].on, current |-> current])]

\* A test without timer settles its attempt before the result is validated.
BeforeResult ==
  IF Timed THEN investigation ELSE Settle(investigation, flow.run, Number, "valid")

\* recordGuidedTestObservations: the required field of the timeline must be there.
Submit(resolution) ==
  /\ IsOpen /\ flow.machine = "questions"
  /\ link # NoDisplay
  /\ Timed => flow.values["initial-correct"] # 0
  /\ investigation' =
       SettleRun(Result(BeforeResult, resolution, TRUE), flow.run, resolution)
  /\ flow' = [flow EXCEPT !.machine = "result"]
  /\ Persist
  /\ KeepSession

\* The submission is rejected; only the attempt's settlement remains.
SubmitRejected ==
  /\ IsOpen /\ flow.machine = "questions"
  /\ investigation' = BeforeResult
  /\ UNCHANGED <<stored, flow>>
  /\ KeepSession

\* A mutant that stops a running timer without closing its attempt.
AttemptAbandonedOpen ==
  IF Timed /\ Observing(flow) = "timed" THEN investigation
  ELSE Settle(investigation, flow.run, Number, "invalid")
\* abandonGuidedTest of the controller; the attempt settles even when the service then
\* throws, because no transaction is named or no display is connected.
AttemptAbandoned ==
  IF Timed /\ Observing(flow) = "timed" THEN SettledBy(flow, "incomplete")
  ELSE Settle(investigation, flow.run, Number, "invalid")
Abandon ==
  /\ IsOpen
  /\ Watching
  /\ IF link = NoDisplay \/ ~flow.named
     THEN investigation' = AttemptAbandoned /\ UNCHANGED stored
     ELSE /\ investigation' =
               SettleRun(Result(AttemptAbandoned, "abandoned", FALSE), flow.run, "abandoned")
          /\ Persist
  /\ flow' = NoFlow
  /\ KeepSession

------------------------------------------------------------------------------
\* The dialog is modal: everything else happens while no flow is open.
Elsewhere ==
  /\ flow = NoFlow
  /\ UNCHANGED <<flow, listed>>
  /\ \/ \E d \in Displays : Connect(d)
     \/ ConnectFails
     \/ Disconnect
     \/ StartInvestigation
     \/ Ensure
     \/ StopInvestigation
     \/ ResumeStored
     \/ \E t \in Tests : ReopenStops(t)

\* What is transmitted or imported outside the dialog lengthens the list: other content, or
\* reads, probes, playback commands and the transactions of an imported log.
OtherTransactions ==
  /\ flow = NoFlow
  /\ OtherContent \/ UNCHANGED investigationVars
  /\ listed' = Listed
  /\ UNCHANGED flow

LinkDrops == Drop /\ UNCHANGED <<flow, listed>>

Opening ==
  \E t \in Tests, same \in BOOLEAN :
    StartTest(t, same) \/ Continue(t, same) \/ MeasureAgain(t, same) \/ ReopenTest(t, same)
Measuring == MarkVisible \/ TimelineEnds \/ UndoMark \/ MarkMissed \/ RequestRetry \/ CancelRetry
Confirming == Confirm \/ RetryFailed \/ RetryTiming
Preparing == Refused \/ SendBegins
Sending == SendSucceeds \/ SendFails
Finishing ==
  \/ \E resolution \in {"settled", "retryable-incomplete"} : Submit(resolution)
  \/ SubmitRejected \/ Abandon \/ Close

Next ==
  \/ Elsewhere \/ OtherTransactions \/ LinkDrops
  \/ Opening \/ StartStops
  \/ Measuring \/ Confirming \/ Preparing \/ Sending \/ ReasonChanges
  \/ Finishing

\* acquire() never rejects and a send returns (EverySendSettles of module Transmission).
Fairness == WF_vars(Preparing) /\ WF_vars(Sending)
Spec == Init /\ [][Next]_vars /\ Fairness

------------------------------------------------------------------------------
(* Properties.                                                             *)

RunsOf(i) == {i.runs[k] : k \in DOMAIN i.runs}

\* The current investigation belongs to the connected display and its epoch, and every
\* transfer of its history, and every result it executed or that still counts as current
\* evidence, was made on the display it is bound to (investigation-service.ts:69-122).
HistoryOfOneDisplay ==
  investigation # NoInvestigation =>
    /\ link # NoDisplay => investigation.binding = link /\ investigationEpoch = epoch
    /\ \A r \in RunsOf(investigation) : \A n \in DOMAIN r.attempts :
         r.attempts[n].transfer = "done" => r.attempts[n].on = investigation.binding
    /\ \A k \in DOMAIN investigation.completed :
         LET c == investigation.completed[k]
         IN  c.current \/ (\E r \in RunsOf(investigation) : r.id = c.run)
               => c.on = investigation.binding

\* An attempt whose content reached the panel, recorded with its transactions, stays in
\* progress only while its own flow observes it: no way out of the dialog leaves such a
\* measurement open (guided-controller.ts:201-218 and 228-247).  A transfer made when the
\* transaction list was full names none, and closing the dialog settles nothing for it.
ObservedAttemptsSettle ==
  investigation # NoInvestigation =>
    \A r \in RunsOf(investigation) : \A n \in DOMAIN r.attempts :
      LET a == r.attempts[n]
      IN  a.transfer = "done" /\ a.named /\ a.validity = "in-progress" =>
            IsOpen /\ Watching /\ flow.run = r.id /\ Number = n

\* The attempts of the dialog and those of the experiment run are numbered alike and agree
\* on which were valid (guided-controller.ts:707-710).
AttemptsAgree ==
  IsOpen =>
    LET theirs == RunAttempts(investigation, flow.run)
        ahead == IF flow.pc = "send" THEN 1 ELSE 0
    IN  \A k \in DOMAIN flow.tries :
          LET mine == flow.tries[k]
          IN  /\ mine.number + ahead = Len(theirs) - Len(flow.tries) + k
              /\ mine.validity = "valid" => theirs[mine.number].validity = "valid"
              /\ mine.validity \in {"missed", "user-restarted"} =>
                   theirs[mine.number].validity = "invalid"

\* A discarded attempt leaves no value behind: whatever the timer filled in was measured by
\* an attempt that is valid or still open (markObservationMissed, retryTimingAttempt).
DiscardedAttemptsContributeNothing ==
  IsOpen => \A f \in Fields : flow.values[f] # 0 =>
    \E k \in DOMAIN flow.tries :
      flow.tries[k].number = flow.values[f] /\ flow.tries[k].validity \in {"open", "valid"}

\* A finished run has a result of its own and the same resolution as its last result; an
\* unfinished one is the only one of its test (observation-resolution-service.ts:122-123).
ResultsMatchRuns ==
  investigation # NoInvestigation =>
    \A k \in DOMAIN investigation.runs :
      LET r == investigation.runs[k]
          last == SelectLastInSeq(investigation.completed, LAMBDA c : c.run = r.id)
      IN  /\ ~r.open => last # 0 /\ investigation.completed[last].resolution = r.resolution
          /\ r.open => \A j \in DOMAIN investigation.runs :
               investigation.runs[j].open /\ investigation.runs[j].test = r.test => j = k

\* The history of an investigation was made on one display, and its runs and its results agree.
HistoryIsSound == HistoryOfOneDisplay /\ ResultsMatchRuns

\* The dialog refuses to close during a transfer, so every transfer has to end by itself.
EveryTransferEnds ==
  (IsOpen /\ flow.machine = "transferring") ~> (IsOpen /\ flow.machine # "transferring")

\* Every value of a timed result was measured in the attempt it is recorded for
\* (timing.ts:70: "Observation values captured during this attempt").
ValuesOfOwnAttempt ==
  IsOpen /\ Timed /\ flow.machine \in {"questions", "result"} =>
    \A f \in Fields : flow.values[f] \in {0, Number}

\* Closing the dialog after a transfer leaves a record (guided-controller.ts:201-202: "closing
\* is never a silent discard ... the abandonment is recorded as incomplete evidence").
ClosingLeavesARecord ==
  [][ IsOpen /\ Watching /\ flow' = NoFlow =>
        Len(investigation'.completed) > Len(investigation.completed) ]_vars

\* An attempt the dialog shows as failed is settled in the run
\* (guided-controller.ts:775-777: "the controller has already settled it").
FailedAttemptsAreSettled ==
  IsOpen => \A k \in DOMAIN flow.tries :
    flow.tries[k].validity = "transfer-failed" =>
      RunAttempts(investigation, flow.run)[flow.tries[k].number].validity = "invalid"
=============================================================================
