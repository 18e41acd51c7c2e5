------------------------------ MODULE Diagnostics ------------------------------
(***************************************************************************)
(* Diagnostic runs on an identified display (src/src/application/services/ *)
(* diagnostics-service.ts): the refresh of the device information and the  *)
(* brightness round trip, which reads the brightness, sets a test value,   *)
(* reads it back and restores what it found, whatever fails on the way.    *)
(* A response is recognized by its kind and opcode alone (drivers/types.ts *)
(* notificationMatchesExpectation); the executor takes one command at a    *)
(* time (app/executor.ts) and the user may set the brightness as well.     *)
(***************************************************************************)
EXTENDS Naturals, Sequences

CONSTANTS
  Levels,         \* brightness levels the user may set
  MaxConnections, \* bound on the connections
  MaxRuns,        \* bound on the runs and on the user's commands
  Late            \* a display may answer after the response time-out
ASSUME DiagnosticsAssumption ==
  Levels \subseteq 0 .. 255 /\ MaxConnections \in Nat /\ MaxRuns \in Nat /\ Late \in BOOLEAN

VARIABLES
  open,        \* the connection: down, up, or up and quarantined
  connections, \* connections so far
  subscribed,  \* the notifications of this connection are enabled
  brightness,  \* of the display
  inbox,       \* commands the display has not processed
  outbox,      \* answers that have not arrived
  call,        \* the command the executor waits for
  run,         \* the run in progress
  begun,       \* runs and commands of the user so far
  outcome      \* (history) the last finished run and the brightness it left
diagnosticsVars == <<open, connections, subscribed, brightness, inbox, outbox, call, run, begun, outcome>>

------------------------------------------------------------------------------
None == 256
AllLevels == Levels \cup {64, 192}
chooseTestBrightness(baseline) == IF baseline >= 128 THEN 64 ELSE 192

NoCall == [by |-> "none", kind |-> "none"]
NoRun == [pc |-> "idle", baseline |-> None, failed |-> FALSE, link |-> 0]
Steps == {"refresh", "baseline", "set-test", "verify-test", "restore", "verify-restore"}
Commands == [kind : {"query"}, level : {None}] \cup [kind : {"set"}, level : AllLevels]
DisplayAnswers == [kind : {"device-info", "command-echo"}, level : AllLevels]
\* A run begins with a refresh or with the baseline, once the notifications are enabled.
FirstSteps == {"refresh", "baseline"}
Enabling == [refresh |-> "enabling refresh", baseline |-> "enabling baseline"]
NoOutcome == [status |-> "none", baseline |-> None, left |-> None]

DiagnosticsTypeOK ==
  /\ open \in {"down", "up", "quarantined"} /\ connections \in 0 .. MaxConnections
  /\ subscribed \in BOOLEAN /\ (subscribed => open # "down")
  /\ brightness \in AllLevels
  /\ inbox \in Seq(Commands) /\ outbox \in Seq(DisplayAnswers)
  /\ call \in [by : {"none", "run", "user"}, kind : {"none", "device-info", "command-echo"}]
  /\ run \in [pc : Steps \cup {"idle", "enabling refresh", "enabling baseline"},
              baseline : AllLevels \cup {None}, failed : BOOLEAN, link : 0 .. MaxConnections]
  /\ (call.by = "run" <=> run.pc \in Steps)
  /\ begun \in 0 .. MaxRuns
  /\ outcome \in [status : {"none", "passed", "failed", "restore-failed"},
                  baseline : AllLevels \cup {None}, left : AllLevels \cup {None}]

DiagnosticsInit ==
  /\ open = "down" /\ connections = 0 /\ subscribed = FALSE
  /\ brightness \in Levels /\ inbox = <<>> /\ outbox = <<>>
  /\ call = NoCall /\ run = NoRun /\ begun = 0 /\ outcome = NoOutcome

------------------------------------------------------------------------------
(* The steps of a run.                                                     *)

CommandOf(step, baseline) ==
  CASE step = "set-test" -> [kind |-> "set", level |-> chooseTestBrightness(baseline)]
    [] step = "restore" -> [kind |-> "set", level |-> baseline]
    [] OTHER -> [kind |-> "query", level |-> None]
ExpectedBy(step) == IF step \in {"set-test", "restore"} THEN "command-echo" ELSE "device-info"

\* The brightness the display will have when it has processed what is written.
LastSet(i) == inbox[i].kind = "set" /\ \A j \in i + 1 .. Len(inbox) : inbox[j].kind # "set"
Settled ==
  IF \E i \in DOMAIN inbox : LastSet(i)
  THEN inbox[CHOOSE i \in DOMAIN inbox : LastSet(i)].level ELSE brightness

\* The run is recorded with its status.
Concluded(status, baseline) ==
  /\ run' = NoRun /\ call' = NoCall
  /\ outcome' = [status |-> status, baseline |-> baseline, left |-> Settled]
\* The command is planned, authorized and written; then the response is awaited.
Written(step, baseline, failed) ==
  /\ run' = [pc |-> step, baseline |-> baseline, failed |-> failed, link |-> connections]
  /\ call' = [by |-> "run", kind |-> ExpectedBy(step)]
  /\ inbox' = Append(inbox, CommandOf(step, baseline))
  /\ UNCHANGED <<outcome, open>>

\* A write that is refused sends nothing; one that times out quarantines the connection and
\* may still reach the display.
Refused == UNCHANGED <<inbox, open>>
TimedOut(step, baseline) ==
  open' = "quarantined" /\ inbox' \in {inbox, Append(inbox, CommandOf(step, baseline))}
Unwritten(step, baseline, status) ==
  (Refused \/ TimedOut(step, baseline)) /\ Concluded(status, baseline)

Restore(baseline, failed) ==
  Written("restore", baseline, failed) \/ Unwritten("restore", baseline, "restore-failed")
\* A step of the test that throws is followed by the restoration, which a quarantined
\* connection refuses.
Test(step, baseline) ==
  \/ Written(step, baseline, FALSE)
  \/ Restore(baseline, TRUE)
  \/ TimedOut(step, baseline) /\ Concluded("restore-failed", baseline)
\* A mutant that restores only after the test value was acknowledged.
RestoreIfAcknowledged(baseline) == Concluded("failed", baseline) /\ Refused
\* The test value was not acknowledged; it may have been set all the same.
NotAcknowledged(baseline) == Restore(baseline, TRUE)

\* What follows a response, or None after a time-out.
Continue(level) ==
  CASE run.pc = "refresh" ->
         Concluded(IF level = None THEN "failed" ELSE "passed", None) /\ Refused
    [] run.pc = "baseline" ->
         IF level = None THEN Concluded("failed", None) /\ Refused ELSE Test("set-test", level)
    [] run.pc = "set-test" ->
         IF level = None THEN NotAcknowledged(run.baseline) ELSE Test("verify-test", run.baseline)
    [] run.pc = "verify-test" -> Restore(run.baseline, level # chooseTestBrightness(run.baseline))
    [] run.pc = "restore" ->
         IF level = None THEN Concluded("restore-failed", run.baseline) /\ Refused
         ELSE \/ Written("verify-restore", run.baseline, run.failed)
              \/ Unwritten("verify-restore", run.baseline, "restore-failed")
    [] run.pc = "verify-restore" ->
         /\ Concluded(IF level # run.baseline THEN "restore-failed"
                      ELSE IF run.failed THEN "failed" ELSE "passed", run.baseline)
         /\ Refused

------------------------------------------------------------------------------
Begin(step) ==
  \/ Written(step, None, FALSE)
  \/ Unwritten(step, None, "failed")

\* runDiagnostic.  The notifications are enabled first; the executor takes one command.
StartRun(step) ==
  /\ run = NoRun /\ begun < MaxRuns /\ begun' = begun + 1
  /\ \/ open = "up" /\ subscribed /\ call = NoCall /\ Begin(step)
     \/ /\ open = "up" /\ ~subscribed
        /\ run' = [NoRun EXCEPT !.pc = Enabling[step], !.link = connections]
        /\ UNCHANGED <<open, inbox, call, outcome>>
     \/ /\ open # "up" \/ (subscribed /\ call # NoCall)
        /\ outcome' = [status |-> "failed", baseline |-> None, left |-> Settled]
        /\ UNCHANGED <<open, inbox, call, run>>
  /\ UNCHANGED <<connections, subscribed, brightness, outbox>>

\* A mutant that waits on when the connection it enabled is gone.
SettlesForThisLink ==
  \E step \in FirstSteps :
    /\ run.pc = Enabling[step] /\ run.link = connections /\ open = "up"
    /\ subscribed' = TRUE /\ Begin(step)
    /\ UNCHANGED <<connections, brightness, outbox, begun>>
\* startNotifications settles, perhaps for a connection that is gone.
SubscriptionSettles ==
  \E step \in FirstSteps :
    /\ run.pc = Enabling[step]
    /\ \/ run.link = connections /\ open = "up" /\ subscribed' = TRUE /\ Begin(step)
       \/ UNCHANGED subscribed /\ Concluded("failed", None) /\ Refused
    /\ UNCHANGED <<connections, brightness, outbox, begun>>

\* The user sets the brightness while no other command is out.
UserSets(level) ==
  /\ open = "up" /\ subscribed /\ call = NoCall /\ begun < MaxRuns /\ begun' = begun + 1
  /\ call' = [by |-> "user", kind |-> "command-echo"]
  /\ inbox' = Append(inbox, [kind |-> "set", level |-> level])
  /\ UNCHANGED <<open, connections, subscribed, brightness, outbox, run, outcome>>

\* The display processes its next command, or misses it; its answer may be lost.
PanelActs ==
  /\ inbox # <<>> /\ inbox' = Tail(inbox)
  /\ \/ UNCHANGED <<brightness, outbox>>
     \/ /\ brightness' = IF Head(inbox).kind = "set" THEN Head(inbox).level ELSE brightness
        /\ \/ UNCHANGED outbox
           \/ outbox' = Append(outbox, [level |-> brightness', kind |->
                IF Head(inbox).kind = "set" THEN "command-echo" ELSE "device-info"])
  /\ UNCHANGED <<open, connections, subscribed, call, run, begun, outcome>>

\* A notification settles the command it matches; one that matches none changes nothing here.
Deliver ==
  /\ outbox # <<>> /\ outbox' = Tail(outbox)
  /\ CASE Head(outbox).kind # call.kind -> Refused /\ UNCHANGED <<call, run, outcome>>
       [] Head(outbox).kind = call.kind /\ call.by = "run" -> Continue(Head(outbox).level)
       [] OTHER -> call' = NoCall /\ Refused /\ UNCHANGED <<run, outcome>>
  /\ UNCHANGED <<connections, subscribed, brightness, begun>>

\* The response time-out.  Unless displays answer late, nothing is under way any more.
TimeOut ==
  /\ call # NoCall
  /\ Late \/ (inbox = <<>> /\ outbox = <<>>)
  /\ IF call.by = "run" THEN Continue(None)
     ELSE call' = NoCall /\ Refused /\ UNCHANGED <<run, outcome>>
  /\ UNCHANGED <<connections, subscribed, brightness, outbox, begun>>

\* The link goes down: the command that is out fails and so does every later one of the run.
LinkDrops ==
  /\ open # "down" /\ open' = "down" /\ inbox' = <<>> /\ outbox' = <<>> /\ subscribed' = FALSE
  /\ call' = NoCall
  /\ IF call.by # "run" THEN UNCHANGED <<run, outcome>>
     ELSE Concluded(IF run.baseline = None THEN "failed" ELSE "restore-failed", run.baseline)
  /\ UNCHANGED <<connections, brightness, begun>>

LinkOpens ==
  /\ open = "down" /\ connections < MaxConnections
  /\ open' = "up" /\ connections' = connections + 1
  /\ UNCHANGED <<subscribed, brightness, inbox, outbox, call, run, begun, outcome>>

DiagnosticsNext ==
  \/ \E step \in FirstSteps : StartRun(step)
  \/ \E level \in Levels : UserSets(level)
  \/ SubscriptionSettles \/ PanelActs \/ Deliver \/ TimeOut \/ LinkDrops \/ LinkOpens

\* The response timer fires, the display works on what it receives, the browser delivers and
\* settles startNotifications.
DiagnosticsFairness ==
  WF_diagnosticsVars(SubscriptionSettles) /\ WF_diagnosticsVars(PanelActs)
    /\ WF_diagnosticsVars(Deliver) /\ WF_diagnosticsVars(TimeOut)
DiagnosticsSpec == DiagnosticsInit /\ [][DiagnosticsNext]_diagnosticsVars /\ DiagnosticsFairness

------------------------------------------------------------------------------
\* A brightness run that does not report a failed restoration leaves the display at the
\* brightness it found, whichever of its commands or answers was lost.
RestoredRunsRestore ==
  outcome.status \in {"passed", "failed"} /\ outcome.baseline # None =>
    outcome.left = outcome.baseline

\* Every run comes to an end and is recorded, whatever is lost and whenever the link goes.
EveryRunEnds == run # NoRun ~> run = NoRun
==============================================================================
