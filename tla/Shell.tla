-------------------------------- MODULE Shell --------------------------------
(***************************************************************************)
(* The shell around a workspace: which workspace is the active one         *)
(* (workspace-store.ts), the operations under way and the message they     *)
(* leave (notice-store.ts), the overlays and the browser's history         *)
(* (navigation-store.ts), the report dialog (report-store.ts) and the      *)
(* confirmation of an experimental send (content-send-store.ts).  The      *)
(* guided test behind its dialog is module Guided; here it is the states   *)
(* its dialog tells apart.                                                 *)
(*                                                                         *)
(* history.back() only asks: the browser goes back, and says so with       *)
(* popstate, after the code that asked has run.                            *)
(***************************************************************************)
EXTENDS Naturals, Sequences, FiniteSets, SequencesExt

CONSTANTS
  MaxOffline,     \* bound on the offline workspaces opened
  MaxRuns,        \* bound on the operations started
  MaxHistory      \* bound on the entries of the history
ASSUME ShellAssumption == {MaxOffline, MaxRuns, MaxHistory} \subseteq Nat

VARIABLES
  controller,   \* the active workspace: 1 is the one of the application, others are offline
  live,         \* _liveWorkspace, 0 for none
  retired,      \* workspaces disposed of
  connected,    \* the display of workspace 1 is connected
  runs,         \* operations of _run so far
  active,       \* those under way, in the order they began
  error,        \* whose failure is shown, 0 for none
  overlay,      \* _overlayKind
  history,      \* what the browser's Back leaves, the current entry last
  backs,        \* history.back() calls the browser has yet to carry out
  report,       \* _reportOpen
  pending,      \* _pendingSend: a plan awaits its confirmation
  guided,       \* what the dialog of a guided test shows
  continued     \* (history) a guided test was closed and the next one opened in the same call
shellVars == <<controller, live, retired, connected, runs, active, error, overlay, history,
               backs, report, pending, guided, continued>>

------------------------------------------------------------------------------
Workspaces == 1 .. MaxOffline + 1
Kinds == {"send", "transfer", "task"}
Overlays == {"report", "send", "guided"}
Dialogs == {"closed", "about", "transferring", "observing", "over"}
Operations == [run : 1 .. MaxRuns, kind : Kinds, workspace : Workspaces]

ShellTypeOK ==
  /\ controller \in Workspaces /\ live \in {0, 1} /\ retired \subseteq Workspaces
  /\ connected \in BOOLEAN
  /\ runs \in 0 .. MaxRuns /\ active \in Seq(Operations) /\ error \in 0 .. MaxRuns
  /\ overlay \in Overlays \cup {"none"}
  /\ history \in Seq({"route", "overlay"}) /\ backs \in 0 .. 1
  /\ {report, pending, continued} \subseteq BOOLEAN /\ guided \in Dialogs

ShellInit ==
  /\ controller = 1 /\ live = 0 /\ retired = {} /\ connected = FALSE
  /\ runs = 0 /\ active = <<>> /\ error = 0
  /\ overlay = "none" /\ history = <<"route">> /\ backs = 0
  /\ report = FALSE /\ pending = FALSE /\ guided = "closed" /\ continued = FALSE

Busy == active # <<>>
DialogOpen == report \/ pending \/ guided # "closed"
\* A dialog makes the page behind it inert, and nobody is quicker than the browser.
PageResponds == ~DialogOpen /\ backs = 0

KeepWorkspace == UNCHANGED <<controller, live, retired, connected>>
KeepRuns == UNCHANGED <<runs, active, error>>
KeepOverlay == UNCHANGED <<overlay, history, backs>>
KeepDialogs == UNCHANGED <<report, pending, guided>>

------------------------------------------------------------------------------
(* Overlays and the history.                                               *)

\* A mutant that leaves the entry of the overlay in the history.
ClosedOnly(kind, o, h, b) == IF o # kind THEN <<o, h, b>> ELSE <<"none", h, b>>
\* _openOverlay and _closeOverlay, as values of the three variables
Opened(kind, o, h, b) ==
  IF o # "none" THEN <<o, h, b>> ELSE <<kind, Append(h, "overlay"), b>>
Closed(kind, o, h, b) == IF o # kind THEN <<o, h, b>> ELSE <<"none", h, b + 1>>
SetOverlay(value) == overlay' = value[1] /\ history' = value[2] /\ backs' = value[3]
OpenOverlay(kind) == SetOverlay(Opened(kind, overlay, history, backs))
CloseOverlay(kind) == SetOverlay(Closed(kind, overlay, history, backs))

\* A route of the same workspace
Navigate ==
  /\ PageResponds /\ Len(history) < MaxHistory
  /\ history' = Append(history, "route")
  /\ UNCHANGED <<overlay, backs>> /\ KeepWorkspace /\ KeepRuns /\ KeepDialogs

\* onBack, when the current entry has become the one before.  A transfer keeps its dialog: its
\* entry is put back.  Closing the guided dialog from here asks for no further Back.
HandlePop(before) ==
  CASE overlay = "report" ->
         /\ report' = FALSE /\ overlay' = "none" /\ history' = before
         /\ UNCHANGED <<pending, guided>>
    [] overlay = "send" ->
         /\ pending' = FALSE /\ overlay' = "none" /\ history' = before
         /\ UNCHANGED <<report, guided>>
    [] overlay = "guided" /\ guided = "transferring" ->
         /\ history' = Append(before, "overlay")
         /\ UNCHANGED <<overlay, report, pending, guided>>
    [] overlay = "guided" /\ guided # "transferring" ->
         /\ guided' = "closed" /\ overlay' = "none" /\ history' = before
         /\ UNCHANGED <<report, pending>>
    [] OTHER -> history' = before /\ UNCHANGED <<overlay, report, pending, guided>>

\* The browser carries a history.back() out.
Traverse ==
  /\ backs > 0 /\ Len(history) > 1
  /\ backs' = backs - 1
  /\ HandlePop(Front(history))
  /\ KeepWorkspace /\ KeepRuns
\* The user goes back.
UserBack ==
  /\ backs = 0 /\ Len(history) > 1
  /\ HandlePop(Front(history))
  /\ UNCHANGED backs /\ KeepWorkspace /\ KeepRuns

OpenReport ==
  /\ PageResponds /\ Len(history) < MaxHistory
  /\ report' = TRUE /\ OpenOverlay("report")
  /\ UNCHANGED <<pending, guided>> /\ KeepWorkspace /\ KeepRuns
CloseReport ==
  /\ report /\ backs = 0
  /\ report' = FALSE /\ CloseOverlay("report")
  /\ UNCHANGED <<pending, guided>> /\ KeepWorkspace /\ KeepRuns

------------------------------------------------------------------------------
(* Operations.                                                             *)

Started(kind) == Append(active, [run |-> runs + 1, kind |-> kind, workspace |-> controller])
BeginRun(kind) ==
  /\ runs < MaxRuns
  /\ runs' = runs + 1 /\ active' = Started(kind) /\ error' = 0
\* A failure is shown when nothing began after it and the workspace is still the same.
FailureShown(op) ==
  IF op.run = runs /\ op.workspace = controller THEN op.run ELSE error
EndRun(k, ok) ==
  /\ active' = RemoveAt(active, k)
  /\ error' = IF ok THEN error ELSE FailureShown(active[k])
  /\ UNCHANGED runs

\* A connection, a diagnostic, the decoding of a file: it may overlap with others.
StartTask ==
  /\ PageResponds
  /\ BeginRun("task")
  /\ KeepWorkspace /\ KeepOverlay /\ KeepDialogs
EndTask ==
  \E k \in DOMAIN active, ok \in BOOLEAN :
    /\ active[k].kind = "task"
    /\ EndRun(k, ok)
    /\ IF active[k].workspace = 1 THEN connected' \in BOOLEAN ELSE UNCHANGED connected
    /\ UNCHANGED <<controller, live, retired>> /\ KeepOverlay /\ KeepDialogs
LoseConnection ==
  /\ connected /\ connected' = FALSE
  /\ UNCHANGED <<controller, live, retired>> /\ KeepRuns /\ KeepOverlay /\ KeepDialogs

\* _requestContentSend: a verified plan is sent at once, any other awaits its confirmation.
RequestSend(verified) ==
  /\ PageResponds /\ ~Busy /\ controller = 1 /\ connected /\ Len(history) < MaxHistory
  /\ IF verified
     THEN BeginRun("send") /\ KeepOverlay /\ KeepDialogs
     ELSE pending' = TRUE /\ OpenOverlay("send") /\ UNCHANGED <<report, guided>> /\ KeepRuns
  /\ KeepWorkspace
ConfirmSend ==
  /\ pending /\ ~Busy /\ backs = 0
  /\ BeginRun("send")
  /\ KeepWorkspace /\ KeepOverlay /\ KeepDialogs
CancelSend ==
  /\ pending /\ ~Busy /\ backs = 0
  /\ pending' = FALSE /\ CloseOverlay("send")
  /\ UNCHANGED <<report, guided>> /\ KeepWorkspace /\ KeepRuns
\* _transmitContent: the confirmation stays for another try unless the send succeeded.
EndSend ==
  \E k \in DOMAIN active, ok \in BOOLEAN :
    /\ active[k].kind = "send"
    /\ EndRun(k, ok)
    /\ IF ok THEN pending' = FALSE /\ CloseOverlay("send") ELSE UNCHANGED pending /\ KeepOverlay
    /\ UNCHANGED <<report, guided>> /\ KeepWorkspace

------------------------------------------------------------------------------
(* The dialog of a guided test.                                            *)
StartGuided ==
  /\ PageResponds /\ controller = 1 /\ connected /\ Len(history) < MaxHistory
  /\ guided' = "about" /\ OpenOverlay("guided")
  /\ UNCHANGED <<report, pending>> /\ KeepWorkspace /\ KeepRuns
BeginTransfer ==
  /\ guided = "about" /\ ~Busy /\ backs = 0
  /\ guided' = "transferring" /\ BeginRun("transfer")
  /\ UNCHANGED <<report, pending>> /\ KeepWorkspace /\ KeepOverlay
EndTransfer ==
  \E k \in DOMAIN active, ok \in BOOLEAN :
    /\ active[k].kind = "transfer"
    /\ EndRun(k, ok)
    /\ guided' = IF ok THEN "observing" ELSE "over"
    /\ UNCHANGED <<report, pending>> /\ KeepWorkspace /\ KeepOverlay
SubmitGuided ==
  /\ guided = "observing" /\ guided' = "over"
  /\ UNCHANGED <<report, pending>> /\ KeepWorkspace /\ KeepRuns /\ KeepOverlay
\* closeGuidedTest and abandonGuidedTest
CloseGuided ==
  /\ guided \in {"about", "observing", "over"} /\ backs = 0
  /\ guided' = "closed" /\ CloseOverlay("guided")
  /\ UNCHANGED <<report, pending>> /\ KeepWorkspace /\ KeepRuns
\* continueToNextTest, measureAgain: the dialog of the next test opens in the same call.
ContinueGuided ==
  /\ guided = "over" /\ backs = 0 /\ Len(history) < MaxHistory
  /\ guided' = "about" /\ continued' = TRUE
  /\ SetOverlay(Opened("guided", "none", history, backs + 1))
  /\ UNCHANGED <<report, pending>> /\ KeepWorkspace /\ KeepRuns

------------------------------------------------------------------------------
(* Workspaces.                                                             *)

Offline == 1 + Cardinality({w \in Workspaces : w # 1 /\ (w \in retired \/ w = controller)})
\* A mutant that keeps no workspace but the new one.
RetiredAlways(previous, kept) == retired \cup {previous}
\* retire, which spares the live workspace
Retired(previous, kept) == IF previous = kept THEN retired ELSE retired \cup {previous}
\* A mutant of the refusal.
NeverRefused == FALSE
ImportRefused == Busy
\* importBundle: a live display is kept to return to.  The route of the offline report is new.
ImportBundle ==
  /\ backs = 0 /\ ~DialogOpen /\ Offline < MaxOffline + 1 /\ Len(history) < MaxHistory
  /\ ~ImportRefused
  /\ LET kept == IF controller = 1 /\ connected THEN 1 ELSE live IN
     /\ live' = kept
     /\ controller' = Offline + 1
     /\ retired' = Retired(controller, kept)
  /\ history' = Append(history, "route")
  /\ UNCHANGED <<connected, overlay, backs>> /\ KeepRuns /\ KeepDialogs
ReturnToLive ==
  /\ live # 0 /\ PageResponds /\ Len(history) < MaxHistory
  /\ controller' = live /\ live' = 0
  /\ retired' = retired \cup {controller}
  /\ history' = Append(history, "route")
  /\ UNCHANGED <<connected, overlay, backs>> /\ KeepRuns /\ KeepDialogs

ShellStep ==
  \/ Navigate \/ Traverse \/ UserBack \/ OpenReport \/ CloseReport
  \/ StartTask \/ EndTask \/ LoseConnection
  \/ \E verified \in BOOLEAN : RequestSend(verified)
  \/ ConfirmSend \/ CancelSend \/ EndSend
  \/ StartGuided \/ BeginTransfer \/ EndTransfer \/ SubmitGuided \/ CloseGuided
  \/ ImportBundle \/ ReturnToLive
ShellNext == ContinueGuided \/ (ShellStep /\ UNCHANGED continued)
ShellSpec == ShellInit /\ [][ShellNext]_shellVars

------------------------------------------------------------------------------
(* Properties.                                                             *)

\* When the browser has carried out what it was asked, the overlay that Back would close is the
\* dialog that is open, and the history holds one entry for it, its last (_openOverlay,
\* _closeOverlay and onBack together); until a test is continued in place, which breaks it
\* (DialogsStayOpen).
OverlayIsTheOpenDialog ==
  backs = 0 /\ ~continued =>
    /\ overlay = "report" <=> report
    /\ overlay = "send" <=> pending
    /\ overlay = "guided" <=> guided # "closed"
    /\ Cardinality({k \in DOMAIN history : history[k] = "overlay"}) =
         (IF overlay = "none" THEN 0 ELSE 1)
    /\ overlay # "none" => Last(history) = "overlay"

\* The workspace in use, and the one to return to, have not been disposed of; and what is being
\* sent is sent by the workspace in use (importBundle, returnToLiveWorkspace, retire, _run).
WorkspaceInUseIsAlive ==
  /\ controller \notin retired /\ live \notin retired
  /\ \A k \in DOMAIN active :
       active[k].kind \in {"send", "transfer"} => active[k].workspace = controller

\* Neither the overlays nor the workspaces leave anything behind: Back closes the dialog that is
\* open, and nothing is sent by a workspace that is gone.
ShellIsConsistent == OverlayIsTheOpenDialog /\ WorkspaceInUseIsAlive

\* "Browser Back closes overlays before navigating feature history" (matrixsmith.spec.ts:205):
\* without the user, a dialog that has just opened stays open.
DialogsStayOpen ==
  [][ Traverse => (guided # "closed" => guided' # "closed") ]_shellVars
==============================================================================
