------------------------------- MODULE Updates -------------------------------
(***************************************************************************)
(* The software update of an installed application: the service worker of  *)
(* a build (src/public/sw.js) and, in every tab, the update port and the   *)
(* manager (src/src/adapters/updates/browser-updates.ts and                *)
(* src/src/app/update-manager.ts).                                         *)
(*                                                                         *)
(* One tab asks the waiting worker to take over; the worker asks every tab *)
(* whether it is idle, tells them when one is not, and activates when all  *)
(* are; the change of the controller reloads the tabs.  A tab that said it *)
(* is idle keeps its user interface inert until it hears more, or for 16   *)
(* seconds.  Messages between a tab and the worker arrive in order on one  *)
(* channel and in any order on two.                                        *)
(***************************************************************************)
EXTENDS Naturals, Sequences

CONSTANTS
  Tabs,
  MaxBuild,         \* bound on the builds that are deployed
  MaxRounds,        \* bound on the handshakes
  OneRequester,     \* nobody asks for an update while a handshake runs
  Prompt,           \* the browser activates a worker well within 12 seconds
  CalmDeployment    \* no build is installed while another one activates
ASSUME UpdatesAssumption ==
  /\ MaxBuild \in Nat \ {0} /\ MaxRounds \in Nat
  /\ {OneRequester, Prompt, CalmDeployment} \subseteq BOOLEAN

VARIABLES
  worker,    \* the registration: build of each of its three workers, 0 for none
  phase,     \* of the waiting worker, and of the activation
  round,     \* number of handshakes begun
  poll,      \* the handshake: who asked, and what each tab asked has answered
  caches,    \* complete caches in the browser
  opened,    \* caches opened by an install under way that still exist
  recorded,  \* the build ./active-build names, 0 for none
  tab        \* the tabs
updatesVars == <<worker, phase, round, poll, caches, opened, recorded, tab>>

------------------------------------------------------------------------------
Builds == 1 .. MaxBuild
\* A question carries the port of its handshake.
Messages == [type : {"check-ready", "update-cancelled"}, round : 1 .. MaxRounds]
Closed == [open |-> FALSE, page |-> 0, served |-> FALSE, controlled |-> FALSE,
           busy |-> FALSE, applying |-> FALSE, lock |-> 0, awaiting |-> FALSE,
           reply |-> FALSE, asks |-> FALSE, inbox |-> <<>>, changed |-> FALSE]
\* page is the build the tab runs, served that a worker served it, controlled
\* hadController; busy is blockingReason, applying the manager's state, lock the handshake
\* whose 16 seconds run; awaiting is activate(), asks its message on the way to the worker
\* and reply the error on the way back; changed an undelivered controllerchange.
TabStates == [open : BOOLEAN, page : 0 .. MaxBuild, served : BOOLEAN, controlled : BOOLEAN,
              busy : BOOLEAN, applying : BOOLEAN, lock : 0 .. MaxRounds,
              awaiting : BOOLEAN, reply : BOOLEAN, asks : BOOLEAN,
              inbox : Seq(Messages), changed : BOOLEAN]
Answers == {"unasked", "asked", "lost", "ready", "busy"}

UpdatesTypeOK ==
  /\ worker \in [installing : 0 .. MaxBuild, waiting : 0 .. MaxBuild, active : 0 .. MaxBuild]
  /\ phase \in {"idle", "asking", "skipping", "activating"}
  /\ round \in 0 .. MaxRounds
  /\ poll \in [by : Tabs, answer : [Tabs -> Answers]]
  /\ caches \subseteq Builds /\ opened \subseteq Builds
  /\ recorded \in 0 .. MaxBuild
  /\ tab \in [Tabs -> TabStates]

UpdatesInit ==
  /\ worker = [installing |-> 0, waiting |-> 0, active |-> 0]
  /\ phase = "idle"
  /\ round = 0
  /\ poll \in [by : Tabs, answer : {[t \in Tabs |-> "unasked"]}]
  /\ caches = {} /\ opened = {}
  /\ recorded = 0
  /\ tab = [t \in Tabs |-> Closed]

Open(t) == tab[t].open
SetTab(t, s) == tab' = [tab EXCEPT ![t] = s]
KeepWorker == UNCHANGED <<worker, phase, round, poll, caches, opened, recorded>>
KeepCaches == UNCHANGED <<caches, opened, recorded>>
Newest == IF worker.installing # 0 THEN worker.installing
          ELSE IF worker.waiting # 0 THEN worker.waiting ELSE worker.active

------------------------------------------------------------------------------
(* A tab.  A page comes from the active worker's shell or else from the    *)
(* network; a page from the network finds the build that is deployed.  The *)
(* page before it is gone: what it answered stays, what it was asked is    *)
(* never answered, and its request may still reach the worker.             *)
Loaded ==
  [Closed EXCEPT !.open = TRUE, !.controlled = worker.active # 0, !.served = worker.active # 0,
                 !.page = IF worker.active # 0 THEN worker.active
                          ELSE IF Newest # 0 THEN Newest ELSE 1]
Unload(t, next) ==
  /\ SetTab(t, [next EXCEPT !.asks = tab[t].asks])
  /\ poll' = [poll EXCEPT !.answer[t] = IF @ = "asked" THEN "lost"
                                        ELSE IF @ = "ready" THEN "unasked" ELSE @]
  /\ UNCHANGED <<worker, phase, round>> /\ KeepCaches
OpenTab(t) == ~Open(t) /\ SetTab(t, [Loaded EXCEPT !.asks = tab[t].asks]) /\ KeepWorker
CloseTab(t) == Open(t) /\ Unload(t, Closed)

\* Work starts from the user interface, which is inert while applying.
StartWork(t) ==
  /\ Open(t) /\ ~tab[t].busy /\ ~tab[t].applying
  /\ SetTab(t, [tab[t] EXCEPT !.busy = TRUE])
  /\ KeepWorker
FinishWork(t) == tab[t].busy /\ SetTab(t, [tab[t] EXCEPT !.busy = FALSE]) /\ KeepWorker

ChangePending == phase \in {"skipping", "activating"} \/ \E t \in Tabs : tab[t].changed
\* applyUpdate with a waiting worker and nothing that blocks it.  Without an active worker
\* the browser activates a waiting one at once.
Apply(t) ==
  /\ Open(t) /\ ~tab[t].applying /\ ~tab[t].busy
  /\ worker.waiting # 0 /\ worker.active # 0
  /\ Prompt => ~ChangePending
  /\ OneRequester => phase = "idle" /\ \A u \in Tabs : ~tab[u].awaiting /\ ~tab[u].asks
  /\ round < MaxRounds
  /\ SetTab(t, [tab[t] EXCEPT !.applying = TRUE, !.awaiting = TRUE, !.asks = TRUE])
  /\ KeepWorker

\* The reply port carries errors only; then applyUpdate clears applying.
RequestEnds(t) ==
  SetTab(t, [tab[t] EXCEPT !.applying = FALSE, !.awaiting = FALSE, !.reply = FALSE])
ReplyArrives(t) == tab[t].awaiting /\ tab[t].reply /\ RequestEnds(t) /\ KeepWorker
RequestTimesOut(t) ==
  /\ tab[t].awaiting
  /\ phase = "asking" => poll.by # t        \* 15 seconds against 3
  /\ Prompt => ~ChangePending
  /\ RequestEnds(t)
  /\ KeepWorker

\* A mutant that counts on the worker to end the wait.
AnswersForever(t) ==
  [tab[t] EXCEPT !.inbox = Tail(@), !.applying = @ \/ ~tab[t].busy]
\* What matrixsmith:check-ready does to the tab
AnswersReady(t) ==
  IF tab[t].busy THEN [tab[t] EXCEPT !.inbox = Tail(@)]
  ELSE [tab[t] EXCEPT !.inbox = Tail(@), !.applying = TRUE, !.lock = round]
HandleCheck(t) ==
  /\ tab[t].inbox # <<>> /\ Head(tab[t].inbox).type = "check-ready"
  /\ SetTab(t, AnswersReady(t))
  /\ poll' = IF phase = "asking" /\ Head(tab[t].inbox).round = round /\ poll.answer[t] = "asked"
             THEN [poll EXCEPT !.answer[t] = IF tab[t].busy THEN "busy" ELSE "ready"]
             ELSE poll
  /\ UNCHANGED <<worker, phase, round>> /\ KeepCaches

HandleCancelled(t) ==
  /\ tab[t].inbox # <<>> /\ Head(tab[t].inbox).type = "update-cancelled"
  /\ SetTab(t, [tab[t] EXCEPT !.inbox = Tail(@), !.applying = FALSE, !.lock = 0])
  /\ KeepWorker

\* The lock lasts 16 seconds: longer than the 3 the worker waits for answers and the 15 the
\* tab that asked waits for the change, both of which began earlier.
LockExpires(t) ==
  /\ tab[t].lock # 0
  /\ tab[t].lock = round => phase # "asking" /\ ~tab[poll.by].awaiting
  /\ Prompt => ~ChangePending
  /\ SetTab(t, [tab[t] EXCEPT !.applying = FALSE, !.lock = 0])
  /\ KeepWorker

\* controllerchange: the listener of activate() and the port's own
ControllerChanges(t) ==
  /\ tab[t].changed
  /\ IF tab[t].controlled \/ tab[t].awaiting
     THEN Unload(t, Loaded)
     ELSE SetTab(t, [tab[t] EXCEPT !.controlled = TRUE, !.changed = FALSE]) /\ KeepWorker

------------------------------------------------------------------------------
(* The worker.                                                             *)
Live == {t \in Tabs : Open(t)}

\* A new deployment is noticed and its caches are opened.
InstallBegins ==
  /\ worker.installing = 0 /\ Newest < MaxBuild
  /\ CalmDeployment => phase = "idle"
  /\ Live # {}
  /\ worker' = [worker EXCEPT !.installing = Newest + 1]
  /\ opened' = opened \cup {Newest + 1}
  /\ UNCHANGED <<phase, round, poll, caches, recorded, tab>>

\* All of the build is there: the caches hold it unless they were deleted meanwhile.  The
\* worker waits, and replaces one that waited (a handshake of that one is lost with it).
InstallSucceeds ==
  /\ worker.installing # 0
  /\ phase \in {"idle", "asking"}
  /\ worker' = [worker EXCEPT !.installing = 0, !.waiting = worker.installing]
  /\ caches' = caches \cup (opened \cap {worker.installing})
  /\ opened' = opened \ {worker.installing}
  /\ phase' = "idle"
  /\ tab' = [t \in Tabs |-> [tab[t] EXCEPT !.asks = FALSE]]
  /\ UNCHANGED <<round, poll, recorded>>

InstallFails ==
  /\ worker.installing # 0
  /\ opened' = opened \ {worker.installing}
  /\ worker' = [worker EXCEPT !.installing = 0]
  /\ UNCHANGED <<phase, round, poll, caches, recorded, tab>>

\* matrixsmith:apply-update: refused while activating, else every tab is asked.
HandleApply(t) ==
  /\ tab[t].asks /\ worker.waiting # 0
  /\ IF phase # "idle"
     THEN /\ SetTab(t, [tab[t] EXCEPT !.asks = FALSE, !.reply = TRUE])
          /\ KeepWorker
     ELSE /\ round < MaxRounds
          /\ round' = round + 1
          /\ phase' = "asking"
          /\ poll' = [by |-> t,
                      answer |-> [u \in Tabs |-> IF Open(u) THEN "asked" ELSE "unasked"]]
          /\ tab' = [u \in Tabs |->
                       LET s == IF u = t THEN [tab[u] EXCEPT !.asks = FALSE] ELSE tab[u]
                       IN  IF Open(u) THEN [s EXCEPT !.inbox = Append(@, [type |-> "check-ready", round |-> round'])] ELSE s]
          /\ UNCHANGED worker /\ KeepCaches

\* clientReady gives up after three seconds.
AnswerTimesOut(t) ==
  /\ phase = "asking" /\ poll.answer[t] \in {"asked", "lost"}
  /\ poll' = [poll EXCEPT !.answer[t] = "busy"]
  /\ UNCHANGED <<worker, phase, round, tab>> /\ KeepCaches

AllAnswered == \A t \in Tabs : poll.answer[t] \notin {"asked", "lost"}
\* A mutant that takes silence for a yes.
SomeReady == \E t \in Tabs : poll.answer[t] = "ready"
AllReady == \A t \in Tabs : poll.answer[t] \in {"unasked", "ready"}
Refuse ==
  /\ phase = "asking" /\ AllAnswered /\ ~AllReady
  /\ phase' = "idle"
  /\ tab' = [t \in Tabs |->
       LET told == IF Open(t) /\ poll.answer[t] \in {"ready", "busy"}
                   THEN [tab[t] EXCEPT !.inbox = Append(@, [type |-> "update-cancelled", round |-> round])] ELSE tab[t]
       IN  IF t = poll.by /\ tab[t].awaiting THEN [told EXCEPT !.reply = TRUE] ELSE told]
  /\ UNCHANGED <<worker, round, poll>> /\ KeepCaches
SkipWaiting ==
  /\ phase = "asking" /\ AllAnswered /\ AllReady
  /\ CalmDeployment => worker.installing = 0
  /\ phase' = "skipping"
  /\ UNCHANGED <<worker, round, poll, tab>> /\ KeepCaches

\* The browser activates a worker that skipped waiting, or whose registration controls no
\* page; the controlled tabs change over.
ActivateBegins ==
  /\ worker.waiting # 0
  /\ \/ phase = "skipping"
     \/ /\ phase \in {"idle", "asking"}
        /\ \A t \in Tabs : ~tab[t].controlled /\ ~tab[t].changed
        /\ CalmDeployment => worker.installing = 0
  /\ phase' = "activating"
  /\ worker' = [worker EXCEPT !.waiting = 0, !.active = worker.waiting]
  /\ tab' = [t \in Tabs |-> [tab[t] EXCEPT !.asks = FALSE,
                               !.changed = @ \/ (Open(t) /\ tab[t].controlled)]]
  /\ UNCHANGED <<round, poll>> /\ KeepCaches

\* Mutants that keep no caches but its own, or no caches but the previous worker's.
KeptOnlyOwn == {worker.active}
KeptRecorded == {recorded}
\* The caches the activation keeps
Kept == {worker.active, recorded}
ActivateEnds ==
  /\ phase = "activating"
  /\ phase' = "idle"
  /\ caches' = caches \cap Kept
  /\ opened' = opened \cap Kept
  /\ recorded' = worker.active
  /\ tab' = [t \in Tabs |-> [tab[t] EXCEPT !.changed = @ \/ (Open(t) /\ ~tab[t].controlled)]]
  /\ UNCHANGED <<worker, round, poll>>

------------------------------------------------------------------------------
TabActs ==
  \E t \in Tabs :
    OpenTab(t) \/ CloseTab(t) \/ StartWork(t) \/ FinishWork(t) \/ Apply(t)
TabHears ==
  \E t \in Tabs :
    \/ ReplyArrives(t) \/ RequestTimesOut(t)
    \/ HandleCheck(t) \/ HandleCancelled(t) \/ LockExpires(t) \/ ControllerChanges(t)
WorkerActs ==
  \/ \E t \in Tabs : HandleApply(t) \/ AnswerTimesOut(t)
  \/ Refuse \/ SkipWaiting \/ ActivateBegins \/ ActivateEnds
Deployment == InstallBegins \/ InstallSucceeds \/ InstallFails
UpdatesNext == TabActs \/ TabHears \/ WorkerActs \/ Deployment

\* Messages are delivered, timers fire, a download ends, and a worker that may activate does.
UpdatesFairness ==
  /\ \A t \in Tabs :
       /\ WF_updatesVars(ReplyArrives(t)) /\ WF_updatesVars(RequestTimesOut(t))
       /\ WF_updatesVars(HandleCheck(t)) /\ WF_updatesVars(HandleCancelled(t))
       /\ WF_updatesVars(LockExpires(t)) /\ WF_updatesVars(ControllerChanges(t))
       /\ WF_updatesVars(HandleApply(t)) /\ WF_updatesVars(AnswerTimesOut(t))
  /\ WF_updatesVars(Refuse) /\ WF_updatesVars(SkipWaiting)
  /\ WF_updatesVars(ActivateBegins) /\ WF_updatesVars(ActivateEnds)
  /\ WF_updatesVars(InstallSucceeds \/ InstallFails)
UpdatesSpec == UpdatesInit /\ [][UpdatesNext]_updatesVars /\ UpdatesFairness

------------------------------------------------------------------------------
(* Properties.                                                             *)

\* An update throws away the work only of a tab that opened after the worker had asked
\* (sw.js:137-152, browser-updates.ts:88-91).
OnlyNewTabsLoseWork ==
  [][ \A t \in Tabs : tab[t].busy /\ ControllerChanges(t) /\ tab'[t].page # tab[t].page =>
        poll.answer[t] = "unasked" ]_updatesVars

\* The build that serves the application can serve it offline (sw.js:22-109).
ActiveBuildIsComplete == worker.active # 0 => worker.active \in caches

\* A page the worker served finds the assets of its own build until it is replaced
\* (sw.js:97-105 and 184-190).
PagesFindTheirAssets == \A t \in Tabs : tab[t].served => tab[t].page \in caches

\* A tab that asked for an update, or stands still for one, does not do so forever
\* (browser-updates.ts:45-53 and 81).
NoTabStaysInert == \A t \in Tabs : tab[t].applying ~> ~tab[t].applying

\* An update leaves the caches that serve: those of the active build and of every page that a
\* worker served (the install, the activation and what it deletes, together).
CachesServe == ActiveBuildIsComplete /\ PagesFindTheirAssets
==============================================================================
