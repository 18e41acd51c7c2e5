# MatrixSmith in TLA+

MatrixSmith (`src/`) is a browser application that connects to LED matrix displays over Web
Bluetooth, sends them content and diagnostics, and helps a person find out what a display
can do.  It has no server: everything that can go wrong happens between browser tabs, their
timers, the Bluetooth stack, a physical panel that can only be observed by eye, a service
worker and local storage.  This directory models the parts of it that carry state, and the
algorithms those parts rely on, checks them with TLC and proves the most important results
with TLAPS.

Paths below are relative to `src/src/` unless they start with `src/`.

## 1. The system

### Components, their state and their operations

| Component | State it keeps | Operations | Module |
|---|---|---|---|
| Transport, `transport/web-bluetooth.ts` | transport state, connection id, device, event listeners, write queue | choose and open, reconnect to an authorized device, write, subscribe, quarantine, disconnect, `gattserverdisconnected`, advertisements | `Transport`; the write queue in `Transmission`, listeners in `Subscriptions`, advertisements in `Identification` |
| Connection service and machine, `application/services/connection-service.ts`, `application/machines/connection-machine.ts` | session fingerprint, machine state with the remembered connection, explicit-disconnect flag, connection epoch, subscriptions | connect, reconnectAuthorized, disconnect, dispose, transport-state handler, enable and restore notifications | `Connection`, `Subscriptions` |
| Transmission service, `application/services/transmission-service.ts` | staged panel program | plan, sendPersistentContent, send, probe | `Transmission`; probes in `Identification` |
| Authority and policy, `app/safety.ts`, `app/transmission-authorization.ts`, `core/transmission.ts` | experimental unlock, confirmed digest | prepare, authorize, release | `Transmission`, `Identification` |
| Executor, `app/executor.ts` | the running flag | execute: re-verify, write, pace, time out, wait for the response | `Transmission` |
| Router and protocol evidence, `app/notifications.ts`, `application/services/protocol-evidence-service.ts`, `application/state.ts` | armed waiters, notifications, transactions, compilations | arm, receive, reset, record, link | `Subscriptions` |
| Identification and geometry, `application/services/identification-service.ts`, `drivers/registry.ts`, `drivers/coolled/common/`, `profiles/`, `discovery/` | fingerprint, selection, profile, protocol resolution | match, probe, confirm the size, import | `Identification` |
| Device assessment, `domain/device/`, `presentation/state/content-send-store.ts` | none (pure); the send that awaits confirmation | assess, recommend an action, request a send | `Capabilities`; the dialog in `Shell` |
| Diagnostics, `application/services/diagnostics-service.ts`, `diagnostics/workflows.ts` | the run | brightness round trip with restoration, refresh | `Diagnostics` |
| Investigations, `application/services/investigation-service.ts`, `investigation/investigation.ts` | current and detached investigation, the epoch it belongs to, panel belief | device boundary, start, ensure, stop, adopt | `Investigation`, `Archive` |
| Experiments, `application/services/experiment-service.ts`, `investigation/orchestration.ts` | runs, attempts, transfers, reopened tests | begin and settle runs and attempts, reopen | `Investigation`, `Guided` |
| Guided tests, `presentation/state/guided-controller.ts`, `application/machines/guided-test-machine.ts`, `application/services/guided-orchestration-service.ts` | the open flow: machine, timer, values, attempts, transfer reason | open, transfer, mark, miss, undo, retry, submit, abandon, close, continue | `Guided`, `Characterization` |
| Evidence, `investigation/claims.ts` and its neighbours, `drivers/coolledux/guided-tests.ts` | claim evidence, completed tests | interpret an answer, resolve claims, gates, core plan, ranking | `Claims`, `GuidedTests`, `Characterization` |
| Storage, `storage/` | the history in local storage | load, save, limit, refuse, forget | `Archive` |
| Reports and bundles, `application/services/report-import-service.ts`, `diagnostics/bundle.ts`, `investigation/serialization.ts` | offline workspaces | export, redact, validate, open, resume | `Archive`, `Shell` |
| Shell, `presentation/state/` | workspaces, operations and their message, overlay and history, report, pending send | open and leave a workspace, run an operation, open and close dialogs, Back | `Shell` |
| Image editor, `presentation/state/content-editor-store.ts` | source, preview, settings, version | load, decode, fit, reprocess | `Editor` |
| Wake lock, `app/wake-lock.ts` | wanted, handle, listener | acquire, release, ask again | `WakeLock` |
| Updates, `app/update-manager.ts`, `adapters/updates/`, `src/public/sw.js` | the workers, caches, readiness of tabs | install, ask, answer, refuse, skip waiting, activate, reload | `Updates` |
| Drivers and codecs, `drivers/` | none (pure) | compile content, compress, chunk, decode receipts | `LzssCodes`, `Lzss`, `LzssTree`, `Upload`; tables in `GuidedTests`, `Capabilities`, `Identification` |
| Rendering, views, replay and fake transports, wiring | | | not modelled (section 9) |

### How they interact

Each tab is one event loop.  Components call each other synchronously and await the browser:
the chooser, GATT, `writeValue`, `startNotifications`, `stopNotifications`, image decoding,
the wake lock and timers.  Every such await is a place where any other operation can run.
Tabs share the service worker, its caches and local storage.

* `connect()` and `disconnect()` drive the transport; its state callback calls back into the
  connection service, which ends the session, resets the router, invalidates the panel belief
  and raises the connection epoch after an unexpected drop.
* A send authorizes a plan against the session, awaits its subscriptions, hands an owned
  copy to the executor and settles the panel belief when the last write was accepted or any
  step failed.  It moves the connection machine itself when a write times out.  What it and
  the notifications did is recorded as a transaction.
* A guided transfer opens an attempt, stages the program it is about to send, sends it, and
  settles the attempt if that fails; observation then settles it, and its interpretation
  becomes evidence, which opens gates, moves the core plan and selects the strategy with
  which later images are compiled.
* A successful connect lets the investigation service decide whether the investigation
  continues, or is detached and saved because another display is connected.
* Opening a report puts an offline workspace in the place of the live one; all its records
  pass the same validation as those of the history.
* A waiting service worker asks every tab whether it is idle before it takes over.

### What is hard

Interleaving of several sends with each other, with drops, with `disconnect()` and with
reconnects; state checked before an await and used after it; a timed-out write that is still
in the browser; partial failure of a stored program; which attempt a value measured by hand
belongs to; which display and which session a record belongs to; results in any order that
contradict each other; identification that must not survive the display it was earned on; a
round trip whose restoration may itself fail; lost packets and repeated receipts; several tabs
writing one history; ways out of a modal dialog; an update while somebody works.
`PROJECT.json` lists these hazards at their lines with the properties that cover them.

### What makes each component correct

* Transport and connection: session, machine and transport never speak of different
  connections; a lost link is always noticed; a quarantined connection takes no write until
  it ended; a disposed workspace stays down; subscriptions and waiters follow the connection.
* Sending: one execution at a time; nothing is written to a connection other than the
  one the plan was confirmed for, nor other bytes; an unlock serves one send only; nothing
  follows a timed-out write; the belief about the panel is never wrong when it is certain;
  every send returns; what is recorded of a send is its own.
* Identification: content only for a display that is recognized or whose size was confirmed; a
  protocol is identified only while the display that answered is connected; contradictions
  withdraw recognition.
* Diagnostics: a run that does not say otherwise leaves the brightness it found; every run ends.
* Investigations: execution history and current evidence belong to one physical display;
  a run and its results have the same resolution; records from outside authorize nothing;
  what was saved stays.
* Guided tests: a recorded transfer is settled however its observation ends; the dialog's attempts
  and the run's are the same attempts; a discarded measurement contributes nothing; every
  transfer ends.
* Evidence: no image gate without an image seen to stay; contradictions stand; the plan
  decides the order and reaches a decision.
* Codecs: every code decodes to what it stands for; the packets of a plan carry its content;
  a lost chunk is reported.
* Shell: dialogs, overlays and history agree; the workspace in use is alive; the image shown is
  the one chosen last; no wake lock is leaked.
* Updates: caches serve the active build and the open pages; work is not thrown away; no tab
  stays inert.

## 2. The modules

```
Transport <- Connection <- Transmission      Investigation <- Guided        Claims <- GuidedTests  <-.
                 |              |                               |             ^                      |
           MCLifecycles  TransmissionProof                 GuidedProof           '- Capabilities <- Characterization
                         MCTransmission                    MCGuided                     CharacterizationProof, MCEvidence

Shell  Subscriptions  Editor  WakeLock  Archive      Identification  Diagnostics  LzssTree  Upload
   \_________|__________|_______|________/               \_______________|__________|_______/
                 MCApplication                                       MCDisplay
Archive       <- ArchiveProof <-.            Identification, Diagnostics, Upload <- DisplayProof <-.
MCApplication <- ApplicationProof            LzssTree                           <- LzssProof -----'
Updates <- MCLifecycles, UpdatesProof        LzssCodes <- Lzss, LzssTree, Upload

Transmission refines Connection and Delivery; LzssTree refines Lzss (INSTANCE ... WITH)
```

An arrow `A <- B` reads "B EXTENDS A".  `Transmission` composes the send path with the
connection lifecycle and is shown to refine it (`SendsFollowTheConnection`), and `Delivery`,
which says what a display is promised (`DisplaysGetWholePlans`, section 5).  `Guided`
composes the dialog with the investigation; the send inside it is one step that succeeds or
fails, which `Transmission` justifies: every send returns (`EverySendSettles`), and what it
leaves in the panel belief is `Complete` or `Fail` there.  `Characterization` composes the
tests, what they prove and what that authorizes over one display.  `MCLifecycles`
(connection and updates), `MCApplication` and `MCDisplay` put machines that share no state next
to each other: a behaviour runs one of them, so their states add up instead of multiplying.

### Transport and Connection

Connection ids are numbered generations (`connId`, 0 for null), `lastGen` counts the ids handed out and
`genDevice` remembers whose they were.  `attempt` holds pending connect calls, which
`disconnect()` does not cancel.  `watched` and `linked` are the listeners and the open GATT
links.  The browser is assumed to do what the class relies on: `gatt.disconnect()` aborts a
pending `gatt.connect()` of that device, and operations of one device settle in order
(`AbortsSettled`).  `cm` is the machine as a record of its value, its connection and the
connection it remembers (`previous`); there is one operator per event of
`transitionConnection`.  A session is identified with the generation whose fingerprint it
holds (`sess`).  `disconnect()` has two steps, around the await of its unsubscribes;
`dispose()` is one more caller of it.

### Transmission

Each of `Callers` is one call of the send API, with a program counter for where it waits:
`prepared` (shown for confirmation), `subscribing`, `writing`, `pacing`, `awaiting` (the
response).  A digest covers bytes and target and is modelled by exactly those, the kind of
plan and the generation; `edited` says that the caller changed its plan object after the
digest was made, `owned` that the executor's copy was made from a changed one.  `wq` is the
promise chain of writes with the environment's half of it: the head is in the browser, the
rest waits.  `shows` is what each display really stores; `tainted` are the generations in
which a write timed out.  Plans come in four kinds, which are the classes the policy and the
executor tell apart: content (persistent, verified), GIF (persistent, experimental), guided
diagnostic (persistent, experimental, staged) and control (transient, answered).

### Subscriptions

One notifying characteristic.  `enableNotifications` has a step before and one after the
await of `startNotifications()`; a notification carries the generation it arrived in and a
number, so a record that holds another send's packet can be told.  `_recordTransaction`
takes the notifications from an index remembered when the send began; both lists drop their
oldest entry at their limit (`TraceEvents`, `Transactions`, two each here).

### Identification

A display is what the browser exposes of it (name, service, FFF1), the maker its
advertisement names, and what it really speaks.  The scores of the matchers are computed as
the code does, from a fingerprint that has what enumerating the services yields
(`Enumerated`): no advertised services and no `manufacturerDataHex`.  The advertisement arrives
later, if at all, and fills only `observed`, at which no matcher looks.  `source` is where the
fingerprint comes from, `probe` a family probe around its two awaits, `planned` a
plan that waits for its confirmation while the display may change; `sent.to` is the display
that was physically written.

### Capabilities, Claims, GuidedTests and Characterization

`Claims` and `Capabilities` are pure operators over a pool of evidence: which entry decides a
claim, what is trusted, which strategy is viable, which gate is open, what is offered and
recommended.  `GuidedTests` gives for each of eight tests what it needs and what each answer
proves.  An answer is reduced to what the interpretations tell apart (the timeline, the
layout, the look, the colors).  `Characterization` is the machine: tests are opened, answered,
abandoned and reopened, the display is lost and comes back, records are saved and resumed.
`baseline` is what a driver brings: the iLedHat's measurements, which ship, or a display of the
model that nobody measured, as the repository's tests have it (`src/tests/helpers/evidence.ts`).

### Investigation, Guided and Archive

`Investigation` has the records reduced to what the device boundary is about: the display
(`binding`, the browser's device id), whether it is active, its completed tests with the run,
the resolution and the display they come from, its runs with their attempts, the panel
belief and the reopened tests.  A transfer is a field of the attempt that made it.  `epoch` is
`_connectionEpoch`, `stored` the newest entry of the history.

In `Guided`, `flow` is `_guidedFlow`: machine, timer phase, measured values, attempts and the
reason of the next transfer.  A value is the number of the attempt that measured it, so a
stale value can be told from a fresh one.  `listed` is the length of the list of transactions,
which everything that is transmitted lengthens up to `TransactionLimit`.  A transfer names the
transactions behind the length the list had before it (`Names`): none if the list was full.
`closeGuidedTest` abandons a measurement, which settles its attempt, only if the flow names a
transaction (`Abandon`); otherwise it closes the dialog and settles nothing (`Close`).  `pc` splits `confirmGuidedTransfer` where it awaits
the wake lock and the send; `tails` counts calls of `retryTimingAttempt` that will still
change the reason when the wake lock is released.  The dialog is modal: while a flow is open
only its own buttons and an unexpected disconnect happen.

`Archive` widens the view to several tabs and files: `localHistory` is the shared storage with
entries that may be malformed or unreadable, `kept` (history) what accepted saves promised,
`refusing` that the browser or the size limit refuses writes at present, `own` the results a tab
recorded itself.  A file may claim anything of its scopes (`Claiming`).  The filters of the code
(`entries.filter`) are written over positions: `InOrder` lists the places of the entries that
stay, in their order, and `EntriesAt` reads them.

### Diagnostics

`runDiagnostic` with a program counter per step (`refresh`, `baseline`, `set-test`,
`verify-test`, `restore`, `verify-restore`).  Commands and answers can be lost; the panel
processes commands in order; a response is recognized by its kind and opcode only.  The link
can drop or be quarantined at any step, and the user may set the brightness in between runs.

### LzssCodes, Lzss, LzssTree and Upload

`Lzss` is the specification of a compressor: it emits codes whose decoding is a prefix of the
input.  `LzssTree` is `lzssCompress`, with its ring, its binary tree in three arrays, its
insertions, replacements and deletions; it implements `Lzss`.  Its loops are steps: `Fill` and
`Slide` start `insertNode` of a string, each `Descend` is one turn of its loop (`p`, `cmp`), and
`Search` one turn of the loop in which `deleteNode` looks for the string (`q`) that takes the
place of one with two sons.  `Upload` compiles contents to
segments, programs, codes and packets with the driver's choice of strategy and of black,
loses packets on the way and analyses the receipts.  Its display is an assumption: it accepts
chunks in order, compares the program with the announced checksum and lights what it decodes.

### Shell, Editor, WakeLock and Updates

`Shell` keeps `controller`, the workspace shown, `live`, the one to return to, the list of
operations of `_run`, and the history with the entries overlays push; `history.back()` is
carried out by the browser later (`backs`).  `Editor` gives each call of `loadImage` and
`_reprocessImage` its awaits (importing, decoding, fitting) and the version it compares after
each of them.  `WakeLock` counts requests, so a handle of an older request can be told.
`Updates` has a registration of three workers, per-tab managers with their locks and timers,
and messages that are in order on one channel and unordered between channels.

## 3. Model checking

| Run | Question | Instance | States |
|---|---|---|---|
| `MCLifecycles` | Do transport, session and machine stay consistent; does quarantine hold; does a disposed workspace stay down?  Does an update spare work, caches and tabs? | side by side: 1 attempt, 2 displays, 2 closers and `dispose`, 3 generations; 2 tabs, 3 builds, 2 handshakes | 408 364 |
| `MCTransmission` | Is execution exclusive, authority single-use, every write bound to its target, quarantine effective; do sends follow the connection lifecycle, and displays get whole plans? | 2 callers (symmetric), GIFs and controls, 2 packets, 1 display, 2 generations, unreliable subscriptions | 747 884 |
| `MCBelief` | Is a certain panel belief right; does every send return? | 1 caller, diagnostics, content and controls, 2 displays, 2 generations, late browser writes | 1 862 852 |
| `MCGuided` | Are attempts settled, numbered alike and free of discarded values; does every transfer end? | 1 timed test, 1 display, 1 run, 3 attempts, 2 epochs, a list of 1 transaction | 2 673 311 |
| `MCBoundary` | Does history stay with its display; do results and runs agree (`HistoryIsSound`)? | 1 untimed test, 2 displays (symmetric), 2 runs, 2 attempts, 3 epochs, a list that never fills | 2 127 561 |
| `MCEvidence` | What do results in any order open, keep shut and recommend? | 2 baselines, 2 goals, 6 tests, 2 completed tests, reduced answers (`Timelines`, `Layouts`, `Looks`, `Nibbles`) | 185 642 |
| `MCApplication` | Do shell, subscriptions, editor, wake lock and archive survive late answers, other tabs and outside records? | side by side, see the cfg | 2 128 103 |
| `MCDisplay` | Is identity earned, brightness restored, content shown, loss reported; does every code decode? | 5 displays, 3 runs, inputs of up to 11 symbols, 2 uploads of 5 contents | 885 351 |

What the properties of the composed runs say:

* `ShellIsConsistent`: after the browser has gone back, the overlay that Back would close is
  the dialog that is open and the history has one entry for it; the workspace in use is not
  disposed of.  `ListenersFollowTheConnection`: a subscription believed in has its listener on
  the connected generation, and no waiter outlives its connection.
  `RecordsBelongToTheirSend`: the packets, the response and the compilation recorded of a
  send are its own, also when the lists were trimmed meanwhile.
  `LateAnswersDoNoHarm`: the image shown is the one chosen last unless that choice was
  spoilt, and no wake lock outlives the transfers.  `ArchiveIsSound`: no stored, imported or
  resumed record carries current authority, and each accepted save stays with its results.
* `IdentityIsEarned`: content of the characterized size was written only to a display of the
  characterized name and exact GATT shape, other content only to one that answered on this
  connection and whose size was confirmed on it.  What it cannot say is who made the display:
  the code does not learn that in time (`MCOtherMaker`, below).  `RestoredRunsRestore`,
  `ContentReachesTheLights`, `LostChunksAreMissing`, `EveryRunEnds`, and the refinement
  `EmitsWhatDecodes`.
* `StillImagesWereSeenStill`: an image or text is offered for an unmeasured display only after
  an image was seen still for fifteen seconds with the strategy in use, and colors came out
  as sent, in this session.  `ContradictionsStand`: a strategy is used, and images are called
  verified, only if nothing seen in this session tells against it.
  `ResumedRecordsAuthorizeNothing`: with results of earlier sessions only, the same actions
  are offered and recommended and the same sends accepted as with none.
  `OnlyTheSymptomOvertakesThePlan`: a test of the current milestone is recommended before all
  others, except those that look into the symptom under investigation.
* `CachesServe`: the caches of the active build and of every page a worker served exist.
  `OnlyNewTabsLoseWork`: a reload by an update loses work only in a tab opened after the
  worker asked.  `NoTabStaysInert`.

### The bounds

*Generations and epochs* (`MaxGen`, `MaxEpoch`, `MaxLink`, `MaxLinks`, `MaxConnections`): two
connections show what a stale reference to an older one does, three let a display leave and
come back with another in between.  *Packets*: two make a partial program and a
re-verification between packets possible.  *Callers*: two overlap; exclusion and authority are
proved for any number.  *Attempts of a run*: three give a first, a discarded and a repeated
measurement.  *Runs*: two give a finished run and a second one of the same test.  *Lists*
(`TraceEvents`, `Transactions`, `MaxStored`): two are trimmed by the third entry.
`TransactionLimit` is 1 in `MCGuided`, so that transfers meet an empty and a full list, alone and
one after the other in one dialog, while other transmissions fill it; `MCBoundary` leaves the code's
limit out of reach and looks at its states without the length (`VIEW WithoutLength`), on
which nothing depends then.  *Completed
tests* (`MaxRuns` of `MCEvidence`): two let a result meet a contradicting or a completing one,
on the shipped evidence, before and after a reconnect or a resumption; the native path of an
unmeasured display needs three and stays closed here.  *Compressor*: a ring of 8 with copies
of up to 4 wraps around within 11 symbols, and every input over two symbols is compressed.
*Upload*: sizes are scaled (tiles of 2 columns, 3 columns, 2 rows, chunks of 5 codes), so that
the last tile is narrower and the last chunk shorter.  *Archive*: two tabs, two displays, two
records, two results, three moves (connecting, resuming, reloading, exporting, opening,
editing; `MaxMoves`).  *Updates*: three builds are one active, one waiting, one installing.
The bounds disable only steps that start something; where that leaves nothing to do, the cfg
turns the deadlock check off (`CHECK_DEADLOCK FALSE`): a user who is done, a page without
further updates, an investigation with all its tests.

### Disagreements between the code and what it says

Each is a run that TLC ends with a counterexample; `PROJECT.json` quotes the lines.

| Run | What happens |
|---|---|
| `MCStaleStaged` | A guided transfer whose subscription fails leaves its staged program behind; the next ordinary send is recorded as the guided diagnostic, with certainty. |
| `MCStaleStrategy` | After a reconnect to the same display the session's strategy is forgotten while its evidence goes on: images go out with a strategy this session saw fail. |
| `MCOtherMaker` | A display of the characterized name and GATT shape stays recognized when its advertisement names another maker: only `manufacturerDataHex` is compared, which no live fingerprint has, and the observation is not matched. |
| `MCUndecidedPlan` | A core test answered "another color" settles with its claim unresolved; the plan stays open with no core test to offer. |

### Other observations

Found while modelling; each can be reproduced by adding the named property to the named cfg,
or by setting the named constant.

* `FailedReplacementKeepsLink` (`MCLifecycles`, with `Attempts <- TwoAttempts`): `disconnect()`
  leaves an older connect attempt pending; when it fails later, its catch block closes the
  connection of the newer one (`transport/web-bluetooth.ts:86`).
* `BeliefEndsWithTheSession` (`MCBelief`): a send that completes while `disconnect()` awaits its
  unsubscribes makes the belief certain again, after `disconnect()` invalidated it.
* `ValuesOfOwnAttempt` (`MCGuided`): "Measure again" after a finished timeline keeps the
  durations of the earlier attempt.  `ClosingLeavesARecord`: after an unexpected disconnect,
  closing the dialog of a transferred test throws while recording the abandonment.
  Closing while the list of transactions was full at the transfer records nothing either, and
  leaves the transferred attempt in progress with no dialog (`guided-controller.ts:208-217`),
  though the comment above says that closing is never a silent discard.  Hence
  `ObservedAttemptsSettle` speaks of transfers that name their transactions.
  `FailedAttemptsAreSettled`: a transfer refused by a precondition leaves its attempt in
  progress.
* `PlanDecidesTheOrder` (`MCEvidence`): the boost of the current milestone is a summand, not an
  order.  When colors look wrong on a display nobody has measured, the timing test ended with a
  wrong image and the stay-time test was abandoned, the stay-time test of the second milestone
  scores 330 and the channel test of the fifth 355 (`investigation/recommendations.ts:142`),
  though lines 48-53 say that the plan decides the order of core work.
* `DialogsStayOpen` (`MCApplication`): continuing to the next test closes one overlay and opens
  the next before the browser went back; the late `popstate` closes the new dialog.
* `SavedRunsSurvive` (`MCApplication`): reviewing a saved investigation without a connection, or
  on another display, empties its runs but keeps its id; the next save overwrites the stored
  record (`application/services/investigation-service.ts:283-293`), though
  `storage/investigations.ts:26-30` says that execution history persists.
* `OneHolder = FALSE` (`MCApplication`) breaks `ArchiveIsSound`: the same record resumed in two
  tabs, or an older report resumed, overwrites newer results (last writer wins).
* `ConfirmedSizeIsUsable` (`MCDisplay`): after the size of a provisional display is confirmed, a
  probe or an advertisement of the same connection can take the profile away again.  A late
  advertisement (up to four seconds) overwrites the fingerprint, with its confirmed size.
* `Late = TRUE` (`MCDisplay`) breaks `RestoredRunsRestore`: an answer after its time-out is
  taken for that of a later command.  `Stray = TRUE` breaks `LostChunksAreMissing`: receipts
  carry no upload.
* `CalmDeployment = FALSE` (`MCLifecycles`) breaks `CachesServe`: a build installed while another
  activates loses its cache (`src/public/sw.js:103-105`).  `OneRequester = FALSE` or
  `Prompt = FALSE` breaks `OnlyNewTabsLoseWork`.
* `LateSettle = TRUE` (`MCTransmission`): the promise chain of writes outlives the connection,
  so a queued write could go to the next one were a browser to settle writes that late.
* `transitionConnection` accepts SELECT in quarantine, so `connect()` on a quarantined
  connection, which the transport refuses, moves the machine from `quarantined` to `failed`.
* Evidence.  A verification without any measured hold meets a requirement that has one
  (`requirementState`).  Scrolling text is compiled as an animation and gated as a text.  A
  rejected `image.rendering` closes no gate.  Two black tests with opposite results are
  decided by the older.  Continue asks what the record remembers, not what ran here, contrary
  to the comment in `guided-test-catalog-service.ts`; an abandoned first recommendation stops
  it.  The core plan's order rests on sums: with the goal "colors look wrong", abandoning
  the fallback test puts a later one first.
* Storage.  A save that would take the history over its size limit is refused, and then only
  forgetting the whole history makes room for certain.
  Malformed entries are dropped one by one, whereas a bundle with one is refused whole.
* Editor.  A settings change while a new file decodes reprocesses the old source, and the new
  file is dropped.

## 4. Fairness and assumptions on the environment

* `Transmission`: `WF(SendStep)` says that timers fire (write time-out, pacing, response
  time-out) and that `startNotifications()` settles, for which the code has no time-out of
  its own.  No browser write is assumed to settle: the time-out is what gets the sender out.
* `Connection`: `WF(DisconnectFinish)`, `stopNotifications()` settles.
* `Guided`: `WF(Preparing)`, the wake lock's `acquire()` never rejects and settles
  (`app/wake-lock.ts` catches everything), and `WF(Sending)`, which is `EverySendSettles`.
* `Diagnostics`: subscriptions settle, the panel processes what reached it, notifications are
  delivered, the response time-out fires.
* `Updates`: messages and `controllerchange` are delivered, the timers of tabs (3, 12 and 16
  seconds) and of the worker fire, and the browser carries out the steps of a worker it began.
* A person is never assumed to do anything.
* A GATT link opens only when asked, and can drop at any time.  Writes are accepted only on
  an open link.  `LateSettle = FALSE` says that writes of a closed link settle before
  another link opens; `ReliableSubscribe = TRUE` that subscriptions succeed on an open link;
  `Late`, `Stray`, `CalmDeployment`, `Prompt`, `OneRequester` and `OneHolder` are described
  with the runs that need them, and above with what happens without them.
* `Subscriptions`: a link that drops while `disconnect()` awaits its unsubscribes makes them
  settle before another link opens (`Establish`): `stopNotifications()` rejects on a closed link.
* Two displays never share a browser device id.

## 5. Abstract specifications

* `Transmission` implements `Connection` (`SendsFollowTheConnection`, checked in
  `MCTransmission`, proved in `TransmissionProof`): the send path adds no connection step.
* `Transmission` implements `Delivery` (`DisplaysGetWholePlans`, checked in `MCTransmission`, proved
  in `TransmissionProof` under `~LateSettle`).  `Delivery` knows displays and plans only: the
  packets of a plan reach one display in order, none twice and none left out, no packet of
  another plan comes between them, and a display stores a program only if it got it whole.
  The mapping (`Promised`): `sent` is the plan of the caller that executes, with the packets
  that were accepted of it (`PlanSent`); `overdue` is the write that was
  given up and may still reach the display of the present connection (`PlanOverdue`); `stores`
  is `shows`.  Authorizing, subscribing, pacing, connecting and settling are stutters, a drop
  of the link abandons, and `WriteTimesOutAndRetries`, the mutant, sends a packet twice.
* `LzssTree` implements `Lzss` (`EmitsWhatDecodes`, checked in `MCDisplay` for every input of up
  to eleven symbols, proved in `LzssProof` for all): each emitted code makes the decoder, the
  independent `lzssDecompress`, reproduce exactly the symbols taken; inserting, searching,
  deleting and sliding the window are stutters.

## 6. Proofs

Eight modules hold machine-checked proofs for all values of the constants: any sets of
displays, attempts, closers, callers, tests, tabs and files, any number of packets,
generations, runs, attempts, builds and results, any limits of lists, any alphabet and ring.

### Connection and sending: TransmissionProof, ApplicationProof

* `ConnectionTypeCorrect`: types, for `ConnectionSpec`.
* `OneGenerationAlways`, `SessionHasLinkAlways`, `QuarantineEndsTheGenerationAlways`: under
  `SingleAttempt` (no two connect attempts overlap; without it `FailedReplacementKeepsLink`
  fails, see section 3).  `OneGeneration` is not inductive: it says nothing of a transport that
  is opening a link, nor of what an attempt may find when it returns.  `ConnectionInv` adds that
  a transport that is not connected or quarantined has no connection id, that a pending attempt
  implies such a transport and a machine that is connecting or disconnected, that only a
  selecting, connecting or failed machine remembers a connection, and that the
  explicit-disconnect flag implies a running `disconnect()`.
* `TypeCorrect`, `OneExecutionAlways`, `AuthorityIsAlwaysSingleUse`,
  `NothingEverAfterATimeout`: for `Transmission`'s `Spec` without further assumption, over any
  number of overlapping connect attempts.  The argument for exclusion is that a call that is
  executing holds `#running`, and that every write in the queue that nobody gave up is its own.
  The argument for authority is that an unlock belongs to the one call that set it, which ends
  by releasing it, unless the session ended first and cleared it.
* `WritesAlwaysStayInTheirGeneration`: assumes `~LateSettle`.  The invariant carries that a
  write in the queue names the generation of its plan, is either the present generation's or
  cannot be sent any more, and was copied from an unchanged plan.
* `SendsAlwaysFollowTheConnection`: refinement.  The initial states are Connection's, and every
  step of a send is a `Connection` step or a stutter; a time-out is `Indeterminate`.
* `DisplaysAlwaysGetWholePlans`: refinement of `Delivery`, under `~LateSettle` as above.  The
  invariant `InOrder` is what makes the mapping work: every connection leads to a display
  (`Addressed`), a call that is between packets or waits for its response has sent what it
  counted to the connection it was made for (`CallsPaced`), and at most one write is
  outstanding (`OneOutstanding`), that of the executing call or one that was given up.  Each
  step is then a packet, the beginning, the end or the abandoning of a plan, or a stutter.
* `BeliefAlwaysMatchesPanel`: assumes `SingleAttempt`, `SingleCaller` (sends do not overlap) and
  `ReliableSubscribe`.  `BeliefInv` carries that a staged program belongs to the one call there
  is and is that of its plan (`StagedForItsCall`), that the write a call waits for is the last
  in the queue (`AwaitedLast`), and that no abandoned write of a program is left while the
  belief is certain (`NothingPersistentLeft`).  None of the three assumptions can be dropped:
  without `ReliableSubscribe` the run `MCStaleStaged` refutes it, with several callers a staged
  program can likewise be taken by another send, and `SingleAttempt` is that of section 3.
* `SubscriptionsTyped`, `ListenersAgree`, `RecordsAreTheirOwn`: for `SubscriptionsSpec`, any
  finite set of sends.  `ListeningInv` carries that the connection there is is the latest one,
  that a call whose `startNotifications()` is pending on it has its listener and is not yet the
  subscription believed in, and that a waiter belongs to the latest connection.
  `PacketsInv` is the argument for the lists: past the index at which a send began there are only
  packets that arrived later.  Trimming moves entries to the front only, which keeps this true
  although it does not keep the index at the same packet.  `IndexInv`: the index at which a
  send expects its transaction is the length of the list as long as no other call records one.

The queue of writes is a sequence, and what the proofs need of it (`EnqueueFacts`,
`AdvanceFacts`, `SettleFacts`, `OrphanFacts`) is stated once in lemmas: settling or enqueueing
leaves the owner, the plan and the generation of every other write alone.  Likewise
`LastOfFacts`, `RecordFacts` and `ArrivalFacts` for the lists that are trimmed.

### Evidence: CharacterizationProof

* `CharacterizationTyped`, `RecordsAuthorizeNothing`: for `Characterization`'s `Spec`.  The
  invariant `RecordsAreSound` says that evidence names the run that produced it, no later than
  the runs recorded, and that evidence of the current session comes only from runs completed
  here.  Only trusted evidence decides what is offered, recommended and accepted
  (`TrustDecides`), and evidence of the past is never trusted (`PastIsUntrusted`).
* `ContradictionsAlwaysStand`, `StillImagesWereAlwaysSeenStill`: for any answers and any number of
  runs.  `ObservedHere` strengthens the invariant: the evidence of this session is what its
  conclusive runs concluded (`Conclusions`), all of it and nothing else.  `SpoiledTest` finds,
  for each answer that tells against a strategy, the update that does; `VerifyingTest` lists
  the only tests and answers that verify stillness and colors; `ContradictionDecides` and
  `VerifiedByEvidence` say how a pool of any size is resolved.  They rest on `ForemostExists`:
  the order of the evidence has a first piece, whatever the pool.  That in turn is the least
  element of a set of numbers, which `LeastNatural` takes from the well-foundedness of the
  subset order: the library's induction theorems take an operator as a parameter, which the
  provers cannot instantiate.
* `OnlyTheSymptomEverOvertakesThePlan`: for any answers and any number of runs, resumed records
  included.  The score of a test is a sum of boosts and penalties, and this is a bound on it.  A
  test of the milestone has 280 of the plan, is never for a strategy that comes later
  (`NoneTooLate`), and so reaches 360, `graffiti-staytime` 348 (`ScoreBounds`, `Totals`);
  another test that does not look into the symptom gets at most 270 and what its claims are
  worth.  One claim is worth at most 50, so only the two tests with several claims could do
  harm.  `graffiti-timing` cannot, since it is on offer only when one of its claims is verified.
  For `pixel-channels` the evidence matters, and an invariant about it (`PixelsFit`): a map of
  the channels that was looked for was found, and who looked for it said something definite of
  the encoder and of the fourth channel.  Hence either the map is settled or nobody has looked
  yet (`MappedPixels`, `UnmappedPixels`), and the three are worth at most 70 together: 340 against
  348.  The margin is eight, the least any claim can add.  `TotalOfThree` is about the sum of the
  community modules, a fold that takes its elements in an arbitrary order.

### Investigations and guided tests: GuidedProof

* `TypeCorrect`, `ObservedAttemptsSettleAlways`, `AttemptsAgreeAlways`,
  `DiscardedAttemptsContributeNothingAlways`, `HistoryIsSoundAlways`: for `Guided`'s `Spec`, all from
  one invariant, `Inv`.  Of each record (the current, the detached and the stored one) it says
  that no number was used that was not handed out (`Numbered`), that what was transferred and
  what counts now is about the display of the record (`OneDisplay`), and that a closed run has
  a last result with its resolution while a test has at most one open run (`Concluding`);
  records that are kept have no open measurement that names its transactions.  Of the dialog it says that the attempts of
  the flow are the last ones of its run, shifted by the attempt whose send is under way
  (`Agree`), that the observed one is transferred and open (`Shape`), and that a measured value
  belongs to an attempt that was not discarded (`Clean`).  `Observed` ties both: the only
  attempt that is transferred, has a transaction to its name and is in progress is the one the
  dialog observes, and then the dialog names a transaction too, so that closing it settles.

### Shell, editor, wake lock and archive: ApplicationProof, ArchiveProof

* `ApplicationTypeCorrect`: for `MCApplication`'s `Spec`, whose invariant is the conjunction of those
  of the five machines; of the archive it says that no record is in the history twice.
* `ShellIsAlwaysConsistent`, `LateAnswersNeverHarm`: likewise for `Spec`.  `ShellInv` matches
  overlays with dialogs and with the history, with the step back that is still to come
  (`OverlayPart`), numbers the offline workspaces and keeps the one in use alive
  (`WorkspacePart`), and says that only the live workspace sends (`SendersLive`).  `EditorInv` is
  the argument for late answers: either the chosen image is shown and every call is behind
  the version or about to reprocess, or exactly one call leads to it (`LatestWins`); versions
  and pending reprocessings together never exceed the choices made, which bounds them.
  `WakeLockInv`: the locks held are that of the handle.
* `OutsideRecordsNeverAuthorize`: for `ArchiveSpec`, without further assumption.  `PageOK` carries
  that a workspace on a display works on a record of that display (`BoundHere`), that what it
  claims of the session was earned in its tab (`EarnedHere`), and that the live workspace
  behind a report is never itself a report.
* `ArchiveIsAlwaysSound`: for `Spec`, assumes `OneHolder`.  `SavedResultsStay` is not inductive:
  a save replaces the stored record by that of a tab, so the tab's must not have less.
  `KeptAsPromised` adds that the current and the detached record of every tab, the live one
  behind a report included, have every result promised of their number (`Covers`), that they
  are not the same record (`HoldsApart`), and that no record is held in two tabs.  What a save
  does to the order is argued over positions: `InOrder` exists and is unique (`OrderExists`,
  `OrderIsUnique`), taking one place out of a set shifts the ones behind it (`InOrderWithout`),
  and filters of two lists by the same places agree (`OthersMatch`).  TLC checked the invariant
  on small instances, with `OneHolder` and without.  Without it the second part fails, as
  section 3 tells.

### Updates: UpdatesProof

* `UpdatesTypeCorrect`, without further assumption.
* `CachesAlwaysServe`: assumes `Prompt` and `CalmDeployment`.  `CachesInv` says that nobody
  has yet to hear of an earlier change while a request or a handshake runs
  (`ChangesAreAwaited`), that a waiting build is complete and none activates beside it
  (`BuildsAreComplete`), and that a served page is of the active build or is about to be
  reloaded (`ServedPages`).
* `WorkIsKept`: the action property `OnlyNewTabsLoseWork`, assumes `OneRequester` and `Prompt`.
  `WorkInv` adds that there is one request at a time (`OneRequest`), that open tabs are
  controlled or about to be told, that the question of the present handshake is the last in
  an inbox (`QuestionsInOrder`), and that a tab which said it is ready stands still until the
  handshake failed or it was reloaded (`ReadyTabsStandStill`).

The switches are those of section 3: with each of them off, TLC finds the property violated.

### Identification, diagnostics and uploads: DisplayProof

* `IdentificationTypeCorrect`, `IdentityIsAlwaysEarned`: `Linked` says that what the session holds
  while a link is open is about the display at its end, and `Earned` that the profile in use
  and the one a probe will bring back fit that display.  An advertisement that arrives changes
  the fingerprint, and neither the selection nor the profile (`EnumeratedFacts`): recognition
  rests on name and shape.
* `DiagnosticsTypeCorrect`, `RestoredRunsAlwaysRestore`: the latter assumes `~Late`.  `Restores`
  carries that at most one command or answer is on its way (`OneOut`), that an answer tells the
  brightness there is, and that only a call on an open link waits.
* `LostChunksAreAlwaysMissing`: for `UploadSpec`, assumes `~Stray`.  `UploadInv` carries that the
  chunks of a plan on its way are numbered from zero in the order of its packets (`Numbered`),
  that receipts acknowledge packets of this upload that did arrive (`ReceiptsOfThisUpload`), and
  that there is an analysis only of what was sent to the end.  That every plan is numbered
  (`PlansAreNumbered`) is about how programs are tiled, joined and cut.
* `SafeCodesDecode`: no state, but the codec of every plan.  Both results are about functions
  that are defined by recursion on a number (`lzssDecompress`, and `FlattenSeq` of the community
  modules).  `SetInduction` is induction over a set of numbers instead of a predicate, from
  `LeastNatural`; with it, `RecursionExists` shows that such a function exists when its steps
  stay within a set, and what it computes follows by `SetInduction` again.  `FlattenFacts` says
  where each part of a joined sequence comes to lie.

* `ContentAlwaysReachesTheLights`: for `UploadSpec`, with no assumption on `Stray`: receipts tell
  the analysis about the upload, never the display.  `ContentInv` is `Sound` (black is
  taken to be true black only on a display where it is),
  `Carried` (what a plan announces is a program, and that program shows its content) and
  `Received` (as long as no packet was lost the display holds exactly what was written).  The
  last is why an upload cut off before does no harm: an announcement resets the reception, and
  a lost one leaves `arrived` short of `written` for good.  That every plan is `Carried`
  (`PlansShow`, `TransferTurnsOn`) is the argument about the pixels: the pieces of a program
  join to the program (`PiecesJoin`, `FlattenedParts`: all parts but the last are of one
  length), what is announced decodes to it (`SafeCodesDecode`), every column is in exactly one
  tile (`TileFacts`), so that the word of a light is the one its segment has for it
  (`LightsOfProgram`), and the planes of a CoolLEDX frame do not overlap (`PlaneOffsets`).
  `UploadAssumption` is only the shape of contents: one frame of a still image, the two kinds of
  diagnostic pattern, sizes above zero.

### The compressor: LzssProof

* `LzssTreeTypes`, `CompressionIsDecoded`: for `LzssTreeSpec`, any alphabet, any ring with room for
  two of the longest copies, any threshold and inputs of any length.  The invariant,
  `LzssInvariant`, has one part for each thing a code rests on.  `RingInv`: a position holds the
  symbol of the look-ahead or the one before it, counted along the ring, and the mirror
  repeats the beginning.  `TreeInv`: fathers and sons agree (`SonOfItsDad`, `DadOfLeft`,
  `DadOfRight`), there are no cycles (`Ranked`), and a string begins like its father (`Headed`), so
  that all strings below a root share its symbol and a match of any length begins right.
  `WindowInv`: only strings of the window are in the tree, so that the string to be inserted is
  not, and the one to be overwritten is deleted before it changes.  `MatchInv`: what the longest
  match begins with is what the look-ahead begins with.  `OutInv`: the decoder of the codes so
  far has reproduced the symbols taken, and its ring holds them.
* That an operation on the arrays leaves a tree is argued with few cases: inserting is
  `AttachKeeps`, leaving a place with at most one son is `RemoveKeeps`, and an equal string that
  is replaced (`ReplacedRenames`) and a node with two sons (`MergedRenames`: take out the greatest
  string on its left, then give that one its place) are both a renaming of one string in a
  tree (`RenamedKeeps`).  For the second, `DeleteInv` follows the search for that string.
* `MatchRepeats` is the step from the ring to the input: as far as the match goes, the symbols
  of the look-ahead are those `Behind` places before, also where the copy overlaps itself,
  where it passes the end of the ring, and where it is cut to what is left of the input.
  `CopiedAt` shows that a decoder that copies so goes on reproducing the input.

### Assumptions, and what is only model-checked

The assumptions on the constants are those named in the modules (`SubscriptionsAssumption`,
`CharacterizationAssumption`, `AnswersAssumption` and so on): bounds are natural numbers, at
least one build exists, names of different things differ (`NoInvestigationAssumption`,
`NoFlowAssumption`: the value for "none" is not a record), and the answers a run tells apart
are answers of the tests.

Only model-checked:

* Liveness (`DisposedStaysDown`, `EverySendSettles`, `EveryTransferEnds`, `EveryRunEnds`,
  `NoTabStaysInert`), which the prover cannot treat under fairness.

## 7. Every property has a mutant

Beside a definition stands, where a plausible bug exists, a mutated form of it (a dropped
guard, a missing reset, a wrong count), marked as a mutant in a comment.  Nothing refers to
it.  Replacing the definition by the mutant makes TLC find the property violated in the same
configuration; `PROJECT.json` lists the pairs.  A property made of several parts has one
mutant, which breaks the part that is hardest to test.

## 8. Plan

The modelling is complete as far as this directory intends.  Every safety property
that holds is proved, some under the assumptions that section 6 names; the liveness properties
are checked, and wait for a prover that treats fairness.

## 9. Not modelled, and why

* Rendering and the image pipeline (`render/`): arithmetic over pixels, without state.  Nothing
  in it interleaves; its asynchronous callers are in `Editor`.
* The views (`ui/`), the wiring (`application/runtime.ts`, ports) and the snapshot for the
  views: construction, delegation and read-only projection.
* Replay and fake transports: test doubles and offline playback.
* Parsing of imported logs and advertisements, the fields of a bundle beyond its
  investigation, and the wording of reports: formats.  What an imported log can identify is
  in `Identification`.
* Of the drivers: checksums, escaping, integer packing, frame borders, text rasterization, and
  the CoolLEDX animation, which is a dry run.
* Of the evidence: the trail of recommendations with its cycle warning, notes, the tests of
  GIF playback and of a power cycle, and evidence of provisional targets.
* Of storage: settings, and the summary on the home page, which reads without validation.
* Of the image editor: `resetContentSettings`, which changes the settings without processing the
  image again, and which no view calls; GIF loading, which has one await and the same checks
  after it.
* Reading characteristics; the plan budgets of the policy, which drivers meet by
  construction.
