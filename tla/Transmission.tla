----------------------------- MODULE Transmission -----------------------------
(***************************************************************************)
(* How bytes reach a display: TransmissionService (authorization, staging  *)
(* and belief about the panel), TransmissionAuthorization, SafetyPolicy,   *)
(* TransmissionExecutor, and the write queue of WebBluetoothTransport,     *)
(* composed with the connection lifecycle of module Connection.            *)
(*                                                                         *)
(* Several calls may be in flight: the presentation layer never refuses a  *)
(* second operation (NoticeStore._run).  A call is split where it awaits   *)
(* the browser or a timer; everything between two such awaits is one step. *)
(* A digest covers the bytes and the target binding and is modelled by     *)
(* exactly those: the kind of content and the generation.                  *)
(***************************************************************************)
EXTENDS Connection, Sequences

CONSTANTS
  Callers,            \* concurrent calls of the send API
  NoCaller,           \* "no execution is running"
  Kinds,              \* the kinds of plan in play, a subset of AllKinds
  Packets,            \* packets of a stored program; a control has one
  LateSettle,         \* may the write of a closed link stay unsettled past a reconnect?
  ReliableSubscribe   \* does startNotifications() succeed on an open link?

AllKinds == {"guided", "content", "gif", "control"}

ASSUME CallerAssumption == NoCaller \notin Callers
ASSUME KindAssumption == Kinds \subseteq AllKinds
ASSUME PacketAssumption == Packets \in Nat \ {0}
ASSUME SwitchAssumption == LateSettle \in BOOLEAN /\ ReliableSubscribe \in BOOLEAN

VARIABLES
  call,       \* the state of each caller's operation
  expTx,      \* authority.experimentalTxEnabled
  digest,     \* authority.confirmedPlanDigest
  running,    \* the call that holds TransmissionExecutor.#running
  staged,     \* _stagedPanelProgram
  panel,      \* panelProgram: the program it calls certain, or "unknown"
  wq,         \* writes issued to the transport and not settled, oldest first
  shows,      \* what each display really stores (environment)
  tainted     \* generations in which a write timed out (history)

sendVars == <<call, expTx, digest, running, staged, panel, wq, shows, tainted>>
vars == <<connectionVars, sendVars>>

\* Drivers: content, GIFs and diagnostics replace the stored program; GIFs and
\* diagnostics are experimental; control commands are transient and answered.
Persistent(k) == k # "control"
Experimental(k) == k \in {"guided", "gif"}
Responds(k) == k = "control"
Program(k) == IF k = "guided" THEN "guided" ELSE "ordinary"
Programs == {"guided", "ordinary"}

PacketsOf(k) == IF Persistent(k) THEN Packets ELSE 1

NoDigest == [kind |-> "none", gen |-> 0]
DigestOf(c) == [kind |-> c.kind, gen |-> c.gen]

\* edited: the caller's plan object was changed after its digest was made;
\* owned: so was the authorized copy; temp: this call unlocked experimental
\* transmission; took: the staged program it consumed.
NoCall == [pc |-> "idle", kind |-> "control", gen |-> 0, pkt |-> 0,
           edited |-> FALSE, owned |-> FALSE, temp |-> FALSE, took |-> "none"]
Executing == {"writing", "pacing", "awaiting"}
InFlight == Executing \cup {"subscribing"}
Plan(k, g) == [NoCall EXCEPT !.pc = "prepared", !.kind = k, !.gen = g]

Calls == [pc : InFlight \cup {"idle", "prepared"}, kind : AllKinds, gen : 0 .. MaxGen,
          pkt : 0 .. Packets, edited : BOOLEAN, owned : BOOLEAN, temp : BOOLEAN,
          took : {"none", "guided"}]
\* via: the generation whose characteristic took the write, 0 before that;
\* orphan: the executor gave up waiting for it.
Writes == [owner : Callers, kind : AllKinds, gen : 0 .. MaxGen, pkt : 1 .. Packets,
           edited : BOOLEAN, phase : {"waiting", "inBrowser", "failed"},
           via : 0 .. MaxGen, orphan : BOOLEAN]

TypeOK ==
  /\ ConnectionTypeOK
  /\ call \in [Callers -> Calls]
  /\ \A s \in Callers : call[s].pc \notin {"writing", "awaiting"} => call[s].pkt < Packets
  /\ expTx \in BOOLEAN
  /\ digest \in [kind : AllKinds \cup {"none"}, gen : 0 .. MaxGen]
  /\ running \in Callers \cup {NoCaller}
  /\ staged \in {"none", "guided"}
  /\ panel \in Programs \cup {"unknown"}
  /\ wq \in Seq(Writes)
  /\ shows \in [Devices -> Programs \cup {"blank", "partial"}]
  /\ tainted \subseteq 0 .. MaxGen

Init ==
  /\ ConnectionInit
  /\ call = [s \in Callers |-> NoCall]
  /\ expTx = FALSE
  /\ digest = NoDigest
  /\ running = NoCaller
  /\ staged = "none"
  /\ panel = "unknown"
  /\ wq = <<>>
  /\ shows = [d \in Devices |-> "blank"]
  /\ tainted = {}

------------------------------------------------------------------------------
(* The authority and the belief, as the finally and catch blocks leave them. *)
ReleaseAuthorityKeepsUnlock(c) ==    \* mutant
  /\ digest' = IF Persistent(c.kind) THEN NoDigest ELSE digest
  /\ UNCHANGED expTx
ReleaseAuthority(c) ==
  /\ digest' = IF Persistent(c.kind) THEN NoDigest ELSE digest
  /\ expTx' = (expTx /\ ~c.temp)

\* A mutant whose catch block keeps the belief.
FailKeepsBelief(s, state) ==
  /\ cm' = IF state = "quarantined" THEN OnIndeterminate(cm) ELSE cm
  /\ UNCHANGED panel
  /\ running' = IF running = s THEN NoCaller ELSE running
  /\ call' = [call EXCEPT ![s] = NoCall]
  /\ ReleaseAuthority(call[s])

\* A mutant that reports a time-out as a failed connection.
FailTellsFailed(s, state) ==
  /\ cm' = IF state = "quarantined" THEN OnFailed(cm) ELSE cm
  /\ panel' = IF Persistent(call[s].kind) THEN "unknown" ELSE panel
  /\ running' = IF running = s THEN NoCaller ELSE running
  /\ call' = [call EXCEPT ![s] = NoCall]
  /\ ReleaseAuthority(call[s])

\* The catch block of _execute, the finally blocks of the executor and of
\* sendPersistentContent; state is the transport state the catch block reads.
Fail(s, state) ==
  /\ cm' = IF state = "quarantined" THEN OnIndeterminate(cm) ELSE cm
  /\ panel' = IF Persistent(call[s].kind) THEN "unknown" ELSE panel
  /\ running' = IF running = s THEN NoCaller ELSE running
  /\ call' = [call EXCEPT ![s] = NoCall]
  /\ ReleaseAuthority(call[s])

\* execute() returned: the belief is settled, the authority released.
Complete(s) ==
  /\ panel' = IF ~Persistent(call[s].kind) THEN panel
              ELSE IF call[s].took = "guided" THEN "guided" ELSE "ordinary"
  /\ running' = NoCaller
  /\ call' = [call EXCEPT ![s] = NoCall]
  /\ ReleaseAuthority(call[s])

------------------------------------------------------------------------------
(* The write queue of the transport. *)
LoadCountsFromZero(c, phase) ==    \* mutant
  [owner |-> NoCaller, kind |-> c.kind, gen |-> c.gen, pkt |-> c.pkt,
   edited |-> c.owned, phase |-> phase,
   via |-> IF phase = "inBrowser" THEN connId ELSE 0, orphan |-> FALSE]
Load(c, phase) ==
  [owner |-> NoCaller, kind |-> c.kind, gen |-> c.gen, pkt |-> c.pkt + 1,
   edited |-> c.owned, phase |-> phase,
   via |-> IF phase = "inBrowser" THEN connId ELSE 0, orphan |-> FALSE]

\* write(): behind an unsettled write it waits, otherwise the browser has it.
Enqueue(s) ==
  LET phase == IF wq = <<>> THEN "inBrowser" ELSE "waiting"
  IN  Append(wq, [Load(call[s], phase) EXCEPT !.owner = s])

\* The queue once the write before q settled: the next one resolves its
\* characteristic on whatever connection is open then, or all of them reject.
Advance(q) ==
  IF q = <<>> \/ Head(q).phase # "waiting" THEN q
  ELSE IF tState = "connected"
  THEN [q EXCEPT ![1].phase = "inBrowser", ![1].via = connId]
  ELSE [i \in DOMAIN q |-> [q[i] EXCEPT !.phase = "failed"]]

\* Whether the plan of write w has packets after it.
MoreAfter(w) == w.pkt < PacketsOf(w.kind)

\* What a display stores once it got packet w of its program.
Stored(old, w) ==
  IF ~Persistent(w.kind) THEN old
  ELSE IF w.pkt = PacketsOf(w.kind) THEN Program(w.kind) ELSE "partial"

------------------------------------------------------------------------------
(* The send API. *)
LinkUnchanged == UNCHANGED <<linkVars, sess, closing, explicit, disposed>>

\* plan(): prepared for the current target, then shown for confirmation.
Prepare(s, k) ==
  /\ call[s].pc = "idle" /\ k \in Kinds \cap {"content", "gif"}
  /\ tState = "connected" /\ sess # 0
  /\ call' = [call EXCEPT ![s] = Plan(k, connId)]
  /\ UNCHANGED <<connectionVars, expTx, digest, running, staged, panel, wq, shows, tainted>>

Dismiss(s) ==
  /\ call[s].pc = "prepared"
  /\ call' = [call EXCEPT ![s] = NoCall]
  /\ UNCHANGED <<connectionVars, expTx, digest, running, staged, panel, wq, shows, tainted>>

\* The packet buffers of a plan stay writable for whoever holds the object.
Edit(s) ==
  /\ call[s].pc \in {"prepared", "subscribing"}
  /\ call' = [call EXCEPT ![s].edited = TRUE]
  /\ UNCHANGED <<connectionVars, expTx, digest, running, staged, panel, wq, shows, tainted>>

\* SafetyPolicy.authorize, for plans the drivers mark live and in budget.
Authorized(p, experimentalOn, confirmed) ==
  /\ connId # 0 /\ p.gen = connId
  /\ sess # 0
  /\ ~p.edited
  /\ Experimental(p.kind) => experimentalOn /\ confirmed = DigestOf(p)

\* sendPersistentContent / send, up to the await of the driver notifications.
\* A denied plan runs the finally block at once.
Submit(s, p) ==
  LET unlocked == expTx \/ Experimental(p.kind)
      confirmed == IF Experimental(p.kind) THEN DigestOf(p) ELSE digest
  IN IF Authorized(p, unlocked, confirmed)
     THEN /\ call' = [call EXCEPT ![s] =
                        [p EXCEPT !.pc = "subscribing", !.owned = p.edited,
                                  !.temp = Experimental(p.kind) /\ ~expTx]]
          /\ expTx' = unlocked
          /\ digest' = confirmed
     ELSE /\ call' = [call EXCEPT ![s] = NoCall]
          /\ digest' = IF Persistent(p.kind) THEN NoDigest ELSE digest
          /\ UNCHANGED expTx

\* The user confirmed the prepared content.
Confirm(s) ==
  /\ call[s].pc = "prepared"
  /\ Submit(s, call[s])
  /\ UNCHANGED <<connectionVars, running, staged, panel, wq, shows, tainted>>

\* runGuidedTestTransfer (plan, stage, send) and a control command (plan,
\* send) reach the send API without an await in between.
SendDirectly(s, k) ==
  /\ call[s].pc = "idle" /\ k \in Kinds \cap {"guided", "control"}
  /\ tState = "connected" /\ sess # 0
  /\ Submit(s, Plan(k, connId))
  /\ staged' = IF k = "guided" THEN "guided" ELSE staged
  /\ UNCHANGED <<connectionVars, running, panel, wq, shows, tainted>>

\* enableDriverNotifications rejected: only the finally block of the caller runs.
SubscribeFails(s) ==
  /\ call[s].pc = "subscribing"
  /\ ~ReliableSubscribe \/ tState # "connected" \/ connId # call[s].gen
  /\ call' = [call EXCEPT ![s] = NoCall]
  /\ ReleaseAuthority(call[s])
  /\ UNCHANGED <<connectionVars, running, staged, panel, wq, shows, tainted>>

\* Mutants: no exclusion between executions; no second look at the binding.
MayExecuteWhileBusy(c) == tState = "connected" /\ connId = c.gen
MayExecuteElsewhere(c) == running = NoCaller /\ tState = "connected"

MayExecute(c) ==
  /\ running = NoCaller
  /\ tState = "connected"
  /\ connId = c.gen

\* The rest of _execute, up to the executor's first write.
Subscribed(s) ==
  /\ call[s].pc = "subscribing"
  /\ staged' = "none"
  /\ IF MayExecute(call[s])
     THEN /\ running' = s
          /\ call' = [call EXCEPT ![s].pc = "writing", ![s].took = staged]
          /\ wq' = Enqueue(s)
          /\ UNCHANGED <<cm, panel, expTx, digest>>
     ELSE Fail(s, tState) /\ UNCHANGED wq
  /\ LinkUnchanged /\ UNCHANGED <<shows, tainted>>

\* The browser accepted the oldest write, which it only does on an open link:
\* the display has the packet.
Accepted ==
  /\ wq # <<>> /\ Head(wq).phase = "inBrowser"
  /\ connId # 0 /\ Head(wq).via = connId
  /\ LET w == Head(wq)
         s == w.owner
     IN /\ shows' = [shows EXCEPT ![genDevice[connId]] = Stored(@, w)]
        /\ wq' = Advance(Tail(wq))
        /\ IF w.orphan
           THEN UNCHANGED <<call, running, panel, expTx, digest>>
           ELSE IF MoreAfter(w) \/ Responds(w.kind)
           THEN /\ call' = [call EXCEPT ![s].pkt = w.pkt, ![s].pc =
                              IF MoreAfter(w) THEN "pacing" ELSE "awaiting"]
                /\ UNCHANGED <<running, panel, expTx, digest>>
           ELSE Complete(s)
  /\ UNCHANGED <<connectionVars, staged, tainted>>

\* The oldest write was rejected, by the browser or for want of a connection.
Rejected ==
  /\ wq # <<>> /\ Head(wq).phase # "waiting"
  /\ wq' = Advance(Tail(wq))
  /\ IF Head(wq).orphan
     THEN UNCHANGED <<cm, call, running, panel, expTx, digest>>
     ELSE Fail(Head(wq).owner, tState)
  /\ LinkUnchanged /\ UNCHANGED <<staged, shows, tainted>>

\* A mutant whose executor retries a packet that timed out.
WriteTimesOutAndRetries(s) ==
  /\ call[s].pc = "writing"
  /\ LET q == [i \in DOMAIN wq |-> IF wq[i].owner = s THEN [wq[i] EXCEPT !.orphan = TRUE]
                                   ELSE wq[i]]
     IN  wq' = Append(q, [Load(call[s], "waiting") EXCEPT !.owner = s])
  /\ UNCHANGED <<connectionVars, call, expTx, digest, running, staged, panel, shows, tainted>>

\* withWriteTimeout fired first: quarantine; the write itself goes on.
WriteTimesOut(s) ==
  /\ call[s].pc = "writing"
  /\ tState' = QuarantinedState
  /\ Fail(s, QuarantinedState)
  /\ wq' = [i \in DOMAIN wq |-> IF wq[i].owner = s THEN [wq[i] EXCEPT !.orphan = TRUE] ELSE wq[i]]
  /\ tainted' = IF tState = "connected" THEN tainted \cup {connId} ELSE tainted
  /\ UNCHANGED <<connId, device, attempt, watched, linked, lastGen, genDevice,
                 sess, closing, explicit, disposed, staged, shows>>

\* After the pacing delay: verify the authorization again and write.
NextPacket(s) ==
  /\ call[s].pc = "pacing"
  /\ IF connId = call[s].gen /\ tState = "connected"
     THEN /\ call' = [call EXCEPT ![s].pc = "writing"]
          /\ wq' = Enqueue(s)
          /\ UNCHANGED <<cm, panel, running, expTx, digest>>
     ELSE Fail(s, tState) /\ UNCHANGED wq
  /\ LinkUnchanged /\ UNCHANGED <<staged, shows, tainted>>

\* A mutant without the response timer.
ResponseSettlesOnline(s) ==
  /\ call[s].pc = "awaiting"
  /\ tState = "connected"
  /\ Complete(s)
  /\ UNCHANGED <<connectionVars, staged, wq, shows, tainted>>

\* The response came, timed out, or the router was reset.
ResponseSettles(s) ==
  /\ call[s].pc = "awaiting"
  /\ Complete(s)
  /\ UNCHANGED <<connectionVars, staged, wq, shows, tainted>>

------------------------------------------------------------------------------
(* The connection's steps, with what they do to authority and belief. *)
KeepAuthority == UNCHANGED <<expTx, digest>>
ClearAuthority == expTx' = FALSE /\ digest' = NoDigest    \* clearConnection
KeepSends == UNCHANGED <<call, running, wq, shows, tainted>>

\* Without LateSettle the browser rejects the writes of a closed link before
\* another link can open.
LinkEstablished(a) ==
  /\ Established(a)
  /\ LateSettle \/ wq = <<>>
  /\ ClearAuthority
  /\ staged' = "none" /\ panel' = "unknown"
  /\ KeepSends

LinkDropped(d) ==
  /\ Drop(d)
  /\ IF LossIsHandled
     THEN ClearAuthority /\ staged' = "none" /\ panel' = "unknown"
     ELSE KeepAuthority /\ UNCHANGED <<staged, panel>>
  /\ KeepSends

CloseBegins(who) ==
  /\ DisconnectBegin(who)
  /\ panel' = "unknown"
  /\ KeepAuthority /\ KeepSends /\ UNCHANGED staged

CloseFinishes(who) ==
  /\ DisconnectFinish(who)
  /\ ClearAuthority
  /\ KeepSends /\ UNCHANGED <<staged, panel>>

\* Steps that leave the session as it is.
LinkStep(a) ==
  /\ \/ \E how \in Ways : Connect(a, how)
     \/ \E d \in Devices : ChooseDevice(a, d)
     \/ EstablishedTooLate(a)
     \/ ConnectFails(a)
  /\ UNCHANGED sendVars

------------------------------------------------------------------------------
SendStep(s) ==
  \/ Subscribed(s) \/ SubscribeFails(s)
  \/ WriteTimesOut(s) \/ NextPacket(s) \/ ResponseSettles(s)

Next ==
  \/ \E s \in Callers : \/ \E k \in Kinds : Prepare(s, k) \/ SendDirectly(s, k)
                        \/ Dismiss(s) \/ Edit(s) \/ Confirm(s)
                        \/ SendStep(s)
  \/ Accepted \/ Rejected
  \/ \E a \in Attempts : LinkEstablished(a) \/ LinkStep(a)
  \/ \E d \in Devices : LinkDropped(d)
  \/ \E who \in Closers \cup {"dispose"} : CloseBegins(who) \/ CloseFinishes(who)

\* Timers fire and startNotifications() settles; no browser write has to.
Fairness ==
  /\ \A s \in Callers : WF_vars(SendStep(s))
  /\ \A who \in Closers \cup {"dispose"} : WF_vars(CloseFinishes(who))

Spec == Init /\ [][Next]_vars /\ Fairness

------------------------------------------------------------------------------
(* Sending is a client of the connection lifecycle: whatever the calls do, *)
(* the link, the session and the machine take only steps of Connection     *)
(* (a time-out is its Indeterminate), so what holds there holds here.      *)
SendsFollowTheConnection == ConnectionInit /\ [][ConnectionNext]_connectionVars

(* To a display the sends are one after the other, each of them whole and  *)
(* in order up to where it was given up: Transmission implements Delivery  *)
(* (TransmissionExecutor.execute and the write queue of the transport).    *)
PlanOf(kind, display) ==
  [to |-> display, size |-> PacketsOf(kind),
   program |-> IF Persistent(kind) THEN Program(kind) ELSE "transient"]
\* The call that executes, with the packets that were accepted of it.
PlanSent ==
  IF running = NoCaller THEN {}
  ELSE {[plan |-> PlanOf(call[running].kind, genDevice[call[running].gen]),
         got |-> call[running].pkt]}
\* The write that timed out and that the browser may yet accept.
PlanOverdue ==
  {[plan |-> PlanOf(wq[i].kind, genDevice[wq[i].gen]), got |-> wq[i].pkt - 1] :
     i \in {j \in DOMAIN wq : wq[j].orphan /\ connId # 0 /\ wq[j].via = connId}}
Promised == INSTANCE Delivery WITH
  Displays <- Devices, MaxPackets <- Packets,
  sent <- PlanSent, overdue <- PlanOverdue, stores <- shows
DisplaysGetWholePlans == Promised!DeliverySpec

(* A confirmed digest and an experimental unlock exist only while the send *)
(* that set them is in flight, on the connection it was confirmed for      *)
(* (sendPersistentContent's finally block, clearConnection).               *)
AuthorityIsSingleUse ==
  /\ digest # NoDigest =>
       /\ digest.gen = sess
       /\ \E s \in Callers : call[s].pc \in InFlight /\ DigestOf(call[s]) = digest
  /\ expTx => \E s \in Callers : call[s].pc \in InFlight /\ call[s].temp

(* At most one execution is under way, it is the one that holds #running,  *)
(* and it alone waits for a write of the transport queue (execute).        *)
OneExecution ==
  /\ \A s \in Callers : call[s].pc \in Executing <=> running = s
  /\ \A i \in DOMAIN wq : ~wq[i].orphan =>
       running = wq[i].owner /\ call[wq[i].owner].pc = "writing"

(* A packet handed to the browser goes to the connection its plan was      *)
(* prepared for, with the bytes its digest was made from (TargetBinding,   *)
(* #verifyAuthorization, copyPreparedTransmission).                        *)
WritesStayInTheirGeneration ==
  \A i \in DOMAIN wq : wq[i].phase = "inBrowser" => wq[i].via = wq[i].gen /\ ~wq[i].edited

(* "a quarantined connection must reconnect before more writes"            *)
(* (docs/best-in-class-plan.md): in a generation with a timed-out write    *)
(* the browser holds no other write than that one.                         *)
NothingAfterATimeout ==
  \A i \in DOMAIN wq : wq[i].phase = "inBrowser" /\ wq[i].via \in tainted => wq[i].orphan

(* "Certainty is never overclaimed" (investigation/orchestration.ts):      *)
(* outside a running replacement, the program the belief names is the one  *)
(* the display of the last connection stores.                              *)
BeliefMatchesPanel ==
  panel # "unknown" /\ (running # NoCaller => ~Persistent(call[running].kind))
    => shows[genDevice[lastGen]] = panel

(* "The last program sent stays as history; the belief that it is on the   *)
(* panel does not" (connection-service.ts, disconnect): without a session  *)
(* nothing is believed to be on a panel.                                   *)
BeliefEndsWithTheSession == sess = 0 => panel = "unknown"

(* Every send comes back: no hung write, lost response or dropped link     *)
(* leaves a caller waiting or the executor occupied.                       *)
EverySendSettles == \A s \in Callers : call[s].pc \in InFlight ~> call[s].pc \notin InFlight
==============================================================================
