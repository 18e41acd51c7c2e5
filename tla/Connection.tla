------------------------------ MODULE Connection ------------------------------
(***************************************************************************)
(* ConnectionService (src/application/services/connection-service.ts) with *)
(* the connection machine it drives (application/machines/                 *)
(* connection-machine.ts), over the transport of module Transport.         *)
(*                                                                         *)
(* Asynchronous calls are split where they await something slower than a   *)
(* microtask: a connect attempt waits for the browser, disconnect() waits  *)
(* for every stopNotifications() before it closes the transport.  The      *)
(* session is identified with the generation whose fingerprint it holds.   *)
(* Notification subscriptions, evidence and the connection epoch belong to *)
(* other modules of the plan and are left out here.                        *)
(***************************************************************************)
EXTENDS Transport

CONSTANT Closers    \* callers of disconnect(), apart from dispose()
ASSUME CloserAssumption == "dispose" \notin Closers

VARIABLES
  cm,         \* _connectionState
  sess,       \* generation of session.fingerprint, 0 for null
  closing,    \* disconnect() calls that wait for stopNotifications()
  explicit,   \* _explicitDisconnect
  disposed    \* disposed

serviceVars == <<cm, sess, closing, explicit, disposed>>
connectionVars == <<linkVars, serviceVars>>

MachineValues == {"idle", "selecting", "connecting", "connected",
                  "disconnecting", "disconnected", "quarantined", "failed"}
\* id: the connectionId of the state, prev: that of its "previous" snapshot; 0 for none.
Machine(value, id, prev) == [value |-> value, id |-> id, prev |-> prev]

ConnectionTypeOK ==
  /\ TransportTypeOK
  /\ cm \in [value : MachineValues, id : 0 .. MaxGen, prev : 0 .. MaxGen]
  /\ sess \in 0 .. MaxGen
  /\ closing \subseteq Closers \cup {"dispose"}
  /\ explicit \in BOOLEAN
  /\ disposed \in BOOLEAN

------------------------------------------------------------------------------
(* transitionConnection, one operator per event; recoverConnection.        *)
Snapshot(m) ==
  CASE m.value = "connected" -> m.id
    [] m.value \in {"selecting", "connecting", "failed"} -> m.prev
    [] OTHER -> 0

OnSelect(m) == Machine("selecting", 0, Snapshot(m))
OnConnect(m) ==
  IF m.value \in {"selecting", "failed"} THEN Machine("connecting", 0, m.prev)
  ELSE IF m.value \in {"idle", "disconnected"} THEN Machine("connecting", 0, 0) ELSE m
OnConnected(m, g) ==
  IF m.value \in {"connecting", "selecting"} THEN Machine("connected", g, 0) ELSE m
OnDisconnect(m) ==
  IF m.value \in {"connected", "quarantined"} THEN Machine("disconnecting", m.id, 0) ELSE m
\* A mutant that forgets the connection remembered by an attempt.
OnDisconnectedWhenConnected(m) ==
  IF m.value \in {"connected", "disconnecting"} THEN Machine("disconnected", 0, 0) ELSE m
OnDisconnected(m) ==
  IF Snapshot(m) # 0 \/ m.value = "disconnecting" THEN Machine("disconnected", 0, 0) ELSE m
OnFailed(m) == Machine("failed", 0, Snapshot(m))
OnIndeterminate(m) ==
  IF m.value = "connected" THEN Machine("quarantined", m.id, 0) ELSE m
Recover(m) ==
  IF m.value = "failed" /\ m.prev # 0 THEN Machine("connected", m.prev, 0) ELSE m

ConnectionInit ==
  /\ TransportInit
  /\ cm = Machine("idle", 0, 0)
  /\ sess = 0
  /\ closing = {}
  /\ explicit = FALSE
  /\ disposed = FALSE

------------------------------------------------------------------------------
\* The machine after a rejected attempt: connect() catches and recovers,
\* reconnectAuthorized() lets the rejection through and leaves the machine.
AfterRejection(m, how) == IF how = "chooser" THEN Recover(OnFailed(m)) ELSE m

\* connect() / reconnectAuthorized(), up to their await; a transport that is
\* not idle refuses at once.
Connect(a, how) ==
  LET started == OnConnect(OnSelect(cm)) IN
  /\ ~disposed
  /\ ~Pending(a)
  /\ IF MayStartConnect
     THEN BeginSelect(a, how) /\ cm' = started
     ELSE UNCHANGED linkVars /\ cm' = AfterRejection(started, how)
  /\ UNCHANGED <<sess, closing, explicit, disposed>>

ChooseDevice(a, d) == Choose(a, d) /\ UNCHANGED serviceVars

\* The attempt succeeded: clearConnection, applyFingerprint, CONNECTED.
Established(a) ==
  /\ ~disposed
  /\ LinkUp(a)
  /\ sess' = connId'
  /\ cm' = OnConnected(cm, connId')
  /\ UNCHANGED <<closing, explicit, disposed>>

\* A mutant that leaves the late connection open.
EstablishedTooLateKept(a) ==
  /\ disposed
  /\ LinkUp(a)
  /\ UNCHANGED <<cm, sess, closing, explicit, disposed>>

\* It succeeded for a workspace that was disposed meanwhile: closed again at once.
EstablishedTooLate(a) ==
  /\ disposed
  /\ LinkUpAndClose(a)
  /\ UNCHANGED <<cm, sess, closing, explicit, disposed>>

ConnectFails(a) ==
  /\ LinkFails(a)
  /\ cm' = AfterRejection(cm, attempt[a].how)
  /\ UNCHANGED <<sess, closing, explicit, disposed>>

\* disconnect() up to Promise.all(unsubscribe); dispose() enters it once.
DisconnectBegin(who) ==
  /\ who \notin closing
  /\ who = "dispose" => ~disposed
  /\ closing' = closing \cup {who}
  /\ explicit' = TRUE
  /\ disposed' = (disposed \/ who = "dispose")
  /\ cm' = OnDisconnect(cm)
  /\ UNCHANGED <<linkVars, sess>>

\* The rest of disconnect(): close the transport, clear the session.
DisconnectFinish(who) ==
  /\ who \in closing
  /\ closing' = closing \ {who}
  /\ explicit' = FALSE
  /\ CloseTransport
  /\ sess' = 0
  /\ cm' = OnDisconnected(cm)
  /\ UNCHANGED disposed

\* A mutant that ignores the loss of a quarantined link.
LossIsHandledWhenConnected == ~disposed /\ ~explicit /\ tState = "connected"

\* Whether _handleTransportState reacts to a move to idle from tState.
LossIsHandled ==
  ~disposed /\ ~explicit /\ tState \in {"connected", "quarantined"}

\* gattserverdisconnected, with _handleTransportState("idle") it triggers.
Drop(d) ==
  /\ LinkLost(d)
  /\ sess' = IF LossIsHandled THEN 0 ELSE sess
  /\ cm' = IF LossIsHandled THEN OnDisconnected(cm) ELSE cm
  /\ UNCHANGED <<closing, explicit, disposed>>

\* A write timed out and the executor quarantined the transport, or a send was
\* refused because it is.  The content path then tells the machine (reported),
\* a probe does not.
Indeterminate(reported) ==
  /\ tState \in {"connected", "quarantined"}
  /\ tState' = QuarantinedState
  /\ cm' = IF reported THEN OnIndeterminate(cm) ELSE cm
  /\ UNCHANGED <<connId, device, attempt, watched, linked, lastGen, genDevice,
                 sess, closing, explicit, disposed>>

LinkNext ==
  \/ \E a \in Attempts : \/ \E how \in Ways : Connect(a, how)
                         \/ \E d \in Devices : ChooseDevice(a, d)
                         \/ Established(a)
                         \/ EstablishedTooLate(a)
                         \/ ConnectFails(a)
  \/ \E who \in Closers \cup {"dispose"} : DisconnectBegin(who) \/ DisconnectFinish(who)
  \/ \E d \in Devices : Drop(d)

ConnectionNext == LinkNext \/ \E reported \in BOOLEAN : Indeterminate(reported)

\* Only the rest of disconnect() is promised to run: stopNotifications() settles.
ConnectionFairness ==
  \A who \in Closers \cup {"dispose"} : WF_connectionVars(DisconnectFinish(who))

ConnectionSpec == ConnectionInit /\ [][ConnectionNext]_connectionVars /\ ConnectionFairness

------------------------------------------------------------------------------
(* The session and the machine never speak of another connection than the  *)
(* transport's: an open connection is the session's (connect()), and a     *)
(* "connected" or remembered machine state is the session's generation     *)
(* (transitionConnection, recoverConnection).                              *)
OneGeneration ==
  /\ connId # 0 => sess = connId
  /\ cm.value = "connected" => cm.id = sess
  /\ cm.prev # 0 => cm.prev = sess

(* Outside a disconnect() in progress, a live session still has its link:  *)
(* every way to lose it runs through disconnect or _handleTransportState.  *)
SessionHasLink ==
  sess # 0 /\ closing = {} /\ ~disposed => connId = sess

(* "A failed replacement never destroys the previous usable session"       *)
(* (connection-machine.ts, recoverConnection): the failure of one connect  *)
(* attempt leaves an established connection open.                          *)
FailedReplacementKeepsLink ==
  [][\A a \in Attempts : Pending(a) /\ ~Pending(a)' /\ tState' = "error"
       => connId' = connId]_connectionVars

(* A quarantined transport takes no write again in the same generation:    *)
(* quarantine ends only together with the connection id it protects.       *)
QuarantineEndsTheGeneration ==
  [][tState = "quarantined" /\ tState' # "quarantined" => connId' = 0]_connectionVars

(* A disposed workspace ends with no open connection, whatever attempt or  *)
(* disconnect was in flight when dispose() was called.                     *)
DisposedStaysDown == disposed ~> [](connId = 0)
==============================================================================
