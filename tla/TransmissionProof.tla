-------------------------- MODULE TransmissionProof --------------------------
(***************************************************************************)
(* Proofs about Connection and Transmission for any number of callers,     *)
(* connect attempts, displays, connection generations, callers of          *)
(* disconnect() and packets.                                               *)
(***************************************************************************)
EXTENDS Transmission, SequenceTheorems, TLAPS

------------------------------------------------------------------------------
(* The connection.                                                         *)

Machines == [value : MachineValues, id : 0 .. MaxGen, prev : 0 .. MaxGen]
AttemptRecords == [pc : Phases, dev : Devices \cup {NoDevice}, how : Ways]

\* Every event of the machine keeps its state well formed.
LEMMA MachineEvents ==
  ASSUME NEW m \in Machines, NEW g \in 0 .. MaxGen
  PROVE  /\ Snapshot(m) \in 0 .. MaxGen
         /\ OnSelect(m) \in Machines
         /\ OnConnect(m) \in Machines
         /\ OnConnected(m, g) \in Machines
         /\ OnDisconnect(m) \in Machines
         /\ OnDisconnected(m) \in Machines
         /\ OnFailed(m) \in Machines
         /\ OnIndeterminate(m) \in Machines
         /\ Recover(m) \in Machines
<1>1. 0 \in 0 .. MaxGen
  BY GenAssumption
<1>2. Snapshot(m) \in 0 .. MaxGen
  BY <1>1 DEF Snapshot, Machines
<1>. QED
  BY <1>1, <1>2 DEF Machines, MachineValues, Machine, OnSelect, OnConnect, OnConnected,
     OnDisconnect, OnDisconnected, OnFailed, OnIndeterminate, Recover

LEMMA RejectionKeepsTheType ==
  ASSUME NEW m \in Machines, NEW how
  PROVE  AfterRejection(m, how) \in Machines
<1>1. OnFailed(m) \in Machines
  BY MachineEvents, GenAssumption
<1>. QED
  BY <1>1, MachineEvents, GenAssumption DEF AfterRejection

\* A closed link leaves the other attempts well formed.
LEMMA AbortedAttempts ==
  ASSUME attempt \in [Attempts -> AttemptRecords], NEW d
  PROVE  /\ Aborted(d) \in [Attempts -> AttemptRecords]
         /\ \A a \in Attempts : Aborted(d)[a].pc = "linking" =>
              attempt[a].pc = "linking" /\ Aborted(d)[a].dev = attempt[a].dev
BY DEF Aborted, AttemptRecords, Phases

\* Every step of the connection lifecycle keeps the types.
LEMMA LinkStepsKeepTypes == ConnectionTypeOK /\ LinkNext => ConnectionTypeOK'
<1>. SUFFICES ASSUME ConnectionTypeOK, LinkNext PROVE ConnectionTypeOK'
  OBVIOUS
<1>. USE DEF ConnectionTypeOK, TransportTypeOK, Machines, AttemptRecords
<1>0. /\ 0 \in 0 .. MaxGen
      /\ NoAttempt \in AttemptRecords
      /\ cm \in Machines
      /\ attempt \in [Attempts -> AttemptRecords]
  BY GenAssumption DEF NoAttempt, Phases, Ways
<1>1. ASSUME NEW a \in Attempts, NEW how \in Ways, Connect(a, how)
      PROVE  ConnectionTypeOK'
  <2>1. OnConnect(OnSelect(cm)) \in Machines
    BY <1>0, MachineEvents
  <2>2. AfterRejection(OnConnect(OnSelect(cm)), how) \in Machines
    BY <2>1, RejectionKeepsTheType
  <2>3. cm' \in Machines
    BY <1>1, <2>1, <2>2 DEF Connect
  <2>4. /\ attempt' \in [Attempts -> AttemptRecords]
        /\ \A b \in Attempts : attempt'[b].pc = "linking" => attempt'[b].dev \in Devices
    BY <1>1, <1>0 DEF Connect, BeginSelect, linkVars, Phases
  <2>. QED
    BY <1>1, <2>3, <2>4 DEF Connect, BeginSelect, linkVars, TransportStates
<1>2. ASSUME NEW a \in Attempts, NEW d \in Devices, ChooseDevice(a, d)
      PROVE  ConnectionTypeOK'
  BY <1>2 DEF ChooseDevice, Choose, serviceVars, TransportStates, Phases
<1>3. ASSUME NEW a \in Attempts, Established(a)
      PROVE  ConnectionTypeOK'
  <2>1. /\ connId' \in 0 .. MaxGen
        /\ lastGen' \in 0 .. MaxGen
        /\ lastGen + 1 \in Gens
    BY <1>3, GenAssumption DEF Established, LinkUp, Gens
  <2>2. cm' \in Machines
    BY <1>3, <1>0, <2>1, MachineEvents DEF Established
  <2>3. TransportTypeOK'
    BY <1>3, <1>0, <2>1 DEF Established, LinkUp, TransportStates, NoAttempt
  <2>. QED
    BY <1>3, <2>1, <2>2, <2>3 DEF Established
<1>4. ASSUME NEW a \in Attempts, EstablishedTooLate(a)
      PROVE  ConnectionTypeOK'
  <2>1. /\ lastGen' \in 0 .. MaxGen
        /\ lastGen + 1 \in Gens
    BY <1>4, GenAssumption DEF EstablishedTooLate, LinkUpAndClose, Gens
  <2>2. TransportTypeOK'
    BY <1>4, <1>0, <2>1, AbortedAttempts
       DEF EstablishedTooLate, LinkUpAndClose, TransportStates, NoAttempt
  <2>. QED
    BY <1>4, <2>2 DEF EstablishedTooLate
<1>5. ASSUME NEW a \in Attempts, ConnectFails(a)
      PROVE  ConnectionTypeOK'
  <2>1. cm' \in Machines
    BY <1>5, <1>0, RejectionKeepsTheType DEF ConnectFails
  <2>2. TransportTypeOK'
    BY <1>5, <1>0, AbortedAttempts
       DEF ConnectFails, LinkFails, Cleanup, TransportStates, NoAttempt
  <2>. QED
    BY <1>5, <2>1, <2>2 DEF ConnectFails
<1>6. ASSUME NEW who \in Closers \cup {"dispose"}, DisconnectBegin(who)
      PROVE  ConnectionTypeOK'
  <2>1. cm' \in Machines
    BY <1>6, <1>0, MachineEvents DEF DisconnectBegin
  <2>. QED
    BY <1>6, <2>1 DEF DisconnectBegin, linkVars
<1>7. ASSUME NEW who \in Closers \cup {"dispose"}, DisconnectFinish(who)
      PROVE  ConnectionTypeOK'
  <2>1. cm' \in Machines
    BY <1>7, <1>0, MachineEvents DEF DisconnectFinish
  <2>2. TransportTypeOK'
    <3>1. CASE tState = "idle"
      BY <1>7, <3>1 DEF DisconnectFinish, CloseTransport, linkVars
    <3>2. CASE tState # "idle"
      BY <1>7, <3>2, <1>0, AbortedAttempts
         DEF DisconnectFinish, CloseTransport, Cleanup, TransportStates
    <3>. QED
      BY <3>1, <3>2
  <2>3. sess' \in 0 .. MaxGen /\ closing' \subseteq Closers \cup {"dispose"}
    BY <1>7, <1>0 DEF DisconnectFinish
  <2>. QED
    BY <1>7, <2>1, <2>2, <2>3 DEF DisconnectFinish
<1>8. ASSUME NEW d \in Devices, Drop(d)
      PROVE  ConnectionTypeOK'
  <2>1. cm' \in Machines
    BY <1>8, <1>0, MachineEvents DEF Drop
  <2>2. TransportTypeOK'
    BY <1>8, <1>0, AbortedAttempts DEF Drop, LinkLost, TransportStates
  <2>. QED
    BY <1>8, <2>1, <2>2, <1>0 DEF Drop
<1>. HIDE DEF ConnectionTypeOK, TransportTypeOK, Machines, AttemptRecords
<1>. QED
  BY <1>1, <1>2, <1>3, <1>4, <1>5, <1>6, <1>7, <1>8 DEF LinkNext

LEMMA InitialTypes == ConnectionInit => ConnectionTypeOK
<1>. SUFFICES ASSUME ConnectionInit PROVE ConnectionTypeOK
  OBVIOUS
<1>1. cm \in [value : MachineValues, id : 0 .. MaxGen, prev : 0 .. MaxGen]
  BY GenAssumption DEF ConnectionInit, Machine, MachineValues
<1>2. TransportTypeOK
  <2>1. NoAttempt \in [pc : Phases, dev : Devices \cup {NoDevice}, how : Ways]
    BY DEF NoAttempt, Phases, Ways
  <2>2. NoAttempt.pc # "linking"
    BY DEF NoAttempt
  <2>. QED
    BY <2>1, <2>2, GenAssumption DEF ConnectionInit, TransportInit, TransportTypeOK, TransportStates
<1>3. sess \in 0 .. MaxGen /\ closing \subseteq Closers \cup {"dispose"}
  BY GenAssumption DEF ConnectionInit
<1>4. explicit \in BOOLEAN /\ disposed \in BOOLEAN
  BY DEF ConnectionInit
<1>. QED
  BY <1>1, <1>2, <1>3, <1>4 DEF ConnectionTypeOK

LEMMA ConnectionStepsKeepTypes ==
  ConnectionTypeOK /\ [ConnectionNext]_connectionVars => ConnectionTypeOK'
<1>. SUFFICES ASSUME ConnectionTypeOK, [ConnectionNext]_connectionVars
              PROVE  ConnectionTypeOK'
  OBVIOUS
<1>1. CASE LinkNext
  BY <1>1, LinkStepsKeepTypes
<1>2. ASSUME NEW reported \in BOOLEAN, Indeterminate(reported)
      PROVE  ConnectionTypeOK'
  <2>1. cm' \in Machines
    BY <1>2, MachineEvents, GenAssumption
       DEF Indeterminate, ConnectionTypeOK, TransportTypeOK, Machines
  <2>. QED
    BY <1>2, <2>1
       DEF Indeterminate, QuarantinedState, ConnectionTypeOK, TransportTypeOK,
           TransportStates, Machines
<1>3. CASE UNCHANGED connectionVars
  BY <1>3 DEF connectionVars, linkVars, serviceVars, ConnectionTypeOK, TransportTypeOK
<1>. QED
  BY <1>1, <1>2, <1>3 DEF ConnectionNext

(* The transport, the session and the machine are always well formed.      *)
THEOREM ConnectionTypeCorrect == ConnectionSpec => []ConnectionTypeOK
BY InitialTypes, ConnectionStepsKeepTypes, PTL DEF ConnectionSpec

------------------------------------------------------------------------------
(* One connect attempt at a time.  Two attempts that overlap can leave the *)
(* transport "connecting" with a connection id of its own, so what follows *)
(* is about services whose callers wait for one attempt before the next.   *)
SingleAttempt == \A a, b \in Attempts : a = b

Offline == tState \notin {"connected", "quarantined"}

\* The strengthening: without a connected transport there is no connection,
\* an attempt only runs without one, only the states of an attempt remember
\* a previous connection, and a drop is ignored only during disconnect().
ConnectionInv ==
  /\ ConnectionTypeOK
  /\ OneGeneration
  /\ SessionHasLink
  /\ Offline => connId = 0
  /\ \A a \in Attempts : Pending(a) => Offline /\ cm.value \in {"connecting", "disconnected"}
  /\ cm.prev # 0 => cm.value \in {"selecting", "connecting", "failed"}
  /\ explicit => closing # {}

LEMMA InitialInv == ConnectionInit => ConnectionInv
<1>. SUFFICES ASSUME ConnectionInit PROVE ConnectionInv
  OBVIOUS
<1>1. ConnectionTypeOK
  BY InitialTypes
<1>2. ~explicit
  BY DEF ConnectionInit
<1>. QED
  BY <1>1, <1>2
     DEF ConnectionInit, TransportInit, ConnectionInv, OneGeneration, SessionHasLink,
         Offline, Pending, NoAttempt, Machine

\* A DISCONNECTED event leaves no state that speaks of a connection.
LEMMA DisconnectedEvent ==
  ASSUME cm \in Machines, OneGeneration,
         cm.prev # 0 => cm.value \in {"selecting", "connecting", "failed"}
  PROVE  LET m == OnDisconnected(cm)
         IN  /\ m.value = "connected" => m.id = 0
             /\ m.prev = 0
             /\ cm.value \in {"connecting", "disconnected"}
                  => m.value \in {"connecting", "disconnected"}
<1>1. OnDisconnected(cm) = Machine("disconnected", 0, 0) \/ OnDisconnected(cm) = cm
  BY DEF OnDisconnected
<1>2. OnDisconnected(cm) = cm /\ cm # Machine("disconnected", 0, 0)
        => Snapshot(cm) = 0
  BY DEF OnDisconnected
<1>. QED
  BY <1>1, <1>2 DEF Machine, Machines, Snapshot

LEMMA InvStep ==
  ASSUME SingleAttempt, ConnectionInv, [ConnectionNext]_connectionVars
  PROVE  ConnectionInv'
<1>. DEFINE Rest == /\ OneGeneration
                    /\ SessionHasLink
                    /\ Offline => connId = 0
                    /\ \A a \in Attempts : Pending(a) =>
                         Offline /\ cm.value \in {"connecting", "disconnected"}
                    /\ cm.prev # 0 => cm.value \in {"selecting", "connecting", "failed"}
                    /\ explicit => closing # {}
<1>. USE DEF Rest, OneGeneration, SessionHasLink, Offline, Pending, Machines
<1>0. /\ ConnectionTypeOK
      /\ Rest
      /\ cm \in Machines
      /\ attempt \in [Attempts -> AttemptRecords]
      /\ 0 \in 0 .. MaxGen
  BY GenAssumption DEF ConnectionInv, ConnectionTypeOK, TransportTypeOK, AttemptRecords
<1>t. ConnectionTypeOK'
  BY ConnectionStepsKeepTypes DEF ConnectionInv
<1>1. ASSUME NEW a \in Attempts, NEW how \in Ways, Connect(a, how)
      PROVE  Rest'
  <2>1. CASE MayStartConnect
    <3>1. /\ cm' = OnConnect(OnSelect(cm))
          /\ tState' = "selecting"
          /\ attempt' \in [Attempts -> AttemptRecords]
          /\ UNCHANGED <<connId, sess, closing, explicit, disposed>>
      BY <1>1, <2>1, <1>0 DEF Connect, BeginSelect, AttemptRecords, Phases
    <3>2. connId = 0
      BY <1>0, <2>1 DEF MayStartConnect
    <3>3. cm'.value = "connecting" /\ cm'.prev = Snapshot(cm)
      BY <3>1 DEF OnConnect, OnSelect, Machine
    <3>4. Snapshot(cm) # 0 => Snapshot(cm) = sess
      BY <1>0 DEF Snapshot
    <3>. QED
      BY <1>0, <3>1, <3>2, <3>3, <3>4
  <2>2. CASE ~MayStartConnect
    <3>1. /\ cm' = AfterRejection(OnConnect(OnSelect(cm)), how)
          /\ UNCHANGED <<tState, connId, attempt, sess, closing, explicit, disposed>>
      BY <1>1, <2>2 DEF Connect, linkVars
    <3>2. Snapshot(cm) # 0 => Snapshot(cm) = sess
      BY <1>0 DEF Snapshot
    <3>3. OnConnect(OnSelect(cm)) = Machine("connecting", 0, Snapshot(cm))
      BY DEF OnConnect, OnSelect, Machine
    <3>4. cm' \in {Machine("connecting", 0, Snapshot(cm)), Machine("failed", 0, Snapshot(cm)),
                   Machine("connected", Snapshot(cm), 0)}
      BY <3>1, <3>3 DEF AfterRejection, Recover, OnFailed, Machine, Snapshot
    <3>5. cm'.value = "connected" => cm'.id = Snapshot(cm) /\ Snapshot(cm) # 0
      BY <3>1, <3>3 DEF AfterRejection, Recover, OnFailed, Machine, Snapshot
    <3>6. /\ cm'.value \in {"connecting", "failed", "connected"}
          /\ cm'.prev # 0 => cm'.value # "connected" /\ cm'.prev = Snapshot(cm)
      BY <3>4 DEF Machine
    <3>7. \A b \in Attempts : ~Pending(b)
      BY <1>1, <2>2 DEF Connect, SingleAttempt
    <3>. QED
      BY <1>0, <3>1, <3>2, <3>5, <3>6, <3>7
  <2>. QED
    BY <2>1, <2>2
<1>2. ASSUME NEW a \in Attempts, NEW d \in Devices, ChooseDevice(a, d)
      PROVE  Rest'
  <2>1. Offline
    BY <1>2, <1>0 DEF ChooseDevice, Choose
  <2>. QED
    BY <1>2, <2>1, <1>0 DEF ChooseDevice, Choose, serviceVars, AttemptRecords, Phases
<1>3. ASSUME NEW a \in Attempts, Established(a)
      PROVE  Rest'
  <2>1. /\ Offline
        /\ cm.value \in {"connecting", "disconnected"}
    BY <1>3, <1>0 DEF Established, LinkUp
  <2>2. \A b \in Attempts : ~Pending(b)'
    BY <1>3, <1>0, SingleAttempt DEF Established, LinkUp, NoAttempt, SingleAttempt
  <2>3. /\ tState' = "connected"
        /\ sess' = connId'
        /\ cm' = OnConnected(cm, connId')
        /\ UNCHANGED <<closing, explicit, disposed>>
    BY <1>3 DEF Established, LinkUp
  <2>4. CASE cm.value = "connecting"
    BY <2>2, <2>3, <2>4, <1>0 DEF OnConnected, Machine
  <2>5. CASE cm.value = "disconnected"
    <3>1. cm' = cm
      BY <2>3, <2>5 DEF OnConnected
    <3>. QED
      BY <2>2, <2>3, <2>5, <3>1, <1>0
  <2>. QED
    BY <2>1, <2>4, <2>5
<1>4. ASSUME NEW a \in Attempts, EstablishedTooLate(a)
      PROVE  Rest'
  <2>1. \A b \in Attempts : ~Pending(b)'
    BY <1>4, <1>0 DEF EstablishedTooLate, LinkUpAndClose, NoAttempt, SingleAttempt, Aborted
  <2>. QED
    BY <1>4, <2>1, <1>0 DEF EstablishedTooLate, LinkUpAndClose
<1>5. ASSUME NEW a \in Attempts, ConnectFails(a)
      PROVE  Rest'
  <2>1. \A b \in Attempts : ~Pending(b)'
    BY <1>5, <1>0 DEF ConnectFails, LinkFails, Cleanup, NoAttempt, SingleAttempt, Aborted
  <2>2. /\ connId' = 0
        /\ connId = 0
        /\ cm' = AfterRejection(cm, attempt[a].how)
        /\ UNCHANGED <<sess, closing, explicit, disposed>>
    BY <1>5, <1>0 DEF ConnectFails, LinkFails, Cleanup
  <2>3. cm.value \in {"connecting", "disconnected"}
    BY <1>5, <1>0 DEF ConnectFails, LinkFails
  <2>4. Snapshot(cm) # 0 => Snapshot(cm) = sess
    BY <1>0 DEF Snapshot
  <2>5. \/ cm' = cm
        \/ cm' = Machine("failed", 0, Snapshot(cm))
        \/ cm' = Machine("connected", Snapshot(cm), 0) /\ Snapshot(cm) # 0
    BY <2>2 DEF AfterRejection, Recover, OnFailed, Machine
  <2>6. cm'.value = "connected" => cm'.id = sess
    BY <2>3, <2>4, <2>5 DEF Machine
  <2>7. cm'.prev # 0 => cm'.prev = sess /\ cm'.value \in {"connecting", "failed"}
    BY <2>3, <2>4, <2>5, <1>0 DEF Machine
  <2>. QED
    BY <2>1, <2>2, <2>6, <2>7, <1>0
<1>6. ASSUME NEW who \in Closers \cup {"dispose"}, DisconnectBegin(who)
      PROVE  Rest'
  <2>1. /\ cm' = OnDisconnect(cm)
        /\ closing' # {}
        /\ disposed => disposed'
        /\ UNCHANGED <<tState, connId, attempt, sess>>
    BY <1>6 DEF DisconnectBegin, linkVars
  <2>2. \/ cm' = cm
        \/ cm.value \in {"connected", "quarantined"} /\ cm' = Machine("disconnecting", cm.id, 0)
    BY <2>1 DEF OnDisconnect
  <2>3. /\ cm'.value = "connected" => cm'.id = sess
        /\ cm'.prev # 0 => cm'.prev = sess /\ cm'.value \in {"selecting", "connecting", "failed"}
        /\ cm.value \in {"connecting", "disconnected"} => cm' = cm
    BY <2>2, <1>0 DEF Machine
  <2>. QED
    BY <2>1, <2>3, <1>0
<1>7. ASSUME NEW who \in Closers \cup {"dispose"}, DisconnectFinish(who)
      PROVE  Rest'
  <2>1. cm' = OnDisconnected(cm) /\ sess' = 0 /\ ~explicit'
    BY <1>7 DEF DisconnectFinish
  <2>2. tState' = "idle" /\ connId' = 0
    BY <1>7, <1>0 DEF DisconnectFinish, CloseTransport, Cleanup, linkVars
  <2>3. \A b \in Attempts : Pending(b)' => Pending(b)
    BY <1>7, <1>0 DEF DisconnectFinish, CloseTransport, Cleanup, linkVars, Aborted
  <2>. QED
    BY <2>1, <2>2, <2>3, <1>0, DisconnectedEvent
<1>8. ASSUME NEW d \in Devices, Drop(d)
      PROVE  Rest'
  <2>1. /\ tState' = "idle"
        /\ connId' = 0
        /\ UNCHANGED <<closing, explicit, disposed>>
    BY <1>8 DEF Drop, LinkLost
  <2>2. \A b \in Attempts : Pending(b)' => Pending(b)
    BY <1>8, <1>0 DEF Drop, LinkLost, Aborted
  <2>3. CASE LossIsHandled
    <3>1. sess' = 0 /\ cm' = OnDisconnected(cm)
      BY <1>8, <2>3 DEF Drop
    <3>. QED
      BY <2>1, <2>2, <3>1, <1>0, DisconnectedEvent
  <2>4. CASE ~LossIsHandled
    <3>1. sess' = sess /\ cm' = cm
      BY <1>8, <2>4 DEF Drop
    <3>2. disposed \/ closing # {} \/ connId = 0
      BY <2>4, <1>0 DEF LossIsHandled
    <3>. QED
      BY <2>1, <2>2, <3>1, <3>2, <1>0
  <2>. QED
    BY <2>3, <2>4
<1>9. ASSUME NEW reported \in BOOLEAN, Indeterminate(reported)
      PROVE  Rest'
  <2>1. /\ tState \in {"connected", "quarantined"} /\ tState' = "quarantined"
        /\ UNCHANGED <<connId, attempt, sess, closing, explicit, disposed>>
    BY <1>9 DEF Indeterminate, QuarantinedState
  <2>2. cm' = cm \/ cm' = Machine("quarantined", cm.id, 0)
    BY <1>9 DEF Indeterminate, OnIndeterminate
  <2>3. /\ cm'.value = "connected" => cm' = cm
        /\ cm'.prev # 0 => cm' = cm
    BY <2>2 DEF Machine
  <2>4. \A b \in Attempts : ~Pending(b)
    BY <2>1, <1>0
  <2>. QED
    BY <2>1, <2>3, <2>4, <1>0
<1>10. ASSUME UNCHANGED connectionVars PROVE Rest'
  BY <1>10, <1>0 DEF connectionVars, linkVars, serviceVars
<1>11. Rest'
  <2>. HIDE DEF Rest
  <2>. QED
    BY <1>1, <1>2, <1>3, <1>4, <1>5, <1>6, <1>7, <1>8, <1>9, <1>10
       DEF ConnectionNext, LinkNext
<1>. QED
  BY <1>t, <1>11 DEF ConnectionInv

LEMMA InvAlways == ASSUME SingleAttempt PROVE ConnectionSpec => []ConnectionInv
<1>1. ConnectionInv /\ [ConnectionNext]_connectionVars => ConnectionInv'
  BY SingleAttempt, InvStep
<1>. QED
  BY InitialInv, <1>1, PTL DEF ConnectionSpec

(* With one attempt at a time the session, the machine and the transport   *)
(* never speak of different connections.                                   *)
THEOREM OneGenerationAlways ==
  ASSUME SingleAttempt PROVE ConnectionSpec => []OneGeneration
<1>1. ConnectionInv => OneGeneration
  BY DEF ConnectionInv
<1>. QED
  BY SingleAttempt, InvAlways, <1>1, PTL

(* With one attempt at a time a live session keeps its link until a        *)
(* disconnect() is under way or the workspace is disposed.                 *)
THEOREM SessionHasLinkAlways ==
  ASSUME SingleAttempt PROVE ConnectionSpec => []SessionHasLink
<1>1. ConnectionInv => SessionHasLink
  BY DEF ConnectionInv
<1>. QED
  BY SingleAttempt, InvAlways, <1>1, PTL

(* With one attempt at a time quarantine ends only together with the       *)
(* connection id it protects.                                              *)
THEOREM QuarantineEndsTheGenerationAlways ==
  ASSUME SingleAttempt PROVE ConnectionSpec => QuarantineEndsTheGeneration
<1>1. ASSUME ConnectionInv, [ConnectionNext]_connectionVars,
             tState = "quarantined", tState' # "quarantined"
      PROVE  connId' = 0
  <2>. USE DEF ConnectionInv, Offline, Pending
  <2>1. ASSUME NEW a \in Attempts, NEW how \in Ways, Connect(a, how) PROVE FALSE
    BY <1>1, <2>1 DEF Connect, MayStartConnect, linkVars
  <2>2. ASSUME NEW a \in Attempts, NEW d \in Devices, ChooseDevice(a, d) PROVE FALSE
    BY <1>1, <2>2 DEF ChooseDevice, Choose
  <2>3. ASSUME NEW a \in Attempts,
               Established(a) \/ EstablishedTooLate(a) \/ ConnectFails(a)
        PROVE  FALSE
    BY <1>1, <2>3 DEF Established, EstablishedTooLate, ConnectFails, LinkUp,
       LinkUpAndClose, LinkFails
  <2>4. ASSUME NEW who \in Closers \cup {"dispose"},
               DisconnectBegin(who) \/ DisconnectFinish(who)
        PROVE  connId' = 0
    BY <1>1, <2>4 DEF DisconnectBegin, DisconnectFinish, CloseTransport, Cleanup, linkVars
  <2>5. ASSUME NEW d \in Devices, Drop(d) PROVE connId' = 0
    BY <1>1, <2>5 DEF Drop, LinkLost
  <2>6. ASSUME NEW reported \in BOOLEAN, Indeterminate(reported) PROVE FALSE
    BY <1>1, <2>6 DEF Indeterminate, QuarantinedState
  <2>7. ASSUME UNCHANGED connectionVars PROVE FALSE
    BY <1>1, <2>7 DEF connectionVars, linkVars
  <2>. QED
    BY <1>1, <2>1, <2>2, <2>3, <2>4, <2>5, <2>6, <2>7 DEF ConnectionNext, LinkNext
<1>2. ConnectionInv /\ [ConnectionNext]_connectionVars
        => [tState = "quarantined" /\ tState' # "quarantined" => connId' = 0]_connectionVars
  BY <1>1
<1>. QED
  BY SingleAttempt, InvAlways, <1>2, PTL DEF ConnectionSpec, QuarantineEndsTheGeneration

------------------------------------------------------------------------------
(* The calls and the queue of writes.                                      *)

Digests == [kind : AllKinds \cup {"none"}, gen : 0 .. MaxGen]

------------------------------------------------------------------------------
(* The write queue: what its operators preserve.                           *)

OwnLoad(c, phase, s) == [Load(c, phase) EXCEPT !.owner = s]

LEMMA LoadType ==
  ASSUME NEW c \in Calls, c.pkt < Packets, NEW s \in Callers, connId \in 0 .. MaxGen,
         NEW phase \in {"waiting", "inBrowser"}
  PROVE  /\ OwnLoad(c, phase, s) \in Writes
         /\ OwnLoad(c, phase, s).owner = s
         /\ OwnLoad(c, phase, s).kind = c.kind
         /\ OwnLoad(c, phase, s).gen = c.gen
         /\ OwnLoad(c, phase, s).edited = c.owned
         /\ ~OwnLoad(c, phase, s).orphan
         /\ OwnLoad(c, phase, s).phase = phase
         /\ phase = "inBrowser" => OwnLoad(c, phase, s).via = connId
<1>1. c.pkt + 1 \in 1 .. Packets
  BY PacketAssumption DEF Calls
<1>2. 0 \in 0 .. MaxGen
  BY GenAssumption
<1>. QED
  BY <1>1, <1>2 DEF OwnLoad, Load, Writes, Calls

\* A call appends exactly one write, its own, as the last of the queue.
LEMMA EnqueueFacts ==
  ASSUME TypeOK, NEW s \in Callers, call[s].pkt < Packets
  PROVE  /\ Enqueue(s) \in Seq(Writes)
         /\ DOMAIN Enqueue(s) = 1 .. Len(wq) + 1
         /\ \A i \in DOMAIN wq : Enqueue(s)[i] = wq[i]
         /\ LET w == Enqueue(s)[Len(wq) + 1]
            IN  /\ w.owner = s /\ w.kind = call[s].kind /\ w.gen = call[s].gen
                /\ w.edited = call[s].owned /\ ~w.orphan
                /\ w.phase = "inBrowser" => w.via = connId
<1>. DEFINE phase == IF wq = <<>> THEN "inBrowser" ELSE "waiting"
<1>. DEFINE w == OwnLoad(call[s], phase, s)
<1>1. call[s] \in Calls /\ connId \in 0 .. MaxGen /\ wq \in Seq(Writes)
  BY DEF TypeOK, ConnectionTypeOK, TransportTypeOK
<1>2. /\ w \in Writes
      /\ w.owner = s /\ w.kind = call[s].kind /\ w.gen = call[s].gen /\ w.edited = call[s].owned
      /\ ~w.orphan
      /\ w.phase = "inBrowser" => w.via = connId
  <2>1. phase \in {"waiting", "inBrowser"}
    OBVIOUS
  <2>. HIDE DEF phase
  <2>. QED
    BY <1>1, <2>1, LoadType
<1>3. Enqueue(s) = Append(wq, w)
  BY DEF Enqueue, OwnLoad
<1>. HIDE DEF w
<1>4. /\ Append(wq, w) \in Seq(Writes)
      /\ DOMAIN Append(wq, w) = 1 .. Len(wq) + 1
      /\ \A i \in DOMAIN wq : Append(wq, w)[i] = wq[i]
      /\ Append(wq, w)[Len(wq) + 1] = w
  BY <1>1, <1>2
<1>. QED
  BY <1>2, <1>3, <1>4

\* Advancing changes only the phase of a write, and puts one in the browser
\* only on the open connection.
LEMMA AdvanceFacts ==
  ASSUME NEW q \in Seq(Writes), connId \in 0 .. MaxGen
  PROVE  /\ Advance(q) \in Seq(Writes)
         /\ DOMAIN Advance(q) = DOMAIN q
         /\ \A i \in DOMAIN q :
              LET w == Advance(q)[i]
              IN  /\ w.owner = q[i].owner /\ w.kind = q[i].kind /\ w.gen = q[i].gen
                  /\ w.edited = q[i].edited /\ w.orphan = q[i].orphan
                  /\ w.phase = "inBrowser" =>
                       \/ q[i].phase = "inBrowser" /\ w.via = q[i].via
                       \/ tState = "connected" /\ w.via = connId
<1>1. CASE q = <<>> \/ Head(q).phase # "waiting"
  BY <1>1 DEF Advance
<1>2. CASE q # <<>> /\ Head(q).phase = "waiting" /\ tState = "connected"
  <2>1. Advance(q) = [q EXCEPT ![1].phase = "inBrowser", ![1].via = connId]
    BY <1>2 DEF Advance
  <2>. DEFINE w == [q[1] EXCEPT !.phase = "inBrowser", !.via = connId]
  <2>2. 1 \in DOMAIN q /\ q[1] \in Writes
    BY <1>2
  <2>3. /\ w \in Writes
        /\ w.owner = q[1].owner /\ w.kind = q[1].kind /\ w.gen = q[1].gen
        /\ w.edited = q[1].edited /\ w.orphan = q[1].orphan /\ w.via = connId
    BY <2>2 DEF Writes
  <2>4. Advance(q) = [q EXCEPT ![1] = w]
    BY <2>1, <2>2 DEF Writes
  <2>. HIDE DEF w
  <2>5. /\ [q EXCEPT ![1] = w] \in Seq(Writes)
        /\ DOMAIN [q EXCEPT ![1] = w] = DOMAIN q
    BY <2>2, <2>3
  <2>6. \A i \in DOMAIN q : [q EXCEPT ![1] = w][i] = IF i = 1 THEN w ELSE q[i]
    BY <2>2
  <2>. QED
    BY <1>2, <2>3, <2>4, <2>5, <2>6
<1>3. CASE q # <<>> /\ Head(q).phase = "waiting" /\ tState # "connected"
  <2>1. Advance(q) = [i \in DOMAIN q |-> [q[i] EXCEPT !.phase = "failed"]]
    BY <1>3 DEF Advance
  <2>2. \A i \in DOMAIN q : q[i] \in Writes
    OBVIOUS
  <2>3. \A i \in DOMAIN q :
          LET w == [q[i] EXCEPT !.phase = "failed"]
          IN  /\ w \in Writes
              /\ w.owner = q[i].owner /\ w.kind = q[i].kind /\ w.gen = q[i].gen
              /\ w.edited = q[i].edited /\ w.orphan = q[i].orphan /\ w.phase = "failed"
    BY <2>2 DEF Writes
  <2>. DEFINE f == [i \in DOMAIN q |-> [q[i] EXCEPT !.phase = "failed"]]
  <2>4. /\ DOMAIN f = 1 .. Len(q)
        /\ \A i \in 1 .. Len(q) : f[i] = [q[i] EXCEPT !.phase = "failed"]
    OBVIOUS
  <2>. HIDE DEF f
  <2>5. f \in [1 .. Len(q) -> Writes]
    <3>1. f = [i \in 1 .. Len(q) |-> f[i]]
      BY <2>4 DEF f
    <3>. QED
      BY <2>3, <2>4, <3>1
  <2>6. f \in Seq(Writes)
    BY <2>5, SeqDef, LenProperties
  <2>. QED
    BY <2>1, <2>3, <2>4, <2>6 DEF f
<1>. QED
  BY <1>1, <1>2, <1>3

\* The queue after its oldest write settled.
LEMMA SettleFacts ==
  ASSUME wq \in Seq(Writes), wq # <<>>, connId \in 0 .. MaxGen
  PROVE  LET q == Advance(Tail(wq))
         IN  /\ q \in Seq(Writes)
             /\ DOMAIN q = 1 .. Len(wq) - 1
             /\ \A i \in DOMAIN q :
                  /\ i + 1 \in DOMAIN wq
                  /\ q[i].owner = wq[i + 1].owner /\ q[i].gen = wq[i + 1].gen
                  /\ q[i].kind = wq[i + 1].kind
                  /\ q[i].edited = wq[i + 1].edited /\ q[i].orphan = wq[i + 1].orphan
                  /\ q[i].phase = "inBrowser" =>
                       \/ wq[i + 1].phase = "inBrowser" /\ q[i].via = wq[i + 1].via
                       \/ tState = "connected" /\ q[i].via = connId
<1>. DEFINE t == Tail(wq)
<1>1. /\ t \in Seq(Writes)
      /\ DOMAIN t = 1 .. Len(wq) - 1
      /\ \A i \in DOMAIN t : i + 1 \in DOMAIN wq /\ t[i] = wq[i + 1]
  OBVIOUS
<1>. HIDE DEF t
<1>2. /\ Advance(t) \in Seq(Writes)
      /\ DOMAIN Advance(t) = DOMAIN t
      /\ \A i \in DOMAIN t :
           LET w == Advance(t)[i]
           IN  /\ w.owner = t[i].owner /\ w.kind = t[i].kind /\ w.gen = t[i].gen
               /\ w.edited = t[i].edited /\ w.orphan = t[i].orphan
               /\ w.phase = "inBrowser" =>
                    \/ t[i].phase = "inBrowser" /\ w.via = t[i].via
                    \/ tState = "connected" /\ w.via = connId
  BY <1>1, AdvanceFacts
<1>. QED
  BY <1>1, <1>2 DEF t

\* A time-out marks the writes of one call as given up.
Orphaned(q, s) ==
  [i \in DOMAIN q |-> IF q[i].owner = s THEN [q[i] EXCEPT !.orphan = TRUE] ELSE q[i]]

LEMMA OrphanFacts ==
  ASSUME NEW q \in Seq(Writes), NEW s
  PROVE  /\ Orphaned(q, s) \in Seq(Writes)
         /\ DOMAIN Orphaned(q, s) = DOMAIN q
         /\ \A i \in DOMAIN q :
              LET w == Orphaned(q, s)[i]
              IN  /\ w.owner = q[i].owner /\ w.kind = q[i].kind
                  /\ w.gen = q[i].gen /\ w.edited = q[i].edited
                  /\ w.phase = q[i].phase /\ w.via = q[i].via
                  /\ w.orphan <=> q[i].orphan \/ q[i].owner = s
<1>1. \A i \in 1 .. Len(q) : q[i] \in Writes
  OBVIOUS
<1>2. \A i \in 1 .. Len(q) :
        LET w == IF q[i].owner = s THEN [q[i] EXCEPT !.orphan = TRUE] ELSE q[i]
        IN  /\ w \in Writes
            /\ w.owner = q[i].owner /\ w.kind = q[i].kind
            /\ w.gen = q[i].gen /\ w.edited = q[i].edited
            /\ w.phase = q[i].phase /\ w.via = q[i].via
            /\ w.orphan <=> q[i].orphan \/ q[i].owner = s
  BY <1>1 DEF Writes
<1>3. DOMAIN q = 1 .. Len(q) /\ Len(q) \in Nat
  OBVIOUS
<1>4. Orphaned(q, s) =
        [i \in 1 .. Len(q) |-> IF q[i].owner = s THEN [q[i] EXCEPT !.orphan = TRUE] ELSE q[i]]
  BY <1>3 DEF Orphaned
<1>5. Orphaned(q, s) \in [1 .. Len(q) -> Writes]
  BY <1>2, <1>4
<1>6. Orphaned(q, s) \in Seq(Writes)
  BY <1>3, <1>5, SeqDef
<1>. QED
  BY <1>2, <1>3, <1>4, <1>6

------------------------------------------------------------------------------
(* Type correctness.                                                       *)

CallsOK(f) ==
  /\ f \in [Callers -> Calls]
  /\ \A s \in Callers : f[s].pc \notin {"writing", "awaiting"} => f[s].pkt < Packets

SendTypeOK ==
  /\ CallsOK(call)
  /\ expTx \in BOOLEAN
  /\ digest \in Digests
  /\ running \in Callers \cup {NoCaller}
  /\ staged \in {"none", "guided"}
  /\ panel \in Programs \cup {"unknown"}
  /\ wq \in Seq(Writes)
  /\ shows \in [Devices -> Programs \cup {"blank", "partial"}]
  /\ tainted \subseteq 0 .. MaxGen

LEMMA TypeParts == TypeOK <=> ConnectionTypeOK /\ SendTypeOK
BY DEF TypeOK, SendTypeOK, Digests, CallsOK

LEMMA NoCallType == NoCall \in Calls /\ NoCall.pkt < Packets /\ NoDigest \in Digests
BY GenAssumption, PacketAssumption DEF NoCall, Calls, AllKinds, NoDigest, Digests

LEMMA ReleaseTypes ==
  ASSUME SendTypeOK, NEW c \in Calls, ReleaseAuthority(c)
  PROVE  digest' \in Digests /\ expTx' \in BOOLEAN
<1>1. digest' \in Digests
  BY NoCallType DEF ReleaseAuthority, SendTypeOK
<1>2. expTx' \in BOOLEAN
  BY DEF ReleaseAuthority
<1>. QED
  BY <1>1, <1>2

\* One call is replaced by a well-formed one.
LEMMA OneCallChanges ==
  ASSUME CallsOK(call), NEW s \in Callers, NEW c \in Calls,
         c.pc \notin {"writing", "awaiting"} => c.pkt < Packets
  PROVE  CallsOK([call EXCEPT ![s] = c])
BY DEF CallsOK

\* The parts of the state a failed or a completed call touches.
LEMMA FailTypes ==
  ASSUME TypeOK, NEW s \in Callers, NEW state, Fail(s, state)
  PROVE  /\ cm' \in Machines
         /\ panel' \in Programs \cup {"unknown"}
         /\ running' \in Callers \cup {NoCaller}
         /\ CallsOK(call')
         /\ digest' \in Digests /\ expTx' \in BOOLEAN
<1>1. SendTypeOK /\ cm \in Machines /\ call[s] \in Calls
  BY TypeParts DEF SendTypeOK, CallsOK, ConnectionTypeOK, Machines
<1>2. cm' \in Machines
  BY <1>1, MachineEvents, GenAssumption DEF Fail
<1>3. digest' \in Digests /\ expTx' \in BOOLEAN
  BY <1>1, ReleaseTypes DEF Fail
<1>4. CallsOK(call')
  BY <1>1, NoCallType, OneCallChanges DEF Fail, SendTypeOK
<1>. QED
  BY <1>1, <1>2, <1>3, <1>4 DEF Fail, SendTypeOK

LEMMA CompleteTypes ==
  ASSUME TypeOK, NEW s \in Callers, Complete(s)
  PROVE  /\ panel' \in Programs \cup {"unknown"}
         /\ running' \in Callers \cup {NoCaller}
         /\ CallsOK(call')
         /\ digest' \in Digests /\ expTx' \in BOOLEAN
<1>1. SendTypeOK /\ call[s] \in Calls
  BY TypeParts DEF SendTypeOK, CallsOK
<1>2. digest' \in Digests /\ expTx' \in BOOLEAN
  BY <1>1, ReleaseTypes DEF Complete
<1>3. CallsOK(call')
  BY <1>1, NoCallType, OneCallChanges DEF Complete, SendTypeOK
<1>. QED
  BY <1>1, <1>2, <1>3 DEF Complete, SendTypeOK, Programs

LEMMA SubmitTypes ==
  ASSUME TypeOK, NEW s \in Callers, NEW p \in Calls, p.pkt < Packets, Submit(s, p)
  PROVE  CallsOK(call') /\ expTx' \in BOOLEAN /\ digest' \in Digests
<1>. DEFINE c == [p EXCEPT !.pc = "subscribing", !.owned = p.edited,
                           !.temp = Experimental(p.kind) /\ ~expTx]
<1>1. SendTypeOK
  BY TypeParts
<1>2. DigestOf(p) \in Digests
  BY DEF DigestOf, Digests, Calls
<1>3. c \in Calls /\ c.pkt < Packets
  <2>1. (Experimental(p.kind) /\ ~expTx) \in BOOLEAN
    OBVIOUS
  <2>. QED
    BY <2>1 DEF Calls, InFlight, Executing
<1>4. CallsOK(call')
  <2>1. call' = [call EXCEPT ![s] = c] \/ call' = [call EXCEPT ![s] = NoCall]
    BY DEF Submit
  <2>. HIDE DEF c
  <2>. QED
    BY <1>1, <1>3, <2>1, NoCallType, OneCallChanges DEF SendTypeOK
<1>5. digest' \in Digests
  BY <1>1, <1>2, NoCallType DEF Submit, SendTypeOK
<1>6. expTx' \in BOOLEAN
  BY <1>1 DEF Submit, SendTypeOK
<1>. QED
  BY <1>4, <1>5, <1>6

LEMMA PlanType ==
  ASSUME NEW k \in AllKinds, NEW g \in 0 .. MaxGen
  PROVE  Plan(k, g) \in Calls /\ Plan(k, g).pkt < Packets
BY NoCallType DEF Plan, Calls

LEMMA UnchangedTypes ==
  ASSUME ConnectionTypeOK, UNCHANGED connectionVars PROVE ConnectionTypeOK'
BY DEF connectionVars, linkVars, serviceVars, ConnectionTypeOK, TransportTypeOK

\* A step that leaves the link alone and keeps the machine well formed.
LEMMA MachineOnlyTypes ==
  ASSUME ConnectionTypeOK, LinkUnchanged, cm' \in Machines PROVE ConnectionTypeOK'
BY DEF ConnectionTypeOK, TransportTypeOK, LinkUnchanged, linkVars, Machines

LEMMA InitialSendTypes == Init => TypeOK
<1>. SUFFICES ASSUME Init PROVE TypeOK
  OBVIOUS
<1>1. ConnectionTypeOK
  BY InitialTypes DEF Init
<1>2. CallsOK(call) /\ digest \in Digests
  BY NoCallType DEF Init, CallsOK
<1>3. expTx \in BOOLEAN
  BY DEF Init
<1>4. /\ running \in Callers \cup {NoCaller}
      /\ staged \in {"none", "guided"}
      /\ panel \in Programs \cup {"unknown"}
      /\ wq \in Seq(Writes)
      /\ shows \in [Devices -> Programs \cup {"blank", "partial"}]
      /\ tainted \subseteq 0 .. MaxGen
  BY DEF Init
<1>. QED
  BY <1>1, <1>2, <1>3, <1>4, TypeParts DEF SendTypeOK

LEMMA SendStepsKeepTypes ==
  ASSUME TypeOK, NEW s \in Callers, SendStep(s) PROVE TypeOK'
<1>. DEFINE Others == /\ running' \in Callers \cup {NoCaller}
                      /\ staged' \in {"none", "guided"}
                      /\ panel' \in Programs \cup {"unknown"}
                      /\ shows' \in [Devices -> Programs \cup {"blank", "partial"}]
                      /\ tainted' \subseteq 0 .. MaxGen
<1>0. /\ ConnectionTypeOK /\ SendTypeOK
      /\ call[s] \in Calls
      /\ connId \in 0 .. MaxGen
      /\ wq \in Seq(Writes)
      /\ cm \in Machines
  BY TypeParts DEF SendTypeOK, CallsOK, ConnectionTypeOK, TransportTypeOK, Machines
<1>s. ASSUME ConnectionTypeOK', CallsOK(call'), digest' \in Digests, expTx' \in BOOLEAN,
             wq' \in Seq(Writes), Others
      PROVE  TypeOK'
  BY <1>s DEF TypeOK, CallsOK, Digests
<1>1. ASSUME Subscribed(s) PROVE TypeOK'
  <2>1. staged' = "none" /\ LinkUnchanged /\ UNCHANGED <<shows, tainted>>
    BY <1>1 DEF Subscribed
  <2>2. CASE MayExecute(call[s])
    <3>. DEFINE c == [call[s] EXCEPT !.pc = "writing", !.took = staged]
    <3>1. /\ running' = s
          /\ call' = [call EXCEPT ![s] = c]
          /\ wq' = Enqueue(s)
          /\ UNCHANGED <<cm, panel, expTx, digest>>
      BY <1>0, <1>1, <2>2 DEF Subscribed, SendTypeOK, CallsOK
    <3>2. c \in Calls /\ c.pc = "writing"
      BY <1>0 DEF SendTypeOK, Calls, InFlight, Executing
    <3>3. CallsOK(call')
      <4>. HIDE DEF c
      <4>. QED
        BY <1>0, <3>1, <3>2, OneCallChanges DEF SendTypeOK
    <3>4. wq' \in Seq(Writes)
      BY <1>0, <1>1, <3>1, EnqueueFacts DEF Subscribed, SendTypeOK, CallsOK
    <3>5. ConnectionTypeOK'
      BY <1>0, <2>1, <3>1, MachineOnlyTypes
    <3>. QED
      BY <1>0, <1>s, <2>1, <3>1, <3>3, <3>4, <3>5 DEF SendTypeOK
  <2>3. CASE ~MayExecute(call[s])
    <3>1. Fail(s, tState) /\ UNCHANGED wq
      BY <1>1, <2>3 DEF Subscribed
    <3>2. ConnectionTypeOK'
      BY <1>0, <2>1, <3>1, FailTypes, MachineOnlyTypes
    <3>. QED
      BY <1>0, <1>s, <2>1, <3>1, <3>2, FailTypes DEF SendTypeOK
  <2>. QED
    BY <2>2, <2>3
<1>2. ASSUME SubscribeFails(s) PROVE TypeOK'
  <2>1. CallsOK(call')
    BY <1>0, <1>2, NoCallType, OneCallChanges DEF SubscribeFails, SendTypeOK
  <2>2. digest' \in Digests /\ expTx' \in BOOLEAN
    BY <1>0, <1>2, ReleaseTypes DEF SubscribeFails
  <2>3. ConnectionTypeOK'
    BY <1>0, <1>2, UnchangedTypes DEF SubscribeFails
  <2>4. UNCHANGED <<running, staged, panel, wq, shows, tainted>>
    BY <1>2 DEF SubscribeFails
  <2>. QED
    BY <1>0, <1>s, <2>1, <2>2, <2>3, <2>4 DEF SendTypeOK
<1>3. ASSUME WriteTimesOut(s) PROVE TypeOK'
  <2>1. Fail(s, QuarantinedState)
    BY <1>3 DEF WriteTimesOut
  <2>2. wq' \in Seq(Writes)
    <3>1. wq' = Orphaned(wq, s)
      BY <1>3 DEF WriteTimesOut, Orphaned
    <3>. QED
      BY <1>0, <3>1, OrphanFacts
  <2>3. tainted' \subseteq 0 .. MaxGen
    <3>1. tainted' = tainted \/ tainted' = tainted \cup {connId}
      BY <1>3 DEF WriteTimesOut
    <3>. QED
      BY <1>0, <3>1 DEF SendTypeOK
  <2>4. ConnectionTypeOK'
    <3>1. cm' \in Machines
      BY <2>1, FailTypes
    <3>. QED
      BY <1>0, <1>3, <3>1 DEF WriteTimesOut, ConnectionTypeOK, TransportTypeOK, Machines,
         QuarantinedState, TransportStates
  <2>. QED
    BY <1>0, <1>3, <1>s, <2>1, <2>2, <2>3, <2>4, FailTypes DEF WriteTimesOut, SendTypeOK
<1>4. ASSUME NextPacket(s) PROVE TypeOK'
  <2>1. LinkUnchanged /\ UNCHANGED <<staged, shows, tainted>>
    BY <1>4 DEF NextPacket
  <2>2. CASE connId = call[s].gen /\ tState = "connected"
    <3>. DEFINE c == [call[s] EXCEPT !.pc = "writing"]
    <3>1. /\ call' = [call EXCEPT ![s] = c]
          /\ wq' = Enqueue(s)
          /\ UNCHANGED <<cm, panel, running, expTx, digest>>
      BY <1>0, <1>4, <2>2 DEF NextPacket, SendTypeOK, CallsOK
    <3>2. c \in Calls /\ c.pc = "writing"
      BY <1>0 DEF Calls, InFlight, Executing
    <3>3. CallsOK(call')
      <4>. HIDE DEF c
      <4>. QED
        BY <1>0, <3>1, <3>2, OneCallChanges DEF SendTypeOK
    <3>4. wq' \in Seq(Writes)
      BY <1>0, <1>4, <3>1, EnqueueFacts DEF NextPacket, SendTypeOK, CallsOK
    <3>5. ConnectionTypeOK'
      BY <1>0, <2>1, <3>1, MachineOnlyTypes
    <3>. QED
      BY <1>0, <1>s, <2>1, <3>1, <3>3, <3>4, <3>5 DEF SendTypeOK
  <2>3. CASE ~(connId = call[s].gen /\ tState = "connected")
    <3>1. Fail(s, tState) /\ UNCHANGED wq
      BY <1>4, <2>3 DEF NextPacket
    <3>2. ConnectionTypeOK'
      BY <1>0, <2>1, <3>1, FailTypes, MachineOnlyTypes
    <3>. QED
      BY <1>0, <1>s, <2>1, <3>1, <3>2, FailTypes DEF SendTypeOK
  <2>. QED
    BY <2>2, <2>3
<1>5. ASSUME ResponseSettles(s) PROVE TypeOK'
  <2>1. Complete(s) /\ UNCHANGED <<connectionVars, staged, wq, shows, tainted>>
    BY <1>5 DEF ResponseSettles
  <2>. QED
    BY <1>0, <1>s, <2>1, CompleteTypes, UnchangedTypes DEF SendTypeOK
<1>. QED
  BY <1>1, <1>2, <1>3, <1>4, <1>5 DEF SendStep

LEMMA SettlingKeepsTypes == TypeOK /\ (Accepted \/ Rejected) => TypeOK'
<1>. SUFFICES ASSUME TypeOK, Accepted \/ Rejected PROVE TypeOK'
  OBVIOUS
<1>. DEFINE s == Head(wq).owner
<1>0. /\ ConnectionTypeOK /\ SendTypeOK
      /\ connId \in 0 .. MaxGen
      /\ wq \in Seq(Writes)
      /\ cm \in Machines
  BY TypeParts DEF SendTypeOK, ConnectionTypeOK, TransportTypeOK, Machines
<1>1. wq # <<>>
  BY DEF Accepted, Rejected
<1>2. Head(wq) \in Writes /\ s \in Callers
  <2>1. Head(wq) \in Writes
    BY <1>0, <1>1
  <2>. QED
    BY <2>1 DEF Writes
<1>3. wq' = Advance(Tail(wq)) /\ wq' \in Seq(Writes)
  <2>1. wq' = Advance(Tail(wq))
    BY DEF Accepted, Rejected
  <2>. QED
    BY <1>0, <1>1, <2>1, SettleFacts
<1>4. staged' = staged /\ tainted' = tainted
  BY DEF Accepted, Rejected
<1>5. CASE Accepted
  <2>1. ConnectionTypeOK'
    BY <1>0, <1>5, UnchangedTypes DEF Accepted
  <2>2. shows' \in [Devices -> Programs \cup {"blank", "partial"}]
    <3>. DEFINE d == genDevice[connId]
    <3>1. shows' = [shows EXCEPT ![d] = Stored(shows[d], Head(wq))]
      BY <1>5 DEF Accepted
    <3>2. d \in Devices => Stored(shows[d], Head(wq)) \in Programs \cup {"blank", "partial"}
      BY <1>0 DEF Stored, Program, Programs, SendTypeOK
    <3>. HIDE DEF d
    <3>. QED
      BY <1>0, <3>1, <3>2 DEF SendTypeOK
  <2>3. CASE Head(wq).orphan
    <3>1. UNCHANGED <<call, running, panel, expTx, digest>>
      BY <1>5, <2>3 DEF Accepted
    <3>. QED
      BY <1>0, <1>3, <1>4, <2>1, <2>2, <3>1 DEF SendTypeOK, TypeOK, CallsOK, Digests
  <2>4. CASE ~Head(wq).orphan /\ (MoreAfter(Head(wq)) \/ Responds(Head(wq).kind))
    <3>. DEFINE next == IF MoreAfter(Head(wq)) THEN "pacing" ELSE "awaiting"
    <3>. DEFINE c == [call[s] EXCEPT !.pkt = Head(wq).pkt, !.pc = next]
    <3>1. /\ call' = [call EXCEPT ![s].pkt = Head(wq).pkt, ![s].pc = next]
          /\ UNCHANGED <<running, panel, expTx, digest>>
      BY <1>5, <2>4 DEF Accepted
    <3>2. call' = [call EXCEPT ![s] = c]
      BY <1>0, <1>2, <3>1 DEF SendTypeOK, CallsOK, Calls
    <3>3. c \in Calls /\ (c.pc \notin {"writing", "awaiting"} => c.pkt < Packets)
      <4>1. /\ call[s] \in Calls
            /\ next \in {"pacing", "awaiting"}
            /\ next = "pacing" => Head(wq).pkt < Packets
            /\ Head(wq).pkt \in 0 .. Packets
        BY <1>0, <1>2, PacketAssumption DEF SendTypeOK, CallsOK, Writes, MoreAfter, PacketsOf
      <4>. HIDE DEF next
      <4>. QED
        BY <4>1 DEF Calls, InFlight, Executing
    <3>4. CallsOK(call')
      <4>. HIDE DEF c, s
      <4>. QED
        BY <1>0, <1>2, <3>2, <3>3, OneCallChanges DEF SendTypeOK
    <3>. QED
      BY <1>0, <1>3, <1>4, <2>1, <2>2, <3>1, <3>4 DEF SendTypeOK, TypeOK, CallsOK, Digests
  <2>5. CASE ~Head(wq).orphan /\ ~(MoreAfter(Head(wq)) \/ Responds(Head(wq).kind))
    <3>1. Complete(s)
      BY <1>5, <2>5 DEF Accepted
    <3>. QED
      BY <1>0, <1>2, <1>3, <1>4, <2>1, <2>2, <3>1, CompleteTypes
         DEF SendTypeOK, TypeOK, CallsOK, Digests
  <2>. QED
    BY <2>3, <2>4, <2>5
<1>6. CASE Rejected
  <2>1. LinkUnchanged /\ shows' = shows
    BY <1>6 DEF Rejected
  <2>2. CASE Head(wq).orphan
    <3>1. UNCHANGED <<cm, call, running, panel, expTx, digest>>
      BY <1>6, <2>2 DEF Rejected
    <3>2. ConnectionTypeOK'
      BY <1>0, <2>1, <3>1, MachineOnlyTypes
    <3>. QED
      BY <1>0, <1>3, <1>4, <2>1, <3>1, <3>2 DEF SendTypeOK, TypeOK, CallsOK, Digests
  <2>3. CASE ~Head(wq).orphan
    <3>1. Fail(s, tState)
      BY <1>6, <2>3 DEF Rejected
    <3>2. ConnectionTypeOK'
      BY <1>0, <1>2, <2>1, <3>1, FailTypes, MachineOnlyTypes
    <3>. QED
      BY <1>0, <1>2, <1>3, <1>4, <2>1, <3>1, <3>2, FailTypes
         DEF SendTypeOK, TypeOK, CallsOK, Digests
  <2>. QED
    BY <2>2, <2>3
<1>. QED
  BY <1>5, <1>6

LEMMA PlanningKeepsTypes ==
  ASSUME TypeOK, NEW s \in Callers,
         \/ \E k \in Kinds : Prepare(s, k) \/ SendDirectly(s, k)
         \/ Dismiss(s) \/ Edit(s) \/ Confirm(s)
  PROVE  TypeOK'
<1>0. /\ ConnectionTypeOK /\ SendTypeOK
      /\ call[s] \in Calls
      /\ connId \in 0 .. MaxGen
      /\ \A k \in Kinds : k \in AllKinds
  BY TypeParts, KindAssumption DEF SendTypeOK, CallsOK, ConnectionTypeOK, TransportTypeOK
<1>1. UNCHANGED <<connectionVars, running, panel, wq, shows, tainted>>
  BY DEF Prepare, Dismiss, Edit, Confirm, SendDirectly
<1>2. staged' \in {"none", "guided"}
  BY <1>0 DEF Prepare, Dismiss, Edit, Confirm, SendDirectly, SendTypeOK
<1>3. CallsOK(call') /\ digest' \in Digests /\ expTx' \in BOOLEAN
  <2>1. ASSUME NEW k \in Kinds, Prepare(s, k)
        PROVE  CallsOK(call') /\ digest' \in Digests /\ expTx' \in BOOLEAN
    BY <1>0, <2>1, PlanType, OneCallChanges DEF Prepare, SendTypeOK
  <2>2. CASE Dismiss(s)
    BY <1>0, <2>2, NoCallType, OneCallChanges DEF Dismiss, SendTypeOK
  <2>3. CASE Edit(s)
    <3>. DEFINE c == [call[s] EXCEPT !.edited = TRUE]
    <3>1. call' = [call EXCEPT ![s] = c]
      BY <1>0, <2>3 DEF Edit, SendTypeOK, CallsOK
    <3>2. c \in Calls /\ c.pkt < Packets
      BY <1>0, <2>3 DEF Edit, SendTypeOK, CallsOK, Calls
    <3>. HIDE DEF c
    <3>. QED
      BY <1>0, <2>3, <3>1, <3>2, OneCallChanges DEF Edit, SendTypeOK
  <2>4. CASE Confirm(s)
    BY <1>0, <2>4, SubmitTypes DEF Confirm, SendTypeOK, CallsOK
  <2>5. ASSUME NEW k \in Kinds, SendDirectly(s, k)
        PROVE  CallsOK(call') /\ digest' \in Digests /\ expTx' \in BOOLEAN
    BY <1>0, <2>5, PlanType, SubmitTypes DEF SendDirectly
  <2>. QED
    BY <2>1, <2>2, <2>3, <2>4, <2>5
<1>4. ConnectionTypeOK'
  BY <1>0, <1>1, UnchangedTypes
<1>. QED
  BY <1>0, <1>1, <1>2, <1>3, <1>4 DEF SendTypeOK, TypeOK, CallsOK, Digests

LEMMA ConnectionStepsKeepSendTypes ==
  ASSUME TypeOK,
         \/ \E a \in Attempts : LinkEstablished(a) \/ LinkStep(a)
         \/ \E d \in Devices : LinkDropped(d)
         \/ \E who \in Closers \cup {"dispose"} : CloseBegins(who) \/ CloseFinishes(who)
  PROVE  TypeOK' /\ LinkNext
<1>1. LinkNext
  BY DEF LinkNext, LinkEstablished, LinkStep, LinkDropped, CloseBegins, CloseFinishes
<1>2. ConnectionTypeOK'
  BY <1>1, TypeParts, LinkStepsKeepTypes
<1>3. /\ UNCHANGED <<call, running, wq, shows, tainted>>
      /\ staged' \in {"none", staged}
      /\ panel' \in {"unknown", panel}
  BY DEF LinkEstablished, LinkStep, LinkDropped, CloseBegins, CloseFinishes, KeepSends, sendVars
<1>4. \/ UNCHANGED <<expTx, digest>>
      \/ expTx' = FALSE /\ digest' = NoDigest
  BY DEF LinkEstablished, LinkStep, LinkDropped, CloseBegins, CloseFinishes,
     KeepAuthority, ClearAuthority, sendVars
<1>5. expTx' \in BOOLEAN /\ digest' \in Digests
  BY <1>4, NoCallType, TypeParts DEF SendTypeOK
<1>. QED
  BY <1>1, <1>2, <1>3, <1>5, TypeParts DEF SendTypeOK, TypeOK, CallsOK, Digests

LEMMA StepsKeepTypes == TypeOK /\ [Next]_vars => TypeOK'
<1>. SUFFICES ASSUME TypeOK, [Next]_vars PROVE TypeOK'
  OBVIOUS
<1>1. CASE UNCHANGED vars
  BY <1>1, TypeParts, UnchangedTypes
     DEF vars, sendVars, SendTypeOK, TypeOK, CallsOK, Digests
<1>2. ASSUME NEW s \in Callers,
             \/ \E k \in Kinds : Prepare(s, k) \/ SendDirectly(s, k)
             \/ Dismiss(s) \/ Edit(s) \/ Confirm(s)
      PROVE  TypeOK'
  BY <1>2, PlanningKeepsTypes
<1>3. ASSUME NEW s \in Callers, SendStep(s)
      PROVE  TypeOK'
  BY <1>3, SendStepsKeepTypes
<1>4. CASE Accepted \/ Rejected
  BY <1>4, SettlingKeepsTypes
<1>5. ASSUME \/ \E a \in Attempts : LinkEstablished(a) \/ LinkStep(a)
             \/ \E d \in Devices : LinkDropped(d)
             \/ \E who \in Closers \cup {"dispose"} : CloseBegins(who) \/ CloseFinishes(who)
      PROVE  TypeOK'
  BY <1>5, ConnectionStepsKeepSendTypes
<1>. QED
  BY <1>1, <1>2, <1>3, <1>4, <1>5 DEF Next

(* The whole state is always well formed: in particular no call and no     *)
(* write ever counts more packets than its plan has.                       *)
THEOREM TypeCorrect == Spec => []TypeOK
BY InitialSendTypes, StepsKeepTypes, PTL DEF Spec

------------------------------------------------------------------------------
(* What the sends rely on about the link, for any number of attempts.      *)

LinkFacts ==
  /\ tState = "connected" => connId # 0
  /\ tState \in {"idle", "error"} => connId = 0
  /\ connId # 0 => sess = connId
  /\ connId <= lastGen

LEMMA LinkStepsKeepLinkFacts ==
  ASSUME ConnectionTypeOK, LinkFacts, LinkNext PROVE LinkFacts'
<1>. USE DEF LinkFacts
<1>0. lastGen \in Nat /\ connId \in Nat
  BY GenAssumption DEF ConnectionTypeOK, TransportTypeOK
<1>1. ASSUME NEW a \in Attempts, NEW how \in Ways, Connect(a, how) PROVE LinkFacts'
  BY <1>1 DEF Connect, BeginSelect, MayStartConnect, linkVars
<1>2. ASSUME NEW a \in Attempts, NEW d \in Devices, ChooseDevice(a, d) PROVE LinkFacts'
  BY <1>2 DEF ChooseDevice, Choose, serviceVars
<1>3. ASSUME NEW a \in Attempts, Established(a) \/ EstablishedTooLate(a) \/ ConnectFails(a)
      PROVE  LinkFacts'
  BY <1>0, <1>3 DEF Established, LinkUp, EstablishedTooLate, LinkUpAndClose, ConnectFails,
     LinkFails, Cleanup
<1>4. ASSUME NEW who \in Closers \cup {"dispose"},
             DisconnectBegin(who) \/ DisconnectFinish(who)
      PROVE  LinkFacts'
  BY <1>0, <1>4 DEF DisconnectBegin, DisconnectFinish, CloseTransport, Cleanup, linkVars
<1>5. ASSUME NEW d \in Devices, Drop(d) PROVE LinkFacts'
  BY <1>0, <1>5 DEF Drop, LinkLost
<1>. QED
  BY <1>1, <1>2, <1>3, <1>4, <1>5 DEF LinkNext

------------------------------------------------------------------------------
(* One execution at a time.                                                *)

AllOrphans(q) == \A i \in DOMAIN q : q[i].orphan

\* The strengthening of OneExecution: a queue holds at most one write that a
\* call still waits for.
Exclusive ==
  /\ OneExecution
  /\ \A i, j \in DOMAIN wq : ~wq[i].orphan /\ ~wq[j].orphan => i = j

\* A call outside execute() comes, goes or changes.
LEMMA BystandersKeepExclusion ==
  ASSUME TypeOK, Exclusive, NEW s \in Callers, NEW c, c.pc \notin Executing,
         call[s].pc \notin Executing, call' = [call EXCEPT ![s] = c],
         UNCHANGED <<running, wq>>
  PROVE  Exclusive'
BY DEF Exclusive, OneExecution, TypeOK, Executing

\* The running call leaves execute() and no write waits for anybody.
LEMMA LeavingKeepsExclusion ==
  ASSUME TypeOK, Exclusive, NEW s \in Callers, running = s,
         call' = [call EXCEPT ![s] = NoCall], running' = NoCaller, AllOrphans(wq')
  PROVE  Exclusive'
BY CallerAssumption DEF Exclusive, OneExecution, TypeOK, Executing, AllOrphans, NoCall

\* The running call moves on, with no write or with one write of its own.
LEMMA MovingKeepsExclusion ==
  ASSUME TypeOK, Exclusive, NEW s \in Callers, NEW c, c.pc \in Executing,
         running \in {s, NoCaller}, call' = [call EXCEPT ![s] = c], running' = s,
         AllOrphans(wq')
  PROVE  Exclusive'
BY CallerAssumption DEF Exclusive, OneExecution, TypeOK, Executing, AllOrphans

LEMMA WritingKeepsExclusion ==
  ASSUME TypeOK, Exclusive, NEW s \in Callers, NEW c, c.pc = "writing", call[s].pkt < Packets,
         running \in {s, NoCaller}, call' = [call EXCEPT ![s] = c], running' = s,
         AllOrphans(wq), wq' = Enqueue(s)
  PROVE  Exclusive'
<1>1. /\ DOMAIN wq' = 1 .. Len(wq) + 1
      /\ \A i \in 1 .. Len(wq) : wq'[i].orphan
      /\ wq'[Len(wq) + 1].owner = s
      /\ Len(wq) \in Nat
  BY EnqueueFacts DEF TypeOK, AllOrphans
<1>2. \A i \in DOMAIN wq' : ~wq'[i].orphan => i = Len(wq) + 1
  BY <1>1
<1>. QED
  BY <1>1, <1>2, CallerAssumption DEF Exclusive, OneExecution, TypeOK, Executing

\* Nobody waits for the queue unless the running call is writing.
LEMMA OrphansUnlessWriting ==
  ASSUME Exclusive, \A s \in Callers : running = s => call[s].pc # "writing", TypeOK
  PROVE  AllOrphans(wq)
<1>1. \A i \in DOMAIN wq : wq[i].owner \in Callers
  <2>1. \A i \in DOMAIN wq : wq[i] \in Writes
    BY DEF TypeOK
  <2>. QED
    BY <2>1 DEF Writes
<1>. QED
  BY <1>1 DEF Exclusive, OneExecution, AllOrphans

LEMMA SendStepsKeepExclusion ==
  ASSUME TypeOK, Exclusive, NEW s \in Callers, SendStep(s) PROVE Exclusive'
<1>0. /\ call \in [Callers -> Calls]
      /\ wq \in Seq(Writes)
      /\ call[s].pc \notin {"writing", "awaiting"} => call[s].pkt < Packets
      /\ call[s].pc \in Executing <=> running = s
      /\ NoCaller # s
  BY CallerAssumption DEF TypeOK, Exclusive, OneExecution
<1>1. ASSUME Subscribed(s) PROVE Exclusive'
  <2>1. call[s].pc = "subscribing" /\ running # s
    BY <1>0, <1>1 DEF Subscribed, Executing
  <2>2. CASE MayExecute(call[s])
    <3>. DEFINE c == [call[s] EXCEPT !.pc = "writing", !.took = staged]
    <3>1. /\ running = NoCaller /\ running' = s
          /\ call' = [call EXCEPT ![s] = c] /\ c.pc = "writing"
          /\ wq' = Enqueue(s)
      BY <1>0, <1>1, <2>2 DEF Subscribed, MayExecute, Calls
    <3>2. AllOrphans(wq)
      BY <3>1, OrphansUnlessWriting, CallerAssumption
    <3>. HIDE DEF c
    <3>. QED
      BY <1>0, <2>1, <3>1, <3>2, WritingKeepsExclusion
  <2>3. CASE ~MayExecute(call[s])
    <3>1. call' = [call EXCEPT ![s] = NoCall] /\ UNCHANGED <<running, wq>>
      BY <1>1, <2>1, <2>3 DEF Subscribed, Fail
    <3>. QED
      BY <2>1, <3>1, BystandersKeepExclusion DEF NoCall, Executing
  <2>. QED
    BY <2>2, <2>3
<1>2. ASSUME SubscribeFails(s) PROVE Exclusive'
  BY <1>2, BystandersKeepExclusion DEF SubscribeFails, NoCall, Executing
<1>3. ASSUME WriteTimesOut(s) PROVE Exclusive'
  <2>1. /\ running = s /\ running' = NoCaller
        /\ call' = [call EXCEPT ![s] = NoCall]
        /\ wq' = Orphaned(wq, s)
    BY <1>0, <1>3 DEF WriteTimesOut, Fail, Orphaned, Executing
  <2>2. \A i \in DOMAIN wq : ~wq[i].orphan => wq[i].owner = s
    BY <2>1 DEF Exclusive, OneExecution
  <2>3. AllOrphans(wq')
    BY <1>0, <2>1, <2>2, OrphanFacts DEF AllOrphans
  <2>. QED
    BY <2>1, <2>3, LeavingKeepsExclusion
<1>4. ASSUME NextPacket(s) PROVE Exclusive'
  <2>1. /\ call[s].pc = "pacing" /\ running = s
        /\ AllOrphans(wq)
    <3>1. call[s].pc = "pacing" /\ running = s
      BY <1>0, <1>4 DEF NextPacket, Executing
    <3>. QED
      BY <3>1, OrphansUnlessWriting
  <2>2. CASE connId = call[s].gen /\ tState = "connected"
    <3>. DEFINE c == [call[s] EXCEPT !.pc = "writing"]
    <3>1. /\ running' = s
          /\ call' = [call EXCEPT ![s] = c] /\ c.pc = "writing"
          /\ wq' = Enqueue(s)
      BY <1>0, <1>4, <2>1, <2>2 DEF NextPacket, Calls
    <3>. HIDE DEF c
    <3>. QED
      BY <1>0, <2>1, <3>1, WritingKeepsExclusion
  <2>3. CASE ~(connId = call[s].gen /\ tState = "connected")
    <3>1. call' = [call EXCEPT ![s] = NoCall] /\ running' = NoCaller /\ wq' = wq
      BY <1>4, <2>1, <2>3 DEF NextPacket, Fail
    <3>. QED
      BY <2>1, <3>1, LeavingKeepsExclusion
  <2>. QED
    BY <2>2, <2>3
<1>5. ASSUME ResponseSettles(s) PROVE Exclusive'
  <2>1. call[s].pc = "awaiting" /\ running = s
    BY <1>0, <1>5 DEF ResponseSettles, Executing
  <2>2. AllOrphans(wq)
    BY <2>1, OrphansUnlessWriting
  <2>3. call' = [call EXCEPT ![s] = NoCall] /\ running' = NoCaller /\ wq' = wq
    BY <1>5 DEF ResponseSettles, Complete
  <2>. QED
    BY <2>1, <2>2, <2>3, LeavingKeepsExclusion
<1>. QED
  BY <1>1, <1>2, <1>3, <1>4, <1>5 DEF SendStep

LEMMA SettlingKeepsExclusion ==
  ASSUME TypeOK, Exclusive, Accepted \/ Rejected PROVE Exclusive'
<1>. DEFINE s == Head(wq).owner
<1>0. /\ call \in [Callers -> Calls]
      /\ wq \in Seq(Writes) /\ wq # <<>> /\ connId \in 0 .. MaxGen
      /\ Head(wq) = wq[1] /\ 1 \in DOMAIN wq
  BY DEF TypeOK, ConnectionTypeOK, TransportTypeOK, Accepted, Rejected
<1>1. wq' = Advance(Tail(wq))
  BY DEF Accepted, Rejected
<1>2. \A i \in DOMAIN wq' : /\ i + 1 \in DOMAIN wq
                            /\ wq'[i].owner = wq[i + 1].owner
                            /\ wq'[i].orphan = wq[i + 1].orphan
  BY <1>0, <1>1, SettleFacts
<1>3. CASE Head(wq).orphan
  <2>1. UNCHANGED <<call, running>>
    BY <1>3 DEF Accepted, Rejected
  <2>2. \A i \in DOMAIN wq' : i \in Int
    <3>1. wq' \in Seq(Writes)
      BY <1>0, <1>1, SettleFacts
    <3>. QED
      BY <3>1
  <2>. QED
    BY <1>2, <2>1, <2>2 DEF Exclusive, OneExecution
<1>4. CASE ~Head(wq).orphan
  <2>1. s \in Callers /\ running = s /\ call[s].pc = "writing"
    <3>1. wq[1] \in Writes
      BY <1>0
    <3>. QED
      BY <1>0, <1>4, <3>1 DEF Exclusive, OneExecution, Writes
  <2>2. AllOrphans(wq')
    <3>1. \A i \in DOMAIN wq' : i \in Nat /\ i + 1 # 1
      <4>1. wq' \in Seq(Writes)
        BY <1>0, <1>1, SettleFacts
      <4>. QED
        BY <4>1
    <3>. QED
      BY <1>0, <1>2, <1>4, <3>1 DEF AllOrphans, Exclusive
  <2>. HIDE DEF s
  <2>3. \/ call' = [call EXCEPT ![s] = NoCall] /\ running' = NoCaller
        \/ \E c \in Calls : /\ c.pc \in Executing
                            /\ call' = [call EXCEPT ![s] = c]
                            /\ running' = s
    <3>1. CASE Rejected
      BY <1>4, <2>1, <3>1 DEF Rejected, Fail, s
    <3>2. CASE Accepted /\ (MoreAfter(Head(wq)) \/ Responds(Head(wq).kind))
      <4>. DEFINE next == IF MoreAfter(Head(wq)) THEN "pacing" ELSE "awaiting"
      <4>. DEFINE c == [call[s] EXCEPT !.pkt = Head(wq).pkt, !.pc = next]
      <4>1. /\ call' = [call EXCEPT ![s].pkt = Head(wq).pkt, ![s].pc = next]
            /\ running' = running
        BY <1>4, <3>2 DEF Accepted, s
      <4>2. call' = [call EXCEPT ![s] = c] /\ c.pc = next
        BY <1>0, <2>1, <4>1 DEF Calls
      <4>3. c \in Calls /\ c.pc \in Executing
        <5>1. Head(wq) \in Writes
          BY <1>0
        <5>2. Head(wq).pkt \in 0 .. Packets /\ call[s] \in Calls
          BY <1>0, <2>1, <5>1, PacketAssumption DEF Writes
        <5>3. next \in {"pacing", "awaiting"}
          OBVIOUS
        <5>. HIDE DEF next
        <5>. QED
          BY <5>2, <5>3 DEF Calls, InFlight, Executing
      <4>. QED
        BY <2>1, <4>1, <4>2, <4>3
    <3>3. CASE Accepted /\ ~(MoreAfter(Head(wq)) \/ Responds(Head(wq).kind))
      BY <1>4, <3>3 DEF Accepted, Complete, s
    <3>. QED
      BY <3>1, <3>2, <3>3
  <2>4. CASE call' = [call EXCEPT ![s] = NoCall] /\ running' = NoCaller
    BY <2>1, <2>2, <2>4, LeavingKeepsExclusion
  <2>5. ASSUME NEW c \in Calls, c.pc \in Executing, call' = [call EXCEPT ![s] = c],
               running' = s
        PROVE  Exclusive'
    BY <2>1, <2>2, <2>5, MovingKeepsExclusion
  <2>. QED
    BY <2>3, <2>4, <2>5
<1>. QED
  BY <1>3, <1>4

LEMMA PlanningKeepsExclusion ==
  ASSUME TypeOK, Exclusive, NEW s \in Callers,
         \/ \E k \in Kinds : Prepare(s, k) \/ SendDirectly(s, k)
         \/ Dismiss(s) \/ Edit(s) \/ Confirm(s)
  PROVE  Exclusive'
<1>1. call[s].pc \notin Executing /\ UNCHANGED <<running, wq>>
  BY DEF Prepare, SendDirectly, Dismiss, Edit, Confirm, Executing
<1>2. ASSUME NEW p \in Calls, Submit(s, p)
      PROVE  \E c : c.pc \notin Executing /\ call' = [call EXCEPT ![s] = c]
  <2>. DEFINE c == [p EXCEPT !.pc = "subscribing", !.owned = p.edited,
                             !.temp = Experimental(p.kind) /\ ~expTx]
  <2>1. NoCall.pc \notin Executing
    BY DEF NoCall, Executing
  <2>2. c.pc \notin Executing
    BY DEF Executing, Calls
  <2>3. call' = [call EXCEPT ![s] = c] \/ call' = [call EXCEPT ![s] = NoCall]
    BY <1>2 DEF Submit
  <2>. HIDE DEF c
  <2>. QED
    BY <2>1, <2>2, <2>3
<1>3. call \in [Callers -> Calls] /\ call[s] \in Calls /\ connId \in 0 .. MaxGen
  BY DEF TypeOK, ConnectionTypeOK, TransportTypeOK
<1>4. \E c : c.pc \notin Executing /\ call' = [call EXCEPT ![s] = c]
  <2>1. ASSUME NEW k \in Kinds, Prepare(s, k)
        PROVE  \E c : c.pc \notin Executing /\ call' = [call EXCEPT ![s] = c]
    <3>1. Plan(k, connId).pc = "prepared"
      BY DEF Plan, NoCall
    <3>. QED
      BY <2>1, <3>1 DEF Prepare, Executing
  <2>2. CASE Dismiss(s)
    BY <2>2 DEF Dismiss, NoCall, Executing
  <2>3. CASE Edit(s)
    <3>. DEFINE c == [call[s] EXCEPT !.edited = TRUE]
    <3>1. call' = [call EXCEPT ![s] = c] /\ c.pc = call[s].pc
      BY <1>3, <2>3 DEF Edit, Calls
    <3>. HIDE DEF c
    <3>. QED
      BY <1>1, <3>1
  <2>4. CASE Confirm(s)
    BY <1>2, <1>3, <2>4 DEF Confirm
  <2>5. ASSUME NEW k \in Kinds, SendDirectly(s, k)
        PROVE  \E c : c.pc \notin Executing /\ call' = [call EXCEPT ![s] = c]
    <3>1. Plan(k, connId) \in Calls
      BY <1>3, KindAssumption, PlanType
    <3>. QED
      BY <1>2, <2>5, <3>1 DEF SendDirectly
  <2>. QED
    BY <2>1, <2>2, <2>3, <2>4, <2>5
<1>. QED
  BY <1>1, <1>4, BystandersKeepExclusion

LEMMA StepsKeepExclusion == TypeOK /\ Exclusive /\ [Next]_vars => Exclusive'
<1>. SUFFICES ASSUME TypeOK, Exclusive, [Next]_vars PROVE Exclusive'
  OBVIOUS
<1>1. CASE UNCHANGED <<call, running, wq>>
  BY <1>1 DEF Exclusive, OneExecution
<1>2. ASSUME NEW s \in Callers,
             \/ \E k \in Kinds : Prepare(s, k) \/ SendDirectly(s, k)
             \/ Dismiss(s) \/ Edit(s) \/ Confirm(s)
      PROVE  Exclusive'
  BY <1>2, PlanningKeepsExclusion
<1>3. ASSUME NEW s \in Callers, SendStep(s) PROVE Exclusive'
  BY <1>3, SendStepsKeepExclusion
<1>4. CASE Accepted \/ Rejected
  BY <1>4, SettlingKeepsExclusion
<1>5. ASSUME \/ \E a \in Attempts : LinkEstablished(a) \/ LinkStep(a)
             \/ \E d \in Devices : LinkDropped(d)
             \/ \E who \in Closers \cup {"dispose"} : CloseBegins(who) \/ CloseFinishes(who)
      PROVE  Exclusive'
  BY <1>1, <1>5 DEF LinkEstablished, LinkStep, LinkDropped, CloseBegins, CloseFinishes,
     KeepSends, sendVars
<1>6. CASE UNCHANGED vars
  BY <1>1, <1>6 DEF vars, sendVars
<1>. QED
  BY <1>2, <1>3, <1>4, <1>5, <1>6 DEF Next

LEMMA InitialExclusion == Init => Exclusive
BY CallerAssumption DEF Init, Exclusive, OneExecution, NoCall, Executing

(* At most one execution at a time, however calls, time-outs and drops     *)
(* interleave, and only that one waits for the transport queue.            *)
THEOREM OneExecutionAlways == Spec => []OneExecution
<1>1. TypeOK /\ Exclusive /\ [Next]_vars => (TypeOK /\ Exclusive)'
  BY StepsKeepTypes, StepsKeepExclusion
<1>2. Init => TypeOK /\ Exclusive
  BY InitialSendTypes, InitialExclusion
<1>3. Exclusive => OneExecution
  BY DEF Exclusive
<1>. QED
  BY <1>1, <1>2, <1>3, PTL DEF Spec

------------------------------------------------------------------------------
(* Writes keep to the generation and the bytes they were authorized for.   *)

\* Where a write of the next queue comes from: it was in the queue, perhaps
\* not yet handed to the browser, or a verified call has just appended it.
Old(w, q) ==
  \E j \in DOMAIN q :
    /\ w.gen = q[j].gen /\ w.edited = q[j].edited /\ (q[j].orphan => w.orphan)
    /\ w.phase = "inBrowser" => \/ q[j].phase = "inBrowser" /\ w.via = q[j].via
                                \/ tState = "connected" /\ w.via = connId
Fresh(w) ==
  /\ tState = "connected" /\ w.gen = connId /\ ~w.edited
  /\ w.phase = "inBrowser" => w.via = connId

\* No authorized copy and no queued write has edited bytes.
Sealed ==
  /\ \A s \in Callers : ~call[s].owned
  /\ \A i \in DOMAIN wq : ~wq[i].edited

LEMMA EnqueueLineage ==
  ASSUME TypeOK, Sealed, NEW s \in Callers, call[s].pkt < Packets,
         tState = "connected", connId = call[s].gen
  PROVE  \A i \in DOMAIN Enqueue(s) : Old(Enqueue(s)[i], wq) \/ Fresh(Enqueue(s)[i])
<1>1. /\ DOMAIN Enqueue(s) = 1 .. Len(wq) + 1
      /\ \A i \in DOMAIN wq : Enqueue(s)[i] = wq[i]
      /\ LET w == Enqueue(s)[Len(wq) + 1]
         IN  /\ w.gen = call[s].gen /\ w.edited = call[s].owned
             /\ w.phase = "inBrowser" => w.via = connId
      /\ DOMAIN wq = 1 .. Len(wq)
  BY EnqueueFacts DEF TypeOK
<1>2. Fresh(Enqueue(s)[Len(wq) + 1])
  BY <1>1 DEF Fresh, Sealed
<1>3. \A i \in DOMAIN wq : Old(Enqueue(s)[i], wq)
  BY <1>1 DEF Old
<1>. QED
  BY <1>1, <1>2, <1>3

LEMMA QueueLineage ==
  ASSUME TypeOK, Sealed, [Next]_vars
  PROVE  \A i \in DOMAIN wq' : Old(wq'[i], wq) \/ Fresh(wq'[i])
<1>0. wq \in Seq(Writes) /\ connId \in 0 .. MaxGen
  BY DEF TypeOK, ConnectionTypeOK, TransportTypeOK
<1>1. CASE wq' = wq
  BY <1>1 DEF Old
<1>2. ASSUME NEW s \in Callers, SendStep(s)
      PROVE  wq' = wq \/ \A i \in DOMAIN wq' : Old(wq'[i], wq) \/ Fresh(wq'[i])
  <2>0. call[s].pc \notin {"writing", "awaiting"} => call[s].pkt < Packets
    BY DEF TypeOK
  <2>1. CASE Subscribed(s) /\ MayExecute(call[s])
    <3>1. /\ wq' = Enqueue(s) /\ call[s].pc = "subscribing"
          /\ tState = "connected" /\ connId = call[s].gen
      BY <2>1 DEF Subscribed, MayExecute
    <3>. QED
      BY <2>0, <3>1, EnqueueLineage
  <2>2. CASE NextPacket(s) /\ connId = call[s].gen /\ tState = "connected"
    <3>1. wq' = Enqueue(s) /\ call[s].pc = "pacing"
      BY <2>2 DEF NextPacket
    <3>. QED
      BY <2>0, <2>2, <3>1, EnqueueLineage
  <2>3. CASE WriteTimesOut(s)
    <3>1. wq' = Orphaned(wq, s)
      BY <2>3 DEF WriteTimesOut, Orphaned
    <3>2. \A i \in DOMAIN wq' :
            /\ i \in DOMAIN wq
            /\ wq'[i].gen = wq[i].gen /\ wq'[i].edited = wq[i].edited
            /\ wq[i].orphan => wq'[i].orphan
            /\ wq'[i].phase = wq[i].phase /\ wq'[i].via = wq[i].via
      BY <1>0, <3>1, OrphanFacts
    <3>. QED
      BY <3>2 DEF Old
  <2>4. CASE \/ Subscribed(s) /\ ~MayExecute(call[s])
             \/ SubscribeFails(s) \/ ResponseSettles(s)
             \/ NextPacket(s) /\ ~(connId = call[s].gen /\ tState = "connected")
    BY <2>4 DEF Subscribed, SubscribeFails, ResponseSettles, NextPacket
  <2>. QED
    BY <1>2, <2>1, <2>2, <2>3, <2>4 DEF SendStep
<1>3. ASSUME Accepted \/ Rejected
      PROVE  \A i \in DOMAIN wq' : Old(wq'[i], wq) \/ Fresh(wq'[i])
  <2>1. wq # <<>> /\ wq' = Advance(Tail(wq))
    BY <1>3 DEF Accepted, Rejected
  <2>2. \A i \in DOMAIN wq' :
          /\ i + 1 \in DOMAIN wq
          /\ wq'[i].gen = wq[i + 1].gen
          /\ wq'[i].edited = wq[i + 1].edited /\ wq'[i].orphan = wq[i + 1].orphan
          /\ wq'[i].phase = "inBrowser" =>
               \/ wq[i + 1].phase = "inBrowser" /\ wq'[i].via = wq[i + 1].via
               \/ tState = "connected" /\ wq'[i].via = connId
    BY <1>0, <2>1, SettleFacts
  <2>. QED
    BY <2>2 DEF Old
<1>4. ASSUME NEW s \in Callers,
             \/ \E k \in Kinds : Prepare(s, k) \/ SendDirectly(s, k)
             \/ Dismiss(s) \/ Edit(s) \/ Confirm(s)
      PROVE  wq' = wq
  BY <1>4 DEF Prepare, SendDirectly, Dismiss, Edit, Confirm
<1>5. ASSUME \/ \E a \in Attempts : LinkEstablished(a) \/ LinkStep(a)
             \/ \E d \in Devices : LinkDropped(d)
             \/ \E who \in Closers \cup {"dispose"} : CloseBegins(who) \/ CloseFinishes(who)
      PROVE  wq' = wq
  BY <1>5 DEF LinkEstablished, LinkStep, LinkDropped, CloseBegins, CloseFinishes,
     KeepSends, sendVars
<1>6. CASE UNCHANGED vars
  BY <1>1, <1>6 DEF vars, sendVars
<1>. QED
  BY <1>1, <1>2, <1>3, <1>4, <1>5, <1>6 DEF Next

\* No step edits an authorized copy: the copy is made from an unedited plan.
LEMMA CopiesStayOwned ==
  ASSUME TypeOK, Sealed, [Next]_vars
  PROVE  \A s \in Callers : ~call'[s].owned
<1>. USE DEF Sealed
<1>0. /\ call \in [Callers -> Calls]
      /\ connId \in 0 .. MaxGen
      /\ ~NoCall.owned
      /\ \A k \in Kinds : Plan(k, connId) \in Calls /\ ~Plan(k, connId).owned
  <2>1. ~NoCall.owned
    BY DEF NoCall
  <2>. QED
    BY <2>1, PlanType, KindAssumption DEF TypeOK, ConnectionTypeOK, TransportTypeOK, Plan, NoCall
<1>1. ASSUME NEW s \in Callers, NEW p \in Calls, Submit(s, p)
      PROVE  \A t \in Callers : ~call'[t].owned
  <2>. DEFINE c == [p EXCEPT !.pc = "subscribing", !.owned = p.edited,
                             !.temp = Experimental(p.kind) /\ ~expTx]
  <2>1. \/ call' = [call EXCEPT ![s] = c] /\ ~p.edited
        \/ call' = [call EXCEPT ![s] = NoCall]
    BY <1>1 DEF Submit, Authorized
  <2>2. c.owned = p.edited
    BY DEF Calls
  <2>. HIDE DEF c
  <2>. QED
    BY <1>0, <2>1, <2>2
<1>2. ASSUME NEW s \in Callers,
             \/ \E k \in Kinds : Prepare(s, k) \/ SendDirectly(s, k)
             \/ Dismiss(s) \/ Confirm(s)
      PROVE  \A t \in Callers : ~call'[t].owned
  BY <1>0, <1>1, <1>2 DEF Prepare, SendDirectly, Dismiss, Confirm
<1>3. ASSUME NEW s \in Callers, Edit(s)
      PROVE  \A t \in Callers : ~call'[t].owned
  BY <1>0, <1>3 DEF Edit, Calls
<1>4. ASSUME NEW s \in Callers, SendStep(s)
      PROVE  \A t \in Callers : ~call'[t].owned
  <2>1. \/ call' = [call EXCEPT ![s] = NoCall]
        \/ call' = [call EXCEPT ![s].pc = "writing", ![s].took = staged]
        \/ call' = [call EXCEPT ![s].pc = "writing"]
    BY <1>4 DEF SendStep, Subscribed, SubscribeFails, WriteTimesOut, NextPacket,
       ResponseSettles, Fail, Complete
  <2>. QED
    BY <1>0, <2>1 DEF Calls
<1>5. CASE Accepted \/ Rejected
  <2>. DEFINE s == Head(wq).owner
  <2>. DEFINE next == IF MoreAfter(Head(wq)) THEN "pacing" ELSE "awaiting"
  <2>1. \/ call' = call
        \/ call' = [call EXCEPT ![s] = NoCall]
        \/ call' = [call EXCEPT ![s].pkt = Head(wq).pkt, ![s].pc = next]
    BY <1>5 DEF Accepted, Rejected, Fail, Complete
  <2>. HIDE DEF s, next
  <2>. QED
    BY <1>0, <2>1 DEF Calls
<1>6. CASE call' = call
  BY <1>6
<1>7. ASSUME \/ \E a \in Attempts : LinkEstablished(a) \/ LinkStep(a)
             \/ \E d \in Devices : LinkDropped(d)
             \/ \E who \in Closers \cup {"dispose"} : CloseBegins(who) \/ CloseFinishes(who)
      PROVE  call' = call
  BY <1>7 DEF LinkEstablished, LinkStep, LinkDropped, CloseBegins, CloseFinishes,
     KeepSends, sendVars
<1>8. CASE UNCHANGED vars
  BY <1>6, <1>8 DEF vars, sendVars
<1>. QED
  BY <1>2, <1>3, <1>4, <1>5, <1>6, <1>7, <1>8 DEF Next

LEMMA StepsKeepSealed == TypeOK /\ Sealed /\ [Next]_vars => Sealed'
<1>. SUFFICES ASSUME TypeOK, Sealed, [Next]_vars PROVE Sealed'
  OBVIOUS
<1>1. \A i \in DOMAIN wq' : ~wq'[i].edited
  BY QueueLineage DEF Sealed, Old, Fresh
<1>. QED
  BY <1>1, CopiesStayOwned DEF Sealed

\* A step of the link opens at most one connection, the next generation; every
\* other step leaves the connection alone, or quarantines it.
LEMMA ConnectionSteps ==
  ASSUME TypeOK, [Next]_vars
  PROVE  \/ LinkNext /\ wq' = wq /\ tainted' = tainted
         \/ /\ UNCHANGED <<connId, sess, lastGen>>
            /\ \/ tState' = tState /\ tainted' = tainted
               \/ \E s \in Callers : WriteTimesOut(s)
<1>1. ASSUME NEW s \in Callers,
             \/ \E k \in Kinds : Prepare(s, k) \/ SendDirectly(s, k)
             \/ Dismiss(s) \/ Edit(s) \/ Confirm(s)
      PROVE  UNCHANGED <<tState, connId, sess, lastGen, tainted>>
  BY <1>1 DEF Prepare, SendDirectly, Dismiss, Edit, Confirm, connectionVars, linkVars, serviceVars
<1>2. ASSUME NEW s \in Callers, SendStep(s)
      PROVE  \/ UNCHANGED <<tState, connId, sess, lastGen, tainted>>
             \/ UNCHANGED <<connId, sess, lastGen>> /\ WriteTimesOut(s)
  BY <1>2 DEF SendStep, Subscribed, SubscribeFails, WriteTimesOut, NextPacket,
     ResponseSettles, LinkUnchanged, connectionVars, linkVars, serviceVars
<1>3. ASSUME Accepted \/ Rejected
      PROVE  UNCHANGED <<tState, connId, sess, lastGen, tainted>>
  BY <1>3 DEF Accepted, Rejected, LinkUnchanged, connectionVars, linkVars, serviceVars
<1>4. ASSUME \/ \E a \in Attempts : LinkEstablished(a) \/ LinkStep(a)
             \/ \E d \in Devices : LinkDropped(d)
             \/ \E who \in Closers \cup {"dispose"} : CloseBegins(who) \/ CloseFinishes(who)
      PROVE  LinkNext /\ wq' = wq /\ tainted' = tainted
  <2>1. LinkNext
    BY <1>4, ConnectionStepsKeepSendTypes
  <2>. QED
    BY <1>4, <2>1 DEF LinkEstablished, LinkStep, LinkDropped, CloseBegins, CloseFinishes,
       KeepSends, sendVars
<1>5. ASSUME UNCHANGED vars PROVE UNCHANGED <<tState, connId, sess, lastGen, tainted>>
  BY <1>5 DEF vars, sendVars, connectionVars, linkVars, serviceVars
<1>. QED
  BY <1>1, <1>2, <1>3, <1>4, <1>5 DEF Next

LEMMA StepsKeepLinkFacts == TypeOK /\ LinkFacts /\ [Next]_vars => LinkFacts'
<1>. SUFFICES ASSUME TypeOK, LinkFacts, [Next]_vars PROVE LinkFacts'
  OBVIOUS
<1>1. CASE LinkNext
  BY <1>1, TypeParts, LinkStepsKeepLinkFacts
<1>2. CASE UNCHANGED <<connId, sess, lastGen>> /\ tState' = tState
  BY <1>2 DEF LinkFacts
<1>3. ASSUME NEW s \in Callers, WriteTimesOut(s), UNCHANGED <<connId, sess, lastGen>>
      PROVE  LinkFacts'
  BY <1>3 DEF LinkFacts, WriteTimesOut, QuarantinedState
<1>. QED
  BY <1>1, <1>2, <1>3, ConnectionSteps

\* How the open connection can change.
LEMMA NextGeneration ==
  ASSUME ConnectionTypeOK, LinkFacts, LinkNext
  PROVE  /\ \/ connId' = 0
            \/ connId' = connId /\ lastGen' = lastGen
            \/ connId' = lastGen + 1 /\ (\E a \in Attempts : Established(a))
         /\ lastGen' \in {lastGen, lastGen + 1}
         /\ tState' = "connected" => \/ tState = "connected" /\ connId' = connId
                                     \/ connId' = lastGen + 1
<1>1. ASSUME NEW a \in Attempts, NEW how \in Ways, Connect(a, how)
      PROVE  /\ connId' = connId /\ lastGen' = lastGen
             /\ tState' = "connected" => tState = "connected"
  BY <1>1 DEF Connect, BeginSelect, linkVars
<1>2. ASSUME NEW a \in Attempts, NEW d \in Devices, ChooseDevice(a, d)
      PROVE  connId' = connId /\ lastGen' = lastGen /\ tState' # "connected"
  BY <1>2 DEF ChooseDevice, Choose
<1>3. ASSUME NEW a \in Attempts, Established(a)
      PROVE  connId' = lastGen + 1 /\ lastGen' = lastGen + 1
  BY <1>3 DEF Established, LinkUp
<1>4. ASSUME NEW a \in Attempts, EstablishedTooLate(a) \/ ConnectFails(a)
      PROVE  connId' = 0 /\ lastGen' \in {lastGen, lastGen + 1} /\ tState' # "connected"
  BY <1>4 DEF EstablishedTooLate, LinkUpAndClose, ConnectFails, LinkFails, Cleanup
<1>5. ASSUME NEW who \in Closers \cup {"dispose"}, DisconnectBegin(who)
      PROVE  UNCHANGED <<connId, lastGen, tState>>
  BY <1>5 DEF DisconnectBegin, linkVars
<1>6. ASSUME NEW who \in Closers \cup {"dispose"}, DisconnectFinish(who)
      PROVE  connId' = 0 /\ lastGen' = lastGen /\ tState' # "connected"
  BY <1>6 DEF DisconnectFinish, CloseTransport, Cleanup, linkVars, LinkFacts
<1>7. ASSUME NEW d \in Devices, Drop(d)
      PROVE  connId' = 0 /\ lastGen' = lastGen /\ tState' # "connected"
  BY <1>7 DEF Drop, LinkLost
<1>. QED
  BY <1>1, <1>2, <1>3, <1>4, <1>5, <1>6, <1>7 DEF LinkNext

\* The strengthening of NothingAfterATimeout: only generations handed out are
\* tainted, and the one that takes writes is not.
Untainted ==
  /\ NothingAfterATimeout
  /\ tainted \subseteq 1 .. lastGen
  /\ tState = "connected" => connId \notin tainted

LEMMA StepsKeepUntainted ==
  TypeOK /\ Exclusive /\ Sealed /\ LinkFacts /\ Untainted /\ [Next]_vars => Untainted'
<1>. SUFFICES ASSUME TypeOK, Exclusive, Sealed, LinkFacts, Untainted, [Next]_vars
              PROVE  Untainted'
  OBVIOUS
<1>0. connId \in Nat /\ lastGen \in Nat /\ wq \in Seq(Writes)
  BY GenAssumption DEF TypeOK, ConnectionTypeOK, TransportTypeOK
<1>1. tainted' = tainted => NothingAfterATimeout'
  BY QueueLineage DEF Untainted, NothingAfterATimeout, Old, Fresh
<1>2. CASE LinkNext /\ wq' = wq /\ tainted' = tainted
  BY <1>0, <1>1, <1>2, NextGeneration, TypeParts DEF Untainted
<1>3. CASE UNCHANGED <<connId, lastGen, tState, tainted>>
  BY <1>1, <1>3 DEF Untainted
<1>4. ASSUME NEW s \in Callers, WriteTimesOut(s), UNCHANGED <<connId, lastGen>>
      PROVE  Untainted'
  <2>1. /\ wq' = Orphaned(wq, s) /\ call[s].pc = "writing"
        /\ tainted' \in {tainted, tainted \cup {connId}}
        /\ tState' # "connected"
        /\ tState # "connected" => tainted' = tainted
    BY <1>4 DEF WriteTimesOut, Orphaned, QuarantinedState
  <2>2. running = s
    BY <2>1 DEF Exclusive, OneExecution, Executing
  <2>3. AllOrphans(wq')
    <3>1. \A i \in DOMAIN wq : ~wq[i].orphan => wq[i].owner = s
      BY <2>2 DEF Exclusive, OneExecution
    <3>. QED
      BY <1>0, <2>1, <3>1, OrphanFacts DEF AllOrphans
  <2>4. tainted' \subseteq 1 .. lastGen'
    BY <1>0, <1>4, <2>1 DEF Untainted, LinkFacts
  <2>. QED
    BY <2>1, <2>3, <2>4 DEF Untainted, NothingAfterATimeout, AllOrphans
<1>. QED
  BY <1>2, <1>3, <1>4, ConnectionSteps

\* Without LateSettle a connection is opened only once the queue is empty.
LEMMA NewGenerationFindsNoWrites ==
  ASSUME ~LateSettle, TypeOK, LinkFacts, [Next]_vars, connId' = lastGen + 1
  PROVE  wq = <<>>
<1>0. connId \in Nat /\ lastGen \in Nat /\ connId # lastGen + 1 /\ 0 # lastGen + 1
  BY GenAssumption DEF TypeOK, ConnectionTypeOK, TransportTypeOK, LinkFacts
<1>1. ASSUME NEW a \in Attempts, LinkEstablished(a) PROVE wq = <<>>
  BY <1>1 DEF LinkEstablished
<1>2. ASSUME NEW a \in Attempts, LinkStep(a) PROVE connId' \in {0, connId}
  BY <1>2 DEF LinkStep, Connect, BeginSelect, ChooseDevice, Choose, EstablishedTooLate,
     LinkUpAndClose, ConnectFails, LinkFails, Cleanup, linkVars
<1>3. ASSUME NEW d \in Devices, LinkDropped(d) PROVE connId' \in {0, connId}
  BY <1>3 DEF LinkDropped, Drop, LinkLost
<1>4. ASSUME NEW who \in Closers \cup {"dispose"}, CloseBegins(who) \/ CloseFinishes(who)
      PROVE  connId' \in {0, connId}
  BY <1>4 DEF CloseBegins, CloseFinishes, DisconnectBegin, DisconnectFinish, CloseTransport,
     Cleanup, linkVars
<1>5. ASSUME NEW s \in Callers,
             \/ \E k \in Kinds : Prepare(s, k) \/ SendDirectly(s, k)
             \/ Dismiss(s) \/ Edit(s) \/ Confirm(s) \/ SendStep(s)
      PROVE  connId' = connId
  BY <1>5 DEF Prepare, SendDirectly, Dismiss, Edit, Confirm, SendStep, Subscribed,
     SubscribeFails, WriteTimesOut, NextPacket, ResponseSettles, LinkUnchanged,
     connectionVars, linkVars
<1>6. ASSUME Accepted \/ Rejected \/ UNCHANGED vars PROVE connId' = connId
  BY <1>6 DEF Accepted, Rejected, LinkUnchanged, vars, connectionVars, linkVars
<1>. QED
  BY <1>0, <1>1, <1>2, <1>3, <1>4, <1>5, <1>6 DEF Next

\* The strengthening of WritesStayInTheirGeneration: the writes still waiting
\* belong to the open connection.
InOneGeneration ==
  \A i \in DOMAIN wq : /\ connId # 0 => wq[i].gen = connId
                       /\ wq[i].phase = "inBrowser" => wq[i].via = wq[i].gen

LEMMA StepsKeepGeneration ==
  ASSUME ~LateSettle, TypeOK, Sealed, LinkFacts, InOneGeneration, [Next]_vars
  PROVE  InOneGeneration'
<1>0. connId \in Nat /\ lastGen \in Nat /\ wq \in Seq(Writes)
  BY GenAssumption DEF TypeOK, ConnectionTypeOK, TransportTypeOK
<1>1. CASE connId' = connId
  BY <1>1, QueueLineage DEF InOneGeneration, Old, Fresh, LinkFacts
<1>2. CASE wq' = wq /\ connId' = 0
  BY <1>2 DEF InOneGeneration
<1>3. CASE wq' = wq /\ connId' = lastGen + 1
  BY <1>3, NewGenerationFindsNoWrites DEF InOneGeneration
<1>. QED
  BY <1>1, <1>2, <1>3, ConnectionSteps, NextGeneration, TypeParts

------------------------------------------------------------------------------
(* An authority lives as long as the send it was given to.                 *)

Authority ==
  /\ AuthorityIsSingleUse
  /\ digest # NoDigest => Experimental(digest.kind)

\* A call not in flight changes.
LEMMA OutsidersKeepAuthority ==
  ASSUME TypeOK, Authority, NEW s \in Callers, NEW c, call[s].pc \notin InFlight,
         call' = [call EXCEPT ![s] = c], UNCHANGED <<expTx, digest, sess>>
  PROVE  Authority'
BY DEF Authority, AuthorityIsSingleUse, TypeOK, DigestOf

\* A call in flight moves on: what it sends and unlocked stays.
LEMMA ProgressKeepsAuthority ==
  ASSUME TypeOK, Authority, NEW s \in Callers, NEW c, c.pc \in InFlight,
         c.kind = call[s].kind, c.gen = call[s].gen, c.temp = call[s].temp,
         call' = [call EXCEPT ![s] = c], UNCHANGED <<expTx, digest, sess>>
  PROVE  Authority'
BY DEF Authority, AuthorityIsSingleUse, TypeOK, DigestOf

\* A call comes back: it takes its own authority with it, and no other's.
LEMMA ReleaseKeepsAuthority ==
  ASSUME TypeOK, Authority, NEW s \in Callers, ReleaseAuthority(call[s]),
         call' = [call EXCEPT ![s] = NoCall], sess' = sess
  PROVE  Authority'
<1>. USE DEF Authority, AuthorityIsSingleUse, TypeOK, DigestOf
<1>1. digest' # NoDigest => digest' = digest /\ ~Persistent(call[s].kind)
  BY DEF ReleaseAuthority
<1>2. digest' # NoDigest => DigestOf(call[s]) # digest
  BY <1>1 DEF Experimental, Persistent
<1>3. expTx' => expTx /\ ~call[s].temp
  BY DEF ReleaseAuthority
<1>. QED
  BY <1>1, <1>2, <1>3

\* A connection step ends every authority or leaves the session alone.
LEMMA ConnectionKeepsAuthority ==
  ASSUME TypeOK, Authority, call' = call,
         \/ UNCHANGED <<expTx, digest, sess>>
         \/ expTx' = FALSE /\ digest' = NoDigest
  PROVE  Authority'
BY DEF Authority, AuthorityIsSingleUse

LEMMA SubmitKeepsAuthority ==
  ASSUME TypeOK, LinkFacts, Authority, NEW s \in Callers, NEW p \in Calls,
         call[s].pc \notin InFlight, Submit(s, p), sess' = sess
  PROVE  Authority'
<1>. DEFINE c == [p EXCEPT !.pc = "subscribing", !.owned = p.edited,
                           !.temp = Experimental(p.kind) /\ ~expTx]
<1>. DEFINE unlocked == expTx \/ Experimental(p.kind)
<1>. DEFINE confirmed == IF Experimental(p.kind) THEN DigestOf(p) ELSE digest
<1>1. CASE Authorized(p, unlocked, confirmed)
  <2>1. /\ call' = [call EXCEPT ![s] = c]
        /\ expTx' = unlocked
        /\ digest' = confirmed
    BY <1>1 DEF Submit
  <2>2. /\ c.pc \in InFlight /\ DigestOf(c) = DigestOf(p)
        /\ c.temp = (Experimental(p.kind) /\ ~expTx)
    BY DEF Calls, DigestOf, InFlight
  <2>3. p.gen = sess
    BY <1>1 DEF Authorized, LinkFacts
  <2>. HIDE DEF c
  <2>4. call'[s] = c /\ \A t \in Callers : t # s => call'[t] = call[t]
    BY <2>1 DEF TypeOK
  <2>5. \A t \in Callers : call[t].pc \in InFlight => t # s
    OBVIOUS
  <2>6. CASE Experimental(p.kind)
    <3>1. digest'.gen = sess' /\ digest'.kind = p.kind /\ digest' = DigestOf(call'[s])
      BY <2>1, <2>2, <2>3, <2>4, <2>6 DEF DigestOf
    <3>2. expTx' => \E t \in Callers : call'[t].pc \in InFlight /\ call'[t].temp
      BY <2>2, <2>4, <2>5, <2>6 DEF Authority, AuthorityIsSingleUse
    <3>. QED
      BY <2>2, <2>4, <2>6, <3>1, <3>2 DEF Authority, AuthorityIsSingleUse
  <2>7. CASE ~Experimental(p.kind)
    <3>1. (expTx' <=> expTx) /\ digest' = digest
      BY <2>1, <2>7
    <3>. QED
      BY <2>4, <2>5, <3>1 DEF Authority, AuthorityIsSingleUse
  <2>. QED
    BY <2>6, <2>7
<1>2. CASE ~Authorized(p, unlocked, confirmed)
  <2>1. /\ call' = [call EXCEPT ![s] = NoCall]
        /\ digest' \in {NoDigest, digest}
        /\ UNCHANGED expTx
    BY <1>2 DEF Submit
  <2>. QED
    BY <2>1 DEF Authority, AuthorityIsSingleUse, TypeOK
<1>. QED
  BY <1>1, <1>2

LEMMA SendStepsKeepAuthority ==
  ASSUME TypeOK, Authority, NEW s \in Callers, SendStep(s) PROVE Authority'
<1>0. call \in [Callers -> Calls]
  BY DEF TypeOK
<1>1. sess' = sess
  BY DEF SendStep, Subscribed, SubscribeFails, WriteTimesOut, NextPacket, ResponseSettles,
     LinkUnchanged, connectionVars, serviceVars
<1>2. \/ call' = [call EXCEPT ![s] = NoCall] /\ ReleaseAuthority(call[s])
      \/ /\ call' = [call EXCEPT ![s].pc = "writing", ![s].took = staged]
         /\ UNCHANGED <<expTx, digest>>
      \/ call' = [call EXCEPT ![s].pc = "writing"] /\ UNCHANGED <<expTx, digest>>
  BY DEF SendStep, Subscribed, SubscribeFails, WriteTimesOut, NextPacket, ResponseSettles,
     Fail, Complete
<1>3. CASE call' = [call EXCEPT ![s] = NoCall] /\ ReleaseAuthority(call[s])
  BY <1>1, <1>3, ReleaseKeepsAuthority
<1>4. CASE /\ call' = [call EXCEPT ![s].pc = "writing", ![s].took = staged]
           /\ UNCHANGED <<expTx, digest>>
  <2>. DEFINE c == [call[s] EXCEPT !.pc = "writing", !.took = staged]
  <2>1. /\ call' = [call EXCEPT ![s] = c]
        /\ c.pc = "writing" /\ c.kind = call[s].kind /\ c.gen = call[s].gen
        /\ c.temp = call[s].temp
    BY <1>0, <1>4 DEF Calls
  <2>. HIDE DEF c
  <2>. QED
    BY <1>1, <1>4, <2>1, ProgressKeepsAuthority DEF InFlight, Executing
<1>5. CASE call' = [call EXCEPT ![s].pc = "writing"] /\ UNCHANGED <<expTx, digest>>
  <2>. DEFINE c == [call[s] EXCEPT !.pc = "writing"]
  <2>1. /\ call' = [call EXCEPT ![s] = c]
        /\ c.pc = "writing" /\ c.kind = call[s].kind /\ c.gen = call[s].gen
        /\ c.temp = call[s].temp
    BY <1>0, <1>5 DEF Calls
  <2>. HIDE DEF c
  <2>. QED
    BY <1>1, <1>5, <2>1, ProgressKeepsAuthority DEF InFlight, Executing
<1>. QED
  BY <1>2, <1>3, <1>4, <1>5

LEMMA SettlingKeepsAuthority ==
  ASSUME TypeOK, Exclusive, Authority, Accepted \/ Rejected PROVE Authority'
<1>. DEFINE s == Head(wq).owner
<1>. DEFINE next == IF MoreAfter(Head(wq)) THEN "pacing" ELSE "awaiting"
<1>0. /\ call \in [Callers -> Calls]
      /\ wq \in Seq(Writes) /\ wq # <<>>
      /\ sess' = sess
  BY DEF TypeOK, Accepted, Rejected, LinkUnchanged, connectionVars, serviceVars
<1>1. Head(wq) \in Writes
  BY <1>0
<1>2. s \in Callers
  BY <1>1 DEF Writes
<1>3. \/ UNCHANGED <<call, expTx, digest>>
      \/ call' = [call EXCEPT ![s] = NoCall] /\ ReleaseAuthority(call[s])
      \/ /\ call' = [call EXCEPT ![s].pkt = Head(wq).pkt, ![s].pc = next]
         /\ UNCHANGED <<expTx, digest>>
  BY DEF Accepted, Rejected, Fail, Complete
<1>4. CASE UNCHANGED <<call, expTx, digest>>
  BY <1>0, <1>4, ConnectionKeepsAuthority
<1>5. CASE call' = [call EXCEPT ![s] = NoCall] /\ ReleaseAuthority(call[s])
  <2>. HIDE DEF s
  <2>. QED
    BY <1>0, <1>2, <1>5, ReleaseKeepsAuthority
<1>6. CASE /\ call' = [call EXCEPT ![s].pkt = Head(wq).pkt, ![s].pc = next]
           /\ UNCHANGED <<expTx, digest>>
  <2>. DEFINE c == [call[s] EXCEPT !.pkt = Head(wq).pkt, !.pc = next]
  <2>1. next \in InFlight
    BY DEF InFlight, Executing
  <2>. HIDE DEF s, next
  <2>2. /\ call' = [call EXCEPT ![s] = c]
        /\ c.pc = next /\ c.kind = call[s].kind /\ c.gen = call[s].gen
        /\ c.temp = call[s].temp
    BY <1>0, <1>2, <1>6 DEF Calls
  <2>. HIDE DEF c
  <2>. QED
    BY <1>0, <1>2, <1>6, <2>1, <2>2, ProgressKeepsAuthority
<1>. QED
  BY <1>3, <1>4, <1>5, <1>6

LEMMA PlanningKeepsAuthority ==
  ASSUME TypeOK, LinkFacts, Authority, NEW s \in Callers,
         \/ \E k \in Kinds : Prepare(s, k) \/ SendDirectly(s, k)
         \/ Dismiss(s) \/ Edit(s) \/ Confirm(s)
  PROVE  Authority'
<1>0. /\ call \in [Callers -> Calls] /\ call[s] \in Calls
      /\ connId \in 0 .. MaxGen
      /\ sess' = sess
  BY DEF TypeOK, ConnectionTypeOK, TransportTypeOK, Prepare, SendDirectly, Dismiss, Edit,
     Confirm, connectionVars, serviceVars
<1>1. ASSUME NEW k \in Kinds, Prepare(s, k) PROVE Authority'
  BY <1>0, <1>1, OutsidersKeepAuthority DEF Prepare, InFlight, Executing
<1>2. ASSUME NEW k \in Kinds, SendDirectly(s, k) PROVE Authority'
  <2>1. Plan(k, connId) \in Calls
    BY <1>0, KindAssumption, PlanType
  <2>. QED
    BY <1>0, <1>2, <2>1, SubmitKeepsAuthority DEF SendDirectly, InFlight, Executing
<1>3. CASE Dismiss(s)
  BY <1>0, <1>3, OutsidersKeepAuthority DEF Dismiss, InFlight, Executing
<1>4. CASE Confirm(s)
  BY <1>0, <1>4, SubmitKeepsAuthority DEF Confirm, InFlight, Executing
<1>5. CASE Edit(s)
  <2>. DEFINE c == [call[s] EXCEPT !.edited = TRUE]
  <2>1. /\ call' = [call EXCEPT ![s] = c]
        /\ c.pc = call[s].pc /\ c.kind = call[s].kind /\ c.gen = call[s].gen
        /\ c.temp = call[s].temp
    BY <1>0, <1>5 DEF Edit, Calls
  <2>2. UNCHANGED <<expTx, digest>>
    BY <1>5 DEF Edit
  <2>. HIDE DEF c
  <2>. QED
    BY <1>0, <2>1, <2>2, OutsidersKeepAuthority, ProgressKeepsAuthority
<1>. QED
  BY <1>1, <1>2, <1>3, <1>4, <1>5

LEMMA LinkStepsKeepAuthority ==
  ASSUME TypeOK, Authority,
         \/ \E a \in Attempts : LinkEstablished(a) \/ LinkStep(a)
         \/ \E d \in Devices : LinkDropped(d)
         \/ \E who \in Closers \cup {"dispose"} : CloseBegins(who) \/ CloseFinishes(who)
  PROVE  Authority'
<1>1. call' = call
  BY DEF LinkEstablished, LinkStep, LinkDropped, CloseBegins, CloseFinishes, KeepSends, sendVars
<1>2. ASSUME NEW a \in Attempts, LinkStep(a) PROVE UNCHANGED <<expTx, digest, sess>>
  BY <1>2 DEF LinkStep, Connect, ChooseDevice, EstablishedTooLate, ConnectFails, serviceVars,
     sendVars
<1>3. ASSUME NEW d \in Devices, LinkDropped(d)
      PROVE  \/ UNCHANGED <<expTx, digest, sess>>
             \/ expTx' = FALSE /\ digest' = NoDigest
  BY <1>3 DEF LinkDropped, Drop, ClearAuthority, KeepAuthority
<1>4. ASSUME NEW a \in Attempts, LinkEstablished(a) PROVE expTx' = FALSE /\ digest' = NoDigest
  BY <1>4 DEF LinkEstablished, ClearAuthority
<1>5. ASSUME NEW who \in Closers \cup {"dispose"}, CloseBegins(who) \/ CloseFinishes(who)
      PROVE  \/ UNCHANGED <<expTx, digest, sess>>
             \/ expTx' = FALSE /\ digest' = NoDigest
  BY <1>5 DEF CloseBegins, CloseFinishes, DisconnectBegin, ClearAuthority, KeepAuthority
<1>. QED
  BY <1>1, <1>2, <1>3, <1>4, <1>5, ConnectionKeepsAuthority

LEMMA StepsKeepAuthority ==
  TypeOK /\ Exclusive /\ LinkFacts /\ Authority /\ [Next]_vars => Authority'
<1>. SUFFICES ASSUME TypeOK, Exclusive, LinkFacts, Authority, [Next]_vars PROVE Authority'
  OBVIOUS
<1>1. ASSUME NEW s \in Callers,
             \/ \E k \in Kinds : Prepare(s, k) \/ SendDirectly(s, k)
             \/ Dismiss(s) \/ Edit(s) \/ Confirm(s)
      PROVE  Authority'
  BY <1>1, PlanningKeepsAuthority
<1>2. ASSUME NEW s \in Callers, SendStep(s) PROVE Authority'
  BY <1>2, SendStepsKeepAuthority
<1>3. CASE Accepted \/ Rejected
  BY <1>3, SettlingKeepsAuthority
<1>4. ASSUME \/ \E a \in Attempts : LinkEstablished(a) \/ LinkStep(a)
             \/ \E d \in Devices : LinkDropped(d)
             \/ \E who \in Closers \cup {"dispose"} : CloseBegins(who) \/ CloseFinishes(who)
      PROVE  Authority'
  BY <1>4, LinkStepsKeepAuthority
<1>5. CASE UNCHANGED vars
  BY <1>5, ConnectionKeepsAuthority DEF vars, sendVars, connectionVars, serviceVars
<1>. QED
  BY <1>1, <1>2, <1>3, <1>4, <1>5 DEF Next

------------------------------------------------------------------------------
(* The theorems.                                                           *)

SendInv == TypeOK /\ LinkFacts /\ Exclusive /\ Sealed /\ Untainted /\ Authority

LEMMA InitialSendInv == Init => SendInv /\ InOneGeneration
<1>. SUFFICES ASSUME Init PROVE SendInv /\ InOneGeneration
  OBVIOUS
<1>1. LinkFacts /\ Sealed /\ Untainted /\ InOneGeneration
  BY GenAssumption DEF Init, ConnectionInit, TransportInit, LinkFacts, Sealed, Untainted,
     NothingAfterATimeout, InOneGeneration, NoCall
<1>2. Authority
  BY DEF Init, Authority, AuthorityIsSingleUse
<1>. QED
  BY <1>1, <1>2, InitialSendTypes, InitialExclusion DEF SendInv

LEMMA StepsKeepSendInv == SendInv /\ [Next]_vars => SendInv'
BY StepsKeepTypes, StepsKeepLinkFacts, StepsKeepExclusion, StepsKeepSealed,
   StepsKeepUntainted, StepsKeepAuthority DEF SendInv

LEMMA SendInvAlways == Spec => []SendInv
<1>1. Init => SendInv
  BY InitialSendInv
<1>. QED
  BY <1>1, StepsKeepSendInv, PTL DEF Spec

(* A confirmed digest and an experimental unlock are never left behind by  *)
(* the send they were given to, and never outlive its connection.          *)
THEOREM AuthorityIsAlwaysSingleUse == Spec => []AuthorityIsSingleUse
<1>1. SendInv => AuthorityIsSingleUse
  BY DEF SendInv, Authority
<1>. QED
  BY SendInvAlways, <1>1, PTL

(* After a time-out the browser gets nothing more in that generation.      *)
THEOREM NothingEverAfterATimeout == Spec => []NothingAfterATimeout
<1>1. SendInv => NothingAfterATimeout
  BY DEF SendInv, Untainted
<1>. QED
  BY SendInvAlways, <1>1, PTL

(* When the browser settles the writes of a closed link before it opens    *)
(* another, every write goes to the connection its plan was prepared for,  *)
(* with the bytes its digest was made from.                                *)
THEOREM WritesAlwaysStayInTheirGeneration ==
  ASSUME ~LateSettle PROVE Spec => []WritesStayInTheirGeneration
<1>1. Init => SendInv /\ InOneGeneration
  BY InitialSendInv
<1>2. SendInv /\ InOneGeneration /\ [Next]_vars => (SendInv /\ InOneGeneration)'
  BY ~LateSettle, StepsKeepSendInv, StepsKeepGeneration DEF SendInv
<1>3. SendInv /\ InOneGeneration => WritesStayInTheirGeneration
  BY DEF SendInv, Sealed, InOneGeneration, WritesStayInTheirGeneration
<1>. QED
  BY <1>1, <1>2, <1>3, PTL DEF Spec

------------------------------------------------------------------------------
(* Sending refines the connection lifecycle.                               *)

\* A failing call tells the machine at most of an indeterminate write.
LEMMA FailuresAreIndeterminate ==
  ASSUME NEW s \in Callers, NEW state, Fail(s, state),
         state = "quarantined" => tState \in {"connected", "quarantined"},
         tState' = IF state = "quarantined" THEN QuarantinedState ELSE tState,
         UNCHANGED <<connId, device, attempt, watched, linked, lastGen, genDevice,
                     sess, closing, explicit, disposed>>
  PROVE  [ConnectionNext]_connectionVars
<1>1. CASE state = "quarantined"
  <2>1. Indeterminate(TRUE)
    BY <1>1 DEF Indeterminate, Fail
  <2>. QED
    BY <2>1 DEF ConnectionNext
<1>2. CASE state # "quarantined"
  BY <1>2 DEF Fail, connectionVars, linkVars, serviceVars
<1>. QED
  BY <1>1, <1>2

LEMMA SendStepsRefine == TypeOK /\ [Next]_vars => [ConnectionNext]_connectionVars
<1>. SUFFICES ASSUME TypeOK, [Next]_vars PROVE [ConnectionNext]_connectionVars
  OBVIOUS
<1>0. \A i \in DOMAIN wq : wq[i].owner \in Callers
  <2>1. \A i \in DOMAIN wq : wq[i] \in Writes
    BY DEF TypeOK
  <2>. QED
    BY <2>1 DEF Writes
<1>1. ASSUME NEW s \in Callers,
             \/ \E k \in Kinds : Prepare(s, k) \/ SendDirectly(s, k)
             \/ Dismiss(s) \/ Edit(s) \/ Confirm(s)
             \/ SubscribeFails(s) \/ ResponseSettles(s)
      PROVE  UNCHANGED connectionVars
  BY <1>1 DEF Prepare, SendDirectly, Dismiss, Edit, Confirm, SubscribeFails, ResponseSettles
<1>2. ASSUME NEW s \in Callers, Subscribed(s) \/ NextPacket(s)
      PROVE  [ConnectionNext]_connectionVars
  <2>1. LinkUnchanged /\ (cm' = cm \/ Fail(s, tState))
    BY <1>2 DEF Subscribed, NextPacket
  <2>2. CASE cm' = cm
    BY <2>1, <2>2 DEF LinkUnchanged, connectionVars, serviceVars
  <2>3. CASE Fail(s, tState)
    BY <2>1, <2>3, FailuresAreIndeterminate DEF LinkUnchanged, linkVars, QuarantinedState
  <2>. QED
    BY <2>1, <2>2, <2>3
<1>3. ASSUME NEW s \in Callers, WriteTimesOut(s) PROVE [ConnectionNext]_connectionVars
  <2>1. /\ Fail(s, QuarantinedState) /\ tState' = QuarantinedState
        /\ UNCHANGED <<connId, device, attempt, watched, linked, lastGen, genDevice,
                       sess, closing, explicit, disposed>>
    BY <1>3 DEF WriteTimesOut
  <2>. QED
    BY <2>1, FailuresAreIndeterminate DEF QuarantinedState
<1>4. CASE Accepted
  BY <1>4 DEF Accepted
<1>5. CASE Rejected
  <2>1. LinkUnchanged /\ (cm' = cm \/ Fail(Head(wq).owner, tState)) /\ wq # <<>>
    BY <1>5 DEF Rejected
  <2>2. CASE cm' = cm
    BY <2>1, <2>2 DEF LinkUnchanged, connectionVars, serviceVars
  <2>3. CASE Fail(Head(wq).owner, tState)
    <3>1. Head(wq).owner \in Callers
      BY <1>0, <2>1 DEF TypeOK
    <3>. QED
      BY <2>1, <2>3, <3>1, FailuresAreIndeterminate DEF LinkUnchanged, linkVars, QuarantinedState
  <2>. QED
    BY <2>1, <2>2, <2>3
<1>6. ASSUME \/ \E a \in Attempts : LinkEstablished(a) \/ LinkStep(a)
             \/ \E d \in Devices : LinkDropped(d)
             \/ \E who \in Closers \cup {"dispose"} : CloseBegins(who) \/ CloseFinishes(who)
      PROVE  ConnectionNext
  BY <1>6, ConnectionStepsKeepSendTypes DEF ConnectionNext
<1>7. CASE UNCHANGED vars
  BY <1>7 DEF vars
<1>. QED
  BY <1>1, <1>2, <1>3, <1>4, <1>5, <1>6, <1>7 DEF Next, SendStep

(* Whatever the calls do, the connection takes only the steps of module    *)
(* Connection.                                                             *)
THEOREM SendsAlwaysFollowTheConnection == Spec => SendsFollowTheConnection
<1>1. Init => ConnectionInit
  BY DEF Init
<1>2. TypeOK /\ [Next]_vars => [ConnectionNext]_connectionVars
  BY SendStepsRefine
<1>. QED
  BY <1>1, <1>2, TypeCorrect, PTL DEF Spec, SendsFollowTheConnection
------------------------------------------------------------------------------
(* The belief about the panel.  With several callers, or when the display  *)
(* may refuse the subscription of an open link, a staged program can wait  *)
(* for another send (run MCStaleStaged); what follows is about one caller  *)
(* whose subscriptions succeed, and one connect attempt at a time.         *)
SingleCaller == \A s, t \in Callers : s = t

\* The connection is the last one, to a display.
Generation == connId # 0 => connId = lastGen /\ genDevice[connId] \in Devices

\* How a call stands to what is staged: on an open link a guided program is
\* staged exactly while its own call subscribes, which then takes it.
InStep(c, program, state, g, last) ==
  /\ c.gen <= last
  /\ c.pc = "prepared" => c.kind \in {"content", "gif"}
  /\ c.pc = "awaiting" => c.kind = "control"
  /\ state = "connected" =>
       (program = "guided" <=> c.pc = "subscribing" /\ c.kind = "guided" /\ c.gen = g)
  /\ c.pc \in Executing /\ Persistent(c.kind) => (c.took = "guided" <=> c.kind = "guided")
StagedForItsCall == \A s \in Callers : InStep(call[s], staged, tState, connId, lastGen)

\* A write that its call waits for is the last of the queue.
AwaitedLast ==
  \A i \in DOMAIN wq :
    ~wq[i].orphan => i = Len(wq) /\ wq[i].kind = call[wq[i].owner].kind

\* What holds while the belief names a program: no abandoned write can still
\* replace it, and no connection of a disposed workspace can come up.
NothingPersistentLeft == \A i \in DOMAIN wq : wq[i].orphan => ~Persistent(wq[i].kind)
Known ==
  panel # "unknown" =>
    /\ NothingPersistentLeft
    /\ disposed => \A a \in Attempts : ~Pending(a)
    /\ (running # NoCaller => ~Persistent(call[running].kind)) => shows[genDevice[lastGen]] = panel

BeliefInv ==
  SendInv /\ ConnectionInv /\ Generation /\ StagedForItsCall /\ AwaitedLast /\ Known

\* The link's steps keep the generation.
LEMMA LinkStepsKeepGeneration ==
  ASSUME ConnectionTypeOK, Generation, LinkNext PROVE Generation'
<1>0. /\ lastGen \in 0 .. MaxGen /\ connId \in 0 .. MaxGen /\ MaxGen \in Nat
      /\ genDevice \in [Gens -> Devices \cup {NoDevice}]
      /\ \A a \in Attempts : attempt[a].pc = "linking" => attempt[a].dev \in Devices
  BY GenAssumption DEF ConnectionTypeOK, TransportTypeOK
<1>1. ASSUME NEW a \in Attempts, NEW how \in Ways, Connect(a, how) PROVE Generation'
  BY <1>1 DEF Connect, BeginSelect, linkVars, Generation
<1>2. ASSUME NEW a \in Attempts, NEW d \in Devices, ChooseDevice(a, d) PROVE Generation'
  BY <1>2 DEF ChooseDevice, Choose, Generation
<1>3. ASSUME NEW a \in Attempts, Established(a) PROVE Generation'
  <2>1. /\ lastGen < MaxGen /\ lastGen' = lastGen + 1 /\ connId' = lastGen + 1
        /\ genDevice' = [genDevice EXCEPT ![lastGen + 1] = attempt[a].dev]
        /\ attempt[a].dev \in Devices
    BY <1>0, <1>3 DEF Established, LinkUp
  <2>2. lastGen + 1 \in Gens
    BY <1>0, <2>1 DEF Gens
  <2>. QED
    BY <1>0, <2>1, <2>2 DEF Generation
<1>4. ASSUME NEW a \in Attempts, EstablishedTooLate(a) \/ ConnectFails(a) PROVE Generation'
  BY <1>4 DEF EstablishedTooLate, LinkUpAndClose, ConnectFails, LinkFails, Cleanup, Generation
<1>5. ASSUME NEW who \in Closers \cup {"dispose"}, DisconnectBegin(who) \/ DisconnectFinish(who)
      PROVE  Generation'
  BY <1>5 DEF DisconnectBegin, DisconnectFinish, CloseTransport, Cleanup, linkVars, Generation
<1>6. ASSUME NEW d \in Devices, Drop(d) PROVE Generation'
  BY <1>6 DEF Drop, LinkLost, Generation
<1>. QED
  BY <1>1, <1>2, <1>3, <1>4, <1>5, <1>6 DEF LinkNext

LEMMA StepsKeepGenerationOfLink ==
  ASSUME ConnectionTypeOK, Generation, [ConnectionNext]_connectionVars PROVE Generation'
<1>1. CASE LinkNext
  BY <1>1, LinkStepsKeepGeneration
<1>2. ASSUME NEW reported \in BOOLEAN, Indeterminate(reported) PROVE Generation'
  BY <1>2 DEF Indeterminate, Generation
<1>3. CASE UNCHANGED connectionVars
  BY <1>3 DEF connectionVars, linkVars, Generation
<1>. QED
  BY <1>1, <1>2, <1>3 DEF ConnectionNext

------------------------------------------------------------------------------
\* With one caller, what is staged follows that caller's call.
LEMMA OneCallInStep ==
  ASSUME SingleCaller, TypeOK, NEW s \in Callers, NEW c, call' = [call EXCEPT ![s] = c],
         InStep(c, staged', tState', connId', lastGen')
  PROVE  StagedForItsCall'
BY DEF SingleCaller, TypeOK, StagedForItsCall

\* A call that ends leaves nothing staged on an open link.
LEMMA IdleInStep ==
  ASSUME TypeOK, NEW s \in Callers, InStep(call[s], staged, tState, connId, lastGen),
         UNCHANGED <<connId, lastGen>>,
         tState' = "connected" => staged' # "guided"
  PROVE  InStep(NoCall, staged', tState', connId', lastGen')
<1>1. lastGen \in Nat
  BY GenAssumption DEF TypeOK, ConnectionTypeOK, TransportTypeOK
<1>. QED
  BY <1>1 DEF InStep, NoCall, Executing

LEMMA PlanningKeepsStaging ==
  ASSUME SingleCaller, TypeOK, LinkFacts, StagedForItsCall, NEW s \in Callers,
         \/ \E k \in Kinds : Prepare(s, k) \/ SendDirectly(s, k)
         \/ Dismiss(s) \/ Edit(s) \/ Confirm(s)
  PROVE  StagedForItsCall'
<1>0. /\ call \in [Callers -> Calls] /\ call[s] \in Calls
      /\ connId \in 0 .. MaxGen /\ lastGen \in Nat /\ connId <= lastGen
      /\ InStep(call[s], staged, tState, connId, lastGen)
      /\ staged \in {"none", "guided"}
      /\ UNCHANGED <<tState, connId, lastGen>>
  BY GenAssumption DEF TypeOK, ConnectionTypeOK, TransportTypeOK, LinkFacts, StagedForItsCall,
     Prepare, SendDirectly, Dismiss, Edit, Confirm, connectionVars, linkVars
<1>1. ASSUME NEW k \in Kinds, Prepare(s, k) PROVE StagedForItsCall'
  <2>1. /\ Plan(k, connId).pc = "prepared" /\ Plan(k, connId).kind = k
        /\ Plan(k, connId).gen = connId /\ k \in {"content", "gif"}
    BY <1>1 DEF Prepare, Plan, NoCall
  <2>2. call[s].pc = "idle" /\ call' = [call EXCEPT ![s] = Plan(k, connId)] /\ staged' = staged
    BY <1>1 DEF Prepare
  <2>3. InStep(Plan(k, connId), staged', tState', connId', lastGen')
    BY <1>0, <2>1, <2>2 DEF InStep, Executing
  <2>. QED
    BY <2>2, <2>3, OneCallInStep
<1>2. CASE Dismiss(s)
  <2>1. /\ call[s].pc = "prepared" /\ call' = [call EXCEPT ![s] = NoCall]
        /\ staged' = staged
    BY <1>2 DEF Dismiss
  <2>2. InStep(NoCall, staged', tState', connId', lastGen')
    BY <1>0, <2>1, IdleInStep DEF InStep
  <2>. QED
    BY <2>1, <2>2, OneCallInStep
<1>3. CASE Edit(s)
  <2>. DEFINE c == [call[s] EXCEPT !.edited = TRUE]
  <2>1. /\ call' = [call EXCEPT ![s] = c] /\ c.pc = call[s].pc /\ c.kind = call[s].kind
        /\ c.gen = call[s].gen /\ c.took = call[s].took
        /\ staged' = staged
    BY <1>0, <1>3 DEF Edit, Calls
  <2>. HIDE DEF c
  <2>2. InStep(c, staged', tState', connId', lastGen')
    BY <1>0, <2>1 DEF InStep
  <2>. QED
    BY <2>1, <2>2, OneCallInStep
<1>4. ASSUME NEW p \in Calls, Submit(s, p), p.pc = "prepared", p.gen <= lastGen,
             staged' = IF p.kind = "guided" THEN "guided" ELSE staged,
             call[s].pc \in {"idle", "prepared"},
             p.kind = "guided" => tState = "connected" /\ p.gen = connId /\ ~p.edited
      PROVE  StagedForItsCall'
  <2>. DEFINE c == [p EXCEPT !.pc = "subscribing", !.owned = p.edited,
                             !.temp = Experimental(p.kind) /\ ~expTx]
  <2>1. c.pc = "subscribing" /\ c.kind = p.kind /\ c.gen = p.gen
    BY DEF Calls
  <2>2. tState = "connected" => staged # "guided"
    BY <1>0, <1>4 DEF InStep
  <2>3. CASE call' = [call EXCEPT ![s] = c] /\ (p.kind # "guided" => staged' = staged)
    <3>. HIDE DEF c
    <3>1. InStep(c, staged', tState', connId', lastGen')
      BY <1>0, <1>4, <2>1, <2>2 DEF InStep, Executing
    <3>. QED
      BY <2>3, <3>1, OneCallInStep
  <2>4. CASE call' = [call EXCEPT ![s] = NoCall] /\ p.kind # "guided"
    <3>1. InStep(NoCall, staged', tState', connId', lastGen')
      BY <1>0, <1>4, <2>2, <2>4, IdleInStep
    <3>. QED
      BY <2>4, <3>1, OneCallInStep
  <2>5. p.kind = "guided" => Authorized(p, expTx \/ Experimental(p.kind),
                                IF Experimental(p.kind) THEN DigestOf(p) ELSE digest)
    BY <1>0, <1>4 DEF Authorized, Experimental, LinkFacts
  <2>. QED
    BY <1>4, <2>3, <2>4, <2>5 DEF Submit
<1>5. CASE Confirm(s)
  <2>1. /\ Submit(s, call[s]) /\ call[s].pc = "prepared" /\ staged' = staged
        /\ call[s].kind # "guided" /\ call[s].gen <= lastGen
    BY <1>0, <1>5 DEF Confirm, InStep
  <2>. QED
    BY <1>0, <1>4, <2>1
<1>6. ASSUME NEW k \in Kinds, SendDirectly(s, k) PROVE StagedForItsCall'
  <2>1. /\ Plan(k, connId) \in Calls /\ Plan(k, connId).pc = "prepared"
        /\ Plan(k, connId).kind = k /\ Plan(k, connId).gen = connId
        /\ ~Plan(k, connId).edited
    BY <1>0, KindAssumption, PlanType DEF Plan, NoCall
  <2>2. /\ Submit(s, Plan(k, connId)) /\ call[s].pc = "idle" /\ tState = "connected"
        /\ staged' = IF k = "guided" THEN "guided" ELSE staged
    BY <1>6 DEF SendDirectly
  <2>. HIDE DEF Plan
  <2>. QED
    BY <1>0, <1>4, <2>1, <2>2
<1>. QED
  BY <1>1, <1>2, <1>3, <1>5, <1>6

LEMMA SendStepsKeepStaging ==
  ASSUME SingleCaller, ReliableSubscribe, TypeOK, Exclusive, StagedForItsCall,
         NEW s \in Callers, SendStep(s)
  PROVE  StagedForItsCall'
<1>0. /\ call \in [Callers -> Calls] /\ call[s] \in Calls
      /\ InStep(call[s], staged, tState, connId, lastGen)
      /\ UNCHANGED <<connId, lastGen>>
  BY DEF TypeOK, StagedForItsCall, SendStep, Subscribed, SubscribeFails, WriteTimesOut,
     NextPacket, ResponseSettles, LinkUnchanged, connectionVars, linkVars
<1>1. ASSUME Subscribed(s) PROVE StagedForItsCall'
  <2>1. /\ call[s].pc = "subscribing" /\ staged' = "none" /\ tState' = tState
    BY <1>1 DEF Subscribed, LinkUnchanged, linkVars
  <2>2. CASE MayExecute(call[s])
    <3>. DEFINE c == [call[s] EXCEPT !.pc = "writing", !.took = staged]
    <3>1. /\ call' = [call EXCEPT ![s] = c] /\ c.pc = "writing" /\ c.took = staged
          /\ c.kind = call[s].kind /\ c.gen = call[s].gen
          /\ tState = "connected" /\ connId = call[s].gen
      BY <1>0, <1>1, <2>2 DEF Subscribed, MayExecute, Calls
    <3>. HIDE DEF c
    <3>2. InStep(c, staged', tState', connId', lastGen')
      BY <1>0, <2>1, <3>1 DEF InStep
    <3>. QED
      BY <3>1, <3>2, OneCallInStep
  <2>3. CASE ~MayExecute(call[s])
    <3>1. call' = [call EXCEPT ![s] = NoCall]
      BY <1>1, <2>3 DEF Subscribed, Fail
    <3>2. InStep(NoCall, staged', tState', connId', lastGen')
      BY <1>0, <2>1, IdleInStep
    <3>. QED
      BY <3>1, <3>2, OneCallInStep
  <2>. QED
    BY <2>2, <2>3
<1>2. ASSUME SubscribeFails(s) PROVE StagedForItsCall'
  <2>1. /\ call' = [call EXCEPT ![s] = NoCall] /\ staged' = staged /\ tState' = tState
        /\ tState # "connected" \/ connId # call[s].gen
    BY <1>2, ReliableSubscribe DEF SubscribeFails, connectionVars, linkVars
  <2>2. InStep(NoCall, staged', tState', connId', lastGen')
    BY <1>0, <2>1, IdleInStep DEF InStep
  <2>. QED
    BY <2>1, <2>2, OneCallInStep
<1>3. ASSUME WriteTimesOut(s) PROVE StagedForItsCall'
  <2>1. /\ call' = [call EXCEPT ![s] = NoCall] /\ staged' = staged
        /\ tState' = "connected" => tState = "connected"
        /\ call[s].pc = "writing"
    BY <1>3 DEF WriteTimesOut, Fail, QuarantinedState
  <2>2. InStep(NoCall, staged', tState', connId', lastGen')
    BY <1>0, <2>1, IdleInStep DEF InStep
  <2>. QED
    BY <2>1, <2>2, OneCallInStep
<1>4. ASSUME NextPacket(s) PROVE StagedForItsCall'
  <2>1. call[s].pc = "pacing" /\ staged' = staged /\ tState' = tState
    BY <1>4 DEF NextPacket, LinkUnchanged, linkVars
  <2>2. CASE connId = call[s].gen /\ tState = "connected"
    <3>. DEFINE c == [call[s] EXCEPT !.pc = "writing"]
    <3>1. /\ call' = [call EXCEPT ![s] = c] /\ c.pc = "writing"
          /\ c.kind = call[s].kind /\ c.gen = call[s].gen /\ c.took = call[s].took
      BY <1>0, <1>4, <2>2 DEF NextPacket, Calls
    <3>. HIDE DEF c
    <3>2. InStep(c, staged', tState', connId', lastGen')
      BY <1>0, <2>1, <3>1 DEF InStep, Executing
    <3>. QED
      BY <3>1, <3>2, OneCallInStep
  <2>3. CASE ~(connId = call[s].gen /\ tState = "connected")
    <3>1. call' = [call EXCEPT ![s] = NoCall]
      BY <1>4, <2>3 DEF NextPacket, Fail
    <3>2. InStep(NoCall, staged', tState', connId', lastGen')
      BY <1>0, <2>1, IdleInStep DEF InStep
    <3>. QED
      BY <3>1, <3>2, OneCallInStep
  <2>. QED
    BY <2>2, <2>3
<1>5. ASSUME ResponseSettles(s) PROVE StagedForItsCall'
  <2>1. /\ call' = [call EXCEPT ![s] = NoCall] /\ staged' = staged /\ tState' = tState
        /\ call[s].pc = "awaiting"
    BY <1>5 DEF ResponseSettles, Complete, connectionVars, linkVars
  <2>2. InStep(NoCall, staged', tState', connId', lastGen')
    BY <1>0, <2>1, IdleInStep DEF InStep
  <2>. QED
    BY <2>1, <2>2, OneCallInStep
<1>. QED
  BY <1>1, <1>2, <1>3, <1>4, <1>5 DEF SendStep

\* The oldest write, and the call that waits for it.
LEMMA HeadFacts ==
  ASSUME TypeOK, Exclusive, AwaitedLast, wq # <<>>
  PROVE  /\ wq \in Seq(Writes) /\ Head(wq) = wq[1] /\ 1 \in DOMAIN wq /\ wq[1] \in Writes
         /\ wq[1].owner \in Callers
         /\ ~wq[1].orphan => /\ Len(wq) = 1 /\ wq[1].kind = call[wq[1].owner].kind
                             /\ running = wq[1].owner /\ call[wq[1].owner].pc = "writing"
<1>1. wq \in Seq(Writes) /\ Head(wq) = wq[1] /\ 1 \in DOMAIN wq /\ wq[1] \in Writes
  BY DEF TypeOK
<1>. QED
  BY <1>1 DEF AwaitedLast, Exclusive, OneExecution, Writes

LEMMA SettlingKeepsStaging ==
  ASSUME SingleCaller, TypeOK, Exclusive, StagedForItsCall, AwaitedLast, Accepted \/ Rejected
  PROVE  StagedForItsCall'
<1>. DEFINE w == wq[1]
<1>. DEFINE s == w.owner
<1>0. /\ call \in [Callers -> Calls] /\ wq # <<>>
      /\ UNCHANGED <<connId, lastGen, tState, staged>>
  BY DEF TypeOK, Accepted, Rejected, LinkUnchanged, connectionVars, linkVars
<1>1. /\ Head(wq) = w /\ w \in Writes /\ s \in Callers
      /\ ~w.orphan => w.kind = call[s].kind /\ call[s].pc = "writing"
  BY <1>0, HeadFacts
<1>. HIDE DEF w, s
<1>2. InStep(call[s], staged, tState, connId, lastGen) /\ call[s] \in Calls
  BY <1>0, <1>1 DEF StagedForItsCall
<1>3. CASE w.orphan
  <2>1. call' = call
    BY <1>1, <1>3 DEF Accepted, Rejected
  <2>. QED
    BY <1>0, <2>1 DEF StagedForItsCall
<1>4. CASE ~w.orphan /\ call' = [call EXCEPT ![s] = NoCall]
  <2>1. InStep(NoCall, staged', tState', connId', lastGen')
    BY <1>0, <1>1, <1>2, <1>4, IdleInStep DEF InStep
  <2>. QED
    BY <1>1, <1>4, <2>1, OneCallInStep
<1>5. CASE Accepted /\ ~w.orphan /\ (MoreAfter(w) \/ Responds(w.kind))
  <2>. DEFINE next == IF MoreAfter(w) THEN "pacing" ELSE "awaiting"
  <2>. DEFINE c == [call[s] EXCEPT !.pkt = w.pkt, !.pc = next]
  <2>1. /\ call' = [call EXCEPT ![s].pkt = w.pkt, ![s].pc = next]
    BY <1>1, <1>5 DEF Accepted, s
  <2>2. next \in {"pacing", "awaiting"} /\ (next = "awaiting" => w.kind = "control")
    BY <1>5 DEF Responds
  <2>. HIDE DEF next
  <2>3. /\ call' = [call EXCEPT ![s] = c] /\ c.pc = next
        /\ c.kind = call[s].kind /\ c.gen = call[s].gen /\ c.took = call[s].took
    BY <1>0, <1>1, <1>2, <2>1 DEF Calls
  <2>. HIDE DEF c
  <2>4. InStep(c, staged', tState', connId', lastGen')
    BY <1>0, <1>1, <1>2, <1>5, <2>2, <2>3 DEF InStep, Executing
  <2>. QED
    BY <1>1, <2>3, <2>4, OneCallInStep
<1>6. \/ w.orphan
      \/ call' = [call EXCEPT ![s] = NoCall]
      \/ Accepted /\ ~w.orphan /\ (MoreAfter(w) \/ Responds(w.kind))
  BY <1>1 DEF Accepted, Rejected, Fail, Complete, s
<1>. QED
  BY <1>3, <1>4, <1>5, <1>6

LEMMA LinkStepsKeepStaging ==
  ASSUME TypeOK, StagedForItsCall,
         \/ \E a \in Attempts : LinkEstablished(a) \/ LinkStep(a)
         \/ \E d \in Devices : LinkDropped(d)
         \/ \E who \in Closers \cup {"dispose"} : CloseBegins(who) \/ CloseFinishes(who)
  PROVE  StagedForItsCall'
<1>0. lastGen \in Nat /\ \A s \in Callers : call[s].gen \in Nat
  BY GenAssumption DEF TypeOK, ConnectionTypeOK, TransportTypeOK, Calls
<1>1. call' = call
  BY DEF LinkEstablished, LinkStep, LinkDropped, CloseBegins, CloseFinishes, KeepSends, sendVars
<1>2. lastGen' \in {lastGen, lastGen + 1} /\ lastGen <= lastGen'
  <2>1. ASSUME NEW a \in Attempts, LinkStep(a) PROVE lastGen' \in {lastGen, lastGen + 1}
    BY <2>1 DEF LinkStep, Connect, BeginSelect, linkVars, ChooseDevice, Choose,
       EstablishedTooLate, LinkUpAndClose, ConnectFails, LinkFails, Cleanup
  <2>2. ASSUME NEW a \in Attempts, LinkEstablished(a) PROVE lastGen' \in {lastGen, lastGen + 1}
    BY <2>2 DEF LinkEstablished, Established, LinkUp
  <2>3. ASSUME NEW d \in Devices, LinkDropped(d) PROVE lastGen' \in {lastGen, lastGen + 1}
    BY <2>3 DEF LinkDropped, Drop, LinkLost
  <2>4. ASSUME NEW who \in Closers \cup {"dispose"}, CloseBegins(who) \/ CloseFinishes(who)
        PROVE  lastGen' \in {lastGen, lastGen + 1}
    BY <2>4 DEF CloseBegins, CloseFinishes, DisconnectBegin, DisconnectFinish, CloseTransport,
       Cleanup, linkVars
  <2>5. lastGen' \in {lastGen, lastGen + 1}
    BY <2>1, <2>2, <2>3, <2>4
  <2>. QED
    BY <1>0, <2>5
<1>3. \/ tState' # "connected"
      \/ UNCHANGED <<tState, connId, staged>>
      \/ staged' = "none" /\ connId' = lastGen + 1
  <2>1. ASSUME NEW a \in Attempts, LinkStep(a)
        PROVE  tState' # "connected" \/ UNCHANGED <<tState, connId, staged>>
    BY <2>1 DEF LinkStep, Connect, BeginSelect, linkVars, ChooseDevice, Choose,
       EstablishedTooLate, LinkUpAndClose, ConnectFails, LinkFails, Cleanup, sendVars
  <2>2. ASSUME NEW a \in Attempts, LinkEstablished(a)
        PROVE  staged' = "none" /\ connId' = lastGen + 1
    BY <2>2 DEF LinkEstablished, Established, LinkUp
  <2>3. ASSUME NEW d \in Devices, LinkDropped(d) PROVE tState' # "connected"
    BY <2>3 DEF LinkDropped, Drop, LinkLost
  <2>4. ASSUME NEW who \in Closers \cup {"dispose"}, CloseBegins(who)
        PROVE  UNCHANGED <<tState, connId, staged>>
    BY <2>4 DEF CloseBegins, DisconnectBegin, linkVars
  <2>5. ASSUME NEW who \in Closers \cup {"dispose"}, CloseFinishes(who)
        PROVE  tState' # "connected"
    BY <2>5 DEF CloseFinishes, DisconnectFinish, CloseTransport, Cleanup, linkVars
  <2>. QED
    BY <2>1, <2>2, <2>3, <2>4, <2>5
<1>4. ASSUME NEW s \in Callers PROVE InStep(call[s], staged', tState', connId', lastGen')
  <2>1. InStep(call[s], staged, tState, connId, lastGen)
    BY DEF StagedForItsCall
  <2>2. call[s].gen <= lastGen' /\ call[s].gen # lastGen + 1
    BY <1>0, <1>2, <2>1 DEF InStep
  <2>. QED
    BY <1>3, <2>1, <2>2 DEF InStep
<1>. QED
  BY <1>1, <1>4 DEF StagedForItsCall

------------------------------------------------------------------------------
(* The queue and the belief.                                               *)

BeliefPart == AwaitedLast /\ Known

\* The belief survives a step that leaves panel, display, queue and link alone, of a call outside
\* execute().
LEMMA BystandersKeepBelief ==
  ASSUME TypeOK, Exclusive, BeliefPart, NEW s \in Callers, call[s].pc \notin Executing,
         NEW c, call' = [call EXCEPT ![s] = c],
         UNCHANGED <<wq, running, shows, genDevice, lastGen, disposed, attempt>>,
         panel' \in {panel, "unknown"}
  PROVE  BeliefPart'
<1>0. /\ call \in [Callers -> Calls] /\ running # s
      /\ \A i \in DOMAIN wq : ~wq[i].orphan => wq[i].owner # s
  BY DEF TypeOK, Exclusive, OneExecution, Executing
<1>1. AwaitedLast'
  BY <1>0 DEF BeliefPart, AwaitedLast, TypeOK
<1>2. ASSUME panel' # "unknown" PROVE Known'
  <2>1. running # NoCaller => running \in Callers /\ call'[running] = call[running]
    BY <1>0 DEF TypeOK
  <2>2. panel' = panel
    BY <1>2
  <2>3. NothingPersistentLeft' /\ (disposed' => \A a \in Attempts : ~Pending(a)')
    BY <1>2, <2>2 DEF BeliefPart, Known, NothingPersistentLeft, Pending
  <2>. QED
    BY <1>2, <2>1, <2>2, <2>3 DEF BeliefPart, Known
<1>. QED
  BY <1>1, <1>2 DEF BeliefPart, Known

LEMMA PlanningKeepsBelief ==
  ASSUME TypeOK, Exclusive, BeliefPart, NEW s \in Callers,
         \/ \E k \in Kinds : Prepare(s, k) \/ SendDirectly(s, k)
         \/ Dismiss(s) \/ Edit(s) \/ Confirm(s)
  PROVE  BeliefPart'
<1>0. /\ call[s].pc \notin Executing
      /\ UNCHANGED <<wq, running, shows, genDevice, lastGen, disposed, attempt, panel>>
  BY DEF Prepare, SendDirectly, Dismiss, Edit, Confirm, connectionVars, linkVars, serviceVars,
     Executing
<1>1. \E c : call' = [call EXCEPT ![s] = c]
  <2>1. CASE Edit(s)
    BY <2>1 DEF Edit, TypeOK
  <2>. QED
    BY <2>1 DEF Prepare, SendDirectly, Dismiss, Confirm, Submit
<1>. QED
  BY <1>0, <1>1, BystandersKeepBelief

\* The queue with the write of a verified call at its end.
LEMMA EnqueuedBelief ==
  ASSUME TypeOK, Exclusive, BeliefPart, NEW s \in Callers, call[s].pkt < Packets,
         AllOrphans(wq), wq' = Enqueue(s), NEW c, call' = [call EXCEPT ![s] = c],
         c.kind = call[s].kind, running \in {s, NoCaller}, running' = s,
         UNCHANGED <<shows, genDevice, lastGen, disposed, attempt, panel>>
  PROVE  BeliefPart'
<1>0. /\ call \in [Callers -> Calls] /\ wq \in Seq(Writes)
      /\ s # NoCaller
      /\ Len(wq) \in Nat /\ DOMAIN wq = 1 .. Len(wq)
  BY CallerAssumption DEF TypeOK
<1>1. /\ wq' \in Seq(Writes)
      /\ DOMAIN wq' = 1 .. Len(wq) + 1
      /\ \A i \in DOMAIN wq : wq'[i] = wq[i]
      /\ wq'[Len(wq) + 1].owner = s /\ wq'[Len(wq) + 1].kind = call[s].kind
      /\ ~wq'[Len(wq) + 1].orphan
  BY EnqueueFacts
<1>2. Len(wq') = Len(wq) + 1
  <2>1. Len(wq') \in Nat /\ DOMAIN wq' = 1 .. Len(wq')
    BY <1>1
  <2>. QED
    BY <1>0, <1>1, <2>1
<1>3. \A i \in DOMAIN wq' : i \in DOMAIN wq \/ i = Len(wq) + 1
  BY <1>0, <1>1
<1>4. AwaitedLast'
  BY <1>0, <1>1, <1>2, <1>3 DEF AwaitedLast, AllOrphans
<1>5. ASSUME panel # "unknown" PROVE Known'
  <2>1. NothingPersistentLeft'
    BY <1>1, <1>3, <1>5 DEF BeliefPart, Known, NothingPersistentLeft
  <2>2. disposed' => \A a \in Attempts : ~Pending(a)'
    BY <1>5 DEF BeliefPart, Known, Pending
  <2>3. ~Persistent(call'[running'].kind) => (running # NoCaller => ~Persistent(call[running].kind))
    BY <1>0
  <2>. QED
    BY <1>0, <1>5, <2>1, <2>2, <2>3 DEF BeliefPart, Known
<1>. QED
  BY <1>4, <1>5 DEF BeliefPart, Known

\* The queue when the call that waited for it, if any, has failed or was answered.
LEMMA FailedBelief ==
  ASSUME TypeOK, Exclusive, BeliefPart, NEW s \in Callers, call[s].pc \in Executing,
         call' = [call EXCEPT ![s] = NoCall], running' = NoCaller, AllOrphans(wq'),
         panel' = IF Persistent(call[s].kind) THEN "unknown" ELSE panel,
         ~Persistent(call[s].kind) /\ NothingPersistentLeft => NothingPersistentLeft',
         UNCHANGED <<shows, genDevice, lastGen, disposed, attempt>>
  PROVE  BeliefPart'
<1>1. AwaitedLast'
  BY DEF AwaitedLast, AllOrphans
<1>2. running = s /\ s # NoCaller
  BY CallerAssumption DEF Exclusive, OneExecution
<1>3. Known'
  BY <1>2 DEF BeliefPart, Known, Pending
<1>. QED
  BY <1>1, <1>3 DEF BeliefPart

LEMMA SendStepsKeepBelief ==
  ASSUME TypeOK, Exclusive, StagedForItsCall, BeliefPart, NEW s \in Callers, SendStep(s)
  PROVE  BeliefPart'
<1>0. /\ call \in [Callers -> Calls] /\ call[s] \in Calls /\ wq \in Seq(Writes)
      /\ call[s].pc \notin {"writing", "awaiting"} => call[s].pkt < Packets
      /\ call[s].pc \in Executing <=> running = s
      /\ UNCHANGED <<genDevice, lastGen, disposed, attempt, shows>>
  BY DEF TypeOK, Exclusive, OneExecution, SendStep, Subscribed, SubscribeFails, WriteTimesOut,
     NextPacket, ResponseSettles, LinkUnchanged, connectionVars, linkVars, serviceVars
<1>1. ASSUME Subscribed(s) PROVE BeliefPart'
  <2>1. call[s].pc = "subscribing" /\ running # s
    BY <1>0, <1>1 DEF Subscribed, Executing
  <2>2. CASE MayExecute(call[s])
    <3>. DEFINE c == [call[s] EXCEPT !.pc = "writing", !.took = staged]
    <3>1. /\ running = NoCaller /\ running' = s
          /\ call' = [call EXCEPT ![s] = c] /\ c.kind = call[s].kind
          /\ wq' = Enqueue(s) /\ panel' = panel
      BY <1>0, <1>1, <2>2 DEF Subscribed, MayExecute, Calls
    <3>2. AllOrphans(wq)
      BY <3>1, OrphansUnlessWriting, CallerAssumption
    <3>. HIDE DEF c
    <3>. QED
      BY <1>0, <2>1, <3>1, <3>2, EnqueuedBelief
  <2>3. CASE ~MayExecute(call[s])
    <3>1. /\ call' = [call EXCEPT ![s] = NoCall] /\ UNCHANGED <<running, wq>>
          /\ panel' \in {panel, "unknown"}
      BY <1>1, <2>1, <2>3 DEF Subscribed, Fail
    <3>. QED
      BY <1>0, <2>1, <3>1, BystandersKeepBelief DEF Executing
  <2>. QED
    BY <2>2, <2>3
<1>2. ASSUME SubscribeFails(s) PROVE BeliefPart'
  BY <1>0, <1>2, BystandersKeepBelief DEF SubscribeFails, Executing
<1>3. ASSUME WriteTimesOut(s) PROVE BeliefPart'
  <2>1. /\ running = s /\ running' = NoCaller /\ call[s].pc \in Executing
        /\ call' = [call EXCEPT ![s] = NoCall]
        /\ wq' = Orphaned(wq, s)
        /\ panel' = IF Persistent(call[s].kind) THEN "unknown" ELSE panel
    BY <1>0, <1>3 DEF WriteTimesOut, Fail, Orphaned, Executing
  <2>2. \A i \in DOMAIN wq : ~wq[i].orphan => wq[i].owner = s /\ wq[i].kind = call[s].kind
    BY <2>1 DEF Exclusive, OneExecution, BeliefPart, AwaitedLast
  <2>3. /\ DOMAIN wq' = DOMAIN wq
        /\ \A i \in DOMAIN wq : /\ wq'[i].kind = wq[i].kind
                                /\ wq'[i].orphan <=> wq[i].orphan \/ wq[i].owner = s
    BY <1>0, <2>1, OrphanFacts
  <2>4. AllOrphans(wq')
    BY <2>2, <2>3 DEF AllOrphans
  <2>5. ~Persistent(call[s].kind) /\ NothingPersistentLeft => NothingPersistentLeft'
    BY <2>2, <2>3 DEF NothingPersistentLeft
  <2>. QED
    BY <1>0, <2>1, <2>4, <2>5, FailedBelief
<1>4. ASSUME NextPacket(s) PROVE BeliefPart'
  <2>1. call[s].pc = "pacing" /\ running = s /\ call[s].pc \in Executing
    BY <1>0, <1>4 DEF NextPacket, Executing
  <2>2. AllOrphans(wq)
    BY <2>1, OrphansUnlessWriting
  <2>3. CASE connId = call[s].gen /\ tState = "connected"
    <3>. DEFINE c == [call[s] EXCEPT !.pc = "writing"]
    <3>1. /\ running' = s
          /\ call' = [call EXCEPT ![s] = c] /\ c.kind = call[s].kind
          /\ wq' = Enqueue(s) /\ panel' = panel
      BY <1>0, <1>4, <2>1, <2>3 DEF NextPacket, Calls
    <3>. HIDE DEF c
    <3>. QED
      BY <1>0, <2>1, <2>2, <3>1, EnqueuedBelief
  <2>4. CASE ~(connId = call[s].gen /\ tState = "connected")
    <3>1. /\ call' = [call EXCEPT ![s] = NoCall] /\ running' = NoCaller /\ wq' = wq
          /\ panel' = IF Persistent(call[s].kind) THEN "unknown" ELSE panel
      BY <1>4, <2>1, <2>4 DEF NextPacket, Fail
    <3>. QED
      BY <1>0, <2>1, <2>2, <3>1, FailedBelief DEF NothingPersistentLeft
  <2>. QED
    BY <2>3, <2>4
<1>5. ASSUME ResponseSettles(s) PROVE BeliefPart'
  <2>1. /\ call[s].pc = "awaiting" /\ running = s /\ call[s].pc \in Executing
        /\ ~Persistent(call[s].kind)
    BY <1>0, <1>5 DEF ResponseSettles, Executing, StagedForItsCall, InStep, Persistent
  <2>2. AllOrphans(wq)
    BY <2>1, OrphansUnlessWriting
  <2>3. /\ call' = [call EXCEPT ![s] = NoCall] /\ running' = NoCaller /\ wq' = wq
        /\ panel' = panel
    BY <1>5, <2>1 DEF ResponseSettles, Complete
  <2>. QED
    BY <1>0, <2>1, <2>2, <2>3, FailedBelief DEF NothingPersistentLeft
<1>. QED
  BY <1>1, <1>2, <1>3, <1>4, <1>5 DEF SendStep

\* The browser took a write: what the display stores then.
LEMMA AcceptedKeepsBelief ==
  ASSUME TypeOK, Exclusive, LinkFacts, ConnectionInv, Generation, StagedForItsCall, BeliefPart,
         Accepted
  PROVE  BeliefPart'
<1>. DEFINE w == wq[1]
<1>. DEFINE s == w.owner
<1>0. /\ call \in [Callers -> Calls] /\ wq # <<>> /\ wq \in Seq(Writes)
      /\ connId \in 0 .. MaxGen /\ connId # 0
      /\ UNCHANGED <<connId, lastGen, tState, genDevice, disposed, attempt>>
      /\ wq' = Advance(Tail(wq))
      /\ shows \in [Devices -> Programs \cup {"blank", "partial"}]
  BY DEF TypeOK, ConnectionTypeOK, TransportTypeOK, Accepted, connectionVars, linkVars,
     serviceVars
<1>1. /\ Head(wq) = w /\ w \in Writes /\ s \in Callers /\ 1 \in DOMAIN wq
      /\ ~w.orphan => /\ Len(wq) = 1 /\ w.kind = call[s].kind /\ running = s
                      /\ call[s].pc = "writing"
  BY <1>0, HeadFacts DEF BeliefPart
<1>2. /\ wq' \in Seq(Writes)
      /\ DOMAIN wq' = 1 .. Len(wq) - 1
      /\ \A i \in DOMAIN wq' : /\ i + 1 \in DOMAIN wq
                               /\ wq'[i].owner = wq[i + 1].owner
                               /\ wq'[i].kind = wq[i + 1].kind
                               /\ wq'[i].orphan = wq[i + 1].orphan
  BY <1>0, SettleFacts
<1>3. Len(wq') = Len(wq) - 1 /\ \A i \in DOMAIN wq' : i \in Nat
  <2>1. Len(wq') \in Nat /\ DOMAIN wq' = 1 .. Len(wq') /\ Len(wq) \in Nat /\ Len(wq) > 0
    BY <1>0, <1>2
  <2>. QED
    BY <1>2, <2>1
<1>. DEFINE d == genDevice[connId]
<1>4. d \in Devices /\ connId = lastGen /\ s # NoCaller
  BY <1>0, <1>1, CallerAssumption DEF Generation
<1>5. shows' = [shows EXCEPT ![d] = Stored(shows[d], w)]
  BY <1>1 DEF Accepted
<1>6. ~Persistent(w.kind) => shows' = shows
  BY <1>0, <1>4, <1>5 DEF Stored
<1>n. NothingPersistentLeft => NothingPersistentLeft'
  BY <1>2 DEF NothingPersistentLeft
<1>p. ASSUME panel' = panel, panel # "unknown",
             (running' # NoCaller => ~Persistent(call'[running'].kind)) =>
               /\ running # NoCaller => ~Persistent(call[running].kind)
               /\ ~Persistent(w.kind)
      PROVE  Known'
  <2>1. NothingPersistentLeft' /\ (disposed' => \A a \in Attempts : ~Pending(a)')
    BY <1>0, <1>n, <1>p DEF BeliefPart, Known, Pending
  <2>. HIDE DEF w, s, d
  <2>. QED
    BY <1>0, <1>6, <1>p, <2>1 DEF BeliefPart, Known
<1>7. CASE w.orphan
  <2>1. UNCHANGED <<call, running, panel>>
    BY <1>1, <1>7 DEF Accepted
  <2>2. AwaitedLast'
    BY <1>2, <1>3, <2>1 DEF BeliefPart, AwaitedLast
  <2>3. ASSUME panel # "unknown" PROVE ~Persistent(w.kind)
    BY <1>1, <1>7, <2>3 DEF BeliefPart, Known, NothingPersistentLeft
  <2>4. Known'
    <3>1. CASE panel = "unknown"
      BY <2>1, <3>1 DEF Known
    <3>2. CASE panel # "unknown"
      <4>. HIDE DEF w
      <4>. QED
        BY <1>p, <2>1, <2>3, <3>2
    <3>. QED
      BY <3>1, <3>2
  <2>. QED
    BY <2>2, <2>4 DEF BeliefPart
<1>8. CASE ~w.orphan /\ (MoreAfter(w) \/ Responds(w.kind))
  <2>1. /\ call' = [call EXCEPT ![s].pkt = w.pkt,
                                ![s].pc = IF MoreAfter(w) THEN "pacing" ELSE "awaiting"]
        /\ UNCHANGED <<running, panel>>
    BY <1>1, <1>8 DEF Accepted
  <2>2. call'[s].kind = call[s].kind
    BY <1>0, <1>1, <2>1 DEF Calls
  <2>3. DOMAIN wq' = {}
    BY <1>1, <1>2, <1>8
  <2>4. AwaitedLast' /\ NothingPersistentLeft'
    BY <2>3 DEF AwaitedLast, NothingPersistentLeft
  <2>5. Known'
    <3>1. CASE panel = "unknown"
      BY <2>1, <3>1 DEF Known
    <3>2. CASE panel # "unknown"
      <4>. HIDE DEF w, s
      <4>. QED
        BY <1>1, <1>4, <1>8, <1>p, <2>1, <2>2, <3>2
    <3>. QED
      BY <3>1, <3>2
  <2>. QED
    BY <2>4, <2>5 DEF BeliefPart
<1>9. CASE ~w.orphan /\ ~(MoreAfter(w) \/ Responds(w.kind))
  <2>1. /\ panel' = IF call[s].took = "guided" THEN "guided" ELSE "ordinary"
        /\ Persistent(w.kind) /\ w.kind = call[s].kind
    BY <1>1, <1>9 DEF Accepted, Complete, Responds, Persistent
  <2>2. DOMAIN wq' = {}
    BY <1>1, <1>2, <1>9
  <2>3. AwaitedLast' /\ NothingPersistentLeft'
    BY <2>2 DEF AwaitedLast, NothingPersistentLeft
  <2>4. call[s].took = "guided" <=> w.kind = "guided"
    BY <1>1, <1>9, <2>1 DEF StagedForItsCall, InStep, Executing
  <2>5. Stored(shows[d], w) = Program(w.kind)
    <3>1. w.pkt \in 1 .. Packets /\ PacketsOf(w.kind) = Packets /\ ~(w.pkt < Packets)
      BY <1>1, <1>9, <2>1 DEF Writes, PacketsOf, MoreAfter
    <3>2. w.pkt = PacketsOf(w.kind)
      BY <3>1, PacketAssumption
    <3>. QED
      BY <2>1, <3>2 DEF Stored
  <2>6. shows'[genDevice'[lastGen']] = panel'
    <3>. HIDE DEF w
    <3>1. shows'[d] = Program(w.kind)
      BY <1>0, <1>4, <1>5, <2>5
    <3>. QED
      BY <1>0, <1>4, <2>1, <2>4, <3>1 DEF Program
  <2>7. \A a \in Attempts : ~Pending(a)'
    BY <1>0 DEF ConnectionInv, Pending
  <2>. QED
    BY <2>3, <2>6, <2>7 DEF BeliefPart, Known
<1>. QED
  BY <1>7, <1>8, <1>9

LEMMA RejectedKeepsBelief ==
  ASSUME TypeOK, Exclusive, BeliefPart, Rejected PROVE BeliefPart'
<1>. DEFINE w == wq[1]
<1>. DEFINE s == w.owner
<1>0. /\ call \in [Callers -> Calls] /\ wq # <<>> /\ wq \in Seq(Writes)
      /\ connId \in 0 .. MaxGen
      /\ UNCHANGED <<lastGen, genDevice, disposed, attempt, shows>>
      /\ wq' = Advance(Tail(wq))
  BY DEF TypeOK, ConnectionTypeOK, TransportTypeOK, Rejected, LinkUnchanged, linkVars
<1>1. /\ Head(wq) = w /\ w \in Writes /\ s \in Callers
      /\ ~w.orphan => /\ Len(wq) = 1 /\ w.kind = call[s].kind /\ running = s
                      /\ call[s].pc = "writing"
  BY <1>0, HeadFacts DEF BeliefPart
<1>2. /\ wq' \in Seq(Writes)
      /\ DOMAIN wq' = 1 .. Len(wq) - 1
      /\ \A i \in DOMAIN wq' : /\ i + 1 \in DOMAIN wq
                               /\ wq'[i].owner = wq[i + 1].owner
                               /\ wq'[i].kind = wq[i + 1].kind
                               /\ wq'[i].orphan = wq[i + 1].orphan
  BY <1>0, SettleFacts
<1>3. Len(wq') = Len(wq) - 1 /\ \A i \in DOMAIN wq' : i \in Nat
  <2>1. Len(wq') \in Nat /\ DOMAIN wq' = 1 .. Len(wq') /\ Len(wq) \in Nat /\ Len(wq) > 0
    BY <1>0, <1>2
  <2>. QED
    BY <1>2, <2>1
<1>n. NothingPersistentLeft => NothingPersistentLeft'
  BY <1>2 DEF NothingPersistentLeft
<1>7. CASE w.orphan
  <2>1. /\ UNCHANGED <<call, running>> /\ panel' = panel
    BY <1>1, <1>7 DEF Rejected
  <2>2. AwaitedLast'
    BY <1>2, <1>3, <2>1 DEF BeliefPart, AwaitedLast
  <2>3. Known'
    BY <1>0, <1>n, <2>1 DEF BeliefPart, Known, Pending
  <2>. QED
    BY <2>2, <2>3 DEF BeliefPart
<1>8. CASE ~w.orphan
  <2>1. /\ call' = [call EXCEPT ![s] = NoCall] /\ running' = NoCaller
        /\ panel' = IF Persistent(call[s].kind) THEN "unknown" ELSE panel
    BY <1>1, <1>8 DEF Rejected, Fail
  <2>2. DOMAIN wq' = {}
    BY <1>1, <1>2, <1>8
  <2>3. AllOrphans(wq') /\ NothingPersistentLeft' /\ call[s].pc \in Executing
    BY <1>1, <1>8, <2>2 DEF AllOrphans, NothingPersistentLeft, Executing
  <2>. HIDE DEF s, w
  <2>. QED
    BY <1>0, <1>1, <2>1, <2>3, FailedBelief
<1>. QED
  BY <1>7, <1>8

LEMMA LinkStepsKeepBelief ==
  ASSUME TypeOK, BeliefPart,
         \/ \E a \in Attempts : LinkEstablished(a) \/ LinkStep(a)
         \/ \E d \in Devices : LinkDropped(d)
         \/ \E who \in Closers \cup {"dispose"} : CloseBegins(who) \/ CloseFinishes(who)
  PROVE  BeliefPart'
<1>. DEFINE Same == /\ panel' = panel /\ UNCHANGED <<lastGen, genDevice>>
                    /\ disposed' = disposed
                    /\ disposed => \A b \in Attempts : Pending(b)' => Pending(b)
<1>0. attempt \in [Attempts -> AttemptRecords]
  BY DEF TypeOK, ConnectionTypeOK, TransportTypeOK, AttemptRecords
<1>1. UNCHANGED <<call, wq, shows, running>>
  BY DEF LinkEstablished, LinkStep, LinkDropped, CloseBegins, CloseFinishes, KeepSends, sendVars
<1>2. ASSUME NEW a \in Attempts, LinkStep(a)
      PROVE  Same \/ (disposed /\ disposed' /\ Pending(a) /\ panel' = panel)
  <2>1. ASSUME NEW how \in Ways, Connect(a, how), panel' = panel PROVE Same
    BY <2>1 DEF Connect, BeginSelect, linkVars
  <2>2. ASSUME NEW d \in Devices, ChooseDevice(a, d), panel' = panel PROVE Same
    BY <1>0, <2>2 DEF ChooseDevice, Choose, serviceVars, Pending, AttemptRecords
  <2>3. CASE EstablishedTooLate(a) /\ panel' = panel
    BY <2>3 DEF EstablishedTooLate, LinkUpAndClose, Pending
  <2>4. CASE ConnectFails(a) /\ panel' = panel
    BY <1>0, <2>4 DEF ConnectFails, LinkFails, Cleanup, Pending, Aborted, NoAttempt,
       AttemptRecords
  <2>. QED
    BY <1>2, <2>1, <2>2, <2>3, <2>4 DEF LinkStep, sendVars
<1>3. ASSUME NEW a \in Attempts, LinkEstablished(a) PROVE panel' = "unknown"
  BY <1>3 DEF LinkEstablished
<1>4. ASSUME NEW d \in Devices, LinkDropped(d) PROVE panel' = "unknown" \/ Same
  BY <1>0, <1>4 DEF LinkDropped, Drop, LinkLost, Pending, Aborted, AttemptRecords
<1>5. ASSUME NEW who \in Closers \cup {"dispose"}, CloseBegins(who) PROVE panel' = "unknown"
  BY <1>5 DEF CloseBegins
<1>6. ASSUME NEW who \in Closers \cup {"dispose"}, CloseFinishes(who) PROVE Same
  BY <1>0, <1>6 DEF CloseFinishes, DisconnectFinish, CloseTransport, Cleanup, linkVars, Pending,
     Aborted, AttemptRecords
<1>7. AwaitedLast'
  BY <1>1 DEF BeliefPart, AwaitedLast
<1>8. CASE panel' = "unknown"
  BY <1>7, <1>8 DEF BeliefPart, Known
<1>9. CASE Same
  <2>1. Known'
    BY <1>1, <1>9 DEF BeliefPart, Known, NothingPersistentLeft
  <2>. QED
    BY <1>7, <2>1 DEF BeliefPart
<1>10. ASSUME NEW a \in Attempts, disposed, disposed', Pending(a), panel' = panel
       PROVE  panel' = "unknown"
  BY <1>10 DEF BeliefPart, Known
<1>. HIDE DEF Same
<1>. QED
  BY <1>2, <1>3, <1>4, <1>5, <1>6, <1>8, <1>9, <1>10

------------------------------------------------------------------------------
(* The theorem.                                                            *)

LEMMA InitialBelief == Init => BeliefInv
<1>. SUFFICES ASSUME Init PROVE BeliefInv
  OBVIOUS
<1>1. SendInv /\ ConnectionInv
  BY InitialSendInv, InitialInv DEF Init
<1>2. Generation /\ AwaitedLast /\ Known
  BY DEF Init, ConnectionInit, TransportInit, Generation, AwaitedLast, Known
<1>3. StagedForItsCall
  BY DEF Init, ConnectionInit, TransportInit, StagedForItsCall, InStep, NoCall, Executing
<1>. QED
  BY <1>1, <1>2, <1>3 DEF BeliefInv

LEMMA StepsKeepBelief ==
  ASSUME SingleAttempt, SingleCaller, ReliableSubscribe, BeliefInv, [Next]_vars
  PROVE  BeliefInv'
<1>0. /\ TypeOK /\ LinkFacts /\ Exclusive /\ ConnectionInv /\ Generation /\ StagedForItsCall
      /\ BeliefPart /\ AwaitedLast /\ ConnectionTypeOK
  BY DEF BeliefInv, SendInv, BeliefPart, TypeOK
<1>1. SendInv'
  BY StepsKeepSendInv DEF BeliefInv
<1>2. [ConnectionNext]_connectionVars
  BY <1>0, SendStepsRefine
<1>3. ConnectionInv' /\ Generation'
  BY <1>0, <1>2, SingleAttempt, InvStep, StepsKeepGenerationOfLink
<1>4. ASSUME NEW s \in Callers,
             \/ \E k \in Kinds : Prepare(s, k) \/ SendDirectly(s, k)
             \/ Dismiss(s) \/ Edit(s) \/ Confirm(s)
      PROVE  StagedForItsCall' /\ BeliefPart'
  BY <1>0, <1>4, SingleCaller, PlanningKeepsStaging, PlanningKeepsBelief
<1>5. ASSUME NEW s \in Callers, SendStep(s) PROVE StagedForItsCall' /\ BeliefPart'
  BY <1>0, <1>5, SingleCaller, ReliableSubscribe, SendStepsKeepStaging, SendStepsKeepBelief
<1>6. CASE Accepted \/ Rejected
  <2>1. StagedForItsCall' /\ BeliefPart'
    BY <1>0, <1>6, SingleCaller, SettlingKeepsStaging, AcceptedKeepsBelief, RejectedKeepsBelief
  <2>. QED
    BY <1>1, <1>3, <2>1 DEF BeliefInv, BeliefPart
<1>7. ASSUME \/ \E a \in Attempts : LinkEstablished(a) \/ LinkStep(a)
             \/ \E d \in Devices : LinkDropped(d)
             \/ \E who \in Closers \cup {"dispose"} : CloseBegins(who) \/ CloseFinishes(who)
      PROVE  StagedForItsCall' /\ BeliefPart'
  BY <1>0, <1>7, LinkStepsKeepStaging, LinkStepsKeepBelief
<1>8. CASE UNCHANGED vars
  <2>1. StagedForItsCall'
    BY <1>0, <1>8 DEF vars, sendVars, connectionVars, linkVars, StagedForItsCall
  <2>2. BeliefPart'
    BY <1>0, <1>8 DEF vars, sendVars, connectionVars, linkVars, serviceVars, BeliefPart,
       AwaitedLast, Known, NothingPersistentLeft, Pending
  <2>. QED
    BY <1>1, <1>3, <2>1, <2>2 DEF BeliefInv, BeliefPart
<1>9. StagedForItsCall' /\ BeliefPart' => BeliefInv'
  BY <1>1, <1>3 DEF BeliefInv, BeliefPart
<1>. QED
  BY <1>4, <1>5, <1>6, <1>7, <1>8, <1>9 DEF Next

(* With one caller whose subscriptions succeed, and one connect attempt at *)
(* a time, whatever times out, fails or drops: outside a running           *)
(* replacement the program the belief names is the one the display of the  *)
(* last connection stores.                                                 *)
THEOREM BeliefAlwaysMatchesPanel ==
  ASSUME SingleAttempt, SingleCaller, ReliableSubscribe PROVE Spec => []BeliefMatchesPanel
<1>1. BeliefInv /\ [Next]_vars => BeliefInv'
  BY SingleAttempt, SingleCaller, ReliableSubscribe, StepsKeepBelief
<1>2. BeliefInv => BeliefMatchesPanel
  BY DEF BeliefInv, Known, BeliefMatchesPanel
<1>. QED
  BY InitialBelief, <1>1, <1>2, PTL DEF Spec

------------------------------------------------------------------------------
(* Transmission implements Delivery.                                       *)

\* The part of the queue that may still reach the display of connection id.
Late(q, id) == {j \in DOMAIN q : q[j].orphan /\ id # 0 /\ q[j].via = id}
LEMMA LateFacts ==
  /\ \A id : Late(<<>>, id) = {}
  /\ \A w, id : Late(<<w>>, id) = IF w.orphan /\ id # 0 /\ w.via = id THEN {1} ELSE {}
<1>1. ASSUME NEW w, NEW id
      PROVE  Late(<<w>>, id) = IF w.orphan /\ id # 0 /\ w.via = id THEN {1} ELSE {}
  <2>1. DOMAIN <<w>> = {1} /\ <<w>>[1] = w
    OBVIOUS
  <2>. QED
    BY <2>1 DEF Late
<1>. QED
  BY <1>1 DEF Late

\* Every connection that was ever opened leads to a display.
Addressed == \A g \in 1 .. lastGen : genDevice[g] \in Devices

\* How far a call has come at each place where it waits.
Paced(c, last) ==
  /\ c.gen <= last
  /\ c.pc \in {"prepared", "subscribing"} => c.pkt = 0
  /\ c.pc \in Executing => c.gen # 0
  /\ c.pc \in {"writing", "pacing"} => c.pkt < PacketsOf(c.kind)
  /\ c.pc = "awaiting" => c.pkt = PacketsOf(c.kind)
CallsPaced == \A s \in Callers : Paced(call[s], lastGen)

\* The queue holds at most one write.  Either the running call waits for it, and it is the
\* next packet of its plan, or it was given up, and no call may begin.
Outstanding(w) ==
  /\ w \in Writes /\ wq = <<w>>
  /\ w.phase = "inBrowser" /\ w.via = w.gen /\ w.gen \in 1 .. lastGen
  /\ w.orphan => running = NoCaller /\ tState # "connected"
  /\ ~w.orphan => /\ running = w.owner /\ call[w.owner].pc = "writing"
                  /\ w.kind = call[w.owner].kind /\ w.gen = call[w.owner].gen
                  /\ w.pkt = call[w.owner].pkt + 1
OneOutstanding == wq = <<>> \/ \E w : Outstanding(w)

InOrder == Addressed /\ CallsPaced /\ OneOutstanding

LEMMA OneCallPaced ==
  ASSUME TypeOK, CallsPaced, NEW s \in Callers, NEW c, call' = [call EXCEPT ![s] = c],
         lastGen' = lastGen, Paced(c, lastGen)
  PROVE  CallsPaced'
BY DEF TypeOK, CallsPaced

LEMMA IdlePaced == ASSUME TypeOK PROVE Paced(NoCall, lastGen)
<1>1. lastGen \in Nat
  BY GenAssumption DEF TypeOK, ConnectionTypeOK, TransportTypeOK
<1>. QED
  BY <1>1 DEF Paced, NoCall, Executing

\* The plan under way and the overdue one, in the terms of the queue.
Remainder(q, id, addr) ==
  {[plan |-> PlanOf(q[i].kind, addr[q[i].gen]), got |-> q[i].pkt - 1] : i \in Late(q, id)}
RestOf(w, addr) == {[plan |-> PlanOf(w.kind, addr[w.gen]), got |-> w.pkt - 1]}
LEMMA RemainderFacts ==
  ASSUME NEW id, NEW addr
  PROVE  /\ Remainder(<<>>, id, addr) = {}
         /\ \A w : Remainder(<<w>>, id, addr) =
                    IF w.orphan /\ id # 0 /\ w.via = id THEN RestOf(w, addr) ELSE {}
<1>1. Remainder(<<>>, id, addr) = {}
  BY LateFacts DEF Remainder
<1>2. ASSUME NEW w
      PROVE  Remainder(<<w>>, id, addr) =
               IF w.orphan /\ id # 0 /\ w.via = id THEN RestOf(w, addr) ELSE {}
  <2>1. <<w>>[1] = w
    OBVIOUS
  <2>2. CASE w.orphan /\ id # 0 /\ w.via = id
    <3>1. Late(<<w>>, id) = {1}
      BY <2>2, LateFacts
    <3>. QED
      BY <2>1, <2>2, <3>1 DEF Remainder, RestOf
  <2>3. CASE ~(w.orphan /\ id # 0 /\ w.via = id)
    <3>1. Late(<<w>>, id) = {}
      BY <2>3, LateFacts
    <3>. QED
      BY <2>3, <3>1 DEF Remainder
  <2>. QED
    BY <2>2, <2>3
<1>. QED
  BY <1>1, <1>2
LEMMA OverdueFacts ==
  /\ PlanOverdue = Remainder(wq, connId, genDevice)
  /\ PlanOverdue' = Remainder(wq', connId', genDevice')
BY DEF PlanOverdue, Remainder, Late

SentBy(c, addr) == {[plan |-> PlanOf(c.kind, addr[c.gen]), got |-> c.pkt]}
LEMMA SentFacts ==
  /\ running = NoCaller => PlanSent = {}
  /\ running # NoCaller => PlanSent = SentBy(call[running], genDevice)
  /\ running' = NoCaller => PlanSent' = {}
  /\ running' # NoCaller => PlanSent' = SentBy(call'[running'], genDevice')
BY DEF PlanSent, SentBy

Promises == [Promised!DeliveryNext]_(Promised!deliveryVars)

\* The steps of Delivery, in the terms of the mapping.
LEMMA Stutters ==
  ASSUME PlanSent' = PlanSent, PlanOverdue' = PlanOverdue, shows' = shows PROVE Promises
BY DEF Promises, Promised!deliveryVars
LEMMA LosesOrStutters ==
  ASSUME PlanSent' = PlanSent, PlanOverdue' \in {{}, PlanOverdue}, shows' = shows PROVE Promises
<1>1. CASE PlanOverdue' = PlanOverdue
  BY <1>1, Stutters
<1>2. CASE PlanOverdue # {} /\ PlanOverdue' = {}
  <2>1. Promised!Lose
    BY <1>2 DEF Promised!Lose
  <2>. QED
    BY <2>1 DEF Promises, Promised!DeliveryNext
<1>. QED
  BY <1>1, <1>2
LEMMA Abandons ==
  ASSUME NEW c, c.pkt < PacketsOf(c.kind), PlanSent = SentBy(c, genDevice), PlanSent' = {},
         PlanOverdue' \in {{}, SentBy(c, genDevice)}, shows' = shows
  PROVE  Promises
<1>. DEFINE u == [plan |-> PlanOf(c.kind, genDevice[c.gen]), got |-> c.pkt]
<1>1. PlanSent = {u} /\ PlanOverdue' \in {{}, {u}}
  BY DEF SentBy
<1>2. u.got < u.plan.size
  BY DEF PlanOf
<1>. HIDE DEF u
<1>3. Promised!Abandon
  BY <1>1, <1>2 DEF Promised!Abandon
<1>. QED
  BY <1>3 DEF Promises, Promised!DeliveryNext
LEMMA Begins ==
  ASSUME NEW c, c.pkt = 0, PlanOf(c.kind, genDevice[c.gen]) \in Promised!Plans, PlanSent = {},
         PlanOverdue = {}, PlanOverdue' = {}, PlanSent' = SentBy(c, genDevice), shows' = shows
  PROVE  Promises
<1>1. Promised!Begin
  BY DEF Promised!Begin, Promised!Under, SentBy
<1>. QED
  BY <1>1 DEF Promises, Promised!DeliveryNext
LEMMA Responded ==
  ASSUME NEW c, c.pkt = PacketsOf(c.kind), PlanSent = SentBy(c, genDevice), PlanSent' = {},
         PlanOverdue' = PlanOverdue, shows' = shows
  PROVE  Promises
<1>1. Promised!Respond
  BY DEF Promised!Respond, SentBy, PlanOf
<1>. QED
  BY <1>1 DEF Promises, Promised!DeliveryNext

\* What the browser accepts is what arrives.
LEMMA Arrived ==
  ASSUME TypeOK, NEW w \in Writes, connId = w.gen,
         shows' = [shows EXCEPT ![genDevice[connId]] = Stored(@, w)]
  PROVE  Promised!Arrives([plan |-> PlanOf(w.kind, genDevice[w.gen]), got |-> w.pkt - 1])
<1>. DEFINE plan == PlanOf(w.kind, genDevice[w.gen])
            d == genDevice[w.gen]
<1>1. /\ plan.to = d /\ plan.size = PacketsOf(w.kind)
      /\ plan.program = IF Persistent(w.kind) THEN Program(w.kind) ELSE "transient"
  BY DEF PlanOf
<1>2. w.pkt - 1 + 1 = w.pkt
  BY PacketAssumption DEF Writes
<1>3. shows' = [shows EXCEPT ![d] = Stored(@, w)]
  OBVIOUS
<1>4. DOMAIN shows = Devices /\ shows = [e \in Devices |-> shows[e]]
  BY DEF TypeOK
<1>. HIDE DEF plan, d
<1>5. CASE ~Persistent(w.kind)
  <2>1. shows' = shows
    BY <1>3, <1>4, <1>5 DEF Stored
  <2>2. plan.program = Promised!Transient
    BY <1>1, <1>5 DEF Promised!Transient
  <2>. QED
    BY <2>1, <2>2 DEF Promised!Arrives, plan
<1>6. CASE Persistent(w.kind)
  <2>1. plan.program = Program(w.kind) /\ plan.program # Promised!Transient
    BY <1>1, <1>6 DEF Promised!Transient, Program
  <2>2. shows' = [shows EXCEPT ![d] = IF w.pkt = PacketsOf(w.kind) THEN Program(w.kind)
                                      ELSE "partial"]
    BY <1>3, <1>6 DEF Stored
  <2>. QED
    BY <1>1, <1>2, <2>1, <2>2 DEF Promised!Arrives, plan
<1>. QED
  BY <1>5, <1>6
LEMMA Delivers ==
  ASSUME NEW u, PlanSent = {u}, u.got < u.plan.size, Promised!Arrives(u),
         \/ PlanSent' = {[plan |-> u.plan, got |-> u.got + 1]}
         \/ u.got + 1 = u.plan.size /\ PlanSent' = {},
         PlanOverdue' = PlanOverdue
  PROVE  Promises
<1>1. Promised!Deliver
  BY DEF Promised!Deliver, Promised!Under
<1>. QED
  BY <1>1 DEF Promises, Promised!DeliveryNext
LEMMA DeliversLate ==
  ASSUME NEW u, PlanOverdue = {u}, Promised!Arrives(u), PlanOverdue' = {}, PlanSent' = PlanSent
  PROVE  Promises
<1>1. Promised!DeliverLate
  BY DEF Promised!DeliverLate
<1>. QED
  BY <1>1 DEF Promises, Promised!DeliveryNext

\* What the steps below use of the state.
OrderInv == TypeOK /\ LinkFacts /\ Exclusive /\ InOrder
LEMMA OrderFacts ==
  ASSUME OrderInv
  PROVE  /\ call \in [Callers -> Calls] /\ wq \in Seq(Writes) /\ connId \in 0 .. MaxGen
         /\ connId \in Nat /\ lastGen \in Nat /\ connId <= lastGen
         /\ running \in Callers \cup {NoCaller}
         /\ NoCaller \notin Callers
         /\ tState = "connected" => connId # 0
         /\ \A s \in Callers : /\ call[s].pc \in Executing <=> running = s
                               /\ Paced(call[s], lastGen)
                               /\ call[s] \in Calls
         /\ Addressed /\ CallsPaced /\ OneOutstanding
BY GenAssumption, CallerAssumption
DEF OrderInv, TypeOK, ConnectionTypeOK, TransportTypeOK, LinkFacts, Exclusive, OneExecution,
    InOrder, CallsPaced

\* Where nobody waits for a write and the connection is open, the queue is empty.
LEMMA QueueIsEmpty ==
  ASSUME OrderInv, \/ running # NoCaller /\ call[running].pc # "writing"
                   \/ running = NoCaller /\ tState = "connected"
  PROVE  wq = <<>>
<1>1. OneOutstanding
  BY OrderFacts
<1>2. ASSUME NEW w, Outstanding(w) PROVE FALSE
  <2>1. w \in Writes
    BY <1>2 DEF Outstanding
  <2>2. w.orphan \in BOOLEAN /\ w.owner \in Callers
    BY <2>1 DEF Writes
  <2>. QED
    BY <1>2, <2>2, OrderFacts DEF Outstanding
<1>. QED
  BY <1>1, <1>2 DEF OneOutstanding

\* The first write of an empty queue.
LEMMA FirstWrite ==
  ASSUME OrderInv, NEW s \in Callers, wq = <<>>, call[s].pkt < PacketsOf(call[s].kind),
         call[s].gen = connId, connId # 0
  PROVE  \E w \in Writes :
           /\ Enqueue(s) = <<w>> /\ ~w.orphan /\ w.owner = s
           /\ w.kind = call[s].kind /\ w.gen = call[s].gen /\ w.pkt = call[s].pkt + 1
           /\ w.phase = "inBrowser" /\ w.via = w.gen /\ w.gen \in 1 .. lastGen
<1>. DEFINE w == OwnLoad(call[s], "inBrowser", s)
<1>1. call[s] \in Calls /\ connId \in 1 .. lastGen /\ connId \in 0 .. MaxGen
  BY OrderFacts
<1>2. call[s].pkt < Packets
  BY <1>1, PacketAssumption DEF PacketsOf, Calls
<1>3. /\ w \in Writes /\ w.owner = s /\ w.kind = call[s].kind /\ w.gen = call[s].gen
      /\ ~w.orphan /\ w.phase = "inBrowser" /\ w.via = connId
  <2>1. "inBrowser" \in {"waiting", "inBrowser"}
    OBVIOUS
  <2>. HIDE DEF w
  <2>2. w = OwnLoad(call[s], "inBrowser", s)
    BY DEF w
  <2>. QED
    BY <1>1, <1>2, <2>1, <2>2, LoadType
<1>4. w.pkt = call[s].pkt + 1
  BY DEF OwnLoad, Load
<1>5. Enqueue(s) = Append(wq, w)
  BY DEF Enqueue, OwnLoad
<1>. HIDE DEF w
<1>6. Enqueue(s) = <<w>>
  BY <1>5
<1>. QED
  BY <1>1, <1>3, <1>4, <1>6

\* The queue when its only write settles, or is given up.
LEMMA LastWrite ==
  ASSUME NEW w \in Writes
  PROVE  /\ Head(<<w>>) = w /\ <<w>> # <<>> /\ Advance(Tail(<<w>>)) = <<>>
         /\ Orphaned(<<>>, w.owner) = <<>>
         /\ Orphaned(<<w>>, w.owner) = <<[w EXCEPT !.orphan = TRUE]>>
<1>1. Head(<<w>>) = w /\ <<w>> # <<>> /\ Tail(<<w>>) = <<>>
  OBVIOUS
<1>2. Advance(<<>>) = <<>>
  BY DEF Advance
<1>3. DOMAIN <<>> = {} /\ DOMAIN <<w>> = {1} /\ <<w>>[1] = w
  OBVIOUS
<1>4. Orphaned(<<>>, w.owner) = <<>>
  <2>1. <<>> \in Seq(Writes)
    BY EmptySeq
  <2>2. Orphaned(<<>>, w.owner) \in Seq(Writes) /\ DOMAIN Orphaned(<<>>, w.owner) = {}
    BY <1>3, <2>1, OrphanFacts
  <2>. QED
    BY <2>2, EmptySeq
<1>5. Orphaned(<<w>>, w.owner) = <<[w EXCEPT !.orphan = TRUE]>>
  <2>. DEFINE q == Orphaned(<<w>>, w.owner)
              v == [w EXCEPT !.orphan = TRUE]
  <2>1. v \in Writes /\ <<w>> \in Seq(Writes)
    <3>1. v \in Writes
      BY DEF Writes
    <3>. HIDE DEF v
    <3>. QED
      BY <3>1
  <2>2. q[1] = v
    BY <1>3 DEF Orphaned
  <2>3. q \in Seq(Writes) /\ DOMAIN q = {1}
    BY <1>3, <2>1, OrphanFacts
  <2>. HIDE DEF q, v
  <2>4. <<v>> \in Seq(Writes)
    BY <2>1
  <2>5. Len(q) = 1 /\ Len(<<v>>) = 1 /\ <<v>>[1] = v
    <3>1. DOMAIN q = 1 .. Len(q) /\ Len(q) \in Nat
      BY <2>3, LenProperties
    <3>2. 1 \in 1 .. Len(q) /\ (Len(q) # 1 => 2 \in 1 .. Len(q))
      BY <2>3, <3>1
    <3>. QED
      BY <2>3, <3>1, <3>2
  <2>6. \A i \in 1 .. Len(q) : q[i] = <<v>>[i]
    BY <2>2, <2>5
  <2>7. q = <<v>>
    BY <2>3, <2>4, <2>5, <2>6, SeqEqual
  <2>. QED
    BY <2>7 DEF q, v
<1>. QED
  BY <1>1, <1>2, <1>4, <1>5

\* Calls outside execute() come and go; the display is not concerned.
LEMMA BystandersKeepOrder ==
  ASSUME OrderInv, NEW s \in Callers, NEW c, call[s].pc \notin Executing,
         call' = [call EXCEPT ![s] = c], Paced(c, lastGen),
         UNCHANGED <<running, wq, tState, connId, lastGen, genDevice, shows>>
  PROVE  InOrder' /\ Promises
<1>1. CallsPaced'
  BY OneCallPaced, OrderFacts DEF OrderInv
<1>2. running # s
  BY OrderFacts
<1>3. running # NoCaller => call'[running] = call[running]
  BY <1>2, OrderFacts
<1>4. OneOutstanding'
  <2>1. ASSUME NEW w, Outstanding(w) PROVE Outstanding(w)'
    <3>1. ~w.orphan => w.owner # s /\ w.owner \in Callers
      BY <1>2, <2>1 DEF Outstanding, Writes
    <3>2. ~w.orphan => call'[w.owner] = call[w.owner]
      BY <3>1, OrderFacts
    <3>. QED
      BY <2>1, <3>2 DEF Outstanding
  <2>. QED
    BY <2>1, OrderFacts DEF OneOutstanding
<1>5. PlanSent' = PlanSent
  BY <1>3, SentFacts
<1>6. PlanOverdue' = PlanOverdue
  BY OverdueFacts
<1>7. Addressed'
  BY OrderFacts DEF Addressed
<1>. QED
  BY <1>1, <1>4, <1>5, <1>6, <1>7, Stutters DEF InOrder

\* Preparing, confirming and dropping a plan.
LEMMA PlanningKeepsOrder ==
  ASSUME OrderInv, NEW s \in Callers,
         \/ \E k \in Kinds : Prepare(s, k) \/ SendDirectly(s, k)
         \/ Dismiss(s) \/ Edit(s) \/ Confirm(s) \/ SubscribeFails(s)
  PROVE  InOrder' /\ Promises
<1>0. /\ call[s] \in Calls /\ Paced(call[s], lastGen) /\ lastGen \in Nat
      /\ Paced(NoCall, lastGen) /\ call \in [Callers -> Calls]
      /\ connId \in 0 .. MaxGen /\ connId <= lastGen
  BY OrderFacts, IdlePaced DEF OrderInv
<1>1. call[s].pc \notin Executing
      /\ UNCHANGED <<running, wq, tState, connId, lastGen, genDevice, shows>>
  BY DEF Prepare, SendDirectly, Dismiss, Edit, Confirm, SubscribeFails, Executing,
     connectionVars, linkVars
<1>2. ASSUME NEW k \in Kinds
      PROVE  /\ Paced(Plan(k, connId), lastGen)
             /\ Plan(k, connId) \in [pc : {"prepared"}, kind : {k}, gen : {connId}, pkt : {0},
                                     edited : {FALSE}, owned : {FALSE}, temp : {FALSE},
                                     took : {"none"}]
  BY <1>0 DEF Plan, NoCall, Paced, Executing
<1>3. ASSUME NEW p, p.pc = "prepared", Paced(p, lastGen), Submit(s, p)
      PROVE  \E c : call' = [call EXCEPT ![s] = c] /\ Paced(c, lastGen)
  <2>. DEFINE c == [p EXCEPT !.pc = "subscribing", !.owned = p.edited,
                             !.temp = Experimental(p.kind) /\ ~expTx]
  <2>1. call' = [call EXCEPT ![s] = c] \/ call' = [call EXCEPT ![s] = NoCall]
    BY <1>3 DEF Submit
  <2>2. c.pc = "subscribing" /\ c.pkt = p.pkt /\ c.gen = p.gen
    OBVIOUS
  <2>. HIDE DEF c
  <2>3. Paced(c, lastGen)
    BY <1>3, <2>2 DEF Paced, Executing
  <2>. QED
    BY <1>0, <2>1, <2>3
<1>4. \E c : call' = [call EXCEPT ![s] = c] /\ Paced(c, lastGen)
  <2>1. ASSUME NEW k \in Kinds, Prepare(s, k)
        PROVE  \E c : call' = [call EXCEPT ![s] = c] /\ Paced(c, lastGen)
    BY <1>2, <2>1 DEF Prepare
  <2>2. ASSUME NEW k \in Kinds, SendDirectly(s, k)
        PROVE  \E c : call' = [call EXCEPT ![s] = c] /\ Paced(c, lastGen)
    <3>. DEFINE p == Plan(k, connId)
    <3>1. p.pc = "prepared" /\ Paced(p, lastGen) /\ Submit(s, p)
      BY <1>2, <2>2 DEF SendDirectly
    <3>. HIDE DEF p
    <3>. QED
      BY <1>3, <3>1
  <2>3. CASE Dismiss(s) \/ SubscribeFails(s)
    BY <1>0, <2>3 DEF Dismiss, SubscribeFails
  <2>4. CASE Edit(s)
    <3>. DEFINE c == [call[s] EXCEPT !.edited = TRUE]
    <3>1. c.pc = call[s].pc /\ c.pkt = call[s].pkt /\ c.gen = call[s].gen /\ c.kind = call[s].kind
      BY <1>0 DEF Calls
    <3>2. call' = [call EXCEPT ![s] = c]
      BY <2>4 DEF Edit
    <3>. HIDE DEF c
    <3>3. Paced(c, lastGen)
      BY <1>0, <3>1 DEF Paced
    <3>. QED
      BY <3>2, <3>3
  <2>5. CASE Confirm(s)
    BY <1>0, <1>3, <2>5 DEF Confirm
  <2>. QED
    BY <2>1, <2>2, <2>3, <2>4, <2>5
<1>. QED
  BY <1>1, <1>4, BystandersKeepOrder

\* The plan of a call that begins.
LEMMA PlanToDisplay ==
  ASSUME TypeOK, NEW k \in AllKinds, NEW d \in Devices PROVE PlanOf(k, d) \in Promised!Plans
<1>1. PacketsOf(k) \in 1 .. Packets
  BY PacketAssumption DEF PacketsOf
<1>2. Program(k) \in Programs
  BY DEF Program, Programs
<1>. QED
  BY <1>1, <1>2 DEF PlanOf, Promised!Plans, Promised!Transient

\* A call whose turn it is issues a write to the empty queue.
LEMMA WritingKeepsOrder ==
  ASSUME OrderInv, NEW s \in Callers, wq = <<>>, connId # 0, call[s].gen = connId,
         call[s].pkt < PacketsOf(call[s].kind), NEW c, c.pc = "writing", c.kind = call[s].kind,
         c.gen = call[s].gen, c.pkt = call[s].pkt, call' = [call EXCEPT ![s] = c],
         running' = s, wq' = Enqueue(s), running \in {s, NoCaller},
         UNCHANGED <<tState, connId, lastGen, genDevice>>
  PROVE  /\ InOrder' /\ PlanOverdue = {} /\ PlanOverdue' = {}
         /\ PlanSent' = SentBy(call[s], genDevice)
<1>1. PICK w \in Writes :
           /\ Enqueue(s) = <<w>> /\ ~w.orphan /\ w.owner = s
           /\ w.kind = call[s].kind /\ w.gen = call[s].gen /\ w.pkt = call[s].pkt + 1
           /\ w.phase = "inBrowser" /\ w.via = w.gen /\ w.gen \in 1 .. lastGen
  BY FirstWrite
<1>2. /\ Paced(call[s], lastGen) /\ call \in [Callers -> Calls] /\ lastGen \in Nat
      /\ Addressed /\ CallsPaced /\ s # NoCaller
  BY OrderFacts
<1>3. Paced(c, lastGen)
  BY <1>2 DEF Paced, Executing
<1>4. call'[s] = c
  BY <1>2
<1>5. CallsPaced'
  BY <1>2, <1>3, OneCallPaced DEF OrderInv
<1>6. wq' = <<w>>
  BY <1>1
<1>7. Outstanding(w)'
  BY <1>1, <1>4, <1>6 DEF Outstanding
<1>8. Addressed'
  BY <1>2 DEF Addressed
<1>9. PlanOverdue = {} /\ PlanOverdue' = {}
  BY <1>1, <1>6, OverdueFacts, RemainderFacts
<1>10. PlanSent' = SentBy(call[s], genDevice)
  <2>1. PlanSent' = SentBy(c, genDevice)
    BY <1>2, <1>4, SentFacts
  <2>. QED
    BY <2>1 DEF SentBy
<1>. QED
  BY <1>5, <1>7, <1>8, <1>9, <1>10 DEF InOrder, OneOutstanding

\* The running call gives up while no write of it is out.
LEMMA LeavingKeepsOrder ==
  ASSUME OrderInv, NEW s \in Callers, running = s, call[s].pkt < PacketsOf(call[s].kind),
         call' = [call EXCEPT ![s] = NoCall], running' = NoCaller, wq = <<>>, wq' = <<>>,
         UNCHANGED <<lastGen, genDevice, shows>>
  PROVE  InOrder' /\ Promises
<1>1. Paced(NoCall, lastGen) /\ CallsPaced /\ Addressed /\ s # NoCaller
  BY OrderFacts, IdlePaced DEF OrderInv
<1>2. CallsPaced' /\ Addressed'
  BY <1>1, OneCallPaced DEF OrderInv, Addressed
<1>3. PlanOverdue' = {}
  BY OverdueFacts, RemainderFacts
<1>4. PlanSent = SentBy(call[s], genDevice) /\ PlanSent' = {}
  BY <1>1, SentFacts
<1>5. Promises
  BY <1>3, <1>4, Abandons
<1>. QED
  BY <1>2, <1>5 DEF InOrder, OneOutstanding

LEMMA SubscribedKeepsOrder ==
  ASSUME OrderInv, NEW s \in Callers, Subscribed(s) PROVE InOrder' /\ Promises
<1>0. /\ call[s] \in Calls /\ Paced(call[s], lastGen) /\ call \in [Callers -> Calls]
      /\ Paced(NoCall, lastGen) /\ lastGen \in Nat /\ connId \in Nat
      /\ connId <= lastGen /\ Addressed /\ running # s /\ call[s].pc = "subscribing"
  BY OrderFacts, IdlePaced DEF OrderInv, Subscribed, Executing
<1>1. UNCHANGED <<tState, connId, lastGen, genDevice, shows>>
  BY DEF Subscribed, LinkUnchanged, linkVars
<1>2. CASE MayExecute(call[s])
  <2>. DEFINE c == [call[s] EXCEPT !.pc = "writing", !.took = staged]
  <2>1. c.pc = "writing" /\ c.kind = call[s].kind /\ c.gen = call[s].gen /\ c.pkt = call[s].pkt
    BY <1>0 DEF Calls
  <2>2. [call[s] EXCEPT !.pc = "writing", !.took = staged] = c
    OBVIOUS
  <2>3. call' = [call EXCEPT ![s].pc = "writing", ![s].took = staged]
    BY <1>2 DEF Subscribed
  <2>4. call' = [call EXCEPT ![s] = c]
    BY <1>0, <2>3
  <2>. HIDE DEF c
  <2>5. /\ running = NoCaller /\ tState = "connected" /\ connId = call[s].gen
        /\ running' = s /\ wq' = Enqueue(s)
    BY <1>2 DEF Subscribed, MayExecute
  <2>6. connId # 0 /\ wq = <<>>
    BY <2>5, OrderFacts, QueueIsEmpty
  <2>7. call[s].pkt = 0 /\ call[s].pkt < PacketsOf(call[s].kind)
    BY <1>0, PacketAssumption DEF Paced, PacketsOf
  <2>8. /\ InOrder' /\ PlanOverdue = {} /\ PlanOverdue' = {}
        /\ PlanSent' = SentBy(call[s], genDevice)
    <3>1. running \in {s, NoCaller} /\ call[s].gen = connId
      BY <2>5
    <3>. QED
      BY <1>1, <2>1, <2>4, <2>5, <2>6, <2>7, <3>1, WritingKeepsOrder
  <2>9. genDevice[call[s].gen] \in Devices
    BY <1>0, <2>5, <2>6 DEF Addressed
  <2>10. PlanOf(call[s].kind, genDevice[call[s].gen]) \in Promised!Plans
    BY <1>0, <2>9, PlanToDisplay DEF OrderInv, Calls
  <2>11. PlanSent = {}
    BY <2>5, SentFacts
  <2>. QED
    BY <1>1, <2>7, <2>8, <2>10, <2>11, Begins
<1>3. CASE ~MayExecute(call[s])
  <2>1. call' = [call EXCEPT ![s] = NoCall] /\ running' = running /\ wq' = wq
    BY <1>0, <1>3 DEF Subscribed, Fail
  <2>. QED
    BY <1>0, <1>1, <2>1, BystandersKeepOrder DEF Executing
<1>. QED
  BY <1>2, <1>3

LEMMA NextPacketKeepsOrder ==
  ASSUME OrderInv, NEW s \in Callers, NextPacket(s) PROVE InOrder' /\ Promises
<1>0. /\ call[s] \in Calls /\ Paced(call[s], lastGen) /\ call \in [Callers -> Calls]
      /\ call[s].pc = "pacing" /\ running = s /\ s # NoCaller
      /\ call[s].gen # 0 /\ call[s].pkt < PacketsOf(call[s].kind)
  BY OrderFacts DEF NextPacket, Executing, Paced
<1>1. UNCHANGED <<tState, connId, lastGen, genDevice, shows>>
  BY DEF NextPacket, LinkUnchanged, linkVars
<1>2. wq = <<>>
  BY <1>0, QueueIsEmpty
<1>3. CASE connId = call[s].gen /\ tState = "connected"
  <2>. DEFINE c == [call[s] EXCEPT !.pc = "writing"]
  <2>1. c.pc = "writing" /\ c.kind = call[s].kind /\ c.gen = call[s].gen /\ c.pkt = call[s].pkt
    BY <1>0 DEF Calls
  <2>2. call' = [call EXCEPT ![s] = c] /\ running' = s /\ wq' = Enqueue(s)
    BY <1>0, <1>3 DEF NextPacket
  <2>. HIDE DEF c
  <2>3. /\ InOrder' /\ PlanOverdue = {} /\ PlanOverdue' = {}
        /\ PlanSent' = SentBy(call[s], genDevice)
    BY <1>0, <1>1, <1>2, <1>3, <2>1, <2>2, WritingKeepsOrder
  <2>4. PlanSent = SentBy(call[s], genDevice)
    BY <1>0, SentFacts
  <2>. QED
    BY <1>1, <2>3, <2>4, Stutters
<1>4. CASE ~(connId = call[s].gen /\ tState = "connected")
  <2>1. call' = [call EXCEPT ![s] = NoCall] /\ running' = NoCaller /\ wq' = wq
    BY <1>0, <1>4 DEF NextPacket, Fail
  <2>. QED
    BY <1>0, <1>1, <1>2, <2>1, LeavingKeepsOrder
<1>. QED
  BY <1>3, <1>4

LEMMA ResponseKeepsOrder ==
  ASSUME OrderInv, NEW s \in Callers, ResponseSettles(s) PROVE InOrder' /\ Promises
<1>0. /\ call[s].pc = "awaiting" /\ running = s /\ s # NoCaller
      /\ call[s].pkt = PacketsOf(call[s].kind) /\ CallsPaced /\ Addressed
      /\ Paced(NoCall, lastGen)
  BY OrderFacts, IdlePaced DEF ResponseSettles, Executing, Paced, OrderInv
<1>1. /\ UNCHANGED <<tState, connId, lastGen, genDevice, shows, wq>>
      /\ running' = NoCaller /\ call' = [call EXCEPT ![s] = NoCall]
  BY DEF ResponseSettles, Complete, connectionVars, linkVars
<1>2. wq = <<>>
  BY <1>0, QueueIsEmpty
<1>3. InOrder'
  <2>1. CallsPaced' /\ Addressed'
    BY <1>0, <1>1, OneCallPaced DEF OrderInv, Addressed
  <2>. QED
    BY <1>1, <1>2, <2>1 DEF InOrder, OneOutstanding
<1>4. PlanSent = SentBy(call[s], genDevice) /\ PlanSent' = {}
  BY <1>0, <1>1, SentFacts
<1>5. PlanOverdue' = PlanOverdue
  BY <1>1, OverdueFacts
<1>. QED
  BY <1>0, <1>1, <1>3, <1>4, <1>5, Responded

\* A write that times out stays in the queue, given up.
LEMMA TimeOutKeepsOrder ==
  ASSUME OrderInv, NEW s \in Callers, WriteTimesOut(s) PROVE InOrder' /\ Promises
<1>0. /\ call[s].pc = "writing" /\ running = s /\ s # NoCaller
      /\ call[s].pkt < PacketsOf(call[s].kind) /\ CallsPaced /\ Addressed /\ OneOutstanding
      /\ Paced(NoCall, lastGen)
  BY OrderFacts, IdlePaced DEF WriteTimesOut, Executing, Paced, OrderInv
<1>1. /\ UNCHANGED <<connId, lastGen, genDevice, shows>>
      /\ tState' # "connected" /\ wq' = Orphaned(wq, s)
      /\ running' = NoCaller /\ call' = [call EXCEPT ![s] = NoCall]
  BY <1>0 DEF WriteTimesOut, Fail, QuarantinedState, Orphaned
<1>2. CASE wq = <<>>
  <2>1. wq' = <<>>
    BY <1>1, <1>2 DEF Orphaned
  <2>. QED
    BY <1>0, <1>1, <1>2, <2>1, LeavingKeepsOrder
<1>3. ASSUME NEW w, Outstanding(w) PROVE InOrder' /\ Promises
  <2>1. /\ w \in Writes /\ wq = <<w>> /\ w.owner = s /\ w.kind = call[s].kind
        /\ w.gen = call[s].gen /\ w.pkt = call[s].pkt + 1 /\ w.via = w.gen
        /\ w.phase = "inBrowser" /\ w.gen \in 1 .. lastGen /\ call[s].pkt \in Nat
    <3>1. ~w.orphan /\ w \in Writes
      BY <1>0, <1>3 DEF Outstanding, Writes
    <3>. QED
      BY <1>0, <1>3, <3>1, OrderFacts, PacketAssumption DEF Outstanding, Calls
  <2>. DEFINE v == [w EXCEPT !.orphan = TRUE]
  <2>2. /\ v \in Writes /\ v.orphan /\ v.kind = call[s].kind /\ v.gen = call[s].gen
        /\ v.pkt = call[s].pkt + 1 /\ v.via = v.gen /\ v.phase = "inBrowser"
        /\ v.gen \in 1 .. lastGen
    BY <2>1 DEF Writes
  <2>3. wq' = <<v>>
    BY <1>1, <2>1, LastWrite
  <2>. HIDE DEF v
  <2>4. Outstanding(v)'
    BY <1>1, <2>2, <2>3 DEF Outstanding
  <2>5. CallsPaced' /\ Addressed'
    BY <1>0, <1>1, OneCallPaced DEF OrderInv, Addressed
  <2>6. PlanSent = SentBy(call[s], genDevice) /\ PlanSent' = {}
    BY <1>0, <1>1, SentFacts
  <2>7. RestOf(v, genDevice) = SentBy(call[s], genDevice)
    <3>1. v.pkt - 1 = call[s].pkt
      BY <2>1, <2>2
    <3>. QED
      BY <2>2, <3>1 DEF RestOf, SentBy
  <2>8. PlanOverdue' \in {{}, SentBy(call[s], genDevice)}
    BY <1>1, <2>3, <2>7, OverdueFacts, RemainderFacts
  <2>9. Promises
    BY <1>0, <1>1, <2>6, <2>8, Abandons
  <2>. QED
    BY <2>4, <2>5, <2>9 DEF InOrder, OneOutstanding
<1>. QED
  BY <1>0, <1>2, <1>3 DEF OneOutstanding

\* The browser accepts a write, or rejects it.
LEMMA AcceptedKeepsOrder == ASSUME OrderInv, Accepted PROVE InOrder' /\ Promises
<1>0. /\ call \in [Callers -> Calls] /\ CallsPaced /\ Addressed /\ OneOutstanding
      /\ Paced(NoCall, lastGen) /\ TypeOK /\ NoCaller \notin Callers /\ lastGen \in Nat
  BY OrderFacts, IdlePaced DEF OrderInv
<1>1. UNCHANGED <<tState, connId, lastGen, genDevice>>
  BY DEF Accepted, connectionVars, linkVars
<1>2. PICK w : Outstanding(w)
  BY <1>0 DEF OneOutstanding, Accepted
<1>3. /\ w \in Writes /\ wq = <<w>> /\ Head(wq) = w /\ wq' = <<>> /\ w.owner \in Callers
      /\ w.via = w.gen /\ w.gen \in 1 .. lastGen
  <2>1. w \in Writes /\ wq = <<w>> /\ w.via = w.gen /\ w.gen \in 1 .. lastGen
    BY <1>2 DEF Outstanding
  <2>2. Head(wq) = w /\ Advance(Tail(wq)) = <<>>
    BY <2>1, LastWrite
  <2>. QED
    BY <2>1, <2>2 DEF Accepted, Writes
<1>4. connId = w.gen /\ connId # 0 /\ shows' = [shows EXCEPT ![genDevice[connId]] = Stored(@, w)]
  BY <1>3 DEF Accepted
<1>. DEFINE u == [plan |-> PlanOf(w.kind, genDevice[w.gen]), got |-> w.pkt - 1]
<1>5. Promised!Arrives(u)
  BY <1>0, <1>3, <1>4, Arrived
<1>6. /\ u.plan = PlanOf(w.kind, genDevice[w.gen]) /\ u.got = w.pkt - 1 /\ u.got + 1 = w.pkt
      /\ u.plan.size = PacketsOf(w.kind) /\ w.pkt \in Nat \ {0}
  BY <1>3, PacketAssumption DEF PlanOf, Writes
<1>7. RestOf(w, genDevice) = {u}
  BY DEF RestOf
<1>. HIDE DEF u
<1>8. PlanOverdue' = {}
  BY <1>3, OverdueFacts, RemainderFacts
<1>9. CASE w.orphan
  <2>1. UNCHANGED <<call, running>> /\ running = NoCaller
    BY <1>2, <1>3, <1>9 DEF Accepted, Outstanding
  <2>2. InOrder'
    BY <1>0, <1>1, <1>3, <2>1 DEF InOrder, OneOutstanding, CallsPaced, Addressed
  <2>3. PlanOverdue = {u}
    BY <1>3, <1>4, <1>7, <1>9, OverdueFacts, RemainderFacts
  <2>4. PlanSent' = PlanSent
    BY <2>1, SentFacts
  <2>. QED
    BY <1>5, <1>8, <2>2, <2>3, <2>4, DeliversLate
<1>10. CASE ~w.orphan
  <2>. DEFINE s == w.owner
  <2>1. /\ running = s /\ call[s].pc = "writing" /\ w.kind = call[s].kind
        /\ w.gen = call[s].gen /\ w.pkt = call[s].pkt + 1 /\ s \in Callers /\ s # NoCaller
    BY <1>0, <1>2, <1>3, <1>10 DEF Outstanding
  <2>2. call[s] \in Calls /\ Paced(call[s], lastGen) /\ call[s].pkt \in Nat
    BY <1>0, <2>1, PacketAssumption DEF CallsPaced, Calls
  <2>3. PlanSent = {u}
    <3>1. w.pkt - 1 = call[s].pkt
      BY <2>1, <2>2
    <3>. QED
      BY <1>7, <2>1, <3>1, SentFacts DEF RestOf, SentBy
  <2>4. PlanOverdue' = PlanOverdue
    BY <1>3, <1>8, <1>10, OverdueFacts, RemainderFacts
  <2>5. w.pkt <= PacketsOf(w.kind) /\ u.got < u.plan.size /\ PacketsOf(w.kind) \in Nat
    <3>1. call[s].pkt < PacketsOf(w.kind) /\ PacketsOf(w.kind) \in Nat
      BY <2>1, <2>2, PacketAssumption DEF Paced, PacketsOf
    <3>. QED
      BY <1>6, <2>1, <2>2, <3>1
  <2>6. MoreAfter(w) <=> w.pkt < PacketsOf(w.kind)
    BY DEF MoreAfter
  <2>7. CASE MoreAfter(w) \/ Responds(w.kind)
    <3>. DEFINE c == [call[s] EXCEPT !.pkt = w.pkt,
                                     !.pc = IF MoreAfter(w) THEN "pacing" ELSE "awaiting"]
    <3>1. /\ c.kind = w.kind /\ c.gen = w.gen /\ c.pkt = w.pkt
          /\ c.pc = IF MoreAfter(w) THEN "pacing" ELSE "awaiting"
      BY <2>1, <2>2 DEF Calls
    <3>2. call' = [call EXCEPT ![s] = c] /\ running' = running
      BY <1>0, <1>3, <1>10, <2>1, <2>7 DEF Accepted
    <3>. HIDE DEF c
    <3>3. Paced(c, lastGen)
      <4>1. w.gen <= lastGen /\ w.gen # 0
        BY <1>0, <1>3
      <4>2. MoreAfter(w) => w.pkt < PacketsOf(w.kind)
        BY <2>6
      <4>3. ~MoreAfter(w) => w.pkt = PacketsOf(w.kind)
        BY <1>6, <2>5, <2>6
      <4>. QED
        BY <3>1, <4>1, <4>2, <4>3 DEF Paced, Executing
    <3>. HIDE DEF s
    <3>4. CallsPaced'
      BY <1>0, <1>1, <2>1, <3>2, <3>3, OneCallPaced
    <3>5. InOrder'
      BY <1>0, <1>1, <1>3, <3>4 DEF InOrder, OneOutstanding, Addressed
    <3>6. call'[s] = c
      BY <1>0, <2>1, <3>2
    <3>7. PlanSent' = SentBy(c, genDevice)
      BY <1>1, <2>1, <3>2, <3>6, SentFacts
    <3>8. PlanSent' = {[plan |-> u.plan, got |-> u.got + 1]}
      BY <1>6, <3>1, <3>7 DEF SentBy
    <3>. QED
      BY <1>5, <2>3, <2>4, <2>5, <3>5, <3>8, Delivers
  <2>8. CASE ~(MoreAfter(w) \/ Responds(w.kind))
    <3>1. call' = [call EXCEPT ![s] = NoCall] /\ running' = NoCaller
      BY <1>3, <1>10, <2>8 DEF Accepted, Complete
    <3>. HIDE DEF s
    <3>2. CallsPaced'
      BY <1>0, <1>1, <2>1, <3>1, OneCallPaced
    <3>3. InOrder'
      BY <1>0, <1>1, <1>3, <3>2 DEF InOrder, OneOutstanding, Addressed
    <3>4. PlanSent' = {}
      BY <3>1, SentFacts
    <3>5. u.got + 1 = u.plan.size
      BY <1>6, <2>5, <2>6, <2>8
    <3>. QED
      BY <1>5, <2>3, <2>4, <2>5, <3>3, <3>4, <3>5, Delivers
  <2>. QED
    BY <2>7, <2>8
<1>. QED
  BY <1>9, <1>10

LEMMA RejectedKeepsOrder == ASSUME OrderInv, Rejected PROVE InOrder' /\ Promises
<1>0. /\ call \in [Callers -> Calls] /\ CallsPaced /\ Addressed /\ OneOutstanding
      /\ Paced(NoCall, lastGen) /\ TypeOK /\ NoCaller \notin Callers /\ lastGen \in Nat
  BY OrderFacts, IdlePaced DEF OrderInv
<1>1. UNCHANGED <<tState, connId, lastGen, genDevice, shows>>
  BY DEF Rejected, LinkUnchanged, linkVars
<1>2. PICK w : Outstanding(w)
  BY <1>0 DEF OneOutstanding, Rejected
<1>3. w \in Writes /\ wq = <<w>> /\ Head(wq) = w /\ wq' = <<>> /\ w.owner \in Callers
  <2>1. w \in Writes /\ wq = <<w>>
    BY <1>2 DEF Outstanding
  <2>2. Head(wq) = w /\ Advance(Tail(wq)) = <<>>
    BY <2>1, LastWrite
  <2>. QED
    BY <2>1, <2>2 DEF Rejected, Writes
<1>4. PlanOverdue' = {}
  BY <1>3, OverdueFacts, RemainderFacts
<1>5. CASE w.orphan
  <2>1. UNCHANGED <<call, running>> /\ running = NoCaller
    BY <1>2, <1>3, <1>5 DEF Rejected, Outstanding
  <2>2. InOrder'
    BY <1>0, <1>1, <1>3, <2>1 DEF InOrder, OneOutstanding, CallsPaced, Addressed
  <2>3. PlanSent' = PlanSent
    BY <2>1, SentFacts
  <2>. QED
    BY <1>1, <1>4, <2>2, <2>3, LosesOrStutters
<1>6. CASE ~w.orphan
  <2>. DEFINE s == w.owner
  <2>1. /\ running = s /\ call[s].pc = "writing" /\ s \in Callers /\ s # NoCaller
    BY <1>0, <1>2, <1>3, <1>6 DEF Outstanding
  <2>2. call' = [call EXCEPT ![s] = NoCall] /\ running' = NoCaller
    BY <1>3, <1>6, <2>1 DEF Rejected, Fail
  <2>. HIDE DEF s
  <2>3. call[s].pkt < PacketsOf(call[s].kind)
    BY <1>0, <2>1 DEF CallsPaced, Paced
  <2>4. CallsPaced'
    BY <1>0, <1>1, <2>1, <2>2, OneCallPaced
  <2>5. InOrder'
    BY <1>0, <1>1, <1>3, <2>4 DEF InOrder, OneOutstanding, Addressed
  <2>6. PlanSent = SentBy(call[s], genDevice) /\ PlanSent' = {}
    BY <2>1, <2>2, SentFacts
  <2>. QED
    BY <1>1, <1>4, <2>3, <2>5, <2>6, Abandons
<1>. QED
  BY <1>5, <1>6

\* The link's steps leave the connections there were as they are, and open one
\* only to an empty queue.
LEMMA OldConnectionsStay ==
  ASSUME ConnectionTypeOK, LinkNext
  PROVE  \/ genDevice' = genDevice /\ lastGen' = lastGen
         \/ /\ lastGen' = lastGen + 1
            /\ \E d \in Devices : genDevice' = [genDevice EXCEPT ![lastGen + 1] = d]
<1>1. ASSUME NEW a \in Attempts, NEW how \in Ways, Connect(a, how)
      PROVE  genDevice' = genDevice /\ lastGen' = lastGen
  BY <1>1 DEF Connect, BeginSelect, linkVars
<1>2. ASSUME NEW a \in Attempts, NEW d \in Devices, ChooseDevice(a, d)
      PROVE  genDevice' = genDevice /\ lastGen' = lastGen
  BY <1>2 DEF ChooseDevice, Choose
<1>3. ASSUME NEW a \in Attempts, Established(a) \/ EstablishedTooLate(a)
      PROVE  /\ lastGen' = lastGen + 1
             /\ \E d \in Devices : genDevice' = [genDevice EXCEPT ![lastGen + 1] = d]
  <2>1. attempt[a].pc = "linking" => attempt[a].dev \in Devices
    BY DEF ConnectionTypeOK, TransportTypeOK
  <2>. QED
    BY <1>3, <2>1 DEF Established, LinkUp, EstablishedTooLate, LinkUpAndClose
<1>4. ASSUME NEW a \in Attempts, ConnectFails(a)
      PROVE  genDevice' = genDevice /\ lastGen' = lastGen
  BY <1>4 DEF ConnectFails, LinkFails, Cleanup
<1>5. ASSUME NEW who \in Closers \cup {"dispose"}, DisconnectBegin(who) \/ DisconnectFinish(who)
      PROVE  genDevice' = genDevice /\ lastGen' = lastGen
  BY <1>5 DEF DisconnectBegin, DisconnectFinish, CloseTransport, Cleanup, linkVars
<1>6. ASSUME NEW d \in Devices, Drop(d) PROVE genDevice' = genDevice /\ lastGen' = lastGen
  BY <1>6 DEF Drop, LinkLost
<1>. QED
  BY <1>1, <1>2, <1>3, <1>4, <1>5, <1>6 DEF LinkNext

LEMMA DisplaysOfOldConnections ==
  ASSUME TypeOK, LinkNext, Addressed
  PROVE  /\ Addressed' /\ lastGen <= lastGen'
         /\ \A g \in 1 .. lastGen : genDevice'[g] = genDevice[g]
<1>0. /\ lastGen \in 0 .. MaxGen /\ lastGen' \in 0 .. MaxGen /\ MaxGen \in Nat
      /\ genDevice \in [1 .. MaxGen -> Devices \cup {NoDevice}]
  BY TypeParts, LinkStepsKeepTypes, GenAssumption DEF ConnectionTypeOK, TransportTypeOK, Gens
<1>1. CASE genDevice' = genDevice /\ lastGen' = lastGen
  BY <1>0, <1>1 DEF Addressed
<1>2. ASSUME NEW d \in Devices, lastGen' = lastGen + 1,
             genDevice' = [genDevice EXCEPT ![lastGen + 1] = d]
      PROVE  /\ Addressed' /\ lastGen <= lastGen'
             /\ \A g \in 1 .. lastGen : genDevice'[g] = genDevice[g]
  <2>1. lastGen <= lastGen' /\ lastGen + 1 \in 1 .. MaxGen
    BY <1>0, <1>2
  <2>2. genDevice'[lastGen + 1] = d
    BY <1>0, <1>2, <2>1
  <2>3. \A g \in 1 .. lastGen : genDevice'[g] = genDevice[g]
    BY <1>0, <1>2
  <2>4. \A g \in 1 .. lastGen' : g \in 1 .. lastGen \/ g = lastGen + 1
    BY <1>0, <1>2
  <2>. QED
    BY <2>1, <2>2, <2>3, <2>4 DEF Addressed
<1>. QED
  BY <1>1, <1>2, TypeParts, OldConnectionsStay

LEMMA LinkStepsKeepOrder ==
  ASSUME ~LateSettle, OrderInv, [Next]_vars,
         \/ \E a \in Attempts : LinkEstablished(a) \/ LinkStep(a)
         \/ \E d \in Devices : LinkDropped(d)
         \/ \E who \in Closers \cup {"dispose"} : CloseBegins(who) \/ CloseFinishes(who)
  PROVE  InOrder' /\ Promises
<1>0. /\ CallsPaced /\ Addressed /\ OneOutstanding /\ TypeOK /\ LinkFacts /\ ConnectionTypeOK
      /\ NoCaller \notin Callers /\ running \in Callers \cup {NoCaller}
  BY OrderFacts DEF OrderInv, TypeOK
<1>1. LinkNext
  BY <1>0, ConnectionStepsKeepSendTypes
<1>2. UNCHANGED <<call, running, wq, shows>>
  BY DEF LinkEstablished, LinkStep, LinkDropped, CloseBegins, CloseFinishes, KeepSends, sendVars
<1>3. /\ Addressed' /\ lastGen <= lastGen' /\ lastGen \in Nat /\ lastGen' \in Nat
      /\ \A g \in 1 .. lastGen : genDevice'[g] = genDevice[g]
  <2>1. lastGen \in Nat /\ lastGen' \in Nat
    BY <1>0, <1>1, LinkStepsKeepTypes, GenAssumption DEF ConnectionTypeOK, TransportTypeOK
  <2>. QED
    BY <1>0, <1>1, <2>1, DisplaysOfOldConnections
<1>4. wq # <<>> => connId' \in {0, connId}
  BY <1>0, <1>1, NextGeneration, NewGenerationFindsNoWrites
<1>5. wq # <<>> /\ tState # "connected" => tState' # "connected"
  BY <1>0, <1>1, NextGeneration, NewGenerationFindsNoWrites
<1>6. CallsPaced'
  <2>1. ASSUME NEW s \in Callers PROVE Paced(call[s], lastGen')
    <3>1. Paced(call[s], lastGen) /\ call[s].gen \in Nat
      BY <1>0, GenAssumption DEF CallsPaced, TypeOK, Calls
    <3>2. call[s].gen <= lastGen'
      BY <1>3, <3>1 DEF Paced
    <3>. QED
      BY <3>1, <3>2 DEF Paced
  <2>. QED
    BY <1>2, <2>1 DEF CallsPaced
<1>7. ASSUME NEW w, Outstanding(w) PROVE Outstanding(w)'
  <2>1. wq = <<w>> /\ w.gen \in 1 .. lastGen
    BY <1>7 DEF Outstanding
  <2>2. wq # <<>> /\ w.gen \in 1 .. lastGen'
    BY <1>3, <2>1
  <2>. QED
    BY <1>2, <1>5, <1>7, <2>2 DEF Outstanding
<1>8. OneOutstanding'
  BY <1>0, <1>2, <1>7 DEF OneOutstanding
<1>9. PlanSent' = PlanSent
  <2>1. CASE running = NoCaller
    BY <1>2, <2>1, SentFacts
  <2>2. CASE running # NoCaller
    <3>1. Paced(call[running], lastGen) /\ call[running].pc \in Executing
          /\ call[running].gen \in Nat
      BY <1>0, <2>2, OrderFacts, GenAssumption DEF Calls
    <3>2. call[running].gen \in 1 .. lastGen
      BY <1>3, <3>1 DEF Paced
    <3>. QED
      BY <1>2, <1>3, <2>2, <3>2, SentFacts DEF SentBy
  <2>. QED
    BY <2>1, <2>2
<1>10. PlanOverdue' \in {{}, PlanOverdue}
  <2>1. CASE wq = <<>>
    BY <1>2, <2>1, OverdueFacts, RemainderFacts
  <2>2. ASSUME NEW w, Outstanding(w) PROVE PlanOverdue' \in {{}, PlanOverdue}
    <3>1. wq = <<w>> /\ wq' = <<w>> /\ w.gen \in 1 .. lastGen
      BY <1>2, <2>2 DEF Outstanding
    <3>2. RestOf(w, genDevice') = RestOf(w, genDevice)
      BY <1>3, <3>1 DEF RestOf
    <3>3. connId' \in {0, connId}
      BY <1>4, <3>1
    <3>. QED
      BY <3>1, <3>2, <3>3, OverdueFacts, RemainderFacts
  <2>. QED
    BY <1>0, <2>1, <2>2 DEF OneOutstanding
<1>. QED
  BY <1>2, <1>3, <1>6, <1>8, <1>9, <1>10, LosesOrStutters DEF InOrder

LEMMA IdlingKeepsOrder == ASSUME OrderInv, UNCHANGED vars PROVE InOrder' /\ Promises
<1>1. UNCHANGED <<call, running, wq, shows, tState, connId, lastGen, genDevice>>
  BY DEF vars, sendVars, connectionVars, linkVars
<1>2. InOrder'
  BY <1>1 DEF OrderInv, InOrder, Addressed, CallsPaced, OneOutstanding, Outstanding
<1>3. PlanSent' = PlanSent /\ PlanOverdue' = PlanOverdue
  BY <1>1, SentFacts, OverdueFacts
<1>. QED
  BY <1>1, <1>2, <1>3, Stutters

LEMMA StepsKeepOrder ==
  ASSUME ~LateSettle, OrderInv, [Next]_vars PROVE OrderInv' /\ Promises
<1>1. TypeOK' /\ LinkFacts' /\ Exclusive'
  BY StepsKeepTypes, StepsKeepLinkFacts, StepsKeepExclusion DEF OrderInv
<1>2. InOrder' /\ Promises
  <2>1. ASSUME NEW s \in Callers,
               \/ \E k \in Kinds : Prepare(s, k) \/ SendDirectly(s, k)
               \/ Dismiss(s) \/ Edit(s) \/ Confirm(s)
        PROVE  InOrder' /\ Promises
    BY <2>1, PlanningKeepsOrder
  <2>2. ASSUME NEW s \in Callers, SendStep(s) PROVE InOrder' /\ Promises
    BY <2>2, PlanningKeepsOrder, SubscribedKeepsOrder, TimeOutKeepsOrder,
       NextPacketKeepsOrder, ResponseKeepsOrder DEF SendStep
  <2>3. CASE Accepted \/ Rejected
    BY <2>3, AcceptedKeepsOrder, RejectedKeepsOrder
  <2>4. CASE \/ \E a \in Attempts : LinkEstablished(a) \/ LinkStep(a)
             \/ \E d \in Devices : LinkDropped(d)
             \/ \E who \in Closers \cup {"dispose"} : CloseBegins(who) \/ CloseFinishes(who)
    BY <2>4, LinkStepsKeepOrder
  <2>5. CASE UNCHANGED vars
    BY <2>5, IdlingKeepsOrder
  <2>. QED
    BY <2>1, <2>2, <2>3, <2>4, <2>5 DEF Next
<1>. QED
  BY <1>1, <1>2 DEF OrderInv

LEMMA InitialOrder == Init => OrderInv /\ Promised!DeliveryInit
<1>. SUFFICES ASSUME Init PROVE OrderInv /\ Promised!DeliveryInit
  OBVIOUS
<1>1. TypeOK /\ LinkFacts /\ Exclusive
  BY InitialSendInv DEF SendInv
<1>2. wq = <<>> /\ running = NoCaller /\ lastGen = 0 /\ call = [s \in Callers |-> NoCall]
      /\ shows = [d \in Devices |-> "blank"]
  BY DEF Init, ConnectionInit, TransportInit
<1>3. InOrder
  <2>1. Paced(NoCall, lastGen)
    BY <1>1, IdlePaced
  <2>. QED
    BY <1>2, <2>1 DEF InOrder, Addressed, CallsPaced, OneOutstanding
<1>4. PlanSent = {} /\ PlanOverdue = {}
  BY <1>2, SentFacts, OverdueFacts, RemainderFacts
<1>. QED
  BY <1>1, <1>2, <1>3, <1>4 DEF OrderInv, Promised!DeliveryInit

(* Where the browser rejects the writes of a closed link before another    *)
(* link opens, whatever the calls do and whichever connection comes and    *)
(* goes, every display is sent one plan after the other: whole and in      *)
(* order, or abandoned, with at most its next packet arriving late, and    *)
(* before another plan begins.                                             *)
THEOREM DisplaysAlwaysGetWholePlans == ASSUME ~LateSettle PROVE Spec => DisplaysGetWholePlans
<1>1. OrderInv /\ [Next]_vars => OrderInv' /\ Promises
  BY ~LateSettle, StepsKeepOrder
<1>. QED
  BY InitialOrder, <1>1, PTL DEF Spec, DisplaysGetWholePlans, Promised!DeliverySpec, Promises
==============================================================================
