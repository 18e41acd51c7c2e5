------------------------------ MODULE Transport ------------------------------
(***************************************************************************)
(* The link half of WebBluetoothTransport                                  *)
(* (src/transport/web-bluetooth.ts): choosing a display, opening GATT,     *)
(* quarantine, disconnect and the browser's gattserverdisconnected event.  *)
(* The write queue of the same class is in Transmission, beside the        *)
(* executor that drives it.                                                *)
(*                                                                         *)
(* A connectionId (a fresh UUID in the code) is a generation number, 0     *)
(* stands for null.  A connect attempt is an un-awaited call of            *)
(* selectAndConnect or reconnectAuthorized: disconnect() does not cancel   *)
(* it, so an older attempt may still be pending when a newer one starts.   *)
(* The browser's own behaviour (chooser, GATT) follows what the class      *)
(* relies on: gatt.disconnect() aborts a pending gatt.connect() of that    *)
(* device, and a device whose link is open may drop it at any time.        *)
(***************************************************************************)
EXTENDS Naturals

CONSTANTS
  Attempts,   \* identities of connect attempts that may be pending at once
  Devices,    \* physical displays the chooser can return
  NoDevice,   \* "#device is null"
  MaxGen      \* bound: connection generations in one behaviour

ASSUME DeviceAssumption == NoDevice \notin Devices
ASSUME GenAssumption == MaxGen \in Nat

VARIABLES
  tState,     \* #state ("disconnecting" never outlives the handler that sets it)
  connId,     \* #connectionId, 0 for null
  device,     \* #device
  attempt,    \* the pending connect calls
  watched,    \* devices that carry the gattserverdisconnected listener
  linked,     \* devices whose GATT link is open (browser)
  lastGen,    \* connection ids handed out so far
  genDevice   \* the device each handed-out connection id belongs to

linkVars == <<tState, connId, device, attempt, watched, linked, lastGen, genDevice>>

Gens == 1 .. MaxGen
TransportStates ==
  {"idle", "selecting", "connecting", "connected", "quarantined", "error"}
Phases == {"none", "choosing", "linking", "aborted"}
Ways == {"chooser", "authorized"}
NoAttempt == [pc |-> "none", dev |-> NoDevice, how |-> "chooser"]

TransportTypeOK ==
  /\ tState \in TransportStates
  /\ connId \in 0 .. MaxGen
  /\ device \in Devices \cup {NoDevice}
  /\ attempt \in [Attempts -> [pc : Phases, dev : Devices \cup {NoDevice}, how : Ways]]
  /\ \A a \in Attempts : attempt[a].pc = "linking" => attempt[a].dev \in Devices
  /\ watched \subseteq Devices
  /\ linked \subseteq Devices
  /\ lastGen \in 0 .. MaxGen
  /\ genDevice \in [Gens -> Devices \cup {NoDevice}]

TransportInit ==
  /\ tState = "idle"
  /\ connId = 0
  /\ device = NoDevice
  /\ attempt = [a \in Attempts |-> NoAttempt]
  /\ watched = {}
  /\ linked = {}
  /\ lastGen = 0
  /\ genDevice = [g \in Gens |-> NoDevice]

Pending(a) == attempt[a].pc # "none"

MayStartConnectQuarantined == tState \in {"idle", "error", "quarantined"}    \* mutant
MayStartConnect == tState \in {"idle", "error"}

\* The attempts after the browser closed the link of device d: a gatt.connect()
\* or an enumeration under way on it will reject.
Aborted(d) ==
  [a \in Attempts |->
     IF attempt[a].pc = "linking" /\ attempt[a].dev = d
     THEN [attempt[a] EXCEPT !.pc = "aborted"] ELSE attempt[a]]

\* GATT operations settle in order: an aborted one has rejected before a later
\* connection is up.
AbortsSettled == \A a \in Attempts : attempt[a].pc # "aborted"

\* #cleanup: forget the connection, stop listening to #device and close it.
Cleanup(attempts) ==
  /\ connId' = 0
  /\ device' = NoDevice
  /\ watched' = watched \ {device}
  /\ linked' = linked \ {device}
  /\ attempt' = attempts
  /\ UNCHANGED <<lastGen, genDevice>>

------------------------------------------------------------------------------
\* selectAndConnect / reconnectAuthorized up to the browser's first answer.
BeginSelect(a, how) ==
  /\ ~Pending(a)
  /\ MayStartConnect
  /\ tState' = "selecting"
  /\ attempt' = [attempt EXCEPT ![a] = [pc |-> "choosing", dev |-> NoDevice, how |-> how]]
  /\ UNCHANGED <<connId, device, watched, linked, lastGen, genDevice>>

\* The chooser (or getDevices) returned d; #connectDevice adopts it.
Choose(a, d) ==
  /\ attempt[a].pc = "choosing"
  /\ device' = d
  /\ watched' = watched \cup {d}
  /\ tState' = "connecting"
  /\ attempt' = [attempt EXCEPT ![a].pc = "linking", ![a].dev = d]
  /\ UNCHANGED <<connId, linked, lastGen, genDevice>>

\* GATT is open and enumerated: a new connection generation.
LinkUp(a) ==
  /\ attempt[a].pc = "linking" /\ AbortsSettled
  /\ lastGen < MaxGen
  /\ lastGen' = lastGen + 1
  /\ connId' = lastGen + 1
  /\ genDevice' = [genDevice EXCEPT ![lastGen + 1] = attempt[a].dev]
  /\ linked' = linked \cup {attempt[a].dev}
  /\ tState' = "connected"
  /\ attempt' = [attempt EXCEPT ![a] = NoAttempt]
  /\ UNCHANGED <<device, watched>>

\* The chooser was dismissed, or GATT rejected: the catch block of both calls.
LinkFails(a) ==
  /\ Pending(a)
  /\ Cleanup([Aborted(device) EXCEPT ![a] = NoAttempt])
  /\ tState' = "error"

\* LinkUp directly followed by transport.disconnect(), in one run of the task queue.
LinkUpAndClose(a) ==
  /\ attempt[a].pc = "linking" /\ AbortsSettled
  /\ lastGen < MaxGen
  /\ lastGen' = lastGen + 1
  /\ genDevice' = [genDevice EXCEPT ![lastGen + 1] = attempt[a].dev]
  /\ connId' = 0
  /\ device' = NoDevice
  /\ watched' = watched \ {device}
  /\ linked' = (linked \cup {attempt[a].dev}) \ {device}
  /\ tState' = "idle"
  /\ attempt' = [Aborted(device) EXCEPT ![a] = NoAttempt]

\* A mutant that never leaves "disconnecting".
CloseTransportHalfway ==
  IF tState = "idle" THEN UNCHANGED linkVars
  ELSE tState' = "disconnecting" /\ Cleanup(Aborted(device))

\* transport.disconnect(); a no-op when idle.
CloseTransport ==
  IF tState = "idle" THEN UNCHANGED linkVars
  ELSE /\ tState' = "idle"
       /\ Cleanup(Aborted(device))

\* The browser reports that d dropped its link; #onDisconnected forgets the
\* current connection, whichever device that is.
LinkLost(d) ==
  /\ d \in watched
  /\ d \in linked \/ \E a \in Attempts : attempt[a].pc = "linking" /\ attempt[a].dev = d
  /\ connId' = 0
  /\ device' = NoDevice
  /\ watched' = watched \ {device}
  /\ linked' = linked \ {d}
  /\ attempt' = Aborted(d)
  /\ tState' = "idle"
  /\ UNCHANGED <<lastGen, genDevice>>

QuarantinedStateIgnored == tState    \* mutant

\* quarantine(): only a connected transport can be quarantined.
QuarantinedState == IF tState = "connected" THEN "quarantined" ELSE tState
==============================================================================
