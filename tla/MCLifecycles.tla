---------------------------- MODULE MCLifecycles ----------------------------
(***************************************************************************)
(* The lifecycle of a connection and that of a deployed build, which share *)
(* no state, side by side: a behaviour is one of part, the other rests.    *)
(***************************************************************************)
EXTENDS Connection, Updates

CONSTANTS a1, a2, d1, d2, t1, t2
OneAttempt == {a1}
TwoAttempts == {a1, a2}
MCDevices == {d1, d2}
OneCloser == {"user"}
TwoClosers == {"user", "again"}
TwoTabs == {t1, t2}

VARIABLE part

vars == <<part, connectionVars, updatesVars>>

Init ==
  /\ part \in {"connection", "updates"}
  /\ ConnectionInit /\ UpdatesInit
\* Tabs and workers may all come to rest; a connection may not.
Next ==
  /\ UNCHANGED part
  /\ \/ part = "connection" /\ ConnectionNext /\ UNCHANGED updatesVars
     \/ part = "updates" /\ [UpdatesNext]_updatesVars /\ UNCHANGED connectionVars
Spec == Init /\ [][Next]_vars /\ ConnectionFairness /\ UpdatesFairness
=============================================================================
