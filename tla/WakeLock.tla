-------------------------------- MODULE WakeLock --------------------------------
(***************************************************************************)
(* The screen wake lock of a transfer (src/src/app/wake-lock.ts): acquired *)
(* before the writes, released after them, asked for again when the page   *)
(* becomes visible.  The browser grants a request late, refuses one from a *)
(* hidden page, and takes its locks back when the page is hidden.          *)
(***************************************************************************)
EXTENDS Naturals, FiniteSets

CONSTANT MaxLocks   \* bound on the requests made
ASSUME WakeLockAssumption == MaxLocks \in Nat

VARIABLES
  sending,     \* #active
  listening,   \* #visibility is installed
  visible,     \* the page is visible
  handle,      \* #handle, 0 for none
  locks,       \* the locks the browser holds for this page
  asking,      \* requests the browser has not answered
  asked        \* requests so far
wakeLockVars == <<sending, listening, visible, handle, locks, asking, asked>>

WakeLockTypeOK ==
  /\ {sending, listening, visible} \subseteq BOOLEAN
  /\ asked \in 0 .. MaxLocks /\ handle \in 0 .. asked
  /\ asking \subseteq 1 .. asked /\ locks \subseteq 1 .. asked

WakeLockInit ==
  /\ sending = FALSE /\ listening = FALSE /\ visible = TRUE
  /\ handle = 0 /\ locks = {} /\ asking = {} /\ asked = 0

\* #request up to its await
Request ==
  IF handle # 0 THEN UNCHANGED <<asking, asked>>
  ELSE asked < MaxLocks /\ asked' = asked + 1 /\ asking' = asking \cup {asked'}

Acquire ==
  /\ sending' = TRUE /\ listening' = TRUE
  /\ Request
  /\ UNCHANGED <<visible, handle, locks>>

\* A mutant that only drops the handle.
HandleDropped == locks
WithoutHandle == locks \ {handle}
Release ==
  /\ sending' = FALSE /\ listening' = FALSE
  /\ handle' = 0 /\ locks' = WithoutHandle
  /\ UNCHANGED <<visible, asking, asked>>

\* #request after its await.  A lock that comes too late, or second, is given back.
Granted ==
  \E n \in asking :
    /\ visible
    /\ asking' = asking \ {n}
    /\ IF sending /\ handle = 0
       THEN handle' = n /\ locks' = locks \cup {n}
       ELSE UNCHANGED <<handle, locks>>
    /\ UNCHANGED <<sending, listening, visible, asked>>
Refused ==
  \E n \in asking :
    /\ asking' = asking \ {n}
    /\ UNCHANGED <<sending, listening, visible, handle, locks, asked>>

\* The browser takes its locks back and says so; the handle is forgotten.
PageHides ==
  /\ visible /\ visible' = FALSE
  /\ locks' = {} /\ handle' = 0
  /\ UNCHANGED <<sending, listening, asking, asked>>
BrowserReleases ==
  \E n \in locks :
    /\ locks' = locks \ {n}
    /\ handle' = IF handle = n THEN 0 ELSE handle
    /\ UNCHANGED <<sending, listening, visible, asking, asked>>
\* visibilitychange
AskAgain == IF listening /\ sending THEN Request ELSE UNCHANGED <<asking, asked>>
PageShows ==
  /\ ~visible /\ visible' = TRUE
  /\ AskAgain
  /\ UNCHANGED <<sending, listening, handle, locks>>

WakeLockNext == Acquire \/ Release \/ Granted \/ Refused \/ PageHides \/ BrowserReleases \/ PageShows
WakeLockSpec == WakeLockInit /\ [][WakeLockNext]_wakeLockVars

\* The browser holds no lock but the one that release will give back: none that was granted
\* after the transfer ended, and never two.
NoLockIsLeaked == locks \subseteq {handle} /\ (~sending => locks = {})
=================================================================================
