----------------------------- MODULE MCApplication -----------------------------
(***************************************************************************)
(* The state machines around the send path that share no state with each   *)
(* other, side by side: a behaviour is one of part, the others rest.       *)
(***************************************************************************)
EXTENDS Shell, Subscriptions, Editor, WakeLock, Archive, TLC

CONSTANTS s1, s2, f1, f2, c1, c2, t1, t2
VARIABLE part

TwoSenders == {s1, s2}
TwoFiles == {f1, f2}
TwoJobs == {c1, c2}
TwoTabs == {t1, t2}
TabsAreAlike == Permutations(TwoTabs)

vars == <<part, shellVars, subscriptionVars, editorVars, wakeLockVars, archiveVars>>
Init ==
  /\ part \in {"shell", "subscriptions", "editor", "wake lock", "archive"}
  /\ ShellInit /\ SubscriptionsInit /\ EditorInit /\ WakeLockInit /\ ArchiveInit
  /\ part # "editor" => settings.mode = "legacy"
Next ==
  /\ UNCHANGED part
  /\ \/ /\ part = "shell" /\ ShellNext
        /\ UNCHANGED <<subscriptionVars, editorVars, wakeLockVars, archiveVars>>
     \/ /\ part = "subscriptions" /\ SubscriptionsNext
        /\ UNCHANGED <<shellVars, editorVars, wakeLockVars, archiveVars>>
     \/ /\ part = "editor" /\ EditorNext
        /\ UNCHANGED <<shellVars, subscriptionVars, wakeLockVars, archiveVars>>
     \/ /\ part = "wake lock" /\ WakeLockNext
        /\ UNCHANGED <<shellVars, subscriptionVars, editorVars, archiveVars>>
     \/ /\ part = "archive" /\ ArchiveNext
        /\ UNCHANGED <<shellVars, subscriptionVars, editorVars, wakeLockVars>>
Spec == Init /\ [][Next]_vars

\* Every variable of the five machines keeps to its states; their lists keep to their limits.
ApplicationTypeOK == ShellTypeOK /\ SubscriptionsTypeOK /\ EditorTypeOK /\ WakeLockTypeOK
                       /\ ArchiveTypeOK

\* Answers that come late do no harm: the image chosen last is the one shown (loadImage), and no
\* wake lock outlives the transfers (wake-lock.ts).
LateAnswersDoNoHarm == ChosenImageIsShown /\ NoLockIsLeaked
===============================================================================
