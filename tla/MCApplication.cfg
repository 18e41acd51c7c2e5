\* The shell, the subscriptions, the editor, the wake lock and the archive, each on its own bounds.
SPECIFICATION Spec
CONSTANTS
  s1 = s1
  s2 = s2
  f1 = f1
  f2 = f2
  c1 = c1
  c2 = c2
  t1 = t1
  t2 = t2
  MaxOffline = 2
  MaxRuns = 3
  MaxHistory = 5
  Senders <- TwoSenders
  Restore = "restore"
  MaxLink = 2
  MaxNotes = 2
  TraceEvents = 2
  Transactions = 2
  Files <- TwoFiles
  Loads <- TwoJobs
  MaxChoices = 5
  MaxLocks = 4
  Pages <- TwoTabs
  Panels = {"p1", "p2"}
  MaxStored = 2
  MaxRecords = 2
  MaxResults = 2
  MaxMoves = 3
  OneHolder = TRUE
SYMMETRY TabsAreAlike
INVARIANTS
  ApplicationTypeOK
  ShellIsConsistent
  ListenersFollowTheConnection
  RecordsBelongToTheirSend
  LateAnswersDoNoHarm
  ArchiveIsSound
CHECK_DEADLOCK FALSE
