\* A timed test on one display: one run, three attempts, one reconnect.
SPECIFICATION Spec
CONSTANTS
  timing = timing
  pattern = pattern
  d1 = d1
  d2 = d2
  NoDisplay = NoDisplay
  NoTest = NoTest
  NoInvestigation = NoInvestigation
  NoFlow = NoFlow
  Tests <- Timing
  TimedTests <- Timing
  Displays <- OneDisplay
  MaxEpoch = 2
  MaxRuns = 1
  MaxAttempts = 3
  TransactionLimit = 1
INVARIANTS
  TypeOK
  ObservedAttemptsSettle
  AttemptsAgree
  DiscardedAttemptsContributeNothing
PROPERTY EveryTransferEnds
