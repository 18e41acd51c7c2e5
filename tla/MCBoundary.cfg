\* An untimed test on two displays: two runs, two attempts, three connection epochs.
SPECIFICATION Spec
CONSTANTS
  timing = timing
  pattern = pattern
  d1 = d1
  d2 = d2
  NoDisplay = NoDisplay
  NoTest = NoTest
  NoInvestigation = NoInvestigation
  NoFlow = NoFlow
  Tests <- Pattern
  TimedTests <- NoTests
  Displays <- TwoDisplays
  MaxEpoch = 3
  MaxRuns = 2
  MaxAttempts = 2
  TransactionLimit = 1000
INVARIANTS
  HistoryIsSound
SYMMETRY Symmetry
VIEW WithoutLength
