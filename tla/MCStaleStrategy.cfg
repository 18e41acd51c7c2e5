SPECIFICATION Spec
CONSTANTS
  Baselines = {"iledhat"}
  Goals = {"develop"}
  Offered <- StillImageTests
  MaxRuns = 2
  Timelines = {"moved", "short", "held"}
  Layouts = {"unseen", "broken"}
  Looks = {"clean", "lit"}
  Nibbles = {"off"}
CHECK_DEADLOCK FALSE
INVARIANTS
  StrategyInEffect
