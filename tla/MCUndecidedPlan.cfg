SPECIFICATION Spec
CONSTANTS
  Baselines = {"bare"}
  Goals = {"develop"}
  Offered <- PlanTests
  MaxRuns = 4
  Timelines = {"moved", "held"}
  Layouts = {"unseen"}
  Looks = {"clean"}
  Nibbles = {"off"}
CHECK_DEADLOCK FALSE
INVARIANTS
  PlanReachesADecision
