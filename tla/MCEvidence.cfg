SPECIFICATION Spec
CONSTANTS
  Baselines = {"iledhat", "bare"}
  Goals = {"develop", "colors-look-wrong"}
  Offered <- StillImageTests
  MaxRuns = 2
  Timelines = {"moved", "short","held","wrong"}
  Layouts = {"unseen", "broken"}
  Looks = {"clean", "lit"}
  Nibbles = {"white"}
CHECK_DEADLOCK FALSE
INVARIANTS
  CharacterizationTypeOK
  StillImagesWereSeenStill
  ContradictionsStand
  ResumedRecordsAuthorizeNothing
  OnlyTheSymptomOvertakesThePlan
