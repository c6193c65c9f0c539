SPECIFICATION FairSpec
CONSTANTS
  NoRig = NoRig
  Rigs = {"evolver", "worker"}
  Stamps = {1, 2}
  Low = {1, 2}
  MaxVersion = 3
  None = None
  Torn = Torn
  Evolvers = {"e1", "e2"}
  Survivor = "e1"
  Targets = {"worker-1"}
  TargetOf <- MCTargetOf
  DimensionOf <- MCDimensionOf
  Names = {"n"}
  MaxEvents = 2
INVARIANTS
  OncePerStamp
  StampsAccounted
  SkillPaired
PROPERTIES
  StampTaken
CHECK_DEADLOCK FALSE
