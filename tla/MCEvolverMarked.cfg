SPECIFICATION Spec
CONSTANTS
  NoRig = NoRig
  Rigs = {"evolver", "worker"}
  Stamps = {1, 2}
  Low = {1, 2}
  MaxVersion = 3
  None = None
  Torn = Torn
  Evolvers = {"e1", "e2"}
  Survivor = "e1"
  Targets = {"worker-1"}
  TargetOf <- MCTargetOf
  DimensionOf <- MCDimensionOf
  Names = {"n"}
  MaxEvents = 1
INVARIANTS
  EvolvedIsProcessed
CHECK_DEADLOCK FALSE
