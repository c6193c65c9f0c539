SPECIFICATION Spec
CONSTANTS
  Procs = {"p"}
  Threads = {"worker", "bench"}
  Home <- MCHome
  Releasers = {"bench"}
  MaxSaves = 1
  MaxMishaps = 0
INVARIANTS
  NoMachineLost
CHECK_DEADLOCK FALSE
