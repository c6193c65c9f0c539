SPECIFICATION Spec
CONSTANTS
  Procs = {"p"}
  Threads = {"w1", "w2"}
  Home <- MCHome
  Releasers = {}
  MaxSaves = 2
  MaxMishaps = 0
INVARIANTS
  MachineWhole
CHECK_DEADLOCK FALSE
