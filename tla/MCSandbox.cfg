SPECIFICATION FairSpec
CONSTANTS
  Procs = {"p", "q"}
  Threads = {"worker", "bench", "other"}
  Home <- MCHome
  Releasers = {"bench"}
  MaxSaves = 1
  MaxMishaps = 1
INVARIANTS
  WholeUnlessTrouble
  SessionsAreSeparate
  MachineOwned
PROPERTIES
  ValidationEnds
CHECK_DEADLOCK FALSE
