\* Two requests to start a worker with the same id.
SPECIFICATION Spec
CONSTANTS
  i1 = i1
  i2 = i2
  r1 = r1
  r2 = r2
  rx = rx
  t1 = t1
  t2 = t2
  t3 = t3
  c1 = c1
  NoRig = NoRig
  NoItem = NoItem
  NoTask = NoTask
  Items = {i1}
  Rigs = {r1}
  Tasks = {t1, t2}
  Callers = {c1}
  Remote = {}
  Outsiders = {}
  Shared = {r1}
  MaxRetries = 0
SYMMETRY LoopSymmetry
INVARIANTS
  OneWorkerPerRig
CHECK_DEADLOCK FALSE
