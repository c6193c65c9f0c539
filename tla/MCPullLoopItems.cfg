\* Two workers and an outsider in one process.
SPECIFICATION Spec
CONSTANTS
  i1 = i1
  i2 = i2
  r1 = r1
  r2 = r2
  rx = rx
  t1 = t1
  t2 = t2
  t3 = t3
  c1 = c1
  NoRig = NoRig
  NoItem = NoItem
  NoTask = NoTask
  Items = {i1, i2}
  Rigs = {r1, r2}
  Tasks = {t1, t2}
  Callers = {c1}
  Remote = {}
  Outsiders = {}
  Shared = {}
  MaxRetries = 0
SYMMETRY LoopSymmetry
INVARIANTS
  SleepJustified
  WorkUndisturbed
  ClaimsAccounted
CHECK_DEADLOCK FALSE
