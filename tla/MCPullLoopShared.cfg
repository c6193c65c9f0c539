\* Three starts under two ids, one of which may be started twice: what the others are owed.
SPECIFICATION Spec
CONSTANTS
  i1 = i1
  i2 = i2
  r1 = r1
  r2 = r2
  rx = rx
  t1 = t1
  t2 = t2
  t3 = t3
  c1 = c1
  NoRig = NoRig
  NoItem = NoItem
  NoTask = NoTask
  Items = {i1}
  Rigs = {r1, r2}
  Tasks = {t1, t2, t3}
  Callers = {c1}
  Remote = {c1}
  Outsiders = {}
  Shared = {r2}
  MaxRetries = 0
CONSTRAINT RemovedBeforeLast
SYMMETRY LoopSymmetry
INVARIANTS
  WorkUndisturbed
  ClaimsAccounted
CHECK_DEADLOCK FALSE
