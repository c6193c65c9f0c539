\* One item, three tasks, callers in another process, two retries.
SPECIFICATION Spec
CONSTANTS
  i1 = i1
  i2 = i2
  r1 = r1
  r2 = r2
  rx = rx
  t1 = t1
  t2 = t2
  t3 = t3
  c1 = c1
  NoRig = NoRig
  NoItem = NoItem
  NoTask = NoTask
  Items = {i1}
  Rigs = {r1, rx}
  Tasks = {t1, t2, t3}
  Callers = {c1}
  Remote = {c1}
  Outsiders = {rx}
  Shared = {}
  MaxRetries = 2
SYMMETRY LoopSymmetry
INVARIANTS
  TypeOK
  WorkUndisturbed
  ClaimsAccounted
CHECK_DEADLOCK FALSE
