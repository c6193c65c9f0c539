\* Two workers on one item, removal, crash and one retry, under fairness and so without symmetry.
SPECIFICATION FairSpec
CONSTANTS
  i1 = i1
  i2 = i2
  r1 = r1
  r2 = r2
  rx = rx
  t1 = t1
  t2 = t2
  t3 = t3
  c1 = c1
  NoRig = NoRig
  NoItem = NoItem
  NoTask = NoTask
  Items = {i1}
  Rigs = {r1, r2}
  Tasks = {t1, t2}
  Callers = {c1}
  Remote = {}
  Outsiders = {}
  Shared = {}
  MaxRetries = 1
INVARIANTS
  SleepJustified
PROPERTIES
  ItemLeft
  WakesUp
CHECK_DEADLOCK FALSE
