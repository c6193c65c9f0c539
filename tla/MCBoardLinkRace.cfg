\* Two callers add dependencies at the same time.
SPECIFICATION Spec
CONSTANTS
  i1 = i1
  i2 = i2
  i3 = i3
  r1 = r1
  r2 = r2
  c1 = c1
  c2 = c2
  c3 = c3
  Items = {i1, i2}
  Rigs = {r1}
  NoRig = NoRig
  NoItem = NoItem
  Callers = {c1, c2}
  Remote = {}
  Droppable = {}
  Linkers = {c1, c2}
  Pullers = {}
SYMMETRY ItemSymmetry
INVARIANTS
  NoDependencyCycle
CHECK_DEADLOCK FALSE
