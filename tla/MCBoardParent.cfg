\* Sub-tasks all Done, nothing running: is the parent Done?
SPECIFICATION Spec
CONSTANTS
  i1 = i1
  i2 = i2
  i3 = i3
  r1 = r1
  r2 = r2
  c1 = c1
  c2 = c2
  c3 = c3
  Items = {i1, i2, i3}
  Rigs = {r1, r2}
  NoRig = NoRig
  NoItem = NoItem
  Callers = {c1}
  Remote = {}
  Droppable = {}
  Linkers = {}
  Pullers = {}
SYMMETRY ItemSymmetry
INVARIANTS
  ParentFollowsChildren
CHECK_DEADLOCK FALSE
