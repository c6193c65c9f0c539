\* Sub-tasks: a parent and two children, two concurrent calls, one of which may be dropped.
SPECIFICATION FairSpec
CONSTANTS
  i1 = i1
  i2 = i2
  i3 = i3
  r1 = r1
  r2 = r2
  c1 = c1
  c2 = c2
  c3 = c3
  Items = {i1, i2, i3}
  Rigs = {r1, r2}
  NoRig = NoRig
  NoItem = NoItem
  Callers = {c1, c2}
  Remote = {}
  Droppable = {c2}
  Linkers = {}
  Pullers = {}
INVARIANTS
  CascadeOwed
PROPERTIES
  ImplementsLifecycle
  CascadeCompletes
CHECK_DEADLOCK FALSE
