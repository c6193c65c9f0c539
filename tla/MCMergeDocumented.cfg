\* What the documentation says besides: the higher status wins, in two merges already
\* (StatusIsMax); and the order of three merges does not matter (OrderIrrelevant).
SPECIFICATION OrderSpec
CONSTANTS
  Rigs = {r1, r2}
  NoRig = NoRig
  Tags = {x, y}
  Texts = {"long"}
  NoItem = NoItem
  Items = {}
  Callers = {}
  Names = {}
  Kinds = {}
  NewTags = {}
  NoCall = NoCall
  NoBranch = NoBranch
  NoMerge = NoMerge
  MaxClock = 0
  MaxCommits = 0
  Branches = {1, 2, 3}
  EditStatuses = {"Open", "Claimed", "Done"}
  EditRigs = {r1}
  Bases <- MCBases
  Ids = {}
  Holders = {}
  Tasks = {}
  Linkers = {}
  Pullers = {}
CHECK_DEADLOCK FALSE
INVARIANTS StatusIsMax
