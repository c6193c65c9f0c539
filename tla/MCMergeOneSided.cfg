\* Two branches: a field that only one of them changed (refuted: the description).
SPECIFICATION OrderSpec
CONSTANTS
  Rigs = {r1, r2}
  NoRig = NoRig
  Tags = {x, y}
  Texts = {"long", "short"}
  NoItem = NoItem
  Items = {}
  Callers = {}
  Names = {}
  Kinds = {}
  NewTags = {}
  NoCall = NoCall
  NoBranch = NoBranch
  NoMerge = NoMerge
  MaxClock = 0
  MaxCommits = 0
  Branches = {1, 2}
  EditStatuses = {"Open", "Claimed", "Done"}
  EditRigs = {r1}
  Bases <- MCBases
  Ids = {}
  Holders = {}
  Tasks = {}
  Linkers = {}
  Pullers = {}
CHECK_DEADLOCK FALSE
INVARIANTS OneSidedKept
