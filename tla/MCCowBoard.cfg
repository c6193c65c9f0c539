\* Two rigs on branches and one caller, one item: every order of calls, merges and restarts;
\* three branches of one item, every three edits and every order of their merges; three
\* callers that listen and scan while one of them adds dependencies.
SPECIFICATION PartsSpec
CONSTANTS
  Rigs = {r1, r2}
  NoRig = NoRig
  Tags = {x, y}
  Texts = {"long"}
  NoItem = NoItem
  Items = {i1}
  Callers = {c1}
  Names = {r1, r2}
  Kinds = {"claim", "tag", "remove"}
  NewTags = {x}
  NoCall = NoCall
  NoBranch = NoBranch
  NoMerge = NoMerge
  MaxClock = 4
  MaxCommits = 2
  Branches = {1, 2, 3}
  EditStatuses = {"Open", "Claimed", "Done"}
  EditRigs = {r1}
  Bases <- MCBases
  Ids = {j1, j2}
  Holders = {r3}
  Tasks = {d1, d2, d3}
  Linkers = {d1}
  Pullers = {d1, d2}
SYMMETRY RigSymmetry
CHECK_DEADLOCK FALSE
INVARIANTS LogsAgree MirrorMatchesRows MergeConverges WakeupOwed ReadyResultUnblocked
PROPERTY MergeKeepsResolvedFields
