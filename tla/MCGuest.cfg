\* The files of a worktree under every request, with one change on the host; two boots of two
\* processes, with one mishap, in a memory of three pages and sizes around its boundaries.
SPECIFICATION GuestSpec
CONSTANTS
  Names = {1, 2}
  InitTree <- MCInitTree
  PageSize = 1
  MaxIds = 4
  MaxHandles = 2
  MaxReplies = 1
  MaxRefs = 2
  MaxChanges = 1
  Procs = {"p", "q"}
  PageBytes = 2
  Ram = 6
  FileSizes = {1}
  ImageSizes = {1, 4}
  ArchiveSizes = {1, 3}
  TreeSizes = {1}
  MaxBoots = 2
  MaxMishaps = 1
  Workers = {}
  Chats = {}
  Cleaners = {}
  Tasks = {}
  Capacity = 0
  MaxSessions = 0
  MaxEntries = 0
  MaxTorn = 0
  SkillNames = {"a", "b"}
  Offers <- MCOffers
  FilesAt <- MCFilesAt
  MaxCommands = 0
INVARIANTS
  RefsBalance
  GuestView
  ImageWhole
  PlacedApart
PROPERTIES
  IdsAreStable
  BootEnds
CHECK_DEADLOCK FALSE
