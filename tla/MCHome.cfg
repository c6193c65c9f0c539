\* A worker, two chats and a cleanup on the logs of two sessions; two skill commands of two
\* processes, with a new revision in between and one mishap.
SPECIFICATION HomeSpec
CONSTANTS
  Names = {}
  InitTree <- MCNoTree
  PageSize = 1
  MaxIds = 1
  MaxHandles = 0
  MaxReplies = 0
  MaxRefs = 0
  MaxChanges = 0
  Procs = {p, q}
  PageBytes = 1
  Ram = 0
  FileSizes = {}
  ImageSizes = {}
  ArchiveSizes = {}
  TreeSizes = {}
  MaxBoots = 0
  MaxMishaps = 1
  Workers = {"w"}
  Chats = {o1, o2}
  Cleaners = {"c"}
  Tasks = {1}
  Capacity = 2
  MaxSessions = 1
  MaxEntries = 3
  MaxTorn = 1
  SkillNames = {"a", "b"}
  Offers <- MCOffers
  FilesAt <- MCFilesAt
  MaxCommands = 2
INVARIANTS
  LogComplete
  CapacityKept
  InstalledWhole
SYMMETRY MCSymmetry
CHECK_DEADLOCK FALSE
