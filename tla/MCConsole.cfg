SPECIFICATION FairSpec
CONSTANTS
  Size = 2
  Width = 4
  Execs = 2
  Room = 1
  MaxTries = 2
  Resets = 1
INVARIANTS
  StreamIntact
  AnswerIsOwn
  SleeperIsWoken
PROPERTIES
  ExecEnds
  QueuesAreFifos
CHECK_DEADLOCK FALSE
