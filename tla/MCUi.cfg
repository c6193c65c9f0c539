\* A page, a channel that overflows at once, one lost connection and one failed request;
\* three lines entered while answers of up to two texts come through a channel for one message.
SPECIFICATION UiSpec
CONSTANTS
  Capacity = 1
  MaxWire = 1
  Fetches = {1, 2}
  MaxChanges = 3
  MaxDrops = 1
  MaxFails = 1
  ChatCapacity = 1
  MaxInputs = 3
  MaxPieces = 2
INVARIANTS
  RefreshOwed
  AnswersApart
PROPERTIES
  PageCatchesUp
  BusyEnds
CHECK_DEADLOCK FALSE
