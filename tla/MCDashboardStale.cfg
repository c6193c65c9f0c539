\* Once nothing changes any more, does the page show the board?
SPECIFICATION FairSpec
CONSTANTS
  Capacity = 1
  MaxWire = 1
  Fetches = {1, 2}
  MaxChanges = 2
  MaxDrops = 0
  MaxFails = 0
PROPERTIES
  ShowsBoard
CHECK_DEADLOCK FALSE
