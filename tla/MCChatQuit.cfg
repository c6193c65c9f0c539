\* Does the loop end some time after /quit?
SPECIFICATION FairSpec
CONSTANTS
  Capacity = 1
  MaxInputs = 1
  MaxPieces = 2
PROPERTIES
  QuitLeaves
CHECK_DEADLOCK FALSE
