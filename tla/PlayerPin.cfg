SPECIFICATION Spec
CONSTANTS
  MaxEntries = 2
  CAP = 3
  Rates = {1, 2}
  FitTicks = 4
  Frames = 3
  Presses = 3
  Boxes <- MCBoxes
  History <- Watched
  Bill <- WatchedBill
  ServiceRank <- MCServiceRank
  NameRank <- MCNameRank
CHECK_DEADLOCK FALSE
PROPERTY PressClosesIt
