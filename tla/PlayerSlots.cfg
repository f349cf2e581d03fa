SPECIFICATION Spec
CONSTANTS
  MaxEntries = 2
  CAP = 3
  Rates = {1, 2}
  FitTicks = 4
  Frames = 3
  Presses = 4
  Boxes <- MCBoxes
  History <- Filling
  Bill <- FillingBill
  ServiceRank <- MCServiceRank
  NameRank <- MCNameRank
CHECK_DEADLOCK FALSE
INVARIANT SlotsAreFresh
