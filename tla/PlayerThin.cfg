SPECIFICATION Spec
CONSTANTS
  MaxEntries = 2
  CAP = 3
  Rates = {1, 2}
  FitTicks = 4
  Frames = 3
  Presses = 3
  Boxes <- MCBoxes
  History <- Followed
  Bill <- FollowedBill
  ServiceRank <- MCServiceRank
  NameRank <- MCNameRank
CHECK_DEADLOCK FALSE
INVARIANT ChartsHoldWhatIsNow
