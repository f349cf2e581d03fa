SPECIFICATION FairSpec
CONSTANTS
  MaxEntries = 2
  CAP = 3
  Rates = {1, 2}
  FitTicks = 4
  Frames = 3
  Presses = 3
  Boxes <- MCBoxes
  History <- MCHistory
  Bill <- MCBill
  ServiceRank <- MCServiceRank
  NameRank <- MCNameRank
INVARIANTS
  TypeOK
  EveryPageReadsTheTrace
  ThePictureIsLegible
  TimeIsAccountedFor
  EveryCutAddsUp
  FacesAreFresh
PROPERTIES
  RunsForward
  SavingEnds
CHECK_DEADLOCK FALSE
