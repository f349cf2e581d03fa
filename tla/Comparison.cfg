SPECIFICATION FairSpec
CONSTANTS
  Runs = {r1, r2, r3}
  Priced = {r2, r3}
  Steps = 4
INVARIANTS
  TickedIsOnItsWay
PROPERTIES
  ComesToRest
CHECK_DEADLOCK FALSE
