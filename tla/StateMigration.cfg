SPECIFICATION FairSpec
CONSTANTS
  MaxWrites = 2
  MaxStops = 4
  PlainAfterSealed = FALSE
INVARIANTS NothingLost
PROPERTIES BootSucceeds
CHECK_DEADLOCK FALSE
