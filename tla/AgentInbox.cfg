SPECIFICATION FairSpec
CONSTANTS
  a1 = a1
  s1 = s1
  c1 = c1
  c2 = c2
  Clients = {c1}
  MaxTx = 3
  Admins = {a1}
  Sessions = {s1}
  Poison <- SecondIsPoison
  StatusWindow = 2
  MaxFailures = 1
  MaxCrashes = 1
  Other = Other
INVARIANTS NothingLost
PROPERTIES ImplementsFifo 
CHECK_DEADLOCK FALSE
