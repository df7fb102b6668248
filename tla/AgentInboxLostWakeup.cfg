SPECIFICATION FairSpec
CONSTANTS
  a1 = a1
  s1 = s1
  c1 = c1
  c2 = c2
  Clients = {c1}
  MaxTx = 2
  Admins = {}
  Sessions = {}
  Poison = {}
  StatusWindow = 2
  MaxFailures = 0
  MaxCrashes = 0
  Other = Other
PROPERTY EventuallyRecorded
CHECK_DEADLOCK FALSE
