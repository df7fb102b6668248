SPECIFICATION FairSpec
CONSTANTS
  a1 = a1
  c1 = c1
  a2 = a2
  c2 = c2
  a3 = a3
  c3 = c3
  Root = Root
  User = User
  Nobody = Nobody
  Agents = {a1, a2}
  Calls = {c1, c2}
  MaxDepth = 3
  MaxRunning = 9
  Ways = {"task", "detached"}
  FreshIds = TRUE
  Plans <- OneStop
  MaxFailures = 1
PROPERTIES TaskAnswered QueuedIsHandled
CHECK_DEADLOCK FALSE
