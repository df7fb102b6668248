SPECIFICATION Spec
CONSTANTS
  a1 = a1
  c1 = c1
  a2 = a2
  c2 = c2
  a3 = a3
  c3 = c3
  Root = Root
  User = User
  Nobody = Nobody
  Agents = {a1, a2}
  Calls = {c1, c2}
  MaxDepth = 3
  MaxRunning = 9
  Ways = {"task", "spawn"}
  FreshIds = TRUE
  Plans <- StopRestartPause
  MaxFailures = 0
INVARIANTS WaiterNotForgotten  NoLostWakeup
 
SYMMETRY Symmetry
CHECK_DEADLOCK FALSE
