SPECIFICATION FairSpec
CONSTANTS
  t1 = t1
  t2 = t2
  Tools = {t1, t2}
  Barred = {t1}
  Integrated = {t2}
  Override <- NoOverride
  Defaults <- AskOrAllow
  HasPrompter = TRUE
  Hooks = TRUE
  PerToolTimeout = 3
  ApprovalWindow = 2
  MaxBatches = 2
  MaxSlots = 2
  MaxCalls = 2
  MaxTurns = 1
  MaxUpsets = 1
INVARIANTS RunsOnlyApproved
CHECK_DEADLOCK FALSE
PROPERTIES BatchEnds
