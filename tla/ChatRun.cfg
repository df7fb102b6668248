SPECIFICATION FairSpec
CONSTANTS
  s1 = s1
  Sockets = {s1}
  MaxEffort = 2
  Commands = {"user", "cancel", "generate", "approval"}
  MaxCommands = 1
  MaxDeltas = 1
  OutCap = 1
  Capacity = 1
INVARIANTS NoLostMail ExactlyOnce NoStrayTurn
PROPERTIES  MailIsHandled AttachCatchesUp ReapLosesNothing
CHECK_DEADLOCK FALSE
