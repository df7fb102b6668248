SPECIFICATION Spec
CONSTANTS
    writer = writer
    stopper = stopper
    Senders = {writer, stopper}
    Cancellers = {stopper}
    PreserveRecent = 3
    MinSpan = 4
    InitialHistories <- MCHistories
    MaxIterations = 3
    MaxTaskIterations = 3
    MaxTurns = 2
    MaxRetries = 1
    MaxRecoveries = 1
    EditLimit = 2
    ImplementNow = 1
    MaxCalls = 2
    MaxEffort = 2
INVARIANTS TranscriptPaired  RanIsRecorded  WithinBudget RequestIsSendable
PROPERTY TaskEnds
