SPECIFICATION Spec
CONSTANTS
    MaxTriggers = 3
    create = create
    update = update
    delete = delete
    Scenarios <- MCScenarios
    MaxKept = 2
    Retries = 1
    None = None
INVARIANTS OutcomeTold RegistryCurrent
PROPERTIES NewestKept RunSettles
CHECK_DEADLOCK FALSE
