SPECIFICATION Spec
CONSTANTS
    d1 = d1
    d2 = d2
    r1 = r1
    pauser = pauser
    stopper = stopper
    browser = browser
    t1 = t1
    t2 = t2
    None = None
    DevLoops = {d1, d2}
    TaskRuns = {r1}
    Controls = {pauser, stopper}
    Clients = {browser}
    Scenarios <- MCScenarios
    Order <- MCOrder
    EventCap = 2
    Capacity = 2
    MaxFaults = 1
    MaxAdvice = 1
INVARIANTS TasksOwned 
PROPERTIES StopEnds StreamsEnd
CHECK_DEADLOCK FALSE
