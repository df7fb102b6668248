SPECIFICATION Spec
CONSTANTS
    r1 = r1
    r2 = r2
    r3 = r3
    p = p
    q = q
    Requests = {r1, r2, r3}
    signin = signin
    unlink = unlink
    identity = identity
    Providers = {p, q}
    Wants <- MCWants
    Scenarios <- MCScenarios
    None = None
 
PROPERTIES ReauthIsFinal RequestsAnswered
CHECK_DEADLOCK FALSE
