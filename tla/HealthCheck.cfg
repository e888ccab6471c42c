SPECIFICATION Spec
SYMMETRY Symmetric
CONSTANTS
    Calls = {c1, c2, h1}
    Healths = {h1}
    Retries = 1
    MaxOutages = 2
    None = None
INVARIANTS
    HealthIsRecent
    FailuresCounted
    PoolClosedAtExit
CHECK_DEADLOCK FALSE
