SPECIFICATION Spec
SYMMETRY Symmetric
CONSTANTS
    k1 = k1
    k2 = k2
    a = a
    b = b
    Calls = {r1, r2, r3}
    Ops <- SomeOps
    Keys = {k1, k2}
    NodeOf <- TwoNodes
    Channels = {a, b}
    Attempts = 2
    MaxFailures = 2
    None = None
INVARIANTS
    Cleared
    OnceUnlessRetried
    BroadcastPrefix
    RefusedOnlyInRace
CHECK_DEADLOCK FALSE
