SPECIFICATION FairSpec
CONSTANTS
    c1 = c1
    c2 = c2
    i1 = i1
    i2 = i2
    Callers = {c1, c2}
    Instances = {i1, i2}
    Owner <- OwnInstance
    Keys = {k1, k2}
    Values = {v1, v2}
    None = None
INVARIANTS
    MutualExclusion
    HandleIsHeld
    LateGrantIgnored
PROPERTIES
    ReleaseWithinInstance
    AcquireSettles
    ImplementsLease
CHECK_DEADLOCK FALSE
