SPECIFICATION FairSpec
CONSTANTS
    c1 = c1
    c2 = c2
    i1 = i1
    i2 = i2
    Callers = {c1, c2}
    Instances = {i1}
    Owner <- OneInstance
    Keys = {k1}
    Values = {v1, v2}
    None = None
PROPERTIES
    AcquireSettles
CHECK_DEADLOCK FALSE
