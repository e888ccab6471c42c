SPECIFICATION FairEndpointSpec
CONSTANTS
    Calls = {g1, g2}
    Stops = {s1, s2}
    Fsps = {f1}
    Proxies = {p1}
    None = None
INVARIANTS
    LostOnlyFromStop
    TypeErrorOnlyFromStop
PROPERTIES
    EndpointsSettle
CHECK_DEADLOCK FALSE
