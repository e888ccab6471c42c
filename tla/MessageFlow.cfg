SPECIFICATION FlowSpec
SYMMETRY Symmetric
CONSTANTS
    Requests = {r1, r2}
    Plans <- SomePlans
    Configured <- SomeConfigured
    MaxBatch = 2
INVARIANTS
    RoutesAgree
    PayloadKept
    BatchLostToOne
CHECK_DEADLOCK FALSE
