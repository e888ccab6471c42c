SPECIFICATION FairSpec
CONSTANTS
    Calls = {p1, p2, p3}
    Channels = {a, b}
    Attempts = 2
    Overlap = FALSE
    Resubscribe = FALSE
    None = None
INVARIANTS
    Tracked
    RecordedDelivers
    
PROPERTIES
    CallsSettle
CHECK_DEADLOCK FALSE
