SPECIFICATION FairSpec
CONSTANTS
    Gets = {1, 2, 3}
    Fsps = {f1}
    AllProxies = allProxies
    Urls = {u1}
    MaxVersion = 1
    MaxModules = 1
    None = None
CONSTRAINTS
    BegunInOrder
INVARIANTS
    StaleOnlyFromRace
    ErrorDropped
PROPERTIES
    GetsSettle
CHECK_DEADLOCK FALSE
