SPECIFICATION Spec
CONSTANTS
    Gets = {g1, g2}
    Fsps = {f1, f2}
    AllProxies = allProxies
    Urls = {u1, u2}
    MaxVersion = 0
    MaxModules = 1
    None = None
INVARIANTS
    AsksNamedSwitch
CHECK_DEADLOCK FALSE
