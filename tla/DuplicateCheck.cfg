SPECIFICATION ComparatorSpec
SYMMETRY Symmetric
CONSTANTS
    Comparisons = {d1, d2, d3, d4}
    Ids = {a, b}
    Hashes = {h1, h2}
    Misses = {"null", "undefined"}
    SaveFuncs <- AnySave
    Absent = Absent
INVARIANTS
    OneFirst
    OneNewId
    VerdictsAgree
    LaterIsDuplicate
CHECK_DEADLOCK FALSE
