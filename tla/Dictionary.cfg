SPECIFICATION DictSpec
CONSTANTS
    Keys = {1, 2, 3, 4, 5}
    Values = {"x", "y"}
    Hash <- FiveHash
    InitialSize = 2
    MayFail = TRUE
INVARIANTS TableSound
PROPERTIES IsMap
CHECK_DEADLOCK FALSE
