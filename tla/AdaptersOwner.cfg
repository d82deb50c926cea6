SPECIFICATION AdapterSpec
CONSTANTS
    Adapters <- DestroyedByOwner
    TickLate = FALSE
INVARIANTS NothingUsedAfterFree
CHECK_DEADLOCK FALSE
