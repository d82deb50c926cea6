SPECIFICATION AdapterSpec
CONSTANTS
    Adapters <- TwoHandlers
    TickLate = FALSE
INVARIANTS NoDanglingUse
CHECK_DEADLOCK FALSE
