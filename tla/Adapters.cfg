SPECIFICATION AdapterSpec
CONSTANTS
    Adapters <- SoundAdapters
    TickLate = FALSE
INVARIANTS NoDanglingUse DataReleased TimerNotLost
CHECK_DEADLOCK FALSE
