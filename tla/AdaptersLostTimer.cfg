SPECIFICATION AdapterSpec
CONSTANTS
    Adapters <- LostTimers
    TickLate = FALSE
INVARIANTS TimerNotLost
CHECK_DEADLOCK FALSE
