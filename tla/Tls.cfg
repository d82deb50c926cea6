SPECIFICATION TlsFairSpec
CONSTANTS
    MaxCommands = 3
    MaxRenegotiations = 2
    Congested = TRUE
INVARIANTS RepeatedAsBefore WriteNotForgotten
PROPERTIES EveryCommandSent EveryReplyRead
CHECK_DEADLOCK FALSE
