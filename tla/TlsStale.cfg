SPECIFICATION TlsFairSpec
CONSTANTS
    MaxCommands = 3
    MaxRenegotiations = 2
    Congested = TRUE
INVARIANTS ReadBeforeWrite
CHECK_DEADLOCK FALSE
