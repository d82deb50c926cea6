SPECIFICATION ReaderFairSpec
CONSTANTS
    Streams <- SomeStreams
    StackSize = 2
    MaxElements = 4
    DiscardAt = 3
    MayFail = TRUE
INVARIANTS
    RepliesAsSent
    NothingWithheld
    ReaderSound
PROPERTIES
    EveryReplyReturned
CHECK_DEADLOCK FALSE
