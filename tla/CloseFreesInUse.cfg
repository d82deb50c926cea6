SPECIFICATION Spec
CONSTANTS
    a1=a1 a2=a2 s1=s1 s2=s2 c1=c1 c2=c2 f1=f1 f2=f2
    AppThreads = {a1}
    SubThreads = {s1, s2}
    Threads <- AllThreads
    NoThread = NoThread
    Channels = {c1}
    NoChannel = NoChannel
    Callbacks = {f1}
    MaxContexts = 2
    MaxChannels = 2
    MaxMessages = 0
    MaxPublishes = 0
    MaxSubscribes = 1
    Faults = {}
    AppCalls = {"init","subscribe","close"}
    CallbackCalls = {}
    Reinit = FALSE
INVARIANTS NoUseAfterFree
CHECK_DEADLOCK FALSE
