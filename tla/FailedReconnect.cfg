SPECIFICATION ClientSpec
CONSTANTS
    a1=a1 a2=a2 s1=s1 s2=s2 c1=c1 c2=c2 f1=f1 f2=f2
    AppThreads = {a1}
    SubThreads = {s1, s2}
    Threads <- AllThreads
    NoThread = NoThread
    Channels = {c1}
    NoChannel = NoChannel
    Callbacks = {f1,f2}
    MaxContexts = 4
    MaxChannels = 2
    MaxMessages = 0
    MaxPublishes = 1
    MaxSubscribes = 1
    Faults = {"connect"}
    AppCalls = {"init","close","publish","subscribe"}
    CallbackCalls = {"publish"}
    Reinit = TRUE
    AppMethods = {"connect","disconnect","publish","subscribe"}
    CallbackMethods = {}
    GuardedDispose = TRUE
    Resubscribe = FALSE
INVARIANTS ConnectedIsOpen
CHECK_DEADLOCK FALSE
