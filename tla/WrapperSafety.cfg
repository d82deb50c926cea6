SPECIFICATION ClientSpec
CONSTANTS
    a1=a1 a2=a2 s1=s1 s2=s2 c1=c1 c2=c2 f1=f1 f2=f2
    AppThreads = {a1,a2}
    SubThreads = {s1}
    Threads <- AllThreads
    NoThread = NoThread
    Channels = {c1,c2}
    NoChannel = NoChannel
    Callbacks = {f1,f2}
    MaxContexts = 2
    MaxChannels = 2
    MaxMessages = 1
    MaxPublishes = 1
    MaxSubscribes = 2
    Faults = {"connect","drop","spawn"}
    AppCalls = {"init","close","publish","subscribe"}
    CallbackCalls = {"publish"}
    Reinit = FALSE
    AppMethods = {"connect","disconnect","publish","subscribe"}
    CallbackMethods = {"publish"}
    GuardedDispose = TRUE
    Resubscribe = FALSE
INVARIANTS CallbacksAlive ConnectedIsOpen NoDoubleFree CallersFindLock
SYMMETRY Symmetry
CHECK_DEADLOCK FALSE
