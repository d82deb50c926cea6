SPECIFICATION Spec
CONSTANTS
    a1=a1 a2=a2 s1=s1 s2=s2 c1=c1 c2=c2 f1=f1 f2=f2
    AppThreads = {a1}
    SubThreads = {s1, s2}
    Threads <- AllThreads
    NoThread = NoThread
    Channels = {c1}
    NoChannel = NoChannel
    Callbacks = {f1}
    MaxContexts = 2
    MaxChannels = 2
    MaxMessages = 0
    MaxPublishes = 1
    MaxSubscribes = 0
    Faults = {"deny"}
    AppCalls = {"init","publish"}
    CallbackCalls = {}
    Reinit = FALSE
PROPERTIES PublishFailureReported
CHECK_DEADLOCK FALSE
