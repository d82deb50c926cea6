SPECIFICATION Spec
CONSTANTS
    a=a b=b p=p
    NoName=NoName
    Channels={a}
    Patterns={p}
    Targets <- PatternTargets
    MaxCommands=3
    MaxReplied=2
    Silent={2}
    MaxMessages=1
    Resp3=TRUE
    Options={"command_timeout","connect_timeout","no_auto_free"}
    Faults={"refuse","nodelay","drop","deny"}
    Habits={}
INVARIANTS NoAbort MessagesHaveCallback TeardownAlone NoReplyLost NothingRegisteredLate SubscribedModeExact
PROPERTIES CallbacksInOrder
CHECK_DEADLOCK FALSE
