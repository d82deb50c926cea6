SPECIFICATION FairSpec
CONSTANTS
    a=a b=b p=p
    NoName=NoName
    Channels={a}
    Patterns={}
    Targets <- SingleA
    MaxCommands=2
    MaxReplied=2
    Silent={2}
    MaxMessages=1
    Resp3=TRUE
    Options={"command_timeout","connect_timeout"}
    Faults={"refuse","nodelay","drop","deny"}
    Habits={}
PROPERTIES EveryCommandSettled EndsWhenAsked
CHECK_DEADLOCK FALSE
