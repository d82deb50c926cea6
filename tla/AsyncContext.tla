---------------------------- MODULE AsyncContext ----------------------------
(***************************************************************************)
(* A redisAsyncContext of the vendored hiredis library (async.c), the      *)
(* application that uses it, its event loop and the Redis server.          *)
(*                                                                         *)
(* One thread runs everything.  Callbacks run in the middle of the         *)
(* library's functions and may issue commands, disconnect and free: pc is  *)
(* the function of the library that is running, frame the callback it is   *)
(* in.  Streams are sequences of whole commands and replies, each command  *)
(* is executed by the server when it is written.  The dictionaries of      *)
(* subscriptions are functions (what dict.c implements, module Dict).      *)
(***************************************************************************)
EXTENDS Integers, SequencesExt

CONSTANTS
    Channels, Patterns, \* names of subscriptions, of the two kinds
    NoName,             \* the name in the answer to an unsubscription from nothing
    Targets,            \* lists of names that one command may carry, of one kind each
    MaxCommands,        \* bound: commands the application issues
    MaxReplied,         \* bound: those of them that have a reply of their own
    Silent,             \* commands that are issued without a callback, by number
    MaxMessages,        \* bound: messages and spontaneous pushes of the server
    Resp3,              \* the protocol: RESP3 has push replies, RESP2 has not
    Options,            \* subset of {"no_auto_free", "connect_timeout", "command_timeout"}
    Faults,             \* subset of {"refuse", "nodelay", "drop", "deny"}
    Habits              \* what the application does: subset of AllHabits

AllHabits == {"end_in_push", "resubscribe", "mixed", "monitor", "arrays"}

ASSUME AsyncAssumption ==
    /\ Channels \cap Patterns = {} /\ NoName \notin Channels \cup Patterns
    /\ MaxCommands \in Nat /\ MaxMessages \in Nat /\ MaxReplied \in Nat
    /\ Resp3 \in BOOLEAN /\ Habits \subseteq AllHabits
    /\ \A l \in Targets : l \in Seq(Channels) \cup Seq(Patterns)

Names == Channels \cup Patterns
Kinds == {Channels, Patterns}
Ids == 1 .. MaxReplied

VARIABLES
    flags,         \* c->flags: "connected", "disconnecting", "freeing", ...
    err,           \* c->err # 0
    replies,       \* ac->replies: numbers of the commands that wait for a reply
    subReplies,    \* ac->sub.replies: the same, issued while subscribed
    subs,          \* ac->sub.channels and ac->sub.patterns
    pendingUnsubs, \* ac->sub.pending_unsubs
    obuf,          \* c->obuf: commands not written yet
    reader,        \* c->reader: replies read and not processed yet
    events,        \* what the event library watches: "read", "write", "timer"
    attached,      \* ac->ev.cleanup # NULL
    pc,            \* the function that runs, "idle": the event loop
    handler,       \* the handler the event loop called
    frame,         \* the callback that runs
    sock,          \* the socket: "connecting", "refused", "up" or "dead"
    stream,        \* replies of the server on their way
    served,        \* server: the names the connection is subscribed to
    monitor,       \* server: number of the MONITOR command, 0: none
    issued,        \* number of commands the application issued
    calls,         \* number of those that have a reply of their own
    published,     \* number of messages and pushes the server sent
    log            \* replies the callbacks got, in order; 0 stands for NULL

queueVars == <<replies, subReplies, subs, pendingUnsubs>>
serverVars == <<sock, stream, served, monitor, published>>
countVars == <<issued, calls>>
loopVars == <<pc, handler, frame>>
vars == <<flags, err, queueVars, obuf, reader, events, attached, loopVars,
          serverVars, countVars, log>>

NoFrame == [at |-> "none", id |-> 0]
Frames == {"none", "reply", "push", "connected", "refused", "timeout", "free", "gone"}
Subscription == [pending : Nat, sent : BOOLEAN]
Command == [op : {"call", "monitor"}, id : Ids]
           \cup [op : {"subscribe", "unsubscribe"}, names : Seq(Names)]
           \cup [op : {"unsubscribe_all"}, kind : Kinds]
Reply == [kind : {"reply", "array", "error"}, id : 0 .. MaxReplied]
         \cup [kind : {"subscribe", "unsubscribe"}, name : Names \cup {NoName}, count : Nat]
         \cup [kind : {"message"}, name : Names]
         \cup [kind : {"push"}]

(* The type invariant.                                                      *)
TypeOK ==
    /\ flags \subseteq {"connected", "disconnecting", "freeing", "in_callback", "subscribed",
                        "monitoring", "supports_push", "no_auto_free"}
    /\ err \in BOOLEAN /\ attached \in BOOLEAN
    /\ replies \in Seq(0 .. MaxReplied) /\ subReplies \in Seq(Ids)
    /\ DOMAIN subs \subseteq Names /\ \A n \in DOMAIN subs : subs[n] \in Subscription
    /\ pendingUnsubs \in Nat
    /\ obuf \in Seq(Command) /\ reader \in Seq(Reply) /\ stream \in Seq(Reply)
    /\ events \subseteq {"read", "write", "timer"}
    /\ pc \in {"idle", "read", "write", "process", "timeout", "callback", "free", "freed", "abort"}
    /\ handler \in {"read", "write", "timeout", "none"}
    /\ frame \in [at : Frames, id : 0 .. MaxReplied]
    /\ sock \in {"connecting", "refused", "up", "dead"}
    /\ served \subseteq Names
    /\ monitor \in 0 .. MaxReplied /\ issued \in 0 .. MaxCommands
    /\ calls \in 0 .. MaxReplied /\ published \in 0 .. MaxMessages
    /\ log \in Seq([id : Ids, got : 0 .. MaxReplied])

-----------------------------------------------------------------------------
(* Helpers of async.c and async_private.h.                                  *)

(* Mutant: the timer is started, the event is forgotten.                    *)
WatchTimerOnly(what, f) ==
    events \cup
    (IF (IF "connected" \in f THEN "command_timeout" ELSE "connect_timeout") \in Options
     THEN {"timer"} ELSE {})

(* _EL_ADD_READ and _EL_ADD_WRITE also start the timer, if one is set.      *)
Watch(what, f) ==
    events \cup what \cup
    (IF (IF "connected" \in f THEN "command_timeout" ELSE "connect_timeout") \in Options
     THEN {"timer"} ELSE {})

(* __redisRunCallback and its variants: control goes to the application.    *)
RunCallback(at, id, f) ==
    /\ flags' = f \cup {"in_callback"}
    /\ pc' = "callback" /\ frame' = [at |-> at, id |-> id]

(* The callback of command id is given the reply got; without a callback    *)
(* the command is settled silently.  Number 0 is no command.                *)
HasCallback(id) == id \notin Silent \cup {0}
RunReplyCallback(id, got, at, f) ==
    /\ log' = IF id = 0 THEN log ELSE Append(log, [id |-> id, got |-> got])
    /\ IF HasCallback(id) THEN RunCallback(at, id, f) ELSE flags' = f /\ UNCHANGED <<pc, frame>>

(* __redisAsyncDisconnect, for flags f and error e.  It must not be called  *)
(* without an error while a command waits.                                  *)
EnterDisconnect(f, e) ==
    /\ err' = e
    /\ IF ~e /\ replies # <<>>
       THEN /\ pc' = "abort" /\ flags' = f /\ UNCHANGED <<attached, events>>
       ELSE /\ flags' = IF e THEN f \cup {"disconnecting"} ELSE f
            /\ attached' = FALSE /\ events' = {}
            /\ pc' = IF "no_auto_free" \in f THEN "idle" ELSE "free"

(* Mutant: a clean disconnect does not wait for replies.                    *)
AsyncDisconnectAtOnce(f) ==
    EnterDisconnect((f \cup {"disconnecting"}) \ {"no_auto_free"}, err)

(* redisAsyncDisconnect outside a callback.                                 *)
AsyncDisconnect(f) ==
    LET g == (f \cup {"disconnecting"}) \ {"no_auto_free"}
    IN IF replies = <<>> THEN EnterDisconnect(g, err)
       ELSE flags' = g /\ pc' = "idle" /\ UNCHANGED <<err, attached, events>>

-----------------------------------------------------------------------------
Init ==
    /\ flags \in SUBSET (Options \cap {"no_auto_free"})
    /\ err = FALSE /\ replies = <<>> /\ subReplies = <<>>
    /\ subs = <<>> /\ pendingUnsubs = 0
    /\ obuf = <<>> /\ reader = <<>> /\ attached = TRUE
    /\ events = {"write"} \cup (IF "connect_timeout" \in Options THEN {"timer"} ELSE {})
    /\ pc = "idle" /\ handler = "none" /\ frame = NoFrame
    /\ sock = "connecting" /\ stream = <<>> /\ served = {} /\ monitor = 0
    /\ issued = 0 /\ calls = 0 /\ published = 0 /\ log = <<>>

(* The application runs between events and in callbacks.                    *)
AppRuns == pc \in {"idle", "callback"}

-----------------------------------------------------------------------------
(* __redisAsyncCommand, one action per kind of command.                     *)

(* Mutant: commands are accepted while the connection is being closed.      *)
AcceptingAlways == TRUE

Accepting == flags \cap {"disconnecting", "freeing"} = {}

(* The end of the function: append the command, schedule a write.           *)
IssueCommand(command, f) ==
    /\ AppRuns /\ Accepting /\ issued < MaxCommands
    /\ issued' = issued + 1
    /\ obuf' = Append(obuf, command)
    /\ events' = Watch({"write"}, f)
    /\ flags' = f
    /\ UNCHANGED <<err, reader, attached, loopVars, serverVars, log>>

(* MONITOR sets a flag as well, and always waits in ac->replies.            *)
Call ==
    /\ calls < MaxReplied
    /\ calls' = calls + 1
    /\ \E op \in {"call"} \cup (Habits \cap {"monitor"}) :
          /\ IF "subscribed" \in flags /\ op = "call"
             THEN subReplies' = Append(subReplies, calls') /\ UNCHANGED replies
             ELSE replies' = Append(replies, calls') /\ UNCHANGED subReplies
          /\ IssueCommand([op |-> op, id |-> calls'],
                          flags \cup (IF op = "monitor" THEN {"monitoring"} ELSE {}))
    /\ UNCHANGED <<subs, pendingUnsubs>>

(* dictReplace.                                                             *)
Replaced(dict, n, entry) == [k \in DOMAIN dict \cup {n} |-> IF k = n THEN entry ELSE dict[k]]

(* Each name of the list gets a fresh entry.  One redisCallback is used for *)
(* the whole list, and keeps the pending_subs of the last name it replaced. *)
Subscribed(names) ==
    LET step[i \in 0 .. Len(names)] ==
            IF i = 0 THEN [subs |-> subs, pending |-> 1]
            ELSE LET n == names[i]
                     due == IF n \in DOMAIN step[i - 1].subs
                            THEN step[i - 1].subs[n].pending + 1 ELSE step[i - 1].pending
                 IN [subs |-> Replaced(step[i - 1].subs, n, [pending |-> due, sent |-> FALSE]),
                     pending |-> due]
    IN step[Len(names)].subs

Subscribe(names) ==
    /\ names # <<>>
    /\ "resubscribe" \in Habits \/ pendingUnsubs = 0
    /\ "mixed" \in Habits \/ Len(names) = 1 \/ Range(names) \cap DOMAIN subs = {}
    /\ subs' = Subscribed(names)
    /\ UNCHANGED <<replies, subReplies, pendingUnsubs, calls>>
    /\ IssueCommand([op |-> "subscribe", names |-> names], flags \cup {"subscribed"})

(* Mutant: the callbacks are dropped when UNSUBSCRIBE is issued.            *)
UnsubscribeAtOnce(names) ==
    /\ names # <<>> /\ "subscribed" \in flags
    /\ subs' = [n \in DOMAIN subs \ Range(names) |-> subs[n]]
    /\ UNCHANGED <<replies, subReplies, pendingUnsubs, calls>>
    /\ IssueCommand([op |-> "unsubscribe", names |-> names], flags)

(* The entry of each name is marked, once; the answer for a name without an *)
(* entry to mark will be awaited and ignored.                               *)
Unsubscribed(names) ==
    LET step[i \in 0 .. Len(names)] ==
            IF i = 0 THEN [subs |-> subs, ignore |-> pendingUnsubs]
            ELSE LET n == names[i]
                 IN IF n \in DOMAIN subs /\ ~step[i - 1].subs[n].sent
                    THEN [step[i - 1] EXCEPT !.subs[n].sent = TRUE]
                    ELSE [step[i - 1] EXCEPT !.ignore = @ + 1]
    IN step[Len(names)]

Unsubscribe(names) ==
    /\ names # <<>> /\ "subscribed" \in flags
    /\ subs' = Unsubscribed(names).subs
    /\ pendingUnsubs' = Unsubscribed(names).ignore
    /\ UNCHANGED <<replies, subReplies, calls>>
    /\ IssueCommand([op |-> "unsubscribe", names |-> names], flags)

(* Mutant: the answer to an unsubscription from nothing is not counted.     *)
UnsubscribeAllUncounted(kind) ==
    LET open == {n \in DOMAIN subs \cap kind : ~subs[n].sent}
    IN /\ "subscribed" \in flags
       /\ subs' = [n \in DOMAIN subs |-> [subs[n] EXCEPT !.sent = @ \/ n \in open]]
       /\ UNCHANGED <<replies, subReplies, pendingUnsubs, calls>>
       /\ IssueCommand([op |-> "unsubscribe_all", kind |-> kind], flags)

UnsubscribeAll(kind) ==
    LET open == {n \in DOMAIN subs \cap kind : ~subs[n].sent}
    IN /\ "subscribed" \in flags
       /\ subs' = [n \in DOMAIN subs |-> [subs[n] EXCEPT !.sent = @ \/ n \in open]]
       /\ pendingUnsubs' = IF open = {} THEN pendingUnsubs + 1 ELSE pendingUnsubs
       /\ UNCHANGED <<replies, subReplies, calls>>
       /\ IssueCommand([op |-> "unsubscribe_all", kind |-> kind], flags)

(* Any function of the family that finds the connection about to be closed  *)
(* returns REDIS_ERR and changes nothing.                                   *)

-----------------------------------------------------------------------------
(* redisAsyncDisconnect and redisAsyncFree, called by the application.      *)

MayEnd == frame.at = "push" => "end_in_push" \in Habits

Disconnect ==
    /\ AppRuns /\ MayEnd
    /\ IF "in_callback" \in flags
       THEN /\ flags' = (flags \cup {"disconnecting"}) \ {"no_auto_free"}
            /\ UNCHANGED <<err, attached, events, pc>>
       ELSE AsyncDisconnect(flags)
    /\ UNCHANGED <<queueVars, obuf, reader, handler, frame, serverVars, countVars, log>>

(* Mutant: the context is freed under the callback that asks for it.        *)
FreeAtOnce ==
    /\ AppRuns /\ MayEnd
    /\ flags' = flags \cup {"freeing"} /\ pc' = "free"
    /\ UNCHANGED <<err, queueVars, obuf, reader, events, attached, handler, frame, serverVars,
                   countVars, log>>

Free ==
    /\ AppRuns /\ MayEnd
    /\ flags' = flags \cup {"freeing"}
    /\ pc' = IF "in_callback" \in flags THEN pc ELSE "free"
    /\ UNCHANGED <<err, queueVars, obuf, reader, events, attached, handler, frame, serverVars,
                   countVars, log>>

-----------------------------------------------------------------------------
(* redisProcessCallbacks: one turn of its loop.                             *)

(* A reply that __redisGetSubscribeCallback takes for a pushed message: any *)
(* array of three or more, until a push told that the protocol is RESP3.    *)
TakenForPushed(r) == r.kind \in {"subscribe", "unsubscribe", "message"}
                     \/ (r.kind = "array" /\ "supports_push" \notin flags)

(* A reply the server pushed in RESP3.                                      *)
IsPush(r) == \/ r.kind = "push"
             \/ Resp3 /\ r.kind \in {"subscribe", "unsubscribe", "message"}

(* Mutant: the last reply does not end a connection that is to be closed.   *)
NoReplyNoEnd ==
    /\ pc = "process" /\ reader = <<>>
    /\ pc' = "idle"
    /\ UNCHANGED <<flags, err, queueVars, obuf, reader, events, attached, handler, frame,
                   serverVars, countVars, log>>

NoReply ==
    /\ pc = "process" /\ reader = <<>>
    /\ IF "disconnecting" \in flags /\ obuf = <<>> /\ replies = <<>>
       THEN EnterDisconnect(flags, err)
       ELSE pc' = "idle" /\ UNCHANGED <<flags, err, attached, events>>
    /\ UNCHANGED <<queueVars, obuf, reader, handler, frame, serverVars, countVars, log>>

(* The flags of the context once it has seen the reply at hand.             *)
SeenFlags == flags \cup (IF IsPush(Head(reader)) THEN {"supports_push"} ELSE {})

SpontaneousPush ==
    /\ pc = "process" /\ reader # <<>> /\ Head(reader).kind = "push"
    /\ reader' = Tail(reader)
    /\ RunCallback("push", 0, SeenFlags)
    /\ UNCHANGED <<err, queueVars, obuf, events, attached, handler, serverVars, countVars, log>>

(* Mutant: every callback goes back to the queue.                           *)
RepushAlways(q, id) == Append(q, id)

(* In monitor mode the callback of a turn goes back to the queue.           *)
Repush(q, id) == IF "monitoring" \in flags THEN Append(q, id) ELSE q

(* A command waits: the reply is for its callback, whatever the reply is.   *)
ReplyToCommand ==
    /\ pc = "process" /\ reader # <<>> /\ Head(reader).kind # "push" /\ replies # <<>>
    /\ reader' = Tail(reader)
    /\ LET r == Head(reader)
           id == Head(replies)
           got == IF r.kind \in {"reply", "array", "error"} THEN r.id ELSE 0
       IN /\ RunReplyCallback(id, got, "reply", SeenFlags)
          /\ replies' = IF HasCallback(id) THEN Tail(replies) ELSE Repush(Tail(replies), id)
    /\ UNCHANGED <<err, subReplies, subs, pendingUnsubs, obuf, events, attached, handler,
                   serverVars, countVars>>

(* An error nobody waits for: the server is about to close the connection.  *)
SpontaneousError ==
    /\ pc = "process" /\ reader # <<>> /\ Head(reader).kind = "error" /\ replies = <<>>
    /\ reader' = Tail(reader)
    /\ EnterDisconnect(flags, TRUE)
    /\ UNCHANGED <<queueVars, obuf, handler, frame, serverVars, countVars, log>>

(* The reply is for no command of ac->replies.  The code asserts that the   *)
(* context is subscribed.                                                   *)
ForSubscription(kinds) ==
    /\ pc = "process" /\ reader # <<>> /\ replies = <<>>
    /\ Head(reader).kind \in kinds
    /\ reader' = Tail(reader)
    /\ UNCHANGED <<err, obuf, events, attached, handler, serverVars, countVars>>

Abort == pc' = "abort" /\ UNCHANGED <<flags, frame, queueVars, log>>

(* __redisGetSubscribeCallback, one action per kind of reply.               *)
ConfirmSubscribe ==
    /\ ForSubscription({"subscribe"})
    /\ LET n == Head(reader).name
       IN IF "subscribed" \in flags /\ n \in DOMAIN subs
          THEN /\ subs' = [subs EXCEPT ![n].pending = @ - 1]
               /\ RunCallback("reply", 0, SeenFlags)
               /\ UNCHANGED <<replies, subReplies, pendingUnsubs, log>>
          ELSE Abort

PubSubMessage ==
    /\ ForSubscription({"message"})
    /\ IF "subscribed" \notin flags THEN Abort
       ELSE /\ IF Head(reader).name \in DOMAIN subs
               THEN RunCallback("reply", 0, SeenFlags) /\ UNCHANGED replies
               ELSE flags' = SeenFlags /\ replies' = Repush(<<>>, 0) /\ UNCHANGED <<pc, frame>>
            /\ UNCHANGED <<subReplies, subs, pendingUnsubs, log>>

(* The last answer ends the subscribed mode and hands over the commands     *)
(* that wait.                                                               *)
ConfirmUnsubscribe ==
    /\ ForSubscription({"unsubscribe"})
    /\ IF "subscribed" \notin flags THEN Abort
       ELSE LET n == Head(reader).name
                known == n \in DOMAIN subs
                last == Head(reader).count = 0 /\ DOMAIN subs' = {} /\ pendingUnsubs' = 0
                f == IF last THEN SeenFlags \ {"subscribed"} ELSE SeenFlags
                q == IF last THEN subReplies ELSE <<>>
            IN /\ subs' = IF known /\ subs[n].pending = 0
                          THEN [k \in DOMAIN subs \ {n} |-> subs[k]] ELSE subs
               /\ pendingUnsubs' = IF known THEN pendingUnsubs ELSE pendingUnsubs - 1
               /\ subReplies' = IF last THEN <<>> ELSE subReplies
               /\ IF known THEN RunCallback("reply", 0, f) /\ replies' = q
                  ELSE flags' = f /\ replies' = Repush(q, 0) /\ UNCHANGED <<pc, frame>>
               /\ UNCHANGED log

(* A reply to a command that was issued while subscribed, or an array that  *)
(* is taken for a message of a channel nobody subscribed to.                *)
ReplyWhileSubscribed ==
    /\ ForSubscription({"reply", "array"})
    /\ LET mistaken == TakenForPushed(Head(reader))
           id == IF subReplies = <<>> \/ mistaken THEN 0 ELSE Head(subReplies)
       IN IF "subscribed" \notin flags THEN Abort
          ELSE /\ subReplies' = IF id = 0 THEN subReplies ELSE Tail(subReplies)
               /\ RunReplyCallback(id, Head(reader).id, "reply", SeenFlags)
               /\ replies' = IF HasCallback(id) THEN <<>> ELSE Repush(<<>>, id)
               /\ UNCHANGED <<subs, pendingUnsubs>>

Process == \/ NoReply \/ SpontaneousPush \/ ReplyToCommand \/ SpontaneousError
           \/ ConfirmSubscribe \/ PubSubMessage \/ ConfirmUnsubscribe
           \/ ReplyWhileSubscribed

-----------------------------------------------------------------------------
(* The end of a callback.                                                   *)

(* The callback of place at returned, the library goes on with the flags f. *)
Returns(at) == pc = "callback" /\ frame.at = at /\ frame' = NoFrame
Callee == flags \ {"in_callback"}
Continue(next) == /\ flags' = Callee /\ pc' = next
                  /\ UNCHANGED <<err, attached, events>>
KeepData == UNCHANGED <<subReplies, subs, pendingUnsubs, obuf, reader, handler,
                        serverVars, countVars, log>>

ReplyCallbackReturns ==
    /\ Returns("reply")
    /\ Continue(IF "freeing" \in flags THEN "free" ELSE "process")
    /\ replies' = IF "freeing" \in flags THEN replies ELSE Repush(replies, frame.id)
    /\ KeepData

PushCallbackReturns ==
    /\ Returns("push") /\ Continue("process") /\ UNCHANGED replies /\ KeepData

(* __redisAsyncHandleConnect: the callback may have ended the connection.   *)
ConnectCallbackReturns ==
    /\ Returns("connected")
    /\ IF "disconnecting" \in flags THEN AsyncDisconnect(Callee)
       ELSE Continue(IF "freeing" \in flags THEN "free" ELSE handler)
    /\ UNCHANGED replies /\ KeepData

RefusedCallbackReturns ==
    /\ Returns("refused")
    /\ IF handler = "timeout" THEN Continue("timeout") ELSE EnterDisconnect(Callee, err)
    /\ UNCHANGED replies /\ KeepData

TimeoutCallbackReturns ==
    /\ Returns("timeout") /\ Continue("timeout") /\ UNCHANGED replies /\ KeepData

FreeCallbackReturns ==
    /\ Returns("free") /\ Continue("free") /\ UNCHANGED replies /\ KeepData

(* The disconnect callback was the last one; redisFree.                     *)
DisconnectCallbackReturns ==
    /\ Returns("gone") /\ Continue("freed") /\ UNCHANGED replies /\ KeepData

CallbackReturns == \/ ReplyCallbackReturns \/ PushCallbackReturns \/ ConnectCallbackReturns
                   \/ RefusedCallbackReturns \/ TimeoutCallbackReturns
                   \/ FreeCallbackReturns \/ DisconnectCallbackReturns

-----------------------------------------------------------------------------
(* __redisAsyncFree: every callback that waits gets NULL.                   *)

FreeReplies ==
    /\ pc = "free" /\ replies \o subReplies # <<>>
    /\ LET from == IF replies # <<>> THEN replies ELSE subReplies
       IN RunReplyCallback(Head(from), 0, "free", flags)
    /\ replies' = IF replies # <<>> THEN Tail(replies) ELSE replies
    /\ subReplies' = IF replies # <<>> THEN subReplies ELSE Tail(subReplies)
    /\ UNCHANGED <<err, subs, pendingUnsubs, obuf, reader, events, attached, handler,
                   serverVars, countVars>>

FreeSubscription(n) ==
    /\ pc = "free" /\ replies \o subReplies = <<>>
    /\ n \in DOMAIN subs
    /\ n \in Patterns => DOMAIN subs \cap Channels = {}
    /\ subs' = [k \in DOMAIN subs \ {n} |-> subs[k]]
    /\ RunCallback("free", 0, flags)
    /\ UNCHANGED <<err, replies, subReplies, pendingUnsubs, obuf, reader, events, attached,
                   handler, serverVars, countVars, log>>

FinishFree ==
    /\ pc = "free" /\ replies \o subReplies = <<>> /\ DOMAIN subs = {}
    /\ attached' = FALSE /\ events' = {}
    /\ IF "connected" \in flags THEN RunCallback("gone", 0, flags)
       ELSE pc' = "freed" /\ UNCHANGED <<flags, frame>>
    /\ UNCHANGED <<err, queueVars, obuf, reader, handler, serverVars, countVars, log>>

FreeStep == FreeReplies \/ FinishFree \/ \E n \in Names : FreeSubscription(n)

-----------------------------------------------------------------------------
(* The event loop calls a handler.                                          *)

(* redisAsyncHandleRead and redisAsyncHandleWrite, with                     *)
(* __redisAsyncHandleConnect when the connection is not known to be up.     *)
Ready(what) == /\ pc = "idle" /\ what \in events /\ sock # "connecting"
               /\ what = "read" => stream # <<>> \/ sock # "up"

HandleEvent(what) ==
    /\ Ready(what)
    /\ handler' = what
    /\ IF "connected" \in flags THEN pc' = what /\ UNCHANGED <<flags, err, frame>>
       ELSE \/ /\ sock # "up" \/ "nodelay" \in Faults
               /\ err' = TRUE /\ RunCallback("refused", 0, flags)
            \/ /\ sock # "refused" /\ UNCHANGED err
               /\ RunCallback("connected", 0, flags \cup {"connected"})
    /\ UNCHANGED <<queueVars, obuf, reader, events, attached, serverVars, countVars, log>>

ReadFails ==
    /\ pc = "read" /\ sock = "dead" /\ stream = <<>>
    /\ EnterDisconnect(flags, TRUE)
    /\ UNCHANGED <<queueVars, obuf, reader, handler, frame, serverVars, countVars, log>>

(* redisAsyncRead: k whole replies, and perhaps a part of the next.         *)
AsyncRead(k) ==
    /\ pc = "read" /\ stream # <<>> /\ k \in 0 .. Len(stream)
    /\ reader' = reader \o SubSeq(stream, 1, k)
    /\ stream' = SubSeq(stream, k + 1, Len(stream))
    /\ events' = Watch({"read"}, flags)
    /\ pc' = "process"
    /\ UNCHANGED <<flags, err, queueVars, obuf, attached, handler, frame, sock, served, monitor,
                   published, countVars, log>>

(* redisAsyncHandleTimeout; idle and belated timeouts change nothing.       *)
HandleTimeout ==
    /\ pc = "idle" /\ "timer" \in events
    /\ "connected" \in flags => /\ replies \o subReplies # <<>>
                                /\ "command_timeout" \in Options
    /\ err' = TRUE /\ handler' = "timeout"
    /\ IF "connected" \in flags THEN pc' = "timeout" /\ UNCHANGED <<flags, frame>>
       ELSE RunCallback("refused", 0, flags)
    /\ UNCHANGED <<queueVars, obuf, reader, events, attached, serverVars, countVars, log>>

(* Mutant: a timeout calls the first callback and drops the others.         *)
TimeoutRepliesFirst ==
    /\ pc = "timeout" /\ replies # <<>>
    /\ RunReplyCallback(Head(replies), 0, "timeout", flags)
    /\ replies' = <<>>
    /\ UNCHANGED <<err, subReplies, subs, pendingUnsubs, obuf, reader, events, attached, handler,
                   serverVars, countVars>>

TimeoutReplies ==
    /\ pc = "timeout" /\ replies # <<>>
    /\ RunReplyCallback(Head(replies), 0, "timeout", flags)
    /\ replies' = Tail(replies)
    /\ UNCHANGED <<err, subReplies, subs, pendingUnsubs, obuf, reader, events, attached, handler,
                   serverVars, countVars>>

TimeoutEnds ==
    /\ pc = "timeout" /\ replies = <<>>
    /\ EnterDisconnect(flags, TRUE)
    /\ UNCHANGED <<queueVars, obuf, reader, handler, frame, serverVars, countVars, log>>

-----------------------------------------------------------------------------
(* The server executes a command and answers.                               *)

(* The names it answers for, one reply each; of an UNSUBSCRIBE without      *)
(* names, those of the kind that are open, or none.                         *)
AnsweredNames(c, open) ==
    IF c.op # "unsubscribe_all" THEN c.names
    ELSE IF open \cap c.kind = {} THEN <<NoName>> ELSE SetToSeq(open \cap c.kind)

Answers(c) ==
    LET names == AnsweredNames(c, served)
    IN CASE c.op \in {"call", "monitor"} ->
                {<<[kind |-> k, id |-> c.id]>> :
                    k \in {"reply"} \cup (IF "deny" \in Faults THEN {"error"} ELSE {})
                         \cup (IF "arrays" \in Habits /\ (Resp3 \/ served = {}) THEN {"array"} ELSE {})}
         [] c.op = "subscribe" ->
                {[i \in 1 .. Len(names) |->
                     [kind |-> "subscribe", name |-> names[i],
                      count |-> Cardinality(served \cup Range(SubSeq(names, 1, i)))]]}
                \cup (IF "deny" \in Faults THEN {<<[kind |-> "error", id |-> 0]>>} ELSE {})
         [] OTHER ->
                {[i \in 1 .. Len(names) |->
                     [kind |-> "unsubscribe", name |-> names[i],
                      count |-> Cardinality(served \ Range(SubSeq(names, 1, i)))]]}

NamesServed(answer) ==
    LET named(kind) == {answer[i].name : i \in {j \in DOMAIN answer : answer[j].kind = kind}}
    IN (served \cup named("subscribe")) \ named("unsubscribe")

(* redisAsyncWrite: one command of obuf is sent and executed, or none.      *)
AsyncWrite ==
    /\ pc = "write" /\ pc' = "idle"
    /\ IF obuf = <<>>
       THEN /\ events' = Watch({"read"}, flags) \ {"write"}
            /\ UNCHANGED <<obuf, stream, served, monitor>>
       ELSE /\ sock = "up"
            /\ obuf' = Tail(obuf)
            /\ events' = Watch({"read", "write"}, flags) \ (IF Len(obuf) = 1 THEN {"write"} ELSE {})
            /\ \E answer \in Answers(Head(obuf)) :
                   /\ stream' = stream \o answer
                   /\ served' = NamesServed(answer)
            /\ monitor' = IF Head(obuf).op = "monitor" THEN Head(obuf).id ELSE monitor
    /\ UNCHANGED <<flags, err, queueVars, reader, attached, handler, frame, sock, published,
                   countVars, log>>

WriteFails ==
    /\ pc = "write" /\ sock = "dead" /\ obuf # <<>>
    /\ EnterDisconnect(flags, TRUE)
    /\ UNCHANGED <<queueVars, obuf, reader, handler, frame, serverVars, countVars, log>>

(* What the server sends without being asked: messages, other pushes of     *)
(* RESP3, the lines of MONITOR.                                             *)
Unasked == {[kind |-> "message", name |-> n] : n \in served}
           \cup (IF Resp3 THEN {[kind |-> "push"]} ELSE {})
           \cup (IF monitor # 0 THEN {[kind |-> "reply", id |-> monitor]} ELSE {})

ServerSends ==
    /\ sock = "up" /\ published < MaxMessages
    /\ pc \notin {"freed", "abort"}
    /\ published' = published + 1
    /\ \E reply \in Unasked : stream' = Append(stream, reply)
    /\ UNCHANGED <<flags, err, queueVars, obuf, reader, events, attached, loopVars, sock, served,
                   monitor, countVars, log>>

SocketBecomes(old, new, keep) ==
    /\ pc \notin {"freed", "abort"}
    /\ sock = old /\ sock' = new
    /\ stream' = SubSeq(stream, 1, keep)
    /\ UNCHANGED <<flags, err, queueVars, obuf, reader, events, attached, loopVars, served,
                   monitor, published, countVars, log>>

Establish == SocketBecomes("connecting", "up", 0)
Refuse == "refuse" \in Faults /\ SocketBecomes("connecting", "refused", 0)
Drop == "drop" \in Faults /\ \E k \in 0 .. Len(stream) : SocketBecomes("up", "dead", k)

-----------------------------------------------------------------------------
Application == \/ Call \/ Disconnect \/ Free
               \/ \E names \in Targets : Subscribe(names) \/ Unsubscribe(names)
               \/ \E kind \in Kinds : UnsubscribeAll(kind)

(* Reading and writing for the handler the event loop called.               *)
Transfer == ReadFails \/ AsyncWrite \/ WriteFails \/ \E k \in 0 .. Len(stream) : AsyncRead(k)

Library == \/ Process \/ CallbackReturns \/ FreeStep \/ Transfer
           \/ TimeoutReplies \/ TimeoutEnds
Loop == HandleTimeout \/ \E what \in {"read", "write"} : HandleEvent(what)
Server == ServerSends \/ Establish \/ Refuse \/ Drop

Next == Application \/ Library \/ Loop \/ Server

Spec == Init /\ [][Next]_vars
=============================================================================
