---------------------------- MODULE RedisPubSub ----------------------------
(***************************************************************************)
(* The publish/subscribe DLL (redis_pubsub.c): its globals, its critical   *)
(* section, its exported functions as called by the application's threads  *)
(* and by callbacks, and the subscription thread it spawns.                *)
(*                                                                         *)
(* Every thread may be inside an exported function (pc); a subscription    *)
(* thread is, besides, somewhere in its loop (loop), and calls exported    *)
(* functions only from a callback.                                         *)
(***************************************************************************)
EXTENDS HiredisContext

CONSTANTS
    AppThreads,     \* the application's threads
    SubThreads,     \* threads _beginthreadex can create
    NoThread,       \* the owner of a free critical section
    Callbacks,      \* callback functions the application registers
    MaxChannels,    \* size of g_callbacks and g_channels
    AppCalls,       \* exported functions the application's threads call
    CallbackCalls,  \* exported functions the callbacks call
    Reinit,         \* whether redis_init may be called again
    MaxMessages,    \* bound: messages published by other clients
    MaxPublishes,   \* bound: calls of redis_publish
    MaxSubscribes   \* bound: calls of redis_subscribe

Functions == {"init", "close", "publish", "subscribe", "process"}

ASSUME PubSubAssumption ==
    /\ Threads = AppThreads \cup SubThreads
    /\ AppThreads \cap SubThreads = {}
    /\ NoThread \notin Threads
    /\ MaxChannels \in Nat \ {0}
    /\ MaxMessages \in Nat /\ MaxPublishes \in Nat /\ MaxSubscribes \in Nat
    /\ AppCalls \subseteq Functions /\ CallbackCalls \subseteq Functions
    /\ Reinit \in BOOLEAN

VARIABLES
    g_context,      \* the publishing connection
    g_sub_context,  \* the subscribing connection
    g_running,
    g_table,        \* g_channels and g_callbacks up to g_callback_count
    lockState,      \* g_lock: "raw" before its initialization, "ready", or
                    \* "dead" once deleted or damaged
    lockOwner,      \* the thread inside g_lock
    lockDepth,      \* a critical section is recursive
    pc,             \* pc[t]: where t is in an exported function
    arg,            \* arg[t]: the channel and callback of the call
    ret,            \* ret[t]: the value t's last call returned
    loop,           \* loop[s]: where subscription thread s is in its loop
    got,            \* got[s]: the reply s is processing
    npub, nsub,     \* calls of redis_publish and of redis_subscribe so far
    delivered       \* history: the callbacks called, in order

globals  == <<g_context, g_sub_context, g_running, g_table>>
lockVars == <<lockState, lockOwner, lockDepth>>
callVars == <<pc, arg, ret>>
loopVars == <<loop, got>>
vars == <<hiredisVars, globals, lockVars, callVars, loopVars, npub, nsub, delivered>>

Entry == [channel : Channels, callback : Callbacks]
Delivery == [callback : Callbacks, channel : Channels, n : Nat]
NoArg == [channel |-> NoChannel, callback |-> NULL]

(* Labels of the exported functions at which a thread holds g_lock.         *)
CriticalPC == {"close_body", "close_leave", "publish_command", "publish_reply",
               "publish_leave", "subscribe_store", "subscribe_command", "subscribe_reply",
               "subscribe_leave"}
CriticalLoop == {"dispatch", "callback", "leave"}
InitPC == {"init_pub", "init_sub", "init_done"}
PCs == {"idle", "close_enter", "close_delete", "publish_enter", "subscribe_enter"}
       \cup InitPC \cup CriticalPC
Loops == {"none", "check", "get", "reply", "enter", "ended"} \cup CriticalLoop

TypeOK ==
    /\ HiredisTypeOK
    /\ g_context \in 0 .. MaxContexts
    /\ g_sub_context \in 0 .. MaxContexts
    /\ g_running \in BOOLEAN
    /\ g_table \in Seq(Entry)
    /\ lockState \in {"raw", "ready", "dead"}
    /\ lockOwner \in Threads \cup {NoThread}
    /\ lockDepth \in Nat
    /\ pc \in [Threads -> PCs]
    /\ arg \in [Threads -> [channel : Channels \cup {NoChannel}, callback : Callbacks \cup {NULL}]]
    /\ ret \in [Threads -> Int]
    /\ loop \in [SubThreads -> Loops]
    /\ got \in [SubThreads -> Reply \cup {NoReply}]
    /\ npub \in Nat /\ nsub \in Nat
    /\ delivered \in Seq(Delivery)

Init ==
    /\ HiredisInit
    /\ g_context = NULL
    /\ g_sub_context = NULL
    /\ g_running = FALSE
    /\ g_table = <<>>
    /\ lockState = "raw"
    /\ lockOwner = NoThread
    /\ lockDepth = 0
    /\ pc = [t \in Threads |-> "idle"]
    /\ arg = [t \in Threads |-> NoArg]
    /\ ret = [t \in Threads |-> 0]
    /\ loop = [s \in SubThreads |-> "none"]
    /\ got = [s \in SubThreads |-> NoReply]
    /\ npub = 0 /\ nsub = 0
    /\ delivered = <<>>

-----------------------------------------------------------------------------
(* The critical section.  Once it is dead, EnterCriticalSection may still   *)
(* return (with or without anybody else inside), crash, or never return.    *)

LockFree(t) == lockOwner \in {NoThread, t}

Enter(t) ==
    \/ /\ lockState = "ready" /\ LockFree(t)
       /\ lockOwner' = t /\ lockDepth' = lockDepth + 1
       /\ UNCHANGED lockState
    \/ lockState = "dead" /\ UNCHANGED lockVars

Leave(t) ==
    \/ /\ lockState = "ready" /\ lockOwner = t
       /\ lockDepth' = lockDepth - 1
       /\ lockOwner' = IF lockDepth = 1 THEN NoThread ELSE t
       /\ UNCHANGED lockState
    \/ /\ lockState = "ready" /\ lockOwner # t    \* left without being inside
       /\ lockState' = "dead"
       /\ UNCHANGED <<lockOwner, lockDepth>>
    \/ lockState = "dead" /\ UNCHANGED lockVars

EnterWaits(t) == pc[t] \in {"close_enter", "publish_enter", "subscribe_enter"}
                 \/ (t \in SubThreads /\ loop[t] = "enter")
LockMisused(t) == lockState # "ready"
                  /\ (EnterWaits(t) \/ pc[t] \in {"close_leave", "publish_leave", "subscribe_leave"}
                      \/ (t \in SubThreads /\ loop[t] = "leave"))

-----------------------------------------------------------------------------
(* Calls.  A subscription thread calls the library from a callback only,    *)
(* and the application waits for redis_init before it calls anything else.  *)

MayCall(t, f) ==
    /\ pc[t] = "idle"
    /\ \A u \in Threads : pc[u] \notin InitPC
    /\ \/ t \in AppThreads /\ f \in AppCalls
       \/ t \in SubThreads /\ loop[t] = "callback" /\ f \in CallbackCalls

Goto(t, label) == pc' = [pc EXCEPT ![t] = label]

(* The call of t returns r; its arguments are forgotten.                    *)
Return(t, r) == /\ Goto(t, "idle")
                /\ ret' = [ret EXCEPT ![t] = r]
                /\ arg' = [arg EXCEPT ![t] = NoArg]

(* The call of t goes on to label, to return r once it has left the lock.   *)
WillReturn(t, label, r) == /\ Goto(t, label)
                           /\ ret' = [ret EXCEPT ![t] = r]
                           /\ UNCHANGED arg

(* Mutant: the callback is dropped on the way.                              *)
StartWithoutCallback(t, label, ch, cb) ==
    /\ Goto(t, label)
    /\ arg' = [arg EXCEPT ![t] = [channel |-> ch, callback |-> NULL]]
    /\ UNCHANGED ret

(* The call of t starts at label with channel ch and callback cb.           *)
Start(t, label, ch, cb) == /\ Goto(t, label)
                           /\ arg' = [arg EXCEPT ![t] = [channel |-> ch, callback |-> cb]]
                           /\ UNCHANGED ret

-----------------------------------------------------------------------------
(* redis_init                                                               *)

(* The application initializes the library when none of its calls is        *)
(* running.  InitializeCriticalSection resets g_lock whatever its state.    *)
InitCall(t) ==
    /\ MayCall(t, "init")
    /\ lockState = "raw" \/ Reinit
    /\ \A u \in Threads : pc[u] = "idle"
    /\ Cardinality({c \in Contexts : ctx[c] = "unused"}) >= 2    \* bound
    /\ lockState' = "ready" /\ lockOwner' = NoThread /\ lockDepth' = 0
    /\ Goto(t, "init_pub")
    /\ UNCHANGED <<hiredisVars, globals, arg, ret, loopVars, npub, nsub, delivered>>

(* A failed redisConnect returns NULL, or a context that is then freed      *)
(* while the global still points to it.                                     *)
InitPub(t) ==
    /\ pc[t] = "init_pub"
    /\ \/ \E c \in Contexts : /\ Fresh(c) /\ ConnectOK(c)
                              /\ g_context' = c
          /\ Goto(t, "init_sub") /\ UNCHANGED <<arg, ret>>
       \/ /\ "connect" \in Faults
          /\ \E c \in {NULL} \cup {d \in Contexts : Fresh(d)} :
                FreeContexts({c}) /\ g_context' = c
          /\ Return(t, -1)
    /\ UNCHANGED <<g_sub_context, g_running, g_table, lockVars, loopVars, npub, nsub, delivered>>

InitSub(t) ==
    /\ pc[t] = "init_sub"
    /\ \/ \E c \in Contexts : /\ Fresh(c) /\ ConnectOK(c)
                              /\ g_sub_context' = c
          /\ Goto(t, "init_done") /\ UNCHANGED <<arg, ret>>
       \/ /\ "connect" \in Faults
          /\ \E c \in {NULL} \cup {d \in Contexts : Fresh(d)} :
                FreeContexts({c, g_context}) /\ g_sub_context' = c
          /\ Return(t, -1)
    /\ UNCHANGED <<g_context, g_running, g_table, lockVars, loopVars, npub, nsub, delivered>>

InitDone(t) ==
    /\ pc[t] = "init_done"
    /\ g_running' = TRUE
    /\ g_table' = <<>>
    /\ Return(t, 0)
    /\ UNCHANGED <<hiredisVars, g_context, g_sub_context, lockVars, loopVars, npub, nsub, delivered>>

-----------------------------------------------------------------------------
(* redis_close                                                              *)

CloseCall(t) ==
    /\ MayCall(t, "close")
    /\ lockState = "ready"
    /\ Goto(t, "close_enter")
    /\ UNCHANGED <<hiredisVars, globals, lockVars, arg, ret, loopVars, npub, nsub, delivered>>

CloseEnter(t) ==
    /\ pc[t] = "close_enter"
    /\ Enter(t)
    /\ Goto(t, "close_body")
    /\ UNCHANGED <<hiredisVars, globals, arg, ret, loopVars, npub, nsub, delivered>>

(* Mutant: g_callback_count is not reset.                                   *)
CloseBodyKeepsTable(t) ==
    /\ pc[t] = "close_body"
    /\ g_running' = FALSE
    /\ FreeContexts({g_sub_context, g_context})
    /\ g_sub_context' = NULL /\ g_context' = NULL
    /\ Goto(t, "close_leave")
    /\ UNCHANGED <<g_table, lockVars, arg, ret, loopVars, npub, nsub, delivered>>

CloseBody(t) ==
    /\ pc[t] = "close_body"
    /\ g_running' = FALSE
    /\ FreeContexts({g_sub_context, g_context})
    /\ g_sub_context' = NULL /\ g_context' = NULL
    /\ g_table' = <<>>
    /\ Goto(t, "close_leave")
    /\ UNCHANGED <<lockVars, arg, ret, loopVars, npub, nsub, delivered>>

CloseLeave(t) ==
    /\ pc[t] = "close_leave"
    /\ Leave(t)
    /\ Goto(t, "close_delete")
    /\ UNCHANGED <<hiredisVars, globals, arg, ret, loopVars, npub, nsub, delivered>>

(* DeleteCriticalSection, whoever is inside or waiting.                     *)
CloseDelete(t) ==
    /\ pc[t] = "close_delete"
    /\ lockState' = "dead"
    /\ Return(t, 0)
    /\ UNCHANGED <<hiredisVars, globals, lockOwner, lockDepth, loopVars, npub, nsub, delivered>>

-----------------------------------------------------------------------------
(* redis_publish                                                            *)

PublishCall(t, ch) ==
    /\ MayCall(t, "publish")
    /\ npub < MaxPublishes    \* bound
    /\ npub' = npub + 1
    /\ IF g_context = NULL THEN Return(t, -1) ELSE Start(t, "publish_enter", ch, NULL)
    /\ UNCHANGED <<hiredisVars, globals, lockVars, loopVars, nsub, delivered>>

PublishEnter(t) ==
    /\ pc[t] = "publish_enter"
    /\ Enter(t)
    /\ Goto(t, "publish_command")
    /\ UNCHANGED <<hiredisVars, globals, arg, ret, loopVars, npub, nsub, delivered>>

PublishCommand(t) ==
    /\ pc[t] = "publish_command"
    /\ g_context # NULL
    /\ RedisCommand(t, g_context, [verb |-> "PUBLISH", channel |-> arg[t].channel])
    /\ Goto(t, "publish_reply")
    /\ UNCHANGED <<globals, lockVars, arg, ret, loopVars, npub, nsub, delivered>>

(* reply->integer is zero in a reply of another type.                       *)
IntegerOf(r) == IF r.kind = "integer" THEN r.n ELSE 0

(* Mutant: the call returns as soon as the command has been sent.           *)
PublishReplyUnread(t) ==
    /\ pc[t] = "publish_reply"
    /\ io[t].at \in {"recv", "ok", "err"}
    /\ WillReturn(t, "publish_leave", IF io[t].at = "err" THEN -1 ELSE 0)
    /\ ReturnFromIO(t)
    /\ UNCHANGED <<ctx, obuf, reader, serverVars, crashed, globals, lockVars, loopVars, npub, nsub, delivered>>

(* Mutant: the error path forgets LeaveCriticalSection.                     *)
PublishReplyKeepsLock(t) ==
    /\ pc[t] = "publish_reply"
    /\ \/ io[t].at = "ok" /\ WillReturn(t, "publish_leave", IntegerOf(io[t].reply))
       \/ io[t].at = "err" /\ Return(t, -1)
    /\ ReturnFromIO(t)
    /\ UNCHANGED <<ctx, obuf, reader, serverVars, crashed, globals, lockVars, loopVars, npub, nsub, delivered>>

PublishReply(t) ==
    /\ pc[t] = "publish_reply"
    /\ io[t].at \in {"ok", "err"}
    /\ WillReturn(t, "publish_leave", IF io[t].at = "ok" THEN IntegerOf(io[t].reply) ELSE -1)
    /\ ReturnFromIO(t)
    /\ UNCHANGED <<ctx, obuf, reader, serverVars, crashed, globals, lockVars, loopVars, npub, nsub, delivered>>

PublishLeave(t) ==
    /\ pc[t] = "publish_leave"
    /\ Leave(t)
    /\ Return(t, ret[t])
    /\ UNCHANGED <<hiredisVars, globals, loopVars, npub, nsub, delivered>>

-----------------------------------------------------------------------------
(* redis_subscribe                                                          *)

SubscribeCall(t, ch, cb) ==
    /\ MayCall(t, "subscribe")
    /\ nsub < MaxSubscribes    \* bound
    /\ nsub' = nsub + 1
    /\ IF g_context = NULL \/ g_sub_context = NULL
       THEN Return(t, -1)
       ELSE Start(t, "subscribe_enter", ch, cb)
    /\ UNCHANGED <<hiredisVars, globals, lockVars, loopVars, npub, delivered>>

(* Mutant: the lock is not entered.                                         *)
SubscribeEnterUnlocked(t) ==
    /\ pc[t] = "subscribe_enter"
    /\ Goto(t, "subscribe_store")
    /\ UNCHANGED <<hiredisVars, globals, lockVars, arg, ret, loopVars, npub, nsub, delivered>>

SubscribeEnter(t) ==
    /\ pc[t] = "subscribe_enter"
    /\ Enter(t)
    /\ Goto(t, "subscribe_store")
    /\ UNCHANGED <<hiredisVars, globals, arg, ret, loopVars, npub, nsub, delivered>>

(* The entry is stored and counted before the server is asked, and whether  *)
(* or not g_sub_context is still there.                                     *)
SubscribeStore(t) ==
    /\ pc[t] = "subscribe_store"
    /\ \/ /\ Len(g_table) >= MaxChannels
          /\ WillReturn(t, "subscribe_leave", -1)
          /\ UNCHANGED g_table
       \/ /\ Len(g_table) < MaxChannels
          /\ g_table' = Append(g_table, [channel |-> arg[t].channel, callback |-> arg[t].callback])
          /\ Goto(t, "subscribe_command") /\ UNCHANGED <<arg, ret>>
    /\ UNCHANGED <<hiredisVars, g_context, g_sub_context, g_running, lockVars, loopVars,
                   npub, nsub, delivered>>

SubscribeCommand(t) ==
    /\ pc[t] = "subscribe_command"
    /\ g_sub_context # NULL
    /\ RedisCommand(t, g_sub_context, [verb |-> "SUBSCRIBE", channel |-> arg[t].channel])
    /\ Goto(t, "subscribe_reply")
    /\ UNCHANGED <<globals, lockVars, arg, ret, loopVars, npub, nsub, delivered>>

(* g_callback_count-- *)
DropLastEntry == g_table' = SubSeq(g_table, 1, Len(g_table) - 1)

(* Mutant: a thread for every subscription.                                 *)
AnyEntry == Len(g_table) >= 1

(* g_callback_count == 1 *)
FirstEntry == Len(g_table) = 1

(* Whatever reply the command got counts as success; the thread is started  *)
(* when the table has exactly one entry.                                    *)
SubscribeReply(t) ==
    /\ pc[t] = "subscribe_reply"
    /\ \/ /\ io[t].at = "err"
          /\ DropLastEntry
          /\ WillReturn(t, "subscribe_leave", -1)
          /\ UNCHANGED loop
       \/ /\ io[t].at = "ok" /\ ~FirstEntry
          /\ WillReturn(t, "subscribe_leave", 0)
          /\ UNCHANGED <<g_table, loop>>
       \/ /\ io[t].at = "ok" /\ FirstEntry
          /\ \E s \in SubThreads : loop[s] = "none" /\ loop' = [loop EXCEPT ![s] = "check"]
          /\ WillReturn(t, "subscribe_leave", 0)
          /\ UNCHANGED g_table
       \/ /\ io[t].at = "ok" /\ FirstEntry
          /\ "spawn" \in Faults
          /\ DropLastEntry
          /\ WillReturn(t, "subscribe_leave", -1)
          /\ UNCHANGED loop
    /\ ReturnFromIO(t)
    /\ UNCHANGED <<ctx, obuf, reader, serverVars, crashed, g_context, g_sub_context, g_running,
                   lockVars, got, npub, nsub, delivered>>

SubscribeLeave(t) ==
    /\ pc[t] = "subscribe_leave"
    /\ Leave(t)
    /\ Return(t, ret[t])
    /\ UNCHANGED <<hiredisVars, globals, loopVars, npub, nsub, delivered>>

-----------------------------------------------------------------------------
(* redis_process_messages only sleeps.                                      *)
ProcessCall(t) ==
    /\ MayCall(t, "process")
    /\ Return(t, IF g_sub_context = NULL THEN -1 ELSE 0)
    /\ UNCHANGED <<hiredisVars, globals, lockVars, loopVars, npub, nsub, delivered>>

-----------------------------------------------------------------------------
(* subscription_thread                                                      *)

GotoLoop(s, label) == loop' = [loop EXCEPT ![s] = label]

LoopCheck(s) ==
    /\ loop[s] = "check"
    /\ GotoLoop(s, IF g_running /\ g_sub_context # NULL THEN "get" ELSE "ended")
    /\ UNCHANGED <<hiredisVars, globals, lockVars, callVars, got, npub, nsub, delivered>>

(* The pointer is read again for the call, without the lock.                *)
LoopGet(s) ==
    /\ loop[s] = "get"
    /\ g_sub_context # NULL
    /\ GetReply(s, g_sub_context)
    /\ GotoLoop(s, "reply")
    /\ UNCHANGED <<ctx, obuf, reader, serverVars, crashed, globals, lockVars, callVars, got, npub, nsub, delivered>>

(* Anything but a message is freed at once; an error ends the thread.       *)
LoopReply(s) ==
    /\ loop[s] = "reply"
    /\ io[s].at \in {"ok", "err"}
    /\ IF io[s].at = "ok" /\ io[s].reply.kind = "message"
       THEN GotoLoop(s, "enter") /\ got' = [got EXCEPT ![s] = io[s].reply]
       ELSE GotoLoop(s, IF io[s].at = "ok" THEN "check" ELSE "ended") /\ UNCHANGED got
    /\ ReturnFromIO(s)
    /\ UNCHANGED <<ctx, obuf, reader, serverVars, crashed, globals, lockVars, callVars, npub, nsub, delivered>>

(* Mutant: the thread looks for the callback without the lock.              *)
LoopEnterUnlocked(s) ==
    /\ loop[s] = "enter"
    /\ GotoLoop(s, "dispatch")
    /\ UNCHANGED <<hiredisVars, globals, lockVars, callVars, got, npub, nsub, delivered>>

LoopEnter(s) ==
    /\ loop[s] = "enter"
    /\ Enter(s)
    /\ GotoLoop(s, "dispatch")
    /\ UNCHANGED <<hiredisVars, globals, callVars, got, npub, nsub, delivered>>

(* Only the first entry of the channel is called.                           *)
Dispatch(s) ==
    LET matching == {i \in 1 .. Len(g_table) : g_table[i].channel = got[s].channel} IN
    /\ loop[s] = "dispatch"
    /\ \/ /\ matching = {}
          /\ GotoLoop(s, "leave") /\ UNCHANGED delivered
       \/ \E i \in matching :
          /\ \A j \in matching : i <= j
          /\ delivered' = Append(delivered, [callback |-> g_table[i].callback,
                                             channel |-> got[s].channel, n |-> got[s].n])
          /\ GotoLoop(s, "callback")
    /\ UNCHANGED <<hiredisVars, globals, lockVars, callVars, got, npub, nsub>>

CallbackReturns(s) ==
    /\ loop[s] = "callback" /\ pc[s] = "idle"
    /\ GotoLoop(s, "leave")
    /\ UNCHANGED <<hiredisVars, globals, lockVars, callVars, got, npub, nsub, delivered>>

(* Mutant: the thread handles one message and ends.                         *)
LoopLeaveEnds(s) ==
    /\ loop[s] = "leave"
    /\ Leave(s)
    /\ GotoLoop(s, "ended")
    /\ got' = [got EXCEPT ![s] = NoReply]
    /\ UNCHANGED <<hiredisVars, globals, callVars, npub, nsub, delivered>>

LoopLeave(s) ==
    /\ loop[s] = "leave"
    /\ Leave(s)
    /\ GotoLoop(s, "check")
    /\ got' = [got EXCEPT ![s] = NoReply]
    /\ UNCHANGED <<hiredisVars, globals, callVars, npub, nsub, delivered>>

-----------------------------------------------------------------------------
(* Steps of the globals' users whose behaviour is undefined: a lock that is *)
(* not initialized, a NULL or freed context, a second free.                 *)
Undefined(t) ==
    \/ LockMisused(t)
    \/ pc[t] = "close_body" /\ \E c \in {g_context, g_sub_context} \ {NULL} : ctx[c] = "freed"
    \/ pc[t] = "publish_command" /\ UnsafeAppend(t, g_context)
    \/ pc[t] = "subscribe_command" /\ UnsafeAppend(t, g_sub_context)
    \/ t \in SubThreads /\ loop[t] = "get" /\ g_sub_context = NULL

otherVars == <<globals, lockVars, callVars, loopVars, npub, nsub, delivered>>

(* The calls a thread starts, when the application likes.                   *)
Call(t) ==
    \/ InitCall(t) \/ CloseCall(t) \/ ProcessCall(t)
    \/ \E ch \in Channels : PublishCall(t, ch) \/ \E cb \in Callbacks : SubscribeCall(t, ch, cb)

(* The steps that carry a call on.                                          *)
CallStep(t) ==
    \/ InitPub(t) \/ InitSub(t) \/ InitDone(t)
    \/ CloseEnter(t) \/ CloseBody(t) \/ CloseLeave(t) \/ CloseDelete(t)
    \/ PublishEnter(t) \/ PublishCommand(t) \/ PublishReply(t) \/ PublishLeave(t)
    \/ SubscribeEnter(t) \/ SubscribeStore(t) \/ SubscribeCommand(t)
    \/ SubscribeReply(t) \/ SubscribeLeave(t)

LoopStep(s) ==
    \/ LoopCheck(s) \/ LoopGet(s) \/ LoopReply(s)
    \/ LoopEnter(s) \/ Dispatch(s) \/ CallbackReturns(s) \/ LoopLeave(s)

(* What thread t does on its own once it runs.                              *)
Run(t) ==
    \/ ~crashed /\ (CallStep(t) \/ (t \in SubThreads /\ LoopStep(t)))
    \/ IOStep(t) /\ UNCHANGED otherVars

UndefinedStep(t) == ~crashed /\ Undefined(t) /\ Crash /\ UNCHANGED otherVars

Environment ==
    /\ ~crashed
    /\ \/ \E ch \in Channels : nmsg < MaxMessages /\ ExternalPublish(ch)
       \/ \E c \in Contexts : Drop(c)
    /\ UNCHANGED otherVars

Next ==
    \/ \E t \in Threads : (~crashed /\ Call(t)) \/ Run(t) \/ UndefinedStep(t)
    \/ Environment

Spec == Init /\ [][Next]_vars

(* Every thread keeps running, sockets deliver, and callbacks return; a     *)
(* thread that waits for a lock that is not initialized may wait forever.   *)
Fairness == \A t \in Threads : WF_vars(~LockMisused(t) /\ Run(t))

FairSpec == Spec /\ Fairness

-----------------------------------------------------------------------------
(* Safety.                                                                  *)

Critical(t) == pc[t] \in CriticalPC \/ (t \in SubThreads /\ loop[t] \in CriticalLoop)

(* While the lock is in order, a thread between EnterCriticalSection and    *)
(* LeaveCriticalSection, in an exported function or around a callback, owns *)
(* it; so no two threads are ever both inside.                              *)
MutualExclusion == lockState = "ready" => \A t \in Threads : Critical(t) => lockOwner = t

(* From the moment redis_subscribe has stored its entry until it has the    *)
(* server's answer, the last entry of the table is its own: the             *)
(* g_callback_count-- of a failed call removes the entry that call stored,  *)
(* and not the entry of another call.                                       *)
OwnEntryLast ==
    \A t \in Threads :
        (lockState = "ready" /\ pc[t] \in {"subscribe_command", "subscribe_reply"}) =>
            g_table # <<>> /\ g_table[Len(g_table)] = arg[t]

Running(s) == loop[s] \notin {"none", "ended"}

(* The test of g_callback_count against 1, after failed subscribes and      *)
(* failed spawns too, starts at most one thread that reads g_sub_context.   *)
AtMostOneThread == \A s, u \in SubThreads : Running(s) /\ Running(u) => s = u

(* redis_publish finds its connection with nothing left over: no command    *)
(* unsent, no reply unread.  Its redisCommand then returns the answer to    *)
(* its own PUBLISH and not to an earlier one.                               *)
PublishPipelineEmpty ==
    (lockState = "ready" /\ g_context # NULL /\ \A t \in Threads : pc[t] # "publish_reply") =>
        (ctx[g_context] = "open" =>
            obuf[g_context] = <<>> /\ reader[g_context] = <<>> /\ sock[g_context] = <<>>)

(* When redis_close has deleted the lock no callback is running, and none   *)
(* starts afterwards, although the subscription thread may still hold a     *)
(* message it had received and is never joined.  The one exception is a     *)
(* redis_subscribe that entered the lock between its last release and its   *)
(* deletion: it has stored its entry, which the thread may find, and is     *)
(* about to pass a NULL g_sub_context to redisCommand.                      *)
NoCallbackAfterClose ==
    (lockState = "dead" /\ \E s \in SubThreads : loop[s] = "callback") =>
        \E t \in Threads : pc[t] = "subscribe_command" /\ g_sub_context = NULL

(* A redis_subscribe waits, inside the lock, for an answer on the connection*)
(* a subscription thread reads: the thread may take the answer, or not      *)
(* return to the reader because it waits for the lock.                      *)
AnswerContested ==
    \E t \in Threads : pc[t] = "subscribe_reply" /\ \E s \in SubThreads \ {t} : Running(s)

(* Every call returns: also when the server refuses, denies or drops, also  *)
(* a call made from a callback, whose thread is inside the lock already,    *)
(* and also when redis_close races with the subscription thread.  The one   *)
(* exception is a redis_subscribe beside a running subscription thread      *)
(* whose answer stays contested: it, and every call behind it at the lock,  *)
(* may wait for ever.                                                       *)
CallsReturn ==
    \A t \in Threads : []<>(pc[t] = "idle" \/ crashed) \/ <>[]AnswerContested
=============================================================================
