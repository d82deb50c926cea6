# Verification of redisEventLib

This directory holds TLA+ models of the Redis publish/subscribe library of this
repository: a small Windows DLL (`redis_pubsub.c`) over a vendored copy of
hiredis, with wrappers for Python and C#. TLC checks the models on small
instances, TLAPS proves most of their safety properties for all instances.

## The system

| Component | State | Operations | Meets |
|---|---|---|---|
| DLL, `redis_pubsub.c` | `g_context`, `g_sub_context`, `g_running`, the table `g_channels`/`g_callbacks`/`g_callback_count`, `g_lock`, the subscription thread | `redis_init`, `redis_close`, `redis_publish`, `redis_subscribe`, `redis_process_messages` | calls hiredis; calls the application's callbacks from its own thread, inside `g_lock` |
| hiredis blocking context, `hiredis.c` | `err`, output buffer `obuf`, `reader`, socket | `redisConnect`, `redisReconnect`, `redisFree`, `redisCommand`, `redisGetReply` | recv and send to the server; no lock of its own |
| hiredis sockets, `net.c` | the descriptor, the endpoint of the context, the timeouts | connect over TCP or a Unix socket, with retries, source address and timeout | system calls that fail |
| hiredis reply reader, `read.c` | a buffer, a stack of tasks, the reply that is being built | `redisReaderFeed`, `redisReaderGetReply` | fed by both contexts with pieces of a stream |
| hiredis asynchronous context, `async.c` | queues of callbacks, dictionaries of subscriptions, flags, the event library's data | commands, subscriptions, disconnect, free, handlers of events and timeouts | not used by the DLL; its callbacks call back into it |
| hiredis event adapters, `adapters/` | what the event library watches, the adapter's data | schedule and unschedule events and the timer, cleanup, the callback of the loop | between an event library and an asynchronous context |
| hiredis dictionary, `dict.c` | buckets with chains of entries | add, replace, delete, find, iterate, release | the subscriptions of the asynchronous context |
| hiredis SSL, `ssl.c` | an SSL object, `lastLen`, `wantRead`, `pendingWrite` | handshake, read, write, the asynchronous handlers | OpenSSL, below either context |
| Python and C# wrappers | a lock of their own, `_connected`, dictionaries of callbacks | connect, disconnect, publish, subscribe, dispose | call the DLL inside their lock; are called back by it |
| Redis server (external) | subscriptions of each connection | PUBLISH, SUBSCRIBE, MONITOR and others | answers and pushes messages on the connections |

What is hard in it:

* **Concurrency.** Application threads, callbacks and the subscription thread
  share two contexts. `g_lock` protects every exported function but neither
  `redisGetReply` of the subscription thread nor its tests of the globals.
* **Callbacks** run inside `g_lock`, or in the middle of a function of the
  asynchronous context, and call back into the library, disconnect it or free it.
* **Failure.** Connections fail and drop, commands are denied, memory runs out,
  the thread may not be created; each operation has a rollback or an error path.
* **Ordering.** Replies and pushed messages share one stream, and
  `redisCommand` returns whichever comes first. Streams are cut into pieces
  anywhere. TLS writes in order to read, and the other way round.
* **Time.** Timeouts of connections and commands race with late answers.
* **The end.** `redis_close` frees contexts and deletes the lock under the
  feet of a thread that it never joins. Adapters are cleaned up from inside
  their own callbacks.

What makes each component correct:

* DLL: the lock excludes; a failed subscribe removes its own entry; one
  subscription thread per connection; every call returns; messages reach the
  callback in order, once, all of them while the connection lasts; no callback
  after `redis_close`; no result of another call is taken for one's own.
* Blocking context: one reply per command, in order; a context is used by one
  thread at a time and never after `redisFree`.
* Sockets: no descriptor leaks; success means connected; failure is reported;
  a reconnection goes to the same endpoint; connecting ends.
* Reader: the same replies however the stream is cut, each as soon as it is
  complete; an error only where the stream is broken.
* Asynchronous context: each callback is called exactly once, in order, with a
  reply or with NULL; the context is freed exactly once and never inside a
  callback; its idea of what it is subscribed to is the server's.
* Adapters: no handler for a freed context; the data is released once and never
  used after it; no timer is lost.
* Dictionary: a map. SSL: nothing that was written or arrived is forgotten.
* Wrappers: the native callback of each entry of the table stays referenced; no
  deadlock between the wrapper's lock and `g_lock`.

## Modules

| Module | Content |
|---|---|
| `HiredisContext` | contexts, threads inside `redisGetReply`, the server; no specification of its own |
| `RedisPubSub` | EXTENDS it with the DLL: `Init`, `Next`, `Spec`, `FairSpec`, and the properties |
| `PubSubChannel`, `DeliveryRefinement` | abstract: what one subscription promises the application; the mapping to it |
| `RedisPubSubClaims` | what comments and documents say and the code does not keep |
| `ClientWrapper` | EXTENDS `RedisPubSub` with a client object of the Python or C# wrapper |
| `NetConnect` | how a context gets and loses its socket |
| `RespReader`, `RespReaderProperties` | the reply reader, and what is checked of it |
| `AsyncContext` | the asynchronous context with its application, event loop and server |
| `AsyncPromise`, `AsyncProperties` | abstract: every command settled once, in order; the mapping, properties and fairness |
| `EventAdapter` | the twelve adapters, told apart by a few traits |
| `Dict`, `CallbackMap` | the hash table with its iterator; abstract: a map that is iterated |
| `TlsLayer` | TLS below an asynchronous context |
| `MC...` | the instances that TLC checks, with the `.cfg` files |
| `RedisPubSubProofs` | proofs about the DLL: types, mutual exclusion, the table, the thread, `redis_close`, the publishing connection |
| `ClientWrapperProofs` | EXTENDS it with proofs about the wrappers |
| `NetConnectProofs`, `RespReaderProofs`, `AsyncProofs`, `DictProofs`, `TlsProofs`, `EventAdapterProofs` | proofs about hiredis |

`ClientWrapper` composes with `RedisPubSub`, and that with `HiredisContext`. The other
modules of hiredis meet at small interfaces instead, because their product is out
of TLC's reach: `AsyncContext` takes `Dict` for a function, which
`CallbackMap` justifies, and the reader for a sequence of whole replies, which
`RespReader` justifies; `EventAdapter` lets the context do what `AsyncContext`
shows it to do with its events (`TeardownAlone`, `NothingRegisteredLate`).

### Correspondence: the DLL and the wrappers

`pc[t]` is the place of thread `t` in an exported function; `x_enter` is a
thread before `EnterCriticalSection`, `x_reply` one inside `redisCommand`,
`x_leave` one before `LeaveCriticalSection`; `subscribe_command` is a subscriber that
has stored its entry and comes to `redisCommand`. `loop[s]` is the place of a
subscription thread in `subscription_thread`, and stays at `callback` while
the callback makes calls of its own (`pc[s]`). `io[t]` is the place inside
`redisGetReply`: `try` looks into the reader, `flush` sends, `recv` waits for
the socket, `parse` feeds the reader with what was received. These are the
points at which another thread can interleave on a shared context.

`g_table` is `g_channels` and `g_callbacks` up to `g_callback_count`. The
critical section counts the entries of its owner. Contexts are numbered, and
numbers are not reused, so a pointer to a freed context is recognised.

`ClientWrapper` adds the object: `held` is the owner of its lock, `connected`
its flag, `native` the dictionary that keeps native callbacks alive, and
`client[t]` the method `t` is in: waiting for the object's lock (`lock`), inside
it (`call`), or in the DLL (`dll`). The threads call the DLL only through it. The
four methods are the same in the two languages, and neither `Disconnect` tests
`_connected`. `GuardedDispose` is an application that disconnects through `Dispose` of
C#, which does test it; without it the application calls `Disconnect` itself, or
`__exit__` of Python, which tests nothing. Its application
connects and disconnects one at a time; publish and subscribe may overlap both.

Undefined behaviour is a choice: a step on a freed context either takes an
outcome of the code or ends the process (`Crash`), and so do two threads
writing one reader or one output buffer, and the use of a lock that was deleted
(`Undefined`). After `DeleteCriticalSection` a thread in
`EnterCriticalSection` may get in, crash, or wait for ever.

The server is external. It answers a command or, when `"deny"` is in `Faults`,
refuses it with an error reply; it pushes messages to the subscribers. A dropped
connection keeps a prefix of what was on its way. The application is
external too: it does not call other functions while `redis_init` runs, calls
`redis_init` when none of its calls is running, and calls `redis_close` after
`redis_init`.

Abstracted there: the text of messages, formatting of commands, partial replies
(a `recv` that completes no reply is a stuttering step), out of memory other
than in `redisConnect`. The test of channel and callback for NULL is passed.

### Correspondence: hiredis

`NetConnect`: a step is one system call with what the code does about its outcome;
`pc` is the call to come. `c` and `sock` are the context and its socket, `open`
the descriptors of the process, `asked` the options of
`redisConnectWithOptions`. Every call in `Faults` may fail. Time is counted in
units of which the connect timeout has `Timeout`; `poll` may be interrupted at any
of them. Addresses are numbered, and what they resolve to is the environment's
choice. Memory may run out for the copies of the timeouts, of the endpoint and of the
address (`"oom"`), and for the new reader of a reconnect.

`RespReader`: `stream` is what the server sends, in units of a type byte, a line or
a piece of a body; `fed` says how much the reader got. `task` is the stack up to
`ridx`, `tasks` its capacity (`StackSize` at first, a constant in place of 9),
`pos` and `buf` the position in the buffer and its length, and `DiscardAt` stands
for 1024. What a server sends is stated once more without the reader (`Carries`): a
reply is a tree of objects, sent an aggregate before its elements and these in their
order (`Before`); the units before an object are those of the objects sent
`Earlier`; and behind the last reply is nothing, or the beginning of one up to the
object `broken.at` that breaks the protocol. The streams of the run are generated by
`MCRespReader`: nested arrays, maps with doubled elements, nils, empty strings,
and breaks of the protocol at every place; TLC evaluates that they are such streams.

`AsyncContext`: one thread runs everything. `pc` is the function of async.c that
runs and `frame` the callback it is in, so that the application can issue
commands, disconnect and free at exactly the points where the library calls back.
`replies` and `subReplies` are `ac->replies` and `ac->sub.replies`; `subs` is both
dictionaries with `pending_subs` and `unsubscribe_sent` of each entry. `log` is
what the callbacks were given, in order. A command that is issued without a
callback is in `Silent`. `Habits` are things an application may do that are known to
be troublesome; none is in the regular runs.

`EventAdapter`: the traits of an adapter say in which order one callback of the
loop calls the handlers, whether it looks again after each, during which callbacks
cleanup is deferred, who frees the data, and what becomes of a timer that
fired. The twelve values are read from the twelve headers. Where the application owns
the adapter it may destroy it between two callbacks (`OwnerReleases`), before the
context is cleaned up or after. The destructor of the Qt adapter then sets `ev.data` to
NULL in the context it was given; before, that leaves the context with the functions of
an adapter that is gone (`CallsOrphan`), and after, it writes to a context that may be
freed. The tick of the poll adapter looks at its deadline after the other handlers
(`PastDeadline`).

`Dict`: the slots of the table are numbered from 0 and each has a set of entries, its chain.
The order of a chain shows only in the order in which an iteration meets the
entries, which is left open. The hash of a name is a constant, so that names collide.
An iterator keeps the slot, what is left of its chain (`nextEntry` on) and the key of
the entry it returned last.

`TlsLayer`: a handshake is the sequence of directions in which OpenSSL has to
transfer; a call works through it as far as the socket allows and returns what it
wants, or "end" when it has to read and the server closed: `SSL_read` and `SSL_write` then
return 0, which is an error of the one and nothing to the other. `rssl` is the struct of that name, `watched` what the event library watches.

## Checks

Deadlock is not checked: the bounded application stops calling, a thread waits in
`recv` for a message that nobody publishes, a context was freed: all are correct
ends.

| Run | Instance | Shows |
|---|---|---|
| `Concurrent` | 2 application threads, 2 callbacks, all faults, 1 message, 1 publish, 2 subscribes, callbacks publish | `TypeOK`, `MutualExclusion`, `OwnEntryLast`, `AtMostOneThread`, `PublishPipelineEmpty`, `NoCallbackAfterClose` |
| `Delivery` | 1 application thread, 1 subscription thread, 1 message, 1 publish, 3 subscribes, a table of two entries, `connect`, `drop`, `deny`, close, callbacks publish and call `redis_process_messages` | `DeliveryComplete`: refinement of `PubSubChannel!FairSpec`, order and liveness; `CallsReturn` |
| `WrapperSafety` | 2 application threads, 2 channels, 1 message, 1 publish, 2 subscribes, `connect`, `drop`, `spawn`, callbacks publish | `CallbacksAlive`, `ConnectedIsOpen`, `NoDoubleFree`, `CallersFindLock` |
| `AsyncSafety` | 1 channel, 1 pattern, 3 commands of which 2 have replies, the second without a callback, 1 message, RESP3, both timeouts, `REDIS_OPT_NOAUTOFREE` or not, connections that are refused, dropped or lose `TCP_NODELAY`, denied commands | `NoAbort` (with `TypeOK`), `MessagesHaveCallback`, `TeardownAlone`, `NoReplyLost`, `NothingRegisteredLate`, `SubscribedModeExact`; `CallbacksInOrder`: refinement of `AsyncPromise` |
| `AsyncProgress` | the same with 2 commands and no pattern, always freed automatically, under fairness | `EveryCommandSettled`, `EndsWhenAsked` |
| `ReplyReader` | stacks of 2, at most 4 elements, discarding at 3, memory runs out | `RepliesAsSent`, `NothingWithheld`, `ReaderSound` (types, the parents on the stack, the buffer), `EveryReplyReturned` |
| `Dictionary` | 5 names that collide, 2 values, 2 buckets at first, memory runs out | `TableSound` (types, chains, the count); `IsMap`: refinement of `CallbackMap` |
| `Connect` | all combinations of options, every system call may fail, 2 retries, a timeout of 3, 2 reconnections | `FdsOwned`, `OkMeansConnected`, `KnownEndpointKept`, `WaitBounded`, `FailureReportedWithoutReuse`, `ConnectReturns` |
| `Tls` | 3 commands, 2 renegotiations, a socket without room, a server that closes | `RepeatedAsBefore`, `WriteNotForgotten`, `EveryCommandSent`, `EveryReplyRead` |
| `Adapters` | nine adapters, owners that destroy theirs | `NoDanglingUse`, `DataReleased`, `TimerNotLost` |
| `LostSubscribe`, `TlsStale` | see below | a violation each |

Why these bounds are enough to be of interest:

* DLL: two subscribes with a callback each show the second entry, whose entry a
  failed call removes, and a rollback beside a living thread; the publish meets
  everything else from a thread or from a callback. With the thread's own publish two
  messages can arrive in one `recv`, or in two, or around a drop. `Concurrent` has two
  subscription threads, one more than the code should start, and is reduced by the
  symmetry of application threads, of subscription threads and of callbacks, `WrapperSafety` by that of application threads and of channels.
  In `Delivery` two subscribes fill the table and a third is refused, as the 101st would
  be; one may fail and be followed by two more. Its faults leave out `spawn`; the
  theorem `DeliversInOrder` covers it.
* Wrapper: two calls of subscribe give a second entry beside a live one, and a
  failed call followed by another on the same channel; one publish from a second
  thread or a callback suffices to meet `redis_close` at every point.
* Asynchronous context: three commands are a subscription, its end and a command
  that is issued in between and waits for it; two kinds of names are needed because the
  last answer of one kind may count zero while the other is still subscribed.
* Reader: a stack of two has to grow for a reply of three levels, and a buffer is
  discarded in the middle of a reply. Every partition of each stream is fed.
* Connect: two reconnections are the least after which a state left by the first
  can disturb; the timeout of three lets a wait be interrupted early and late.
* Dictionary: five names double a table of two buckets twice.

Two properties of the DLL have an exception, which the runs reach:

* `NoCallbackAfterClose`. `redis_close` releases the lock (line 70) before it
  deletes it. A `redis_subscribe` that enters in between stores and counts its entry, and
  only then passes the NULL `g_sub_context` to `redisCommand`; until it does, the
  thread of the closed session may find that entry and call it. The exception is exactly
  this subscriber. Without it the property is violated within the bounds of
  `Concurrent`.
* `CallsReturn`. The answer to a second `redis_subscribe` may be taken by the
  subscription thread, or the thread may wait for the lock while it is in the
  reader: the caller then waits inside `g_lock` for ever, and everybody else behind
  it. The exception is a subscriber that waits beside a running thread from some time
  on (`AnswerContested`). `SecondSubscribe` shows it.

The refinement of `PubSubChannel` is of what one subscription is promised: while a second
is in the table, or its answer is still unread (`several`), nothing is promised. Once
it was rolled back or refused the promise holds again. The refinement maps `pending` to the message in the hand of the
thread, followed by the reader, the bytes received and not yet fed, and the
socket of the subscribing connection, without the server's answer to SUBSCRIBE when
that is still in front; `cut` to that connection being dropped, in error
or freed. `LoseTail` is the only way to lose a message, and ends the channel. The
refinement of `AsyncPromise` maps its queue to `ac->replies` followed by
`ac->sub.replies`.

Fairness of the DLL is weak fairness of each thread's own steps (`Run`): the
scheduler of the operating system runs every thread, an enabled send or recv
completes, and callbacks return. Starting a call, faults and undefined behaviour
have none. A thread that uses a lock that is not initialized has none either.
Weak fairness of a thread suffices although the critical section is not fair, because
the instances bound how often other threads can enter it. In `AsyncProperties` the
event loop serves what is ready again and again (strong fairness, because an
event may be unwatched and watched again in between), callbacks return, and the
network delivers whole replies in the end. The reader, the connection and the
TLS layer have weak fairness of their own steps: their caller calls again, and
a poll loop notices what is ready.

### What the code does not keep

Two runs expect a violation:

| Run | Statement | What happens |
|---|---|---|
| `LostSubscribe` | README_CSHARP.md: true when subscribed | a buffered message is taken for the answer and SUBSCRIBE is not sent |
| `TlsStale` | ssl.c:596, "Need to read-before-write" | `wantRead` is left over from an earlier call, and a write that only waits for room is no longer watched for |

More instances are kept with the project and violate a statement too. They are not
among the regular runs:

| Instance | Statement | What happens |
|---|---|---|
| `CloseFreesInUse` | hiredis/README.md on `redisFree` | `redis_close` frees the context the thread is blocked on |
| `SecondSubscribe` | redis_pubsub.h: asynchronous | the thread swallows the confirmation, the caller waits inside `g_lock` |
| `ContextShared` | hiredis/README.md: a context is not thread-safe | a second `redis_subscribe` and the thread are both inside `redisGetReply` |
| `FailedInit` | "Redis not initialized" | a failed `redis_init` leaves dangling pointers that pass the test |
| `DeniedPublish` | README_CSHARP.md: -1 when sending failed | an error reply counts as zero receivers |
| `SecondSession` | hiredis/README.md: not thread-safe | the old thread survives `redis_close` and `redis_init`, two threads read one connection |
| `WithAfterFailure` | redis_client.py: the with statement is recommended | after a failed connect it calls `redis_close`, which frees freed contexts |
| `CallbackPublishes` | redis_client.py: publish returns receivers or -1 | a callback's publish and another thread's wait for each other's lock |
| `Resubscribed` | redis_client.py: the reference must be kept | a second subscription overwrites the reference to the callback that is called |
| `FailedReconnect` | redis_client.py: tells whether it is connected | a failed second connect leaves the client connected to freed contexts |
| `AdaptersOwner` | `NothingUsedAfterFree` | the destructor of a Qt adapter writes to its context, which may be freed |
| `AdaptersTwoHandlers` | `NoDanglingUse` | glib and libhv call the second handler of a callback although the first may have freed the context |
| `AdaptersLostTimer` | `TimerNotLost` | libsdevent does not enable a time source again that fired |

Two instances hold: `WrapperProgress` checks `ClientTypeOK` and `MethodsReturn`
with callbacks that call no method of the object, the counterpart of
`CallbackPublishes`; `ConnectOom` is `Connect` with
memory that runs out and one reconnection, and checks `NetTypeOK` too.

Some properties are written with the condition under which they hold, and the
stronger one beside them is violated: `SameEndpoint` (a context whose type is not known
yet, or that was made of a descriptor, is reconnected over TCP to no host),
`FailureReported` (with `REDIS_OPT_REUSEADDR` two failures set no error) and
`OkIsUsable` (a failure to set the command timeout of a reconnection) in
`NetConnect`. With `"oom"` among the
faults (`ConnectOom`), `KnownEndpointKept` is violated. Of the habits, `"monitor"` violates
`EndsWhenAsked` (the queue of callbacks never empties) and `"resubscribe"`
`SubscribedModeExact`; with `"arrays"` `CallbacksInOrder`, `NoReplyLost` and `NoAbort`
still hold, with `"end_in_push"` `NoAbort`, `TeardownAlone` and
`NothingRegisteredLate`, with `"mixed"` `TypeOK`, `NoAbort`,
`MessagesHaveCallback` and `SubscribedModeExact`. `TickLate` violates
`NoDanglingUse` of the poll adapter.

Further hazards that no property covers, beside those listed in PROJECT.json: the
64 bit number of receivers that `redis_publish` cuts to `int`; a channel
of 256 characters, for which `strcpy_s` aborts the process inside the lock;
`dictReplace` out of memory in `async.c`, which frees the name and loses the callback;
an array of three or more elements that passes for a message until a push was seen; a
renewed subscription while its unsubscription is pending; the push callback
that ends the context; copies of host and source address that fail; the blocking
`SSL_read` that looks at an old `errno`; `redisReconnect` of a context with TLS;
glib, libhv and libsdevent (above). `redisReconnect` out of memory leaves
`c->reader` NULL.

## Proofs

All hold for every value of the constants: any number of threads, contexts,
channels, commands, faults and every bound. The assumptions are those named in the
modules (`ContextAssumption`, `PubSubAssumption`, `WrapperAssumption`,
`AsyncAssumption`, `DictAssumption`, `ReaderAssumption`, `StreamAssumption`,
`NetAssumption`, `TlsAssumption`): the bounds are numbers, kinds of threads and of
names are disjoint, the table has room for an entry, the timeout is not zero, NULL
is no callback, a stream is a sequence of units of input that carries its replies, a
hash is a number.
Further hypotheses are written in the theorems.

The DLL:

* `TypeCorrect`: `Spec => []TypeOK`. The inductive invariant is `TypeInv`.
  It adds that a thread inside `redisGetReply` has a context (`IOTarget`), that
  a call which uses its arguments has them (`ArgsKnown`), and that an owned lock
  has a positive depth.
* `Mutex`: `MutualExclusion`, if the library is initialized once (`~Reinit`).
  The invariant `LockInv` counts: the depth of the lock is the number of times
  its owner is inside, in a call and around a callback, and nobody else is
  inside; before `redis_init` nothing runs. The count is what makes recursion
  and the error paths go through: leaving is always leaving one's own entry.
  `~Reinit` is needed: a second `redis_init` initializes a lock that the
  thread of the first session may hold.
* `RollbackOwnEntry`, `SingleThread`: `OwnEntryLast` and `AtMostOneThread`. The
  invariant `TableInv` says what `redis_close` leaves behind (no context, and no entry
  but that of a subscriber who came too late), that the entry of
  a pending subscribe is the last, that a thread has an entry besides that one
  (so the counter is not 1 when a second subscribe tests it), that there is one
  thread, and that `redis_init` runs alone.
* `SilenceAfterClose`: `NoCallbackAfterClose`, if callbacks do not call
  `redis_close`. `SilentInv` says that no callback runs from the moment the
  contexts are freed, but for the subscriber of the exception above. A callback that closes the library keeps running after
  the lock is gone, so the condition is needed.
* `PublishFindsEmpty`: `PublishPipelineEmpty`, if the library is initialized once. The
  invariant `PipeInv` follows one command through the publishing context: that context is
  used by `redis_publish` only (`OnlyPublishes`), which `g_lock` makes a single
  thread (`Mutex`); while it waits, the command or its answer is in the output
  buffer, on the socket, among the bytes received or with the thread, unless it is lost,
  and in no two of these (`InFlight`); when nobody waits all are empty, or the context
  is no longer open (`Pipeline`). A context that was not made yet has none of them
  (`UnusedUntouched`).
  With a second `redis_init` a thread of the first session could be inside the lock.
* `DeliversInOrder`: `Spec => DeliveryInOrder`, the refinement of `PubSubChannel` without
  its fairness, if the library is initialized once (`~Reinit`) and subscribes once
  (`MaxSubscribes = 1`; what is promised is the one subscription of a client). Any
  number of threads publish, call `redis_close` and fail meanwhile, and callbacks do
  too. `DeliveryInv` says that the one subscribe finds an empty connection that nobody
  uses (`OneSubscription`); that the server's answer is the first to arrive there and
  only messages of its channel follow (`Stream`, `InHandWanted`), because the server knows
  of no other subscription (`OnlySubscriber`); that at most one thread is inside
  `redisGetReply` on that connection and has bytes of it only until they are fed
  (`Buffers`); and that contexts are freed by `redis_close` and a failed `redis_init`
  only (`Lifetimes`), which is when a thread that still runs finds no connection. From it every
  step is a message that arrives, one that is given to the callback, the loss of a tail,
  or a stutter. `Delivery` checks it for several subscribes and with liveness.

The wrappers, for any number of threads that share an object:

* `ClientTypeCorrect`: the object and the library below it are well typed, and the
  object's lock has an owner exactly while a thread is past taking it.
* `ClientUsesLibrary`: `ClientSpec => Spec`. The object makes only calls the library
  allows, so the theorems about the DLL hold below a wrapper.
* `CallersLocked`: `CallersFindLock`. `CallerInv` says that a thread in the DLL has
  the object's lock and is in the function its method calls, so that it is alone
  there, and that the lock is deleted by a call which is the last.
* `ConnectedHasContexts`: `ConnectedIsOpen`. `SessionInv` says that `redis_init`
  returns 1 with two contexts, and that nothing but a method of disconnecting frees them. For a
  second `redis_init` the statement is false (`FailedReconnect`).
* `GuardedDisposeFreesOnce`: `NoDoubleFree` for a `Dispose` that tests the flag
  (`OneSession`: a disconnect finds the client connected). For the one that does not,
  `WithAfterFailure` violates it.
* `CallbacksKeptAlive`: `CallbacksAlive`, if a channel is subscribed once and callbacks
  do not close the library. `AliveInv` says that the entries of the table, and the
  callback that runs, are in `native`, that a pending subscribe passed on what it stored
  there, and that its channel is new. `Resubscribed` shows why the first condition
  is needed; a callback that disconnects is still running when its reference is dropped.

The asynchronous context, for every habit and fault:

* `TornDownAlone`, `NothingLate`: `TeardownAlone` and `NothingRegisteredLate`.
  `ControlInv` relates the function that runs, the callback and the flags: a callback
  runs exactly while `REDIS_IN_CALLBACK` is set; whoever still uses the adapter
  (`Working`, `WorkingFrames`) finds it attached; once it is not, or once
  `__redisAsyncFree` runs, a flag is set that refuses commands. The connect
  callback needs a clause of its own, since what follows it depends on the handler.
* `SettledInOrder`: commands are settled in the order of issue, each at most once,
  without MONITOR. `OrderInv` says that the numbers in `log`, `ac->replies` and
  `ac->sub.replies`, one after the other, are 1, 2, 3 and so on; this goes through
  because a command joins the second queue only in subscribed mode and the
  queue is handed over only when the first is empty.

The asynchronous context and the server, for every fault, both protocols and any
number of commands, if the application is orderly:

* `NothingAborts` (`NoAbort`, with `TypeOK`), `MessagesFindCallback`
  (`MessagesHaveCallback`), `EveryReplyReaches` (`NoReplyLost`), `ModeIsExact`
  (`SubscribedModeExact`) and `PromiseIsKept` (`CallbacksInOrder`, the refinement of
  `AsyncPromise`: every step is one of the abstract queue or a stutter).
* `Orderly` says what the code relies on: `Habits` may hold `"end_in_push"` only, and no
  list of names repeats one. So MONITOR is not used, SUBSCRIBE waits until no ignored answer is
  awaited, a list of several names has only new ones, and no reply of a command
  is an array, which could pass for a message. `AsyncSafety` and `AsyncProgress` are such
  instances, with `Habits` empty. Outside it `SubscribedModeExact` is false for a renewed
  subscription; what TLC finds with each habit is said above.
* The inductive invariant is `AsyncInv`. What the client keeps is two counters and a
  flag per name, a counter of answers to ignore and the mode; whether a reply
  finds what it looks for depends on all replies before it, and on the commands the
  server has not read yet. So the invariant says that there is a list, the ledger
  (`Ledger`), of all confirmations and answers to unsubscriptions still to come: for each
  position in it, `V` is what the server has open there, `W` the confirmations still
  awaited for each name, `G` the answers still to ignore. At its start these
  are the counters of the client, at its end they are zero. `HeardBy` places every
  reply on its way along the ledger, and `SentBy` every command in the output buffer;
  the server stands where the replies end and the commands begin (`Talk`). A command appends
  to the ledger (`LedgerOpens`, `LedgerAsks`, through the loops over its names),
  processing removes the first (`LedgerTakes`), and the properties are what the first
  reply (`TalkTells`) and the end of the conversation (`TalkEnds`) tell.
* The conversation lasts while no error is set and the context is not being freed
  (`Talking`); after a denied SUBSCRIBE nothing is claimed of the replies behind it. From
  then on `ErrInv` says that the library is on its way to `__redisAsyncFree`, `GotInv` that
  no command was settled with NULL before, and `GoneInv` that nothing waits when
  the disconnect callback is called.

Connecting, for every set of requests and faults:

* `NoFdLeaks`, `WaitIsBounded`, `OkIsConnected`, `FailureIsReported`, from `NetInv`:
  at most the descriptor of the context is open and it is there between `socket`
  and the end of an attempt (`FdInv`); a failure with an unset error is
  possible only with `REDIS_OPT_REUSEADDR` (`ResultInv`); `poll` is repeated only
  after less than the timeout (`WaitInv`); the socket does not block until the
  connection is made, and is in the mode that was asked for at the end (`ReadyInv`).
* `EndpointIsKept`: `KnownEndpointKept`, if memory suffices. `EndpointInv` says from which
  step on the context knows the host or the path: a host since the first attempt
  began, a path since it was copied, with the type.
* `ConnectTypes`: `NetTypeOK`, if the number of addresses and the bound on reconnections are
  numbers (`NetAssumption`). `CountInv` adds to `NetInv` that a TCP context which comes
  to `connect` tries an address of the list, so that the next one is at most one past it.

The reply reader, for every stream and every way to cut it:

* `ReaderIsSound`: `ReaderSound`, for any units of input (its proof does without
  `StreamAssumption`). `ReaderInv` adds that the stack is never deeper than
  the input consumed so far, which bounds how it grows, and that the objects below an
  aggregate are written at longer paths than that of any parent on the stack, so
  that writing one never replaces an aggregate that is still being filled.
* `RepliesArriveAsSent`: `RepliesAsSent`, and `NothingIsWithheld`: `NothingWithheld`, for
  replies of any size and nesting, with any break behind them. `ArrivalInv` says that
  the objects made so far are exactly those sent before the one at work, that the
  units of these, and of the type byte when it was read, are what was consumed, and
  that the buffer is what the server sent up to `fed`. The order of sending needs
  no recursion: it is a total order on paths (`OneBeforeTheOther`), and the next path
  after one is its first element (`FirstElementIsNext`) or, when it has none, the next
  element of the innermost aggregate that is not complete (`NextElementIsNext`), which is
  the path `moveToNextTask` goes to; when there is none, the object was the last
  (`AllBeforeTheLast`).

The dictionary, for every hash function, initial size and failed allocation:

* `TableIsSound`: `TableSound`. An entry is alone with its key, in the chain its hash
  selects, through every doubling.
* `TableIsMap`: `DictSpec => IsMap`, the refinement of `CallbackMap`. `IterSound` says that
  what is left of the iterator's chain is still in the table and lacks the key that
  was returned last, so deleting that entry does not disturb the iteration. A doubling
  and the end of an iteration are stutters of the map.

TLS:

* `RepeatsAsBefore`, `NoWriteForgotten`, from `TlsInv`: `lastLen` is the length of
  the write that OpenSSL expects again, and a handler that writes on has
  something to write (`HandlerInv`).

The adapters, for every adapter that follows the rules, also one not written yet:

* `AdapterTypes`, `NothingDangles`, `NothingDanglesUnowned`, `DataIsReleased`, `TimersKept`. The rules are a
  constant formula, `Rules`: an adapter whose callback calls several handlers looks
  again after each and, if it frees its data itself, defers that to the end of each
  such callback; only data that the adapter frees itself is deferred; a
  timer that fired leaves no dangling reference; `TimersKept` adds that it can be
  started again. `MCEventAdapter` extends the proof module
  and assumes `RulesAssumption`, so TLC evaluates that the nine adapters of the
  run follow the rules, and that glib, libhv and libsdevent do not. The invariant
  says that the data which is not free yet is freed by exactly one of its owner,
  the end of the callback and the last handle to close (`ReleaseInv`). An adapter that
  the application owns can be destroyed while a context is attached to it, and one
  with a destructor is not safe to destroy afterwards either: `NothingDangles` and
  `DataIsReleased` except these (`Orphaned`), and `NothingDanglesUnowned` needs no
  exception because it is about the other adapters.

Only model-checked:

* liveness, which is beyond the prover, as is ENABLED: `DeliveryComplete` with its fairness,
  `CallsReturn`, `EveryCommandSettled`, `EndsWhenAsked`, `EveryReplyReturned`,
  `ConnectReturns`, `EveryCommandSent`, `EveryReplyRead`;
* what `AsyncContext` does for applications that are not orderly (see above);
* the refinement of `PubSubChannel` for a client that subscribes more than once, as in
  `Delivery`.

## Not modelled

* `sds.c`: strings and their memory. The models speak of whole commands, replies
  and units of input, and nothing depends on how a string is stored.
* Formatting of commands (`redisvFormatCommand` and its relatives): a pure
  conversion. `__redisAsyncCommand` is modelled from its result, a list of names.
* `sockcompat.c`, `alloc.c` and the headers of the platform layer translate system
  calls, and the creation of SSL contexts is configuration of OpenSSL.
* Of `async.c`, out of memory; of `ssl.c`, contexts that block and reconnection;
  of `net.c`, keep-alive and the user timeout, which only set socket options.
* The digits and characters of a line in the reply reader, and numbers so large
  that the count of elements overflows.
* Example programs and tests, which were read for what they claim.
