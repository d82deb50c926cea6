--------------------------- MODULE ClientWrapper ---------------------------
(***************************************************************************)
(* A client object of the Python wrapper (redis_client.py) or of the C#    *)
(* wrapper (RedisPubSubClient.cs) over the DLL.  Its methods take the      *)
(* object's own lock around every call of the DLL.                         *)
(*                                                                         *)
(* The lock is a Lock in Python and a re-entrant monitor in C#; no method  *)
(* calls another one inside it, so the difference does not show.           *)
(***************************************************************************)
EXTENDS RedisPubSub

CONSTANTS
    AppMethods,      \* methods the application's threads call
    CallbackMethods, \* methods the callbacks call
    GuardedDispose,  \* TRUE: it disconnects through Dispose of C#; FALSE: with
                     \* disconnect itself, or __exit__ of Python
    Resubscribe      \* whether the application may subscribe a channel twice

Methods == {"connect", "disconnect", "publish", "subscribe"}

ASSUME WrapperAssumption ==
    /\ AppMethods \subseteq Methods /\ CallbackMethods \subseteq Methods
    /\ GuardedDispose \in BOOLEAN /\ Resubscribe \in BOOLEAN
    /\ NULL \notin Callbacks

VARIABLES
    connected,  \* _connected
    held,       \* the thread inside the object's lock
    native,     \* _dll_callbacks, _nativeCallbacks: the one reference to the
                \* native callback of a channel, or NULL
    created,    \* native callbacks created so far
    client      \* client[t]: where t is in a method, and its arguments

wrapperVars == <<connected, held, native, created, client>>
allVars == <<vars, wrapperVars>>

Idle == [at |-> "idle", method |-> "none", channel |-> NoChannel, callback |-> NULL]

(* Types, and the object's lock: its owner is the one thread that is in a   *)
(* method past taking it, in every method and on every way out.             *)
ClientTypeOK ==
    /\ connected \in BOOLEAN
    /\ held \in Threads \cup {NoThread}
    /\ native \in [Channels -> Callbacks \cup {NULL}]
    /\ created \subseteq Callbacks
    /\ client \in [Threads -> [at : {"idle", "lock", "call", "dll"},
                               method : Methods \cup {"none"},
                               channel : Channels \cup {NoChannel},
                               callback : Callbacks \cup {NULL}]]
    /\ \A t \in Threads : held = t <=> client[t].at \in {"call", "dll"}

ClientInit ==
    /\ Init
    /\ connected = FALSE
    /\ held = NoThread
    /\ native = [ch \in Channels |-> NULL]
    /\ created = {}
    /\ client = [t \in Threads |-> Idle]

-----------------------------------------------------------------------------
(* The application.  It connects when it is not connected, and disconnects  *)
(* once what it tried to connect; with a guarded Dispose, only if that      *)
(* succeeded.  Disconnect itself does not test the flag in either language. *)

InMethod(m) == {t \in Threads : client[t].method = m /\ client[t].at \in {"lock", "call"}}
Underway(m) == \E t \in Threads : client[t].method = m

(* Mutant: a failed connection is closed too.                               *)
DisposeUnguarded == connected \in BOOLEAN

(* Dispose of C# tests _connected; Disconnect of both, and __exit__ of      *)
(* Python, do not.                                                          *)
Dispose == GuardedDispose => connected

(* What makes a call useful, or possible within the bounds.                 *)
Sensible(m, ch) ==
    CASE m = "connect" ->
            /\ ch = NoChannel
            /\ ~Underway("connect") /\ ~Underway("disconnect")
            /\ lockState = "raw" \/ Reinit
            /\ Cardinality({c \in Contexts : ctx[c] = "unused"}) >= 2
      [] m = "disconnect" ->
            /\ ch = NoChannel
            /\ ~Underway("connect") /\ ~Underway("disconnect")
            /\ lockState = "ready"
            /\ Dispose
      [] m = "publish" ->
            ch # NoChannel /\ npub + Cardinality(InMethod(m)) < MaxPublishes
      [] m = "subscribe" ->
            /\ ch # NoChannel
            /\ nsub + Cardinality(InMethod(m)) < MaxSubscribes
            /\ Resubscribe \/ (native[ch] = NULL /\ \A t \in InMethod(m) : client[t].channel # ch)

(* _connected is tested before the lock is taken; when it is false publish  *)
(* and subscribe return at once.                                            *)
ClientCall(t, m, ch) ==
    /\ client[t].at = "idle" /\ pc[t] = "idle"
    /\ \/ t \in AppThreads /\ m \in AppMethods
       \/ t \in SubThreads /\ loop[t] = "callback" /\ m \in CallbackMethods
    /\ Sensible(m, ch)
    /\ (m \in {"publish", "subscribe"}) => connected
    /\ client' = [client EXCEPT ![t] = [Idle EXCEPT !.at = "lock", !.method = m, !.channel = ch]]
    /\ UNCHANGED <<vars, connected, held, native, created>>

-----------------------------------------------------------------------------
(* The methods.                                                             *)

(* Mutant: the method goes on without the lock.                             *)
ClientLockSkipped(t) ==
    /\ client[t].at = "lock"
    /\ client' = [client EXCEPT ![t].at = "call"]
    /\ UNCHANGED <<vars, connected, held, native, created>>

(* with self._lock, lock (_lockObj)                                         *)
ClientLock(t) ==
    /\ client[t].at = "lock"
    /\ held = NoThread
    /\ held' = t
    /\ client' = [client EXCEPT ![t].at = "call"]
    /\ UNCHANGED <<vars, connected, native, created>>

InDLL(t) == client' = [client EXCEPT ![t].at = "dll"]

ClientConnect(t) ==
    /\ client[t].at = "call" /\ client[t].method = "connect"
    /\ InitCall(t)
    /\ InDLL(t)
    /\ UNCHANGED <<connected, held, native, created>>

ClientDisconnect(t) ==
    /\ client[t].at = "call" /\ client[t].method = "disconnect"
    /\ CloseCall(t)
    /\ InDLL(t)
    /\ UNCHANGED <<connected, held, native, created>>

ClientPublish(t) ==
    /\ client[t].at = "call" /\ client[t].method = "publish"
    /\ PublishCall(t, client[t].channel)
    /\ InDLL(t)
    /\ UNCHANGED <<connected, held, native, created>>

NewCallback == CHOOSE f \in Callbacks : f \notin created

(* A native callback is made for every call, and the channel's entry in the *)
(* dictionary is overwritten before the DLL is asked.                       *)
ClientSubscribe(t) ==
    /\ client[t].at = "call" /\ client[t].method = "subscribe"
    /\ created # Callbacks    \* bound
    /\ created' = created \cup {NewCallback}
    /\ native' = [native EXCEPT ![client[t].channel] = NewCallback]
    /\ SubscribeCall(t, client[t].channel, NewCallback)
    /\ client' = [client EXCEPT ![t] = [@ EXCEPT !.at = "dll", !.callback = NewCallback]]
    /\ UNCHANGED <<connected, held>>

Leaves(t) == /\ held' = NoThread
             /\ client' = [client EXCEPT ![t] = Idle]
             /\ UNCHANGED <<vars, created>>

Returned(t, m) == client[t].at = "dll" /\ client[t].method = m /\ pc[t] = "idle"

(* Mutant: the result of redis_init is not looked at.                       *)
ConnectReturnsAnyway(t) ==
    /\ Returned(t, "connect")
    /\ connected' = TRUE
    /\ Leaves(t) /\ UNCHANGED native

(* A failed redis_init leaves _connected as it was.                         *)
ConnectReturns(t) ==
    /\ Returned(t, "connect")
    /\ connected' = (connected \/ ret[t] = 0)
    /\ Leaves(t) /\ UNCHANGED native

DisconnectReturns(t) ==
    /\ Returned(t, "disconnect")
    /\ connected' = FALSE
    /\ native' = [ch \in Channels |-> NULL]
    /\ Leaves(t)

PublishReturns(t) ==
    /\ Returned(t, "publish")
    /\ Leaves(t) /\ UNCHANGED <<connected, native>>

(* Mutant: the entry is removed when the subscription succeeded.            *)
SubscribeReturnsInverted(t) ==
    /\ Returned(t, "subscribe")
    /\ native' = [native EXCEPT ![client[t].channel] = IF ret[t] = 0 THEN NULL ELSE @]
    /\ Leaves(t) /\ UNCHANGED connected

(* A failed subscription removes the channel's entry.                       *)
SubscribeReturns(t) ==
    /\ Returned(t, "subscribe")
    /\ native' = [native EXCEPT ![client[t].channel] = IF ret[t] = 0 THEN @ ELSE NULL]
    /\ Leaves(t) /\ UNCHANGED connected

-----------------------------------------------------------------------------
MethodStep(t) ==
    \/ ClientLock(t)
    \/ ClientConnect(t) \/ ClientDisconnect(t) \/ ClientPublish(t) \/ ClientSubscribe(t)
    \/ ConnectReturns(t) \/ DisconnectReturns(t) \/ PublishReturns(t) \/ SubscribeReturns(t)

(* A callback does not return while it is in a method.                      *)
DLLStep(t) ==
    /\ Run(t)
    /\ (t \in SubThreads /\ client[t].at # "idle") => loop'[t] = loop[t]
    /\ UNCHANGED wrapperVars

ClientNext ==
    \/ \E t \in Threads :
        \/ ~crashed /\ \E m \in Methods, ch \in Channels \cup {NoChannel} : ClientCall(t, m, ch)
        \/ ~crashed /\ MethodStep(t)
        \/ DLLStep(t)
        \/ UndefinedStep(t) /\ UNCHANGED wrapperVars
    \/ Environment /\ UNCHANGED wrapperVars

ClientSpec == ClientInit /\ [][ClientNext]_allVars

(* As in RedisPubSub; a lock that is free often enough is got in the end    *)
(* because the calls are bounded.                                           *)
ClientFairness ==
    \A t \in Threads : /\ WF_allVars(~LockMisused(t) /\ DLLStep(t))
                       /\ WF_allVars(~crashed /\ MethodStep(t))

ClientFairSpec == ClientSpec /\ ClientFairness

-----------------------------------------------------------------------------
(* A native callback that the DLL can still call, or is calling, is kept    *)
(* alive by the dictionary, or by the subscribe call that passes it on:     *)
(* through failed subscriptions, failed threads and a disconnect that comes *)
(* while a message is being delivered.                                      *)
Alive(cb) ==
    \/ \E ch \in Channels : native[ch] = cb
    \/ \E t \in Threads : client[t].at = "dll" /\ client[t].callback = cb

Callable(i) == \A j \in 1 .. i - 1 : g_table[j].channel # g_table[i].channel

CallbacksAlive ==
    /\ \A i \in 1 .. Len(g_table) : Callable(i) => Alive(g_table[i].callback)
    /\ (\E s \in SubThreads : loop[s] = "callback") => Alive(delivered[Len(delivered)].callback)

(* Outside the methods, a client that is connected has both its contexts.   *)
ConnectedIsOpen ==
    (connected /\ held = NoThread /\ ~crashed) =>
        \A c \in {g_context, g_sub_context} : c # NULL /\ ctx[c] # "freed"

(* redis_close is not asked to free what a failed redis_init has freed.     *)
NoDoubleFree ==
    \A t \in Threads : pc[t] = "close_body" =>
        \A c \in {g_context, g_sub_context} \ {NULL} : ctx[c] # "freed"

(* The object's lock keeps the window shut between redis_publish's test of  *)
(* g_context and its EnterCriticalSection, in which another thread's        *)
(* redis_close could delete g_lock.                                         *)
CallersFindLock == \A t \in AppThreads : ~LockMisused(t)

(* Every method returns.                                                    *)
MethodsReturn == \A t \in Threads : client[t].at # "idle" ~> (client[t].at = "idle" \/ crashed)
=============================================================================
