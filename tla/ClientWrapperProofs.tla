------------------------ MODULE ClientWrapperProofs ------------------------
(***************************************************************************)
(* The client objects over the DLL, for all values of the constants.  A    *)
(* behaviour of ClientWrapper is one of RedisPubSub, so what is proved of  *)
(* the library holds under the wrappers too.                               *)
(***************************************************************************)
EXTENDS ClientWrapper, RedisPubSubProofs

-----------------------------------------------------------------------------
(* Type correctness, and who is inside the object's lock.                   *)

(* publish and subscribe are called with a channel, connect and disconnect  *)
(* without; who is in no method has none.                                   *)
ChannelGiven ==
    \A t \in Threads : /\ client[t].method \in {"publish", "subscribe"} => client[t].channel \in Channels
                       /\ client[t].at = "idle" <=> client[t].method = "none"

ClientTypeInv == ClientTypeOK /\ ChannelGiven

ClientRecord == [at : {"idle", "lock", "call", "dll"}, method : Methods \cup {"none"},
                 channel : Channels \cup {NoChannel}, callback : Callbacks \cup {NULL}]

LEMMA IdleType == Idle \in ClientRecord /\ Idle.at = "idle" /\ Idle.method = "none"
BY DEF Idle, ClientRecord

LEMMA ClientTypeInit == ClientInit => ClientTypeInv
<1> SUFFICES ASSUME ClientInit PROVE ClientTypeInv
  OBVIOUS
<1>1. /\ client \in [Threads -> ClientRecord]
      /\ \A t \in Threads : client[t].at = "idle" /\ client[t].method = "none"
  BY IdleType DEF ClientInit
<1>2. NoThread \notin Threads
  BY PubSubAssumption
<1> QED BY <1>1, <1>2 DEF ClientInit, ClientTypeInv, ClientTypeOK, ChannelGiven, ClientRecord

(* One thread goes on to a place r, and the lock goes with it.              *)
LEMMA ClientTypeUpdate ==
    ASSUME ClientTypeInv, NEW t \in Threads, NEW r \in ClientRecord, client' = [client EXCEPT ![t] = r],
           held' = IF r.at \in {"call", "dll"} THEN t ELSE IF held = t THEN NoThread ELSE held,
           r.at \in {"call", "dll"} => held \in {NoThread, t},
           r.method \in {"publish", "subscribe"} => r.channel \in Channels,
           r.at = "idle" <=> r.method = "none",
           connected' \in BOOLEAN, native' \in [Channels -> Callbacks \cup {NULL}], created' \subseteq Callbacks
    PROVE  ClientTypeInv'
<1>1. client' \in [Threads -> ClientRecord]
  BY DEF ClientTypeInv, ClientTypeOK, ClientRecord
<1>2. \A u \in Threads : client'[u] = IF u = t THEN r ELSE client[u]
  BY DEF ClientTypeInv, ClientTypeOK
<1>3. NoThread \notin Threads
  BY PubSubAssumption
<1>4. held' \in Threads \cup {NoThread} /\ \A u \in Threads : held' = u <=> client'[u].at \in {"call", "dll"}
  BY <1>2, <1>3 DEF ClientTypeInv, ClientTypeOK
<1>5. ChannelGiven'
  BY <1>2 DEF ClientTypeInv, ChannelGiven
<1> QED BY <1>1, <1>4, <1>5 DEF ClientTypeInv, ClientTypeOK, ClientRecord

LEMMA ClientTypeCall ==
    ASSUME ClientTypeInv, NEW t \in Threads, NEW m \in Methods, NEW ch \in Channels \cup {NoChannel},
           ClientCall(t, m, ch)
    PROVE  ClientTypeInv'
<1> DEFINE r == [Idle EXCEPT !.at = "lock", !.method = m, !.channel = ch]
<1>1. r \in ClientRecord /\ r.at = "lock" /\ r.method = m /\ r.channel = ch /\ m # "none"
  BY IdleType DEF ClientRecord, Methods
<1>2. m \in {"publish", "subscribe"} => ch \in Channels
  BY DEF ClientCall, Sensible
<1>3. client' = [client EXCEPT ![t] = r] /\ UNCHANGED <<connected, held, native, created>> /\ held # t
  BY DEF ClientCall, ClientTypeInv, ClientTypeOK
<1> HIDE DEF r
<1> QED BY <1>1, <1>2, <1>3, ClientTypeUpdate DEF ClientTypeInv, ClientTypeOK

LEMMA ClientTypeMethod ==
    ASSUME ClientTypeInv, NEW t \in Threads, MethodStep(t) PROVE ClientTypeInv'
<1>0. client[t] \in ClientRecord
  BY DEF ClientTypeInv, ClientTypeOK, ClientRecord
<1>1. CASE ClientLock(t)
  <2> DEFINE r == [client[t] EXCEPT !.at = "call"]
  <2>1. /\ client' = [client EXCEPT ![t] = r] /\ UNCHANGED <<connected, native, created>>
        /\ held = NoThread /\ held' = t
    BY <1>1 DEF ClientLock
  <2>2. r \in ClientRecord /\ r.at = "call" /\ r.method = client[t].method /\ r.channel = client[t].channel
    BY <1>0 DEF ClientRecord
  <2>3. r.method # "none"
    BY <1>1, <2>2 DEF ClientLock, ClientTypeInv, ChannelGiven
  <2> HIDE DEF r
  <2> QED BY <2>1, <2>2, <2>3, ClientTypeUpdate DEF ClientTypeInv, ClientTypeOK, ChannelGiven
<1>2. CASE ClientConnect(t) \/ ClientDisconnect(t) \/ ClientPublish(t)
  <2> DEFINE r == [client[t] EXCEPT !.at = "dll"]
  <2>1. /\ client' = [client EXCEPT ![t] = r] /\ UNCHANGED <<connected, held, native, created>>
        /\ client[t].at = "call"
    BY <1>2 DEF ClientConnect, ClientDisconnect, ClientPublish, InDLL
  <2>2. r \in ClientRecord /\ r.at = "dll" /\ r.method = client[t].method /\ r.channel = client[t].channel
    BY <1>0 DEF ClientRecord
  <2>3. r.method # "none" /\ held = t
    BY <2>1, <2>2 DEF ClientTypeInv, ClientTypeOK, ChannelGiven
  <2> HIDE DEF r
  <2> QED BY <2>1, <2>2, <2>3, ClientTypeUpdate DEF ClientTypeInv, ClientTypeOK, ChannelGiven
<1>3. CASE ClientSubscribe(t)
  <2> DEFINE cb == NewCallback
             r == [client[t] EXCEPT !.at = "dll", !.callback = cb]
  <2>0. cb \in Callbacks
    BY <1>3 DEF ClientSubscribe, ClientTypeInv, ClientTypeOK, NewCallback
  <2>1. /\ client' = [client EXCEPT ![t] = r] /\ UNCHANGED <<connected, held>>
        /\ created' = created \cup {cb} /\ native' = [native EXCEPT ![client[t].channel] = cb]
        /\ client[t].at = "call"
    BY <1>3 DEF ClientSubscribe
  <2> HIDE DEF cb
  <2>2. r \in ClientRecord /\ r.at = "dll" /\ r.method = client[t].method /\ r.channel = client[t].channel
    BY <1>0, <2>0 DEF ClientRecord
  <2>3. r.method # "none" /\ held = t
    BY <2>1, <2>2 DEF ClientTypeInv, ClientTypeOK, ChannelGiven
  <2>4. created' \subseteq Callbacks /\ native' \in [Channels -> Callbacks \cup {NULL}]
    BY <2>0, <2>1 DEF ClientTypeInv, ClientTypeOK
  <2> HIDE DEF r
  <2> QED BY <2>1, <2>2, <2>3, <2>4, ClientTypeUpdate DEF ClientTypeInv, ClientTypeOK, ChannelGiven
<1>4. CASE ConnectReturns(t) \/ DisconnectReturns(t) \/ PublishReturns(t) \/ SubscribeReturns(t)
  <2>1. /\ client' = [client EXCEPT ![t] = Idle] /\ held' = NoThread /\ UNCHANGED created
        /\ client[t].at = "dll"
    BY <1>4 DEF ConnectReturns, DisconnectReturns, PublishReturns, SubscribeReturns, Leaves, Returned
  <2>2. held = t
    BY <2>1 DEF ClientTypeInv, ClientTypeOK
  <2>3. connected' \in BOOLEAN /\ native' \in [Channels -> Callbacks \cup {NULL}]
    BY <1>4 DEF ConnectReturns, DisconnectReturns, PublishReturns, SubscribeReturns, ClientTypeInv, ClientTypeOK
  <2> QED BY <2>1, <2>2, <2>3, IdleType, ClientTypeUpdate DEF ClientTypeInv, ClientTypeOK
<1> QED BY <1>1, <1>2, <1>3, <1>4 DEF MethodStep

LEMMA ClientTypeStep == ClientTypeInv /\ [ClientNext]_allVars => ClientTypeInv'
<1> SUFFICES ASSUME ClientTypeInv, [ClientNext]_allVars PROVE ClientTypeInv'
  OBVIOUS
<1>1. CASE UNCHANGED wrapperVars
  BY <1>1 DEF wrapperVars, ClientTypeInv, ClientTypeOK, ChannelGiven
<1>2. UNCHANGED allVars => UNCHANGED wrapperVars
  BY DEF allVars
<1> QED BY <1>1, <1>2, ClientTypeCall, ClientTypeMethod DEF ClientNext, DLLStep

(* The object's lock has an owner exactly while a thread is in a method     *)
(* past taking it, on every way out of every method.                        *)
THEOREM ClientTypeCorrect == ClientSpec => []ClientTypeOK
<1>1. ClientTypeInv => ClientTypeOK
  BY DEF ClientTypeInv
<1> QED BY <1>1, ClientTypeInit, ClientTypeStep, PTL DEF ClientSpec

-----------------------------------------------------------------------------
(* A step of the object is a step of the library, or none.                  *)
LEMMA ClientStepIsStep == ClientTypeInv /\ [ClientNext]_allVars => [Next]_vars
<1> SUFFICES ASSUME ClientTypeInv, [ClientNext]_allVars PROVE [Next]_vars
  OBVIOUS
<1>1. ASSUME NEW t \in Threads, MethodStep(t), ~crashed PROVE [Next]_vars
  <2>1. CASE UNCHANGED vars
    BY <2>1
  <2>2. CASE Call(t)
    BY <1>1, <2>2 DEF Next
  <2>3. CASE ClientConnect(t) \/ ClientDisconnect(t)
    BY <2>2, <2>3 DEF ClientConnect, ClientDisconnect, Call
  <2>4. CASE ClientPublish(t)
    <3>1. client[t].channel \in Channels
      BY <2>4 DEF ClientPublish, ClientTypeInv, ChannelGiven
    <3> QED BY <2>2, <2>4, <3>1 DEF ClientPublish, Call
  <2>5. CASE ClientSubscribe(t)
    <3>1. client[t].channel \in Channels /\ NewCallback \in Callbacks
      BY <2>5 DEF ClientSubscribe, ClientTypeInv, ClientTypeOK, ChannelGiven, NewCallback
    <3>2. SubscribeCall(t, client[t].channel, NewCallback)
      BY <2>5 DEF ClientSubscribe
    <3> QED BY <2>2, <3>1, <3>2 DEF Call
  <2> QED BY <1>1, <2>1, <2>3, <2>4, <2>5
          DEF MethodStep, ClientLock, ConnectReturns, DisconnectReturns, PublishReturns, SubscribeReturns, Leaves
<1>2. ASSUME NEW t \in Threads, DLLStep(t) PROVE Next
  BY <1>2 DEF DLLStep, Next
<1>3. UNCHANGED allVars => UNCHANGED vars
  BY DEF allVars
<1> QED BY <1>1, <1>2, <1>3 DEF ClientNext, ClientCall, Next

(* Whatever the application does with a client object, the library sees     *)
(* calls it allows: every property of RedisPubSub's Spec holds here.        *)
THEOREM ClientUsesLibrary == ClientSpec => Spec
<1>1. ClientInit => Init
  BY DEF ClientInit
<1> QED BY <1>1, ClientTypeInit, ClientTypeStep, ClientStepIsStep, PTL DEF ClientSpec, Spec

-----------------------------------------------------------------------------
(* Who is inside the library.                                               *)

(* The labels of each exported function.                                    *)
ClosePC == {"close_enter", "close_body", "close_leave", "close_delete"}
PublishingPC == {"publish_enter", "publish_command", "publish_reply", "publish_leave"}
SubscribingPC == {"subscribe_enter", "subscribe_store", "subscribe_command", "subscribe_reply",
                  "subscribe_leave"}

(* A thread is in the exported function its method called, and has the      *)
(* object's lock, so it is alone there.                                     *)
InItsFunction ==
    \A t \in Threads :
        /\ pc[t] # "idle" => client[t].at = "dll"
        /\ pc[t] \in InitPC => client[t].method = "connect"
        /\ pc[t] \in ClosePC => client[t].method = "disconnect"
        /\ pc[t] \in PublishingPC => client[t].method = "publish"
        /\ pc[t] \in SubscribingPC => client[t].method = "subscribe"

(* The lock is deleted by the one thread that is in the library.            *)
DeadIdle == lockState = "dead" => \A t \in Threads : pc[t] = "idle"

CallerInv == InItsFunction /\ DeadIdle

LEMMA AloneInLibrary ==
    ASSUME ClientTypeInv, CallerInv, NEW t \in Threads, pc[t] # "idle" \/ client[t].at \in {"call", "dll"}
    PROVE  \A u \in Threads \ {t} : pc[u] = "idle" /\ client[u].at \notin {"call", "dll"}
BY DEF ClientTypeInv, ClientTypeOK, CallerInv, InItsFunction

(* A call goes on within its function, or is over.                          *)
LEMMA CallStepLabel ==
    ASSUME TypeInv, NEW t \in Threads, CallStep(t)
    PROVE  /\ pc[t] # "idle"
           /\ \A u \in Threads \ {t} : pc'[u] = pc[u]
           /\ \E F \in {InitPC, ClosePC, PublishingPC, SubscribingPC} :
                 pc[t] \in F /\ pc'[t] \in F \cup {"idle"}
<1>1. CASE InitPub(t) \/ InitSub(t) \/ InitDone(t)
  BY <1>1 DEF InitPub, InitSub, InitDone, Return, Goto, InitPC, TypeInv, TypeOK
<1>2. CASE CloseEnter(t) \/ CloseBody(t) \/ CloseLeave(t) \/ CloseDelete(t)
  BY <1>2 DEF CloseEnter, CloseBody, CloseLeave, CloseDelete, Return, Goto, ClosePC, TypeInv, TypeOK
<1>3. CASE PublishEnter(t) \/ PublishCommand(t) \/ PublishReply(t) \/ PublishLeave(t)
  BY <1>3 DEF PublishEnter, PublishCommand, PublishReply, PublishLeave, Return, WillReturn, Goto, PublishingPC,
              TypeInv, TypeOK
<1>4. CASE SubscribeEnter(t) \/ SubscribeStore(t) \/ SubscribeCommand(t) \/ SubscribeReply(t) \/ SubscribeLeave(t)
  BY <1>4 DEF SubscribeEnter, SubscribeStore, SubscribeCommand, SubscribeReply, SubscribeLeave, Return, WillReturn, Goto,
              SubscribingPC, TypeInv, TypeOK
<1> QED BY <1>1, <1>2, <1>3, <1>4 DEF CallStep

(* The subscription thread's own steps leave every call alone.              *)
LEMMA LoopStepKeeps ==
    ASSUME TypeInv, LockInv, NEW s \in SubThreads, LoopStep(s)
    PROVE  UNCHANGED <<pc, arg, ret, lockState, g_context, g_sub_context, g_table, ctx>>
<1>1. s \in Threads
  BY PubSubAssumption
<1>2. UNCHANGED lockState
  BY <1>1, LeaveKeepsState
     DEF LoopStep, LoopCheck, LoopGet, LoopReply, LoopEnter, Dispatch, CallbackReturns, LoopLeave,
         Enter, lockVars, Critical, CriticalLoop
<1> QED BY <1>2 DEF LoopStep, LoopCheck, LoopGet, LoopReply, LoopEnter, Dispatch, CallbackReturns, LoopLeave,
                    callVars, globals, hiredisVars

(* Only redis_close deletes the lock.                                       *)
LEMMA LockDeleted ==
    ASSUME TypeInv, LockInv, NEW t \in Threads, CallStep(t), ~CloseDelete(t), lockState # "dead"
    PROVE  lockState' # "dead"
BY LeaveKeepsState
   DEF CallStep, InitPub, InitSub, InitDone, CloseEnter, CloseBody, CloseLeave, PublishEnter, PublishCommand,
       PublishReply, PublishLeave, SubscribeEnter, SubscribeStore, SubscribeCommand, SubscribeReply, SubscribeLeave,
       Enter, lockVars, Critical, CriticalPC

(* Where a method's call of the library starts, and what it finds.          *)
LEMMA MethodCall ==
    ASSUME TypeInv, ClientTypeInv, NEW t \in Threads,
           ClientConnect(t) \/ ClientDisconnect(t) \/ ClientPublish(t) \/ ClientSubscribe(t)
    PROVE  /\ pc[t] = "idle" /\ client[t].at = "call" /\ client'[t].at = "dll"
           /\ client'[t].method = client[t].method /\ client'[t].channel = client[t].channel
           /\ \A u \in Threads \ {t} : pc'[u] = pc[u] /\ client'[u] = client[u]
           /\ UNCHANGED <<hiredisVars, globals, loopVars, delivered, connected, held>>
           /\ \/ client[t].method = "connect" /\ pc'[t] = "init_pub" /\ ClientConnect(t)
              \/ client[t].method = "disconnect" /\ pc'[t] = "close_enter" /\ ClientDisconnect(t)
              \/ /\ client[t].method = "publish" /\ UNCHANGED lockVars
                 /\ (pc'[t] = "publish_enter" /\ g_context # NULL) \/ pc'[t] = "idle"
              \/ /\ client[t].method = "subscribe" /\ UNCHANGED lockVars /\ ClientSubscribe(t)
                 /\ (pc'[t] = "subscribe_enter" /\ g_context # NULL) \/ pc'[t] = "idle"
<1>0. client \in [Threads -> ClientRecord] /\ client[t] \in ClientRecord /\ pc \in [Threads -> PCs]
  BY DEF ClientTypeInv, ClientTypeOK, ClientRecord, TypeInv, TypeOK
<1>1. /\ client[t].at = "call" /\ client'[t].at = "dll"
      /\ client'[t].method = client[t].method /\ client'[t].channel = client[t].channel
      /\ \A u \in Threads \ {t} : client'[u] = client[u]
      /\ UNCHANGED <<connected, held>>
  <2>1. CASE ClientConnect(t) \/ ClientDisconnect(t) \/ ClientPublish(t)
    BY <1>0, <2>1 DEF ClientConnect, ClientDisconnect, ClientPublish, InDLL, ClientRecord
  <2>2. CASE ClientSubscribe(t)
    BY <1>0, <2>2 DEF ClientSubscribe, ClientRecord
  <2> QED BY <2>1, <2>2
<1>2. UNCHANGED <<hiredisVars, globals, loopVars, delivered>>
  BY DEF ClientConnect, InitCall, ClientDisconnect, CloseCall, ClientPublish, PublishCall,
         ClientSubscribe, SubscribeCall
<1>3. pc[t] = "idle" /\ \A u \in Threads \ {t} : pc'[u] = pc[u]
  BY <1>0 DEF ClientConnect, InitCall, ClientDisconnect, CloseCall, ClientPublish, PublishCall,
              ClientSubscribe, SubscribeCall, MayCall, Start, Return, Goto
<1>4. CASE ClientConnect(t)
  <2>1. client[t].method = "connect" /\ pc'[t] = "init_pub"
    BY <1>0, <1>4 DEF ClientConnect, InitCall, Goto
  <2> QED BY <1>1, <1>2, <1>3, <1>4, <2>1
<1>5. CASE ClientDisconnect(t)
  <2>1. client[t].method = "disconnect" /\ pc'[t] = "close_enter" /\ UNCHANGED lockVars
    BY <1>0, <1>5 DEF ClientDisconnect, CloseCall, Goto
  <2> QED BY <1>1, <1>2, <1>3, <1>5, <2>1
<1>6. CASE ClientPublish(t)
  <2>1. client[t].method = "publish" /\ PublishCall(t, client[t].channel)
    BY <1>6 DEF ClientPublish
  <2>2. UNCHANGED lockVars /\ ((pc'[t] = "publish_enter" /\ g_context # NULL) \/ pc'[t] = "idle")
    BY <1>0, <2>1 DEF PublishCall, Start, Return, Goto
  <2> QED BY <1>1, <1>2, <1>3, <2>1, <2>2
<1>7. CASE ClientSubscribe(t)
  <2>1. client[t].method = "subscribe" /\ SubscribeCall(t, client[t].channel, NewCallback)
    BY <1>7 DEF ClientSubscribe
  <2>2. UNCHANGED lockVars /\ ((pc'[t] = "subscribe_enter" /\ g_context # NULL) \/ pc'[t] = "idle")
    BY <1>0, <2>1 DEF SubscribeCall, Start, Return, Goto
  <2> QED BY <1>1, <1>2, <1>3, <1>7, <2>1, <2>2
<1> QED BY <1>4, <1>5, <1>6, <1>7

(* A method that is over has left the lock; the library has not moved.      *)
LEMMA MethodReturn ==
    ASSUME ClientTypeInv, NEW t \in Threads,
           ConnectReturns(t) \/ DisconnectReturns(t) \/ PublishReturns(t) \/ SubscribeReturns(t)
    PROVE  /\ pc[t] = "idle" /\ client[t].at = "dll" /\ client'[t] = Idle
           /\ \A u \in Threads \ {t} : client'[u] = client[u]
           /\ UNCHANGED vars
BY DEF ConnectReturns, DisconnectReturns, PublishReturns, SubscribeReturns, Leaves, Returned,
       ClientTypeInv, ClientTypeOK

(* A step before the method has the lock, or when it gets it.               *)
LEMMA MethodBefore ==
    ASSUME ClientTypeInv, NEW t \in Threads,
           ClientLock(t) \/ \E m \in Methods, ch \in Channels \cup {NoChannel} : ClientCall(t, m, ch)
    PROVE  /\ client[t].at # "dll" /\ client'[t].at # "dll"
           /\ \A u \in Threads \ {t} : client'[u] = client[u]
           /\ UNCHANGED <<vars, connected, native>>
<1>0. client \in [Threads -> ClientRecord] /\ client[t] \in ClientRecord
  BY DEF ClientTypeInv, ClientTypeOK, ClientRecord
<1>1. CASE ClientLock(t)
  BY <1>0, <1>1 DEF ClientLock, ClientRecord
<1>2. ASSUME NEW m \in Methods, NEW ch \in Channels \cup {NoChannel}, ClientCall(t, m, ch)
      PROVE  /\ client[t].at # "dll" /\ client'[t].at # "dll"
             /\ \A u \in Threads \ {t} : client'[u] = client[u]
             /\ UNCHANGED <<vars, connected, native>>
  BY <1>0, <1>2, IdleType DEF ClientCall, ClientRecord
<1> QED BY <1>1, <1>2

LEMMA CallerInit == ClientInit => CallerInv
BY DEF ClientInit, Init, CallerInv, InItsFunction, DeadIdle, InitPC, ClosePC, PublishingPC, SubscribingPC

LEMMA CallerStep ==
    ~Reinit /\ TypeInv /\ LockInv /\ TableInv /\ ClientTypeInv /\ CallerInv /\ [ClientNext]_allVars
        => CallerInv'
<1> SUFFICES ASSUME ~Reinit, TypeInv, LockInv, TableInv, ClientTypeInv, CallerInv, [ClientNext]_allVars
             PROVE  CallerInv'
  OBVIOUS
<1> USE DEF CallerInv
<1>1. CASE UNCHANGED <<pc, client, lockState>>
  BY <1>1 DEF InItsFunction, DeadIdle
<1>2. ASSUME NEW t \in Threads,
             ClientLock(t) \/ \E m \in Methods, ch \in Channels \cup {NoChannel} : ClientCall(t, m, ch)
      PROVE  CallerInv'
  <2>1. pc[t] = "idle"
    BY <1>2, MethodBefore DEF InItsFunction
  <2>2. UNCHANGED <<pc, lockState>>
    BY <1>2, MethodBefore DEF vars, callVars, lockVars
  <2> QED BY <1>2, <2>1, <2>2, MethodBefore
          DEF InItsFunction, DeadIdle, InitPC, ClosePC, PublishingPC, SubscribingPC
<1>3. ASSUME NEW t \in Threads,
             ClientConnect(t) \/ ClientDisconnect(t) \/ ClientPublish(t) \/ ClientSubscribe(t)
      PROVE  CallerInv'
  <2>1. InItsFunction'
    BY <1>3, MethodCall DEF InItsFunction, InitPC, ClosePC, PublishingPC, SubscribingPC
  <2>2. DeadIdle'
    <3>1. CASE ClientConnect(t)
      BY <3>1 DEF ClientConnect, InitCall, DeadIdle
    <3>2. CASE ClientDisconnect(t)
      BY <3>2 DEF ClientDisconnect, CloseCall, DeadIdle, lockVars
    <3>3. lockState = "dead" => g_context = NULL
      BY DEF TableInv, NothingAfterClose, Closed
    <3>4. CASE pc'[t] = "idle" /\ UNCHANGED lockVars
      BY <1>3, <3>4, MethodCall DEF DeadIdle, lockVars
    <3>5. CASE g_context # NULL /\ UNCHANGED lockVars
      BY <3>3, <3>5 DEF DeadIdle, lockVars
    <3> QED BY <1>3, <3>1, <3>2, <3>4, <3>5, MethodCall
  <2> QED BY <2>1, <2>2
<1>4. ASSUME NEW t \in Threads,
             ConnectReturns(t) \/ DisconnectReturns(t) \/ PublishReturns(t) \/ SubscribeReturns(t)
      PROVE  CallerInv'
  <2>1. UNCHANGED <<pc, lockState>> /\ pc[t] = "idle"
    BY <1>4, MethodReturn DEF vars, callVars, lockVars
  <2> QED BY <1>4, <2>1, MethodReturn
          DEF InItsFunction, DeadIdle, InitPC, ClosePC, PublishingPC, SubscribingPC
<1>5. ASSUME NEW t \in Threads, CallStep(t), UNCHANGED client PROVE CallerInv'
  <2>1. InItsFunction'
    BY <1>5, CallStepLabel DEF InItsFunction, InitPC, ClosePC, PublishingPC, SubscribingPC
  <2>2. lockState # "dead" /\ \A u \in Threads \ {t} : pc'[u] = "idle"
    BY <1>5, CallStepLabel, AloneInLibrary DEF DeadIdle
  <2>3. CASE CloseDelete(t)
    BY <2>1, <2>2, <2>3 DEF CloseDelete, Return, Goto, DeadIdle, TypeInv, TypeOK
  <2>4. CASE ~CloseDelete(t)
    BY <1>5, <2>1, <2>2, <2>4, LockDeleted DEF DeadIdle
  <2> QED BY <2>3, <2>4
<1>6. ASSUME NEW s \in SubThreads, LoopStep(s), UNCHANGED client PROVE CallerInv'
  BY <1>1, <1>6, LoopStepKeeps
<1>7. UNCHANGED otherVars /\ UNCHANGED wrapperVars => UNCHANGED <<pc, client, lockState>>
  BY DEF otherVars, callVars, lockVars, wrapperVars
<1>8. UNCHANGED allVars => UNCHANGED <<pc, client, lockState>>
  BY DEF allVars, vars, callVars, lockVars, wrapperVars
<1>9. UNCHANGED wrapperVars => UNCHANGED client
  BY DEF wrapperVars
<1> QED BY <1>1, <1>2, <1>3, <1>4, <1>5, <1>6, <1>7, <1>8, <1>9
        DEF ClientNext, MethodStep, DLLStep, Run, UndefinedStep, Environment

(* The library's invariants, and who is in it, under a client object.       *)
LEMMA CallersAlways ==
    ~Reinit => (ClientSpec => [](TypeInv /\ LockInv /\ TableInv /\ ClientTypeInv /\ CallerInv))
<1> SUFFICES ASSUME ~Reinit
             PROVE  ClientSpec => [](TypeInv /\ LockInv /\ TableInv /\ ClientTypeInv /\ CallerInv)
  OBVIOUS
<1>1. TypeInv /\ [Next]_vars => TypeInv'
  BY TypeStep
<1>2. TypeInv /\ LockInv /\ [Next]_vars => LockInv'
  BY LockStep
<1>3. TypeInv /\ LockInv /\ TableInv /\ [Next]_vars => TableInv'
  BY TableStep
<1>4. TypeInv /\ LockInv /\ TableInv /\ ClientTypeInv /\ CallerInv /\ [ClientNext]_allVars => CallerInv'
  BY CallerStep
<1>5. ClientInit => Init
  BY DEF ClientInit
<1> QED BY <1>1, <1>2, <1>3, <1>4, <1>5, TypeInit, LockInvInit, TableInvInit, CallerInit,
           ClientTypeInit, ClientTypeStep, ClientStepIsStep, PTL DEF ClientSpec

(* A thread that calls the library through a client object finds the lock   *)
(* in order: nobody else's redis_close comes between the test of g_context  *)
(* and EnterCriticalSection.                                                *)
THEOREM CallersLocked == ~Reinit => (ClientSpec => []CallersFindLock)
<1> SUFFICES ASSUME ~Reinit PROVE ClientSpec => []CallersFindLock
  OBVIOUS
<1>1. TypeInv /\ LockInv /\ CallerInv => CallersFindLock
  <2> SUFFICES ASSUME TypeInv, LockInv, CallerInv, NEW t \in AppThreads, LockMisused(t) PROVE FALSE
    BY DEF CallersFindLock
  <2>1. t \in Threads /\ t \notin SubThreads
    BY PubSubAssumption
  <2>2. lockState \in {"raw", "dead"} /\ pc[t] # "idle"
    BY <2>1 DEF LockMisused, EnterWaits, TypeInv, TypeOK
  <2> QED BY <2>1, <2>2 DEF LockInv, RawIdle, CallerInv, DeadIdle
<1> QED BY <1>1, CallersAlways, PTL

-----------------------------------------------------------------------------
(* The contexts of a connected client.                                      *)

GoodContexts == \A c \in {g_context, g_sub_context} : c # NULL /\ ctx[c] # "freed"

(* While redis_init runs the client is not connected, and what it has made  *)
(* so far is good; so are both contexts once it has returned 0.             *)
InitMakesGood ==
    \A t \in Threads :
        /\ pc[t] \in InitPC => ~connected
        /\ pc[t] = "init_sub" => g_context # NULL /\ ctx[g_context] # "freed"
        /\ pc[t] = "init_done" => GoodContexts
        /\ client[t].at = "dll" /\ client[t].method = "connect" /\ pc[t] = "idle" /\ ret[t] = 0 => GoodContexts

(* Thread t is in a disconnect whose redis_close has freed the contexts.    *)
Closing(t) == client[t].at = "dll" /\ client[t].method = "disconnect" /\ pc[t] \in ClosedPC \cup {"idle"}

SessionOpen == connected /\ (\A t \in Threads : ~Closing(t)) => GoodContexts

NotYetConnected == lockState = "raw" => ~connected

SessionInv == InitMakesGood /\ SessionOpen /\ NotYetConnected

(* With a guarded Dispose, a disconnect finds the client connected.         *)
OneSession ==
    /\ \A t, u \in Threads : client[t].method \in {"connect", "disconnect"}
                               /\ client[u].method \in {"connect", "disconnect"} => t = u
    /\ GuardedDispose => \A t \in Threads : client[t].method = "disconnect" => connected

LEMMA SessionInit == ClientInit => SessionInv /\ OneSession
BY IdleType DEF ClientInit, Init, SessionInv, InitMakesGood, SessionOpen, NotYetConnected, OneSession, InitPC

(* A step that frees no context and leaves the globals and the calls alone. *)
LEMMA SessionKept ==
    ASSUME SessionInv, UNCHANGED <<connected, client, pc, ret, lockState, g_context, g_sub_context>>,
           \A c \in {g_context, g_sub_context} : c # NULL /\ ctx[c] # "freed" => ctx'[c] # "freed"
    PROVE  SessionInv'
BY DEF SessionInv, InitMakesGood, SessionOpen, NotYetConnected, GoodContexts, Closing

(* No step but those of redis_init and redis_close frees a context.         *)
LEMMA IOFreesNothing ==
    ASSUME TypeInv, NEW t \in Threads, IOStep(t), NEW c, c # NULL, c \in 0 .. MaxContexts, ctx[c] # "freed"
    PROVE  ctx'[c] # "freed"
<1>1. c \in Contexts
  BY ContextAssumption DEF Contexts, NULL
<1>2. CASE IOError(t)
  BY <1>1, <1>2 DEF IOError, TypeInv, TypeOK, HiredisTypeOK
<1>3. CASE UNCHANGED ctx
  BY <1>3
<1> QED BY <1>2, <1>3 DEF IOStep, TryReader, Flush, Recv, Parse, Crash

LEMMA ContextsInRange == ASSUME TypeInv PROVE g_context \in 0 .. MaxContexts /\ g_sub_context \in 0 .. MaxContexts
BY DEF TypeInv, TypeOK

LEMMA SessionCallStep ==
    ASSUME TypeInv, LockInv, TableInv, ClientTypeInv, CallerInv, SessionInv,
           NEW t \in Threads, CallStep(t), UNCHANGED <<client, connected>>
    PROVE  SessionInv'
<1>0. /\ pc[t] # "idle" /\ client[t].at = "dll"
      /\ \A u \in Threads \ {t} : pc[u] = "idle" /\ pc'[u] = "idle" /\ client[u].at # "dll"
  BY CallStepLabel, AloneInLibrary DEF CallerInv, InItsFunction
<1>1. lockState # "raw"
  BY <1>0 DEF LockInv, RawIdle
<1>2. CASE InitPub(t)
  <2>1. client[t].method = "connect" /\ ~connected /\ UNCHANGED lockState
    BY <1>2 DEF InitPub, InitPC, lockVars, CallerInv, InItsFunction, SessionInv, InitMakesGood
  <2>2. CASE Goto(t, "init_sub") /\ \E c \in Contexts : ConnectOK(c) /\ g_context' = c
    <3>1. g_context' # NULL /\ ctx'[g_context'] # "freed"
      BY <2>2, ContextAssumption DEF ConnectOK, Contexts, NULL, TypeInv, TypeOK, HiredisTypeOK
    <3>2. pc'[t] = "init_sub"
      BY <2>2 DEF Goto, TypeInv, TypeOK
    <3> QED BY <1>0, <2>1, <3>1, <3>2
            DEF SessionInv, InitMakesGood, SessionOpen, NotYetConnected, InitPC
  <2>3. CASE Return(t, -1)
    <3>1. pc'[t] = "idle" /\ ret'[t] = -1
      BY <2>3 DEF Return, Goto, TypeInv, TypeOK
    <3> QED BY <1>0, <2>1, <3>1 DEF SessionInv, InitMakesGood, SessionOpen, NotYetConnected, InitPC
  <2> QED BY <1>2, <2>2, <2>3 DEF InitPub
<1>3. CASE InitSub(t)
  <2>1. client[t].method = "connect" /\ ~connected /\ UNCHANGED lockState
        /\ g_context # NULL /\ ctx[g_context] # "freed"
    BY <1>3 DEF InitSub, InitPC, lockVars, CallerInv, InItsFunction, SessionInv, InitMakesGood
  <2>2. CASE Goto(t, "init_done") /\ \E c \in Contexts : ConnectOK(c) /\ g_sub_context' = c
    <3>0. UNCHANGED g_context /\ g_context \in Contexts
      BY <1>3, <2>1, PublishingContext DEF InitSub
    <3>1. GoodContexts'
      <4>1. PICK c \in Contexts : ConnectOK(c) /\ g_sub_context' = c
        BY <2>2
      <4>2. c # NULL /\ ctx' = [ctx EXCEPT ![c] = "open"]
        BY <4>1, ContextAssumption DEF ConnectOK, Contexts, NULL
      <4>3. ctx'[c] = "open" /\ ctx'[g_context] \in {"open", ctx[g_context]}
        BY <3>0, <4>2 DEF TypeInv, TypeOK, HiredisTypeOK
      <4> QED BY <2>1, <3>0, <4>1, <4>2, <4>3 DEF GoodContexts
    <3>2. pc'[t] = "init_done"
      BY <2>2 DEF Goto, TypeInv, TypeOK
    <3> QED BY <1>0, <2>1, <3>1, <3>2
            DEF SessionInv, InitMakesGood, SessionOpen, NotYetConnected, InitPC
  <2>3. CASE Return(t, -1)
    <3>1. pc'[t] = "idle" /\ ret'[t] = -1
      BY <2>3 DEF Return, Goto, TypeInv, TypeOK
    <3> QED BY <1>0, <2>1, <3>1 DEF SessionInv, InitMakesGood, SessionOpen, NotYetConnected, InitPC
  <2> QED BY <1>3, <2>2, <2>3 DEF InitSub
<1>4. CASE InitDone(t)
  <2>1. client[t].method = "connect" /\ ~connected /\ UNCHANGED lockState /\ GoodContexts'
    BY <1>4 DEF InitDone, InitPC, lockVars, hiredisVars, CallerInv, InItsFunction, SessionInv, InitMakesGood,
                GoodContexts
  <2>2. pc'[t] = "idle"
    BY <1>4 DEF InitDone, Return, Goto, TypeInv, TypeOK
  <2> QED BY <1>0, <2>1, <2>2 DEF SessionInv, InitMakesGood, SessionOpen, NotYetConnected, InitPC
<1>5. CASE CloseBody(t)
  <2>1. pc'[t] = "close_leave" /\ client[t].method = "disconnect" /\ UNCHANGED lockState
    BY <1>5 DEF CloseBody, Goto, lockVars, TypeInv, TypeOK, CallerInv, InItsFunction, ClosePC
  <2>2. Closing(t)'
    BY <1>0, <2>1 DEF Closing, ClosedPC
  <2> QED BY <1>0, <2>1, <2>2 DEF SessionInv, InitMakesGood, SessionOpen, NotYetConnected, InitPC
<1>6. CASE CloseEnter(t) \/ CloseLeave(t) \/ CloseDelete(t)
  <2>1. /\ client[t].method = "disconnect" /\ UNCHANGED <<ctx, g_context, g_sub_context>>
        /\ pc[t] \in ClosePC
    BY <1>6 DEF CloseEnter, CloseLeave, CloseDelete, hiredisVars, globals, CallerInv, InItsFunction, ClosePC
  <2>2. /\ pc'[t] \notin InitPC
        /\ pc[t] \in ClosedPC => pc'[t] \in ClosedPC \cup {"idle"}
        /\ lockState' # "raw"
    BY <1>0, <1>6 DEF CloseEnter, CloseLeave, CloseDelete, Enter, Leave, lockVars, Return, Goto, ClosedPC, InitPC,
                      TypeInv, TypeOK, LockInv, RawIdle
  <2>3. Closing(t) => Closing(t)'
    BY <1>0, <2>2 DEF Closing
  <2> QED BY <1>0, <2>1, <2>2, <2>3
          DEF SessionInv, InitMakesGood, SessionOpen, NotYetConnected, InitPC, GoodContexts, Closing
<1>7. CASE pc[t] \in PublishingPC \cup SubscribingPC
  <2>1. client[t].method \in {"publish", "subscribe"} /\ pc'[t] \notin InitPC
    BY <1>7, CallStepLabel DEF CallerInv, InItsFunction, InitPC, ClosePC, PublishingPC, SubscribingPC
  <2>2. UNCHANGED <<ctx, g_context, g_sub_context>> /\ lockState' # "raw"
    BY <1>0, <1>7
       DEF CallStep, InitPub, InitSub, InitDone, CloseEnter, CloseBody, CloseLeave, CloseDelete,
           PublishEnter, PublishCommand, PublishReply, PublishLeave,
           SubscribeEnter, SubscribeStore, SubscribeCommand, SubscribeReply, SubscribeLeave, RedisCommand,
           PublishingPC, SubscribingPC, hiredisVars, globals, Enter, Leave, lockVars, LockInv, RawIdle
  <2> QED BY <1>0, <2>1, <2>2
          DEF SessionInv, InitMakesGood, SessionOpen, NotYetConnected, InitPC, GoodContexts, Closing
<1> QED BY <1>2, <1>3, <1>4, <1>5, <1>6, <1>7
        DEF CallStep, PublishEnter, PublishCommand, PublishReply, PublishLeave,
            SubscribeEnter, SubscribeStore, SubscribeCommand, SubscribeReply, SubscribeLeave, PublishingPC, SubscribingPC

LEMMA SessionStep ==
    ~Reinit /\ TypeInv /\ LockInv /\ TableInv /\ ClientTypeInv /\ CallerInv /\ SessionInv /\ [ClientNext]_allVars
        => SessionInv'
<1> SUFFICES ASSUME ~Reinit, TypeInv, LockInv, TableInv, ClientTypeInv, CallerInv, SessionInv, [ClientNext]_allVars
             PROVE  SessionInv'
  OBVIOUS
<1>1. ASSUME NEW t \in Threads,
             ClientLock(t) \/ \E m \in Methods, ch \in Channels \cup {NoChannel} : ClientCall(t, m, ch)
      PROVE  SessionInv'
  <2>1. UNCHANGED <<connected, pc, ret, lockState, g_context, g_sub_context, ctx>>
    BY <1>1, MethodBefore DEF vars, callVars, lockVars, globals, hiredisVars
  <2> QED BY <1>1, <2>1, MethodBefore
          DEF SessionInv, InitMakesGood, SessionOpen, NotYetConnected, GoodContexts, Closing
<1>2. ASSUME NEW t \in Threads,
             ClientConnect(t) \/ ClientDisconnect(t) \/ ClientPublish(t) \/ ClientSubscribe(t)
      PROVE  SessionInv'
  <2>0. /\ UNCHANGED <<connected, g_context, g_sub_context, ctx>>
        /\ \A u \in Threads \ {t} : pc[u] = "idle" /\ pc'[u] = "idle" /\ client'[u] = client[u] /\ client[u].at # "dll"
        /\ client[t].at # "dll" /\ client'[t].method = client[t].method
    BY <1>2, MethodCall, AloneInLibrary DEF hiredisVars, globals
  <2>1. CASE ClientConnect(t)
    <3>1. ~connected /\ lockState' = "ready" /\ pc'[t] = "init_pub"
      BY <2>1 DEF ClientConnect, InitCall, Goto, TypeInv, TypeOK, SessionInv, NotYetConnected
    <3> QED BY <2>0, <3>1 DEF SessionInv, InitMakesGood, SessionOpen, NotYetConnected, InitPC
  <2>2. CASE ClientDisconnect(t)
    <3>1. lockState' = "ready" /\ pc'[t] = "close_enter"
      BY <2>2 DEF ClientDisconnect, CloseCall, Goto, lockVars, TypeInv, TypeOK
    <3>2. \A u \in Threads : ~Closing(u) /\ ~Closing(u)'
      BY <2>0, <3>1 DEF Closing, ClosedPC
    <3> QED BY <2>0, <3>1, <3>2 DEF SessionInv, InitMakesGood, SessionOpen, NotYetConnected, InitPC, GoodContexts
  <2>3. CASE ClientPublish(t) \/ ClientSubscribe(t)
    <3>1. client[t].method \in {"publish", "subscribe"} /\ UNCHANGED lockState /\ pc'[t] \notin InitPC
      BY <1>2, <2>3, MethodCall DEF ClientPublish, ClientSubscribe, lockVars, InitPC
    <3>2. \A u \in Threads : ~Closing(u) /\ ~Closing(u)'
      BY <2>0, <3>1 DEF Closing
    <3> QED BY <2>0, <3>1, <3>2 DEF SessionInv, InitMakesGood, SessionOpen, NotYetConnected, InitPC, GoodContexts
  <2> QED BY <1>2, <2>1, <2>2, <2>3
<1>3. ASSUME NEW t \in Threads,
             ConnectReturns(t) \/ DisconnectReturns(t) \/ PublishReturns(t) \/ SubscribeReturns(t)
      PROVE  SessionInv'
  <2>0. /\ UNCHANGED <<pc, ret, lockState, g_context, g_sub_context, ctx>> /\ client[t].at = "dll"
        /\ \A u \in Threads \ {t} : client'[u] = client[u] /\ client[u].at # "dll"
        /\ \A u \in Threads : client'[u].at # "dll" /\ pc[u] = "idle"
    BY <1>3, MethodReturn, AloneInLibrary, IdleType DEF vars, callVars, lockVars, globals, hiredisVars
  <2>1. CASE DisconnectReturns(t)
    <3>1. connected' = FALSE
      BY <2>1 DEF DisconnectReturns
    <3> QED BY <2>0, <3>1 DEF SessionInv, InitMakesGood, SessionOpen, NotYetConnected, InitPC
  <2>2. CASE ~DisconnectReturns(t)
    <3>1. connected' => GoodContexts
      <4>1. client[t].method # "disconnect"
        BY <1>3, <2>2 DEF ConnectReturns, PublishReturns, SubscribeReturns, Returned
      <4>2. connected => GoodContexts
        BY <2>0, <4>1 DEF SessionInv, SessionOpen, Closing
      <4>3. CASE ConnectReturns(t)
        BY <2>0, <4>2, <4>3 DEF ConnectReturns, Returned, SessionInv, InitMakesGood
      <4>4. CASE UNCHANGED connected
        BY <4>2, <4>4
      <4> QED BY <1>3, <2>2, <4>3, <4>4 DEF PublishReturns, SubscribeReturns
    <3>2. GoodContexts => lockState # "raw"
      BY DEF GoodContexts, LockInv, RawIdle
    <3> QED BY <2>0, <3>1, <3>2 DEF SessionInv, InitMakesGood, SessionOpen, NotYetConnected, InitPC, GoodContexts
  <2> QED BY <2>1, <2>2
<1>4. ASSUME NEW t \in Threads, CallStep(t), UNCHANGED wrapperVars PROVE SessionInv'
  BY <1>4, SessionCallStep DEF wrapperVars
<1>5. ASSUME NEW s \in SubThreads, LoopStep(s), UNCHANGED wrapperVars PROVE SessionInv'
  <2>1. UNCHANGED <<pc, ret, lockState, g_context, g_sub_context, ctx>>
    BY <1>5, LoopStepKeeps
  <2> QED BY <1>5, <2>1, SessionKept DEF wrapperVars
<1>6. ASSUME NEW t \in Threads, IOStep(t), UNCHANGED otherVars, UNCHANGED wrapperVars PROVE SessionInv'
  <2>1. UNCHANGED <<connected, client, pc, ret, lockState, g_context, g_sub_context>>
    BY <1>6 DEF otherVars, wrapperVars, callVars, lockVars, globals
  <2> QED BY <1>6, <2>1, SessionKept, IOFreesNothing, ContextsInRange
<1>7. CASE (Environment \/ (Crash /\ UNCHANGED otherVars) \/ UNCHANGED vars) /\ UNCHANGED wrapperVars
  <2>1. UNCHANGED <<connected, client, pc, ret, lockState, g_context, g_sub_context, ctx>>
    BY <1>7 DEF Environment, ExternalPublish, Drop, Crash, otherVars, vars, wrapperVars, hiredisVars, callVars, lockVars, globals
  <2> QED BY <2>1, SessionKept
<1>8. UNCHANGED allVars => UNCHANGED vars /\ UNCHANGED wrapperVars
  BY DEF allVars
<1> QED BY <1>1, <1>2, <1>3, <1>4, <1>5, <1>6, <1>7, <1>8
        DEF ClientNext, MethodStep, DLLStep, Run, UndefinedStep

LEMMA OneSessionStep ==
    ClientTypeInv /\ OneSession /\ [ClientNext]_allVars => OneSession'
<1> SUFFICES ASSUME ClientTypeInv, OneSession, [ClientNext]_allVars PROVE OneSession'
  OBVIOUS
<1>0. client \in [Threads -> ClientRecord] /\ \A t \in Threads : client[t] \in ClientRecord
  BY DEF ClientTypeInv, ClientTypeOK, ClientRecord
<1>1. ASSUME NEW t \in Threads, NEW m \in Methods, NEW ch \in Channels \cup {NoChannel}, ClientCall(t, m, ch)
      PROVE  OneSession'
  <2>1. client'[t].method = m /\ \A u \in Threads \ {t} : client'[u] = client[u]
    BY <1>0, <1>1, IdleType DEF ClientCall, ClientRecord
  <2>2. m \in {"connect", "disconnect"} => \A u \in Threads : client[u].method \notin {"connect", "disconnect"}
    BY <1>1 DEF ClientCall, Sensible, Underway
  <2>3. GuardedDispose /\ m = "disconnect" => connected
    BY <1>1 DEF ClientCall, Sensible, Dispose
  <2> QED BY <1>1, <2>1, <2>2, <2>3 DEF OneSession, ClientCall
<1>2. ASSUME NEW t \in Threads,
             \/ ClientLock(t)
             \/ ClientConnect(t) \/ ClientDisconnect(t) \/ ClientPublish(t) \/ ClientSubscribe(t)
      PROVE  OneSession'
  <2>1. UNCHANGED connected /\ \A u \in Threads : client'[u].method = client[u].method
    <3>1. CASE ClientSubscribe(t)
      BY <1>0, <3>1 DEF ClientSubscribe, ClientRecord
    <3> QED BY <1>0, <1>2, <3>1
            DEF ClientLock, ClientConnect, ClientDisconnect, ClientPublish, InDLL, ClientRecord
  <2> QED BY <2>1 DEF OneSession
<1>3. ASSUME NEW t \in Threads,
             ConnectReturns(t) \/ DisconnectReturns(t) \/ PublishReturns(t) \/ SubscribeReturns(t)
      PROVE  OneSession'
  <2>1. client'[t].method = "none" /\ \A u \in Threads \ {t} : client'[u] = client[u]
    BY <1>3, MethodReturn, IdleType
  <2>2. connected => connected' \/ client[t].method = "disconnect"
    BY <1>3 DEF ConnectReturns, DisconnectReturns, PublishReturns, SubscribeReturns, Returned
  <2> QED BY <2>1, <2>2 DEF OneSession
<1>4. CASE UNCHANGED wrapperVars
  BY <1>4 DEF wrapperVars, OneSession
<1>5. UNCHANGED allVars => UNCHANGED wrapperVars
  BY DEF allVars
<1> QED BY <1>1, <1>2, <1>3, <1>4, <1>5 DEF ClientNext, MethodStep, DLLStep

(* A client that is connected, seen from outside its methods, has two       *)
(* contexts that exist.                                                     *)
THEOREM ConnectedHasContexts == ~Reinit => (ClientSpec => []ConnectedIsOpen)
<1> SUFFICES ASSUME ~Reinit PROVE ClientSpec => []ConnectedIsOpen
  OBVIOUS
<1>1. ClientTypeInv /\ SessionInv => ConnectedIsOpen
  <2> SUFFICES ASSUME ClientTypeInv, SessionInv, connected, held = NoThread PROVE GoodContexts
    BY DEF ConnectedIsOpen, GoodContexts
  <2>1. \A t \in Threads : client[t].at # "dll"
    BY PubSubAssumption DEF ClientTypeInv, ClientTypeOK
  <2> QED BY <2>1 DEF SessionInv, SessionOpen, Closing
<1>2. TypeInv /\ LockInv /\ TableInv /\ ClientTypeInv /\ CallerInv /\ SessionInv /\ [ClientNext]_allVars => SessionInv'
  BY SessionStep
<1> QED BY <1>1, <1>2, SessionInit, CallersAlways, PTL DEF ClientSpec

(* With Dispose's test of _connected, redis_close is never asked to free    *)
(* what a failed redis_init has freed, nor frees twice.                     *)
THEOREM GuardedDisposeFreesOnce == ~Reinit /\ GuardedDispose => (ClientSpec => []NoDoubleFree)
<1> SUFFICES ASSUME ~Reinit, GuardedDispose PROVE ClientSpec => []NoDoubleFree
  OBVIOUS
<1>1. ClientTypeInv /\ CallerInv /\ SessionInv /\ OneSession => NoDoubleFree
  <2> SUFFICES ASSUME ClientTypeInv, CallerInv, SessionInv, OneSession, NEW t \in Threads, pc[t] = "close_body"
               PROVE  GoodContexts
    BY DEF NoDoubleFree, GoodContexts
  <2>1. client[t].method = "disconnect" /\ connected
    BY DEF CallerInv, InItsFunction, ClosePC, OneSession
  <2>2. \A u \in Threads : ~Closing(u)
    BY AloneInLibrary DEF Closing, ClosedPC
  <2> QED BY <2>1, <2>2 DEF SessionInv, SessionOpen
<1>2. TypeInv /\ LockInv /\ TableInv /\ ClientTypeInv /\ CallerInv /\ SessionInv /\ [ClientNext]_allVars => SessionInv'
  BY SessionStep
<1> QED BY <1>1, <1>2, SessionInit, OneSessionStep, CallersAlways, PTL DEF ClientSpec

-----------------------------------------------------------------------------
(* The native callbacks.                                                    *)

NoEntry(ch) == \A i \in 1 .. Len(g_table) : g_table[i].channel # ch

(* A channel has one entry, and the dictionary has that entry's callback.   *)
EntriesAlive ==
    \A i \in 1 .. Len(g_table) :
        /\ native[g_table[i].channel] = g_table[i].callback
        /\ \A j \in 1 .. Len(g_table) : g_table[j].channel = g_table[i].channel => j = i

(* A subscribe on its way into the library is the only one of its channel,  *)
(* and the dictionary has nothing for it yet.                               *)
NewChannel ==
    \A t \in InMethod("subscribe") :
        /\ native[client[t].channel] = NULL
        /\ \A u \in InMethod("subscribe") : client[u].channel = client[t].channel => u = t

(* What a subscribe passes to the library is what the dictionary has; if it *)
(* failed, the table has nothing of it.                                     *)
PassedOn ==
    \A t \in Threads : (client[t].at = "dll" /\ client[t].method = "subscribe") =>
        /\ native[client[t].channel] = client[t].callback
        /\ pc[t] \in SubscribePC => /\ arg[t].channel = client[t].channel
                                     /\ arg[t].callback = client[t].callback
        /\ pc[t] \in {"subscribe_enter", "subscribe_store"} => NoEntry(client[t].channel)
        /\ pc[t] \in {"subscribe_leave", "idle"} /\ ret[t] # 0 => NoEntry(client[t].channel)

(* The callback that runs has an entry: not the one that its own subscribe  *)
(* may be about to take back.                                               *)
CalledHasEntry ==
    \A s \in SubThreads : loop[s] = "callback" =>
        /\ delivered # <<>>
        /\ \E i \in 1 .. Len(g_table) :
              /\ g_table[i].callback = delivered[Len(delivered)].callback
              /\ pc[s] \in StoredPC => i < Len(g_table)

DisconnectedIsDead ==
    \A t \in Threads : (client[t].at = "dll" /\ client[t].method = "disconnect" /\ pc[t] = "idle") =>
        lockState = "dead"

AliveInv == EntriesAlive /\ NewChannel /\ PassedOn /\ CalledHasEntry /\ DisconnectedIsDead

LEMMA AliveInit == ClientInit => AliveInv
<1> SUFFICES ASSUME ClientInit PROVE AliveInv
  OBVIOUS
<1>1. /\ g_table = <<>> /\ 1 .. Len(g_table) = {}
      /\ \A t \in Threads : client[t].at = "idle"
      /\ \A s \in SubThreads : loop[s] = "none"
  BY EmptySeq, IdleType DEF ClientInit, Init
<1> QED BY <1>1 DEF AliveInv, EntriesAlive, NewChannel, InMethod, PassedOn, CalledHasEntry, DisconnectedIsDead

LEMMA AliveInvAlive == TypeInv /\ AliveInv => CallbacksAlive
<1> SUFFICES ASSUME TypeInv, AliveInv PROVE CallbacksAlive
  OBVIOUS
<1>1. \A i \in 1 .. Len(g_table) : g_table[i].channel \in Channels
  <2>1. g_table \in Seq(Entry)
    BY DEF TypeInv, TypeOK
  <2>2. \A i \in 1 .. Len(g_table) : g_table[i] \in Entry
    BY <2>1, ElementOfSeq
  <2> QED BY <2>2 DEF Entry
<1>2. \A i \in 1 .. Len(g_table) : Alive(g_table[i].callback)
  BY <1>1 DEF AliveInv, EntriesAlive, Alive
<1>3. \A s \in SubThreads : loop[s] = "callback" => Alive(delivered[Len(delivered)].callback)
  BY <1>2 DEF AliveInv, CalledHasEntry
<1> QED BY <1>2, <1>3 DEF CallbacksAlive

(* A step of the library that leaves the table alone, and of the calls at   *)
(* most one that has nothing to do with subscribing.                        *)
LEMMA AliveKept ==
    ASSUME AliveInv, UNCHANGED <<g_table, native, client>>,
           UNCHANGED delivered \/ CalledHasEntry',
           \A s \in SubThreads : loop'[s] = "callback" => loop[s] = "callback" \/ CalledHasEntry',
           \A u \in Threads :
               \/ UNCHANGED <<pc[u], arg[u], ret[u]>>
               \/ /\ client[u].method # "subscribe" /\ pc'[u] \notin StoredPC
                  /\ client[u].method = "disconnect" /\ pc'[u] = "idle" => lockState' = "dead",
           lockState = "dead" => lockState' = "dead"
    PROVE  AliveInv'
<1>1. EntriesAlive' /\ NewChannel'
  BY DEF AliveInv, EntriesAlive, NewChannel, InMethod
<1>2. PassedOn'
  BY DEF AliveInv, PassedOn, NoEntry
<1>3. CalledHasEntry'
  BY SubsAreThreads DEF AliveInv, CalledHasEntry
<1>4. DisconnectedIsDead'
  BY DEF AliveInv, DisconnectedIsDead
<1> QED BY <1>1, <1>2, <1>3, <1>4 DEF AliveInv

LEMMA WithoutLast ==
    ASSUME NEW S, NEW q \in Seq(S), Len(q) >= 1
    PROVE  /\ Len(SubSeq(q, 1, Len(q) - 1)) = Len(q) - 1
           /\ \A i \in 1 .. Len(q) - 1 : SubSeq(q, 1, Len(q) - 1)[i] = q[i]
<1> DEFINE n == Len(q) - 1
<1>1. n \in Nat /\ \A i \in 1 .. n : q[i] \in S
  BY ElementOfSeq, LenProperties
<1> HIDE DEF n
<1>2. /\ Len(SubSeq(q, 1, n)) = IF 1 <= n THEN n - 1 + 1 ELSE 0
      /\ \A i \in 1 .. n - 1 + 1 : SubSeq(q, 1, n)[i] = q[1 + i - 1]
  BY <1>1, SubSeqProperties
<1>3. Len(SubSeq(q, 1, n)) = n /\ \A i \in 1 .. n : SubSeq(q, 1, n)[i] = q[i]
  <2>1. Len(SubSeq(q, 1, n)) = n
    BY <1>1, <1>2
  <2>2. ASSUME NEW i \in 1 .. n PROVE SubSeq(q, 1, n)[i] = q[i]
    <3>1. i \in 1 .. n - 1 + 1 /\ 1 + i - 1 = i
      BY <1>1
    <3>2. SubSeq(q, 1, n)[i] = q[1 + i - 1]
      BY <1>2, <3>1
    <3> QED BY <3>1, <3>2
  <2> QED BY <2>1, <2>2
<1> QED BY <1>3 DEF n

(* redis_subscribe, from the lock to the return value.                      *)
LEMMA AliveSubscribe ==
    ASSUME TypeInv, LockInv, TableInv, ClientTypeInv, CallerInv, AliveInv, NEW t \in Threads,
           SubscribeEnter(t) \/ SubscribeStore(t) \/ SubscribeCommand(t) \/ SubscribeReply(t) \/ SubscribeLeave(t),
           UNCHANGED wrapperVars
    PROVE  AliveInv'
<1> DEFINE ch == client[t].channel
           cb == client[t].callback
<1>0. /\ UNCHANGED <<client, native, delivered>> /\ client[t].at = "dll" /\ client[t].method = "subscribe"
      /\ \A u \in Threads \ {t} : client[u].at # "dll" /\ UNCHANGED <<pc[u], arg[u], ret[u]>> /\ pc[u] = "idle"
      /\ g_table \in Seq(Entry) /\ Len(g_table) \in Nat
  <2>1. client[t].at = "dll" /\ client[t].method = "subscribe" /\ pc[t] # "idle"
    BY DEF SubscribeEnter, SubscribeStore, SubscribeCommand, SubscribeReply, SubscribeLeave, CallerInv, InItsFunction, SubscribingPC
  <2>2. \A u \in Threads \ {t} : UNCHANGED <<pc[u], arg[u], ret[u]>>
    BY DEF SubscribeEnter, SubscribeStore, SubscribeCommand, SubscribeReply, SubscribeLeave, Goto, Return, WillReturn, TypeInv, TypeOK
  <2>3. UNCHANGED delivered
    BY DEF SubscribeEnter, SubscribeStore, SubscribeCommand, SubscribeReply, SubscribeLeave
  <2> QED BY <2>1, <2>2, <2>3, AloneInLibrary, LenProperties DEF wrapperVars, TypeInv, TypeOK
<1>1. /\ native[ch] = cb
      /\ pc[t] \in SubscribePC => arg[t].channel = ch /\ arg[t].callback = cb
      /\ pc[t] \in {"subscribe_enter", "subscribe_store"} => NoEntry(ch)
      /\ pc[t] \in {"subscribe_leave", "idle"} /\ ret[t] # 0 => NoEntry(ch)
  BY <1>0 DEF AliveInv, PassedOn
<1>2. NewChannel' /\ DisconnectedIsDead'
  BY <1>0 DEF AliveInv, NewChannel, InMethod, DisconnectedIsDead
<1>3. CASE SubscribeEnter(t)
  <2>1. UNCHANGED <<g_table, loop, arg, ret>> /\ pc[t] = "subscribe_enter" /\ pc'[t] = "subscribe_store"
    BY <1>3 DEF SubscribeEnter, Goto, globals, loopVars, TypeInv, TypeOK
  <2>2. EntriesAlive'
    BY <1>0, <2>1 DEF AliveInv, EntriesAlive
  <2>3. PassedOn'
    BY <1>0, <1>1, <2>1 DEF PassedOn, NoEntry, SubscribePC
  <2>4. CalledHasEntry'
    BY <1>0, <2>1, SubsAreThreads DEF AliveInv, CalledHasEntry, StoredPC
  <2> QED BY <1>2, <2>2, <2>3, <2>4 DEF AliveInv
<1>4. CASE SubscribeStore(t)
  <2>0. pc[t] = "subscribe_store" /\ NoEntry(ch) /\ arg[t].channel = ch /\ arg[t].callback = cb /\ UNCHANGED loop
    BY <1>1, <1>4 DEF SubscribeStore, SubscribePC, loopVars
  <2>1. CASE WillReturn(t, "subscribe_leave", -1) /\ UNCHANGED g_table
    <3>1. pc'[t] = "subscribe_leave" /\ UNCHANGED g_table
      BY <2>1 DEF WillReturn, Goto, TypeInv, TypeOK
    <3>2. EntriesAlive'
      BY <1>0, <3>1 DEF AliveInv, EntriesAlive
    <3>3. PassedOn'
      <4>1. UNCHANGED arg
        BY <2>1 DEF WillReturn
      <4> QED BY <1>0, <1>1, <2>0, <3>1, <4>1 DEF PassedOn, NoEntry, SubscribePC
    <3>4. CalledHasEntry'
      BY <1>0, <2>0, <3>1, SubsAreThreads DEF AliveInv, CalledHasEntry, StoredPC
    <3> QED BY <1>2, <3>2, <3>3, <3>4 DEF AliveInv
  <2>2. CASE /\ g_table' = Append(g_table, [channel |-> arg[t].channel, callback |-> arg[t].callback])
             /\ Goto(t, "subscribe_command") /\ UNCHANGED <<arg, ret>>
    <3> DEFINE e == [channel |-> ch, callback |-> cb]
    <3>1. e \in Entry
      BY <2>0 DEF Entry, TypeInv, TypeOK, ArgsKnown, SubscribePC
    <3>2. pc'[t] = "subscribe_command" /\ g_table' = Append(g_table, e)
      BY <2>0, <2>2 DEF Goto, TypeInv, TypeOK
    <3>3. /\ Len(g_table') = Len(g_table) + 1 /\ g_table'[Len(g_table) + 1] = e
          /\ \A i \in 1 .. Len(g_table) : g_table'[i] = g_table[i]
      <4> HIDE DEF e
      <4> QED BY <1>0, <3>1, <3>2, AppendProperties
    <3>4. \A i \in 1 .. Len(g_table') : i = Len(g_table) + 1 \/ i \in 1 .. Len(g_table)
      BY <1>0, <3>3
    <3>5. EntriesAlive'
      BY <1>0, <1>1, <2>0, <3>3, <3>4 DEF AliveInv, EntriesAlive, NoEntry
    <3>6. PassedOn'
      BY <1>0, <1>1, <2>0, <2>2, <3>2 DEF AliveInv, PassedOn
    <3>7. CalledHasEntry'
      <4> SUFFICES ASSUME NEW s \in SubThreads, loop'[s] = "callback"
                   PROVE  /\ delivered' # <<>>
                          /\ \E i \in 1 .. Len(g_table') :
                                /\ g_table'[i].callback = delivered'[Len(delivered')].callback
                                /\ pc'[s] \in StoredPC => i < Len(g_table')
        BY DEF CalledHasEntry, StoredPC
      <4>1. PICK i \in 1 .. Len(g_table) : g_table[i].callback = delivered[Len(delivered)].callback
        BY <2>0 DEF AliveInv, CalledHasEntry, StoredPC
      <4>2. i \in 1 .. Len(g_table') /\ i < Len(g_table') /\ g_table'[i] = g_table[i]
        BY <1>0, <3>3
      <4> QED BY <1>0, <2>0, <4>1, <4>2 DEF AliveInv, CalledHasEntry, StoredPC
    <3> QED BY <1>2, <3>5, <3>6, <3>7 DEF AliveInv
  <2> QED BY <1>4, <2>1, <2>2 DEF SubscribeStore
<1>5. CASE SubscribeCommand(t)
  <2>1. UNCHANGED <<g_table, loop, arg, ret>> /\ pc[t] = "subscribe_command" /\ pc'[t] = "subscribe_reply"
    BY <1>5 DEF SubscribeCommand, Goto, globals, loopVars, TypeInv, TypeOK
  <2>2. EntriesAlive' /\ PassedOn'
    BY <1>0, <1>1, <2>1 DEF AliveInv, EntriesAlive, PassedOn, NoEntry, SubscribePC
  <2>3. CalledHasEntry'
    BY <1>0, <2>1, SubsAreThreads DEF AliveInv, CalledHasEntry, StoredPC
  <2> QED BY <1>2, <2>2, <2>3 DEF AliveInv
<1>6. CASE SubscribeReply(t)
  <2>0. /\ pc[t] = "subscribe_reply" /\ pc'[t] = "subscribe_leave"
        /\ g_table # <<>> /\ g_table[Len(g_table)].channel = ch
        /\ \A s \in SubThreads : loop'[s] = "callback" => loop[s] = "callback"
    BY <1>1, <1>6 DEF SubscribeReply, WillReturn, Goto, SubscribePC, StoredPC, TableInv, OwnLast,
                      CallerInv, DeadIdle, TypeInv, TypeOK
  <2>1. CASE DropLastEntry
    <3>1. Len(g_table) >= 1
      BY <1>0, <2>0, EmptySeq
    <3>3. /\ Len(g_table') = Len(g_table) - 1
          /\ \A i \in 1 .. Len(g_table) - 1 : g_table'[i] = g_table[i]
      BY <1>0, <2>1, <3>1, WithoutLast DEF DropLastEntry
    <3>4. \A i \in 1 .. Len(g_table') : i \in 1 .. Len(g_table) /\ i # Len(g_table) /\ g_table'[i] = g_table[i]
      BY <1>0, <3>1, <3>3
    <3>5. EntriesAlive'
      BY <1>0, <3>4 DEF AliveInv, EntriesAlive
    <3>6. NoEntry(ch)'
      <4>1. Len(g_table) \in 1 .. Len(g_table)
        BY <1>0, <3>1
      <4>2. \A i \in 1 .. Len(g_table') : g_table'[i].channel # ch
        BY <2>0, <3>4, <4>1 DEF AliveInv, EntriesAlive
      <4> QED BY <1>0, <4>2 DEF NoEntry
    <3>7. PassedOn'
      BY <1>0, <1>1, <2>0, <3>6 DEF AliveInv, PassedOn, SubscribePC
    <3>8. CalledHasEntry'
      <4> SUFFICES ASSUME NEW s \in SubThreads, loop[s] = "callback"
                   PROVE  /\ delivered # <<>> /\ pc'[s] \notin StoredPC
                          /\ \E i \in 1 .. Len(g_table') :
                                g_table'[i].callback = delivered[Len(delivered)].callback
        BY <1>0, <2>0 DEF CalledHasEntry
      <4>1. lockState # "dead"
        BY <2>0 DEF CallerInv, DeadIdle
      <4>2. s = t
        BY <2>0, <4>1, OthersOutside, SubsAreThreads DEF Critical, CriticalPC, CriticalLoop
      <4>3. PICK i \in 1 .. Len(g_table) : /\ g_table[i].callback = delivered[Len(delivered)].callback
                                           /\ i < Len(g_table)
        BY <2>0, <4>2 DEF AliveInv, CalledHasEntry, StoredPC
      <4>4. i \in 1 .. Len(g_table') /\ g_table'[i] = g_table[i]
        BY <1>0, <3>3, <4>3
      <4> QED BY <2>0, <4>2, <4>3, <4>4 DEF AliveInv, CalledHasEntry, StoredPC
    <3> QED BY <1>2, <3>5, <3>7, <3>8 DEF AliveInv
  <2>2. CASE UNCHANGED g_table /\ WillReturn(t, "subscribe_leave", 0)
    <3>1. ret'[t] = 0
      BY <2>2 DEF WillReturn, TypeInv, TypeOK
    <3>2. EntriesAlive' /\ PassedOn'
      BY <1>0, <1>1, <2>0, <2>2, <3>1 DEF AliveInv, EntriesAlive, PassedOn, NoEntry, SubscribePC
    <3>3. CalledHasEntry'
      BY <1>0, <2>0, <2>2, SubsAreThreads DEF AliveInv, CalledHasEntry, StoredPC
    <3> QED BY <1>2, <3>2, <3>3 DEF AliveInv
  <2> QED BY <1>6, <2>1, <2>2 DEF SubscribeReply
<1>7. CASE SubscribeLeave(t)
  <2>1. UNCHANGED <<g_table, loop, ret>> /\ pc[t] = "subscribe_leave" /\ pc'[t] = "idle"
    BY <1>7 DEF SubscribeLeave, Return, Goto, globals, loopVars, TypeInv, TypeOK
  <2>2. EntriesAlive' /\ PassedOn' /\ CalledHasEntry'
    BY <1>0, <1>1, <2>1, SubsAreThreads
       DEF AliveInv, EntriesAlive, PassedOn, CalledHasEntry, NoEntry, SubscribePC, StoredPC
  <2> QED BY <1>2, <2>2 DEF AliveInv
<1> QED BY <1>3, <1>4, <1>5, <1>6, <1>7

(* redis_init and redis_close empty the table when no callback runs.        *)
LEMMA AliveEmptied ==
    ASSUME AliveInv, NEW t \in Threads, pc[t] # "idle", ClientTypeInv, CallerInv, pc'[t] \notin StoredPC,
           client[t].method # "subscribe", UNCHANGED <<client, native, loop, lockState>>, g_table' = <<>>,
           client[t].method = "disconnect" => pc'[t] # "idle",
           \A s \in SubThreads : loop[s] # "callback"
    PROVE  AliveInv'
<1>1. 1 .. Len(g_table') = {}
  BY EmptySeq
<1>2. EntriesAlive' /\ NewChannel' /\ CalledHasEntry'
  BY <1>1 DEF AliveInv, EntriesAlive, NewChannel, InMethod, CalledHasEntry
<1>3. \A u \in Threads \ {t} : client[u].at # "dll"
  BY AloneInLibrary
<1>4. PassedOn' /\ DisconnectedIsDead'
  BY <1>3 DEF PassedOn, DisconnectedIsDead
<1> QED BY <1>2, <1>4 DEF AliveInv

LEMMA AliveCallStep ==
    ASSUME "close" \notin CallbackCalls, TypeInv, LockInv, TableInv, SilentInv, ClientTypeInv, CallerInv, AliveInv,
           NEW t \in Threads, CallStep(t), UNCHANGED wrapperVars
    PROVE  AliveInv'
<1>0. UNCHANGED <<client, native>>
  BY DEF wrapperVars
<1>1. CASE SubscribeEnter(t) \/ SubscribeStore(t) \/ SubscribeCommand(t) \/ SubscribeReply(t) \/ SubscribeLeave(t)
  BY <1>1, AliveSubscribe
<1>2. CASE InitDone(t)
  <2>1. /\ client[t].method = "connect" /\ pc'[t] = "idle" /\ pc[t] = "init_done" /\ g_table' = <<>>
        /\ UNCHANGED <<lockState, loop>>
    BY <1>2 DEF InitDone, Return, Goto, lockVars, loopVars, CallerInv, InItsFunction, InitPC, TypeInv, TypeOK
  <2>2. \A s \in SubThreads : loop[s] = "none"
    BY <2>1 DEF TableInv, InitAlone, InitPC
  <2> QED BY <1>0, <2>1, <2>2, AliveEmptied DEF StoredPC
<1>3. CASE CloseBody(t)
  <2>1. /\ client[t].method = "disconnect" /\ pc'[t] = "close_leave" /\ pc[t] = "close_body" /\ g_table' = <<>>
        /\ UNCHANGED <<lockState, loop>>
    BY <1>3 DEF CloseBody, Goto, lockVars, loopVars, CallerInv, InItsFunction, ClosePC, TypeInv, TypeOK
  <2>2. t \notin SubThreads
    BY <2>1 DEF SilentInv, CloseNotByCallback
  <2>3. \A s \in SubThreads : loop[s] # "callback"
    <3>1. lockState # "dead"
      BY <2>1 DEF CallerInv, DeadIdle
    <3> QED BY <2>1, <2>2, <3>1, OthersOutside, SubsAreThreads DEF Critical, CriticalPC, CriticalLoop
  <2> QED BY <1>0, <2>1, <2>3, AliveEmptied DEF StoredPC
<1>4. CASE InitPub(t) \/ InitSub(t) \/ CloseEnter(t) \/ CloseLeave(t) \/ CloseDelete(t)
           \/ PublishEnter(t) \/ PublishCommand(t) \/ PublishReply(t) \/ PublishLeave(t)
  <2>1. UNCHANGED <<g_table, delivered, loop>>
    BY <1>4 DEF InitPub, InitSub, CloseEnter, CloseLeave, CloseDelete, PublishEnter, PublishCommand,
                PublishReply, PublishLeave, globals, loopVars
  <2>2. client[t].method # "subscribe" /\ pc'[t] \notin StoredPC
    <3>1. pc[t] \in InitPC \cup ClosePC \cup PublishingPC
      BY <1>4 DEF InitPub, InitSub, CloseEnter, CloseLeave, CloseDelete, PublishEnter, PublishCommand,
                  PublishReply, PublishLeave, InitPC, ClosePC, PublishingPC
    <3> QED BY <3>1, CallStepLabel
            DEF CallerInv, InItsFunction, InitPC, ClosePC, PublishingPC, SubscribingPC, StoredPC
  <2>3. \A u \in Threads \ {t} : UNCHANGED <<pc[u], arg[u], ret[u]>>
    BY <1>4 DEF InitPub, InitSub, CloseEnter, CloseLeave, CloseDelete, PublishEnter, PublishCommand,
                PublishReply, PublishLeave, Goto, Return, WillReturn, TypeInv, TypeOK
  <2>4. client[t].method = "disconnect" /\ pc'[t] = "idle" => lockState' = "dead"
    BY <1>4 DEF InitPub, InitSub, CloseEnter, CloseLeave, CloseDelete, PublishEnter, PublishCommand,
                PublishReply, PublishLeave, Goto, Return, WillReturn, TypeInv, TypeOK,
                CallerInv, InItsFunction, InitPC, PublishingPC
  <2>5. lockState # "dead"
    BY CallStepLabel DEF CallerInv, DeadIdle
  <2> QED BY <1>0, <2>1, <2>2, <2>3, <2>4, <2>5, AliveKept
<1> QED BY <1>1, <1>2, <1>3, <1>4 DEF CallStep

(* subscribe makes a callback for a channel that has none.                  *)
LEMMA AliveSubscribeCall ==
    ASSUME TypeInv, ClientTypeInv, CallerInv, AliveInv, NEW t \in Threads, ClientSubscribe(t)
    PROVE  AliveInv'
<1> DEFINE ch == client[t].channel
           cb == NewCallback
<1>0. /\ cb \in Callbacks /\ cb # NULL /\ ch \in Channels
      /\ native[ch] = NULL /\ t \in InMethod("subscribe")
  BY WrapperAssumption
     DEF ClientSubscribe, NewCallback, ClientTypeInv, ClientTypeOK, ChannelGiven, AliveInv, NewChannel, InMethod
<1>1. /\ SubscribeCall(t, ch, cb) /\ native' = [native EXCEPT ![ch] = cb]
      /\ client' = [client EXCEPT ![t] = [@ EXCEPT !.at = "dll", !.callback = cb]]
  BY DEF ClientSubscribe
<1>2. /\ client'[t].at = "dll" /\ client'[t].method = "subscribe" /\ client'[t].channel = ch
      /\ client'[t].callback = cb
      /\ \A u \in Threads \ {t} : client'[u] = client[u] /\ pc[u] = "idle" /\ client[u].at # "dll"
  <2>1. client \in [Threads -> ClientRecord] /\ client[t] \in ClientRecord
    BY DEF ClientTypeInv, ClientTypeOK, ClientRecord
  <2>2. client[t].at = "call" /\ client[t].method = "subscribe"
    BY DEF ClientSubscribe
  <2>3. \A u \in Threads \ {t} : pc[u] = "idle" /\ client[u].at # "dll"
    BY <2>2, AloneInLibrary
  <2> HIDE DEF cb
  <2> QED BY <1>1, <2>1, <2>2, <2>3 DEF ClientRecord
<1> HIDE DEF cb
<1>3. native'[ch] = cb /\ \A c \in Channels \ {ch} : native'[c] = native[c]
  BY <1>0, <1>1 DEF ClientTypeInv, ClientTypeOK
<1>4. UNCHANGED <<g_table, loop, delivered, lockState>> /\ \A u \in Threads \ {t} : pc'[u] = pc[u]
  BY <1>1 DEF SubscribeCall, Start, Return, Goto, globals, loopVars, lockVars, TypeInv, TypeOK
<1>5. \A i \in 1 .. Len(g_table) : g_table[i].channel \in Channels /\ g_table[i].callback \in Callbacks
  <2>1. g_table \in Seq(Entry)
    BY DEF TypeInv, TypeOK
  <2>2. \A i \in 1 .. Len(g_table) : g_table[i] \in Entry
    BY <2>1, ElementOfSeq
  <2> QED BY <2>2 DEF Entry
<1>6. NoEntry(ch)
  BY <1>0, <1>5, WrapperAssumption DEF AliveInv, EntriesAlive, NoEntry
<1>7. EntriesAlive'
  BY <1>3, <1>4, <1>5, <1>6 DEF AliveInv, EntriesAlive, NoEntry
<1>8. NewChannel'
  <2>1. \A u \in InMethod("subscribe")' : u # t /\ u \in InMethod("subscribe") /\ client[u].channel \in Channels
    BY <1>2 DEF InMethod, ClientTypeInv, ChannelGiven
  <2>2. \A u \in InMethod("subscribe")' : client[u].channel # ch /\ client'[u] = client[u] /\ u \in Threads
    BY <1>0, <1>2, <2>1 DEF AliveInv, NewChannel, InMethod
  <2>3. \A u \in InMethod("subscribe")' : native'[client'[u].channel] = NULL
    BY <1>3, <2>1, <2>2 DEF AliveInv, NewChannel
  <2>4. \A u, v \in InMethod("subscribe")' : client'[u].channel = client'[v].channel => u = v
    BY <2>1, <2>2 DEF AliveInv, NewChannel
  <2> QED BY <2>3, <2>4 DEF NewChannel
<1>9. PassedOn'
  <2>1. CASE Start(t, "subscribe_enter", ch, cb)
    <3>1. pc'[t] = "subscribe_enter" /\ arg'[t].channel = ch /\ arg'[t].callback = cb
      BY <2>1 DEF Start, Goto, TypeInv, TypeOK
    <3> QED BY <1>2, <1>3, <1>4, <1>6, <3>1 DEF PassedOn, NoEntry
  <2>2. CASE Return(t, -1)
    <3>1. pc'[t] = "idle"
      BY <2>2 DEF Return, Goto, TypeInv, TypeOK
    <3> QED BY <1>2, <1>3, <1>4, <1>6, <3>1 DEF PassedOn, NoEntry, SubscribePC
  <2> QED BY <1>1, <2>1, <2>2 DEF SubscribeCall
<1>10. pc'[t] \notin StoredPC
  BY <1>1 DEF SubscribeCall, Start, Return, Goto, TypeInv, TypeOK, StoredPC
<1>11. CalledHasEntry' /\ DisconnectedIsDead'
  BY <1>2, <1>4, <1>10, SubsAreThreads DEF AliveInv, CalledHasEntry, DisconnectedIsDead
<1> QED BY <1>7, <1>8, <1>9, <1>11 DEF AliveInv

(* The other calls.                                                         *)
LEMMA AliveOtherCall ==
    ASSUME ~Reinit, TypeInv, ClientTypeInv, CallerInv, AliveInv, NEW t \in Threads,
           ClientConnect(t) \/ ClientDisconnect(t) \/ ClientPublish(t)
    PROVE  AliveInv'
<1>1. /\ client[t].method # "subscribe" /\ client'[t].method = client[t].method
      /\ \A u \in Threads \ {t} : client'[u] = client[u] /\ pc'[u] = pc[u] /\ client[u].at # "dll"
      /\ UNCHANGED <<g_table, loop, delivered>>
  BY MethodCall, AloneInLibrary DEF ClientConnect, ClientDisconnect, ClientPublish, globals, loopVars
<1>2. UNCHANGED native /\ pc'[t] \notin StoredPC
  BY MethodCall DEF ClientConnect, ClientDisconnect, ClientPublish, StoredPC
<1>3. client[t].method = "disconnect" => pc'[t] # "idle"
  BY MethodCall
<1>4. EntriesAlive'
  BY <1>1, <1>2 DEF AliveInv, EntriesAlive
<1>5. NewChannel'
  BY <1>1, <1>2 DEF AliveInv, NewChannel, InMethod
<1>6. PassedOn' /\ DisconnectedIsDead'
  BY <1>1, <1>3 DEF PassedOn, DisconnectedIsDead
<1>7. CalledHasEntry'
  BY <1>1, <1>2, SubsAreThreads DEF AliveInv, CalledHasEntry
<1> QED BY <1>4, <1>5, <1>6, <1>7 DEF AliveInv

(* A method that returns drops references the library has no use for.       *)
LEMMA AliveReturn ==
    ASSUME TypeInv, TableInv, SilentInv, ClientTypeInv, CallerInv, AliveInv, NEW t \in Threads,
           ConnectReturns(t) \/ DisconnectReturns(t) \/ PublishReturns(t) \/ SubscribeReturns(t)
    PROVE  AliveInv'
<1>1. /\ pc[t] = "idle" /\ client[t].at = "dll" /\ client'[t] = Idle
      /\ \A u \in Threads \ {t} : client'[u] = client[u] /\ client[u].at # "dll"
      /\ UNCHANGED <<g_table, loop, delivered, pc, ret, lockState>>
  BY MethodReturn, AloneInLibrary DEF vars, globals, loopVars, callVars, lockVars
<1>2. PassedOn' /\ DisconnectedIsDead'
  BY <1>1, IdleType DEF PassedOn, DisconnectedIsDead
<1>3. CalledHasEntry'
  BY <1>1 DEF AliveInv, CalledHasEntry
<1>4. \A u \in Threads : u \in InMethod("subscribe")' => u \in InMethod("subscribe") /\ client'[u] = client[u]
  BY <1>1, IdleType DEF InMethod
<1>5. ASSUME \A c \in Channels : native'[c] = native[c] \/ native'[c] = NULL PROVE NewChannel'
  <2>1. \A u \in InMethod("subscribe")' : u \in Threads /\ client[u].channel \in Channels
    BY <1>4 DEF InMethod, ClientTypeInv, ChannelGiven
  <2> QED BY <1>4, <1>5, <2>1 DEF AliveInv, NewChannel, InMethod
<1>6. CASE ConnectReturns(t) \/ PublishReturns(t)
  <2>1. UNCHANGED native
    BY <1>6 DEF ConnectReturns, PublishReturns
  <2>2. EntriesAlive'
    BY <1>1, <2>1 DEF AliveInv, EntriesAlive
  <2> QED BY <1>2, <1>3, <1>5, <2>1, <2>2 DEF AliveInv
<1>7. CASE DisconnectReturns(t)
  <2>1. native' = [ch \in Channels |-> NULL] /\ lockState = "dead"
    BY <1>1, <1>7 DEF DisconnectReturns, Returned, AliveInv, DisconnectedIsDead
  <2>2. 1 .. Len(g_table) = {}
    BY <2>1, EmptySeq DEF TableInv, NothingAfterClose, Closed, CallerInv, DeadIdle
  <2>3. EntriesAlive'
    BY <1>1, <2>2 DEF EntriesAlive
  <2> QED BY <1>2, <1>3, <1>5, <2>1, <2>3 DEF AliveInv
<1>8. CASE SubscribeReturns(t)
  <2>0. client[t].method = "subscribe" /\ client[t].channel \in Channels
    BY <1>8 DEF SubscribeReturns, Returned, ClientTypeInv, ChannelGiven
  <2>1. native' = [native EXCEPT ![client[t].channel] = IF ret[t] = 0 THEN @ ELSE NULL]
    BY <1>8 DEF SubscribeReturns
  <2>2. \A c \in Channels : \/ native'[c] = native[c]
                            \/ native'[c] = NULL /\ c = client[t].channel /\ ret[t] # 0
    BY <2>0, <2>1 DEF ClientTypeInv, ClientTypeOK
  <2>3. ret[t] # 0 => NoEntry(client[t].channel)
    BY <1>1, <2>0 DEF AliveInv, PassedOn
  <2>4. \A i \in 1 .. Len(g_table) : g_table[i].channel \in Channels
    <3>1. g_table \in Seq(Entry)
      BY DEF TypeInv, TypeOK
    <3>2. \A i \in 1 .. Len(g_table) : g_table[i] \in Entry
      BY <3>1, ElementOfSeq
    <3> QED BY <3>2 DEF Entry
  <2>5. EntriesAlive'
    BY <1>1, <2>2, <2>3, <2>4 DEF AliveInv, EntriesAlive, NoEntry
  <2> QED BY <1>2, <1>3, <1>5, <2>2, <2>5 DEF AliveInv
<1> QED BY <1>6, <1>7, <1>8

(* The subscription thread calls what an entry has.                         *)
LEMMA AliveDispatch ==
    ASSUME TypeInv, TableInv, PipeInv, AliveInv, NEW s \in SubThreads, Dispatch(s), UNCHANGED wrapperVars
    PROVE  AliveInv'
<1>0. UNCHANGED <<client, native, g_table, pc, arg, ret, lockState>> /\ loop[s] = "dispatch"
  BY DEF Dispatch, wrapperVars, globals, callVars, lockVars
<1>1. CASE GotoLoop(s, "leave") /\ UNCHANGED delivered
  <2>1. \A u \in SubThreads : loop'[u] = "callback" => loop[u] = "callback"
    BY <1>1 DEF GotoLoop, TypeInv, TypeOK
  <2> QED BY <1>0, <1>1, <2>1, AliveKept
<1>2. ASSUME NEW i \in 1 .. Len(g_table), g_table[i].channel = got[s].channel, GotoLoop(s, "callback"),
             delivered' = Append(delivered, [callback |-> g_table[i].callback,
                                             channel |-> got[s].channel, n |-> got[s].n])
      PROVE  AliveInv'
  <2>1. \A u \in SubThreads : loop'[u] = "callback" => u = s
    BY <1>0, <1>2 DEF GotoLoop, TypeInv, TypeOK, TableInv, OneThread
  <2>2. pc[s] = "idle"
    BY <1>0 DEF PipeInv, BusyWhere
  <2>3. delivered' # <<>> /\ delivered'[Len(delivered')].callback = g_table[i].callback
    <3> DEFINE d == [callback |-> g_table[i].callback, channel |-> got[s].channel, n |-> got[s].n]
    <3>1. d.callback = g_table[i].callback /\ delivered' = Append(delivered, d)
      BY <1>2
    <3>2. /\ g_table \in Seq(Entry) /\ delivered \in Seq(Delivery)
          /\ got[s] \in Reply \cup {NoReply}
      BY DEF TypeInv, TypeOK
    <3>3. g_table[i] \in Entry
      BY <3>2, ElementOfSeq
    <3>4. d \in Delivery
      BY <1>2, <3>2, <3>3 DEF Entry, Reply, NoReply, Delivery
    <3>5. Len(delivered) \in Nat
      BY <3>2, LenProperties
    <3> HIDE DEF d
    <3> QED BY <3>1, <3>2, <3>4, <3>5, AppendProperties
  <2>4. CalledHasEntry'
    BY <1>0, <1>2, <2>1, <2>2, <2>3 DEF CalledHasEntry, StoredPC
  <2> QED BY <1>0, <2>4, AliveKept
<1> QED BY <1>1, <1>2 DEF Dispatch

LEMMA AliveCall ==
    ASSUME ~Resubscribe, ClientTypeInv, AliveInv,
           NEW t \in Threads, NEW m \in Methods, NEW ch \in Channels \cup {NoChannel}, ClientCall(t, m, ch)
    PROVE  AliveInv'
<1>1. /\ client'[t].at = "lock" /\ client'[t].method = m /\ client'[t].channel = ch /\ client[t].at = "idle"
      /\ \A u \in Threads \ {t} : client'[u] = client[u]
      /\ UNCHANGED <<native, g_table, loop, delivered, pc, arg, ret, lockState>>
  <2>1. client \in [Threads -> ClientRecord]
    BY DEF ClientTypeInv, ClientTypeOK, ClientRecord
  <2> QED BY <2>1, IdleType DEF ClientCall, ClientRecord, vars, globals, loopVars, callVars, lockVars
<1>2. m = "subscribe" => native[ch] = NULL /\ \A u \in InMethod("subscribe") : client[u].channel # ch
  BY DEF ClientCall, Sensible
<1>3. NewChannel'
  BY <1>1, <1>2 DEF AliveInv, NewChannel, InMethod
<1>4. EntriesAlive' /\ CalledHasEntry'
  BY <1>1, SubsAreThreads DEF AliveInv, EntriesAlive, CalledHasEntry
<1>5. PassedOn' /\ DisconnectedIsDead'
  BY <1>1 DEF AliveInv, PassedOn, NoEntry, DisconnectedIsDead
<1> QED BY <1>3, <1>4, <1>5 DEF AliveInv

LEMMA AliveLock ==
    ASSUME ClientTypeInv, AliveInv, NEW t \in Threads, ClientLock(t) PROVE AliveInv'
<1>1. /\ client'[t].at = "call" /\ client'[t].method = client[t].method /\ client'[t].channel = client[t].channel
      /\ client[t].at = "lock" /\ \A u \in Threads \ {t} : client'[u] = client[u]
      /\ UNCHANGED <<native, g_table, loop, delivered, pc, arg, ret, lockState>>
  <2>1. client \in [Threads -> ClientRecord] /\ client[t] \in ClientRecord
    BY DEF ClientTypeInv, ClientTypeOK, ClientRecord
  <2> QED BY <2>1 DEF ClientLock, ClientRecord, vars, globals, loopVars, callVars, lockVars
<1>2. NewChannel'
  BY <1>1 DEF AliveInv, NewChannel, InMethod
<1>3. EntriesAlive' /\ CalledHasEntry'
  BY <1>1, SubsAreThreads DEF AliveInv, EntriesAlive, CalledHasEntry
<1>4. PassedOn' /\ DisconnectedIsDead'
  BY <1>1 DEF AliveInv, PassedOn, NoEntry, DisconnectedIsDead
<1> QED BY <1>2, <1>3, <1>4 DEF AliveInv

LEMMA AliveStep ==
    ASSUME ~Reinit, ~Resubscribe, "close" \notin CallbackCalls,
           TypeInv, LockInv, TableInv, PipeInv, SilentInv, ClientTypeInv, CallerInv, AliveInv, [ClientNext]_allVars
    PROVE  AliveInv'
<1>1. ASSUME NEW t \in Threads, MethodStep(t) PROVE AliveInv'
  BY <1>1, AliveLock, AliveOtherCall, AliveSubscribeCall, AliveReturn DEF MethodStep
<1>2. ASSUME NEW s \in SubThreads, LoopStep(s), UNCHANGED wrapperVars PROVE AliveInv'
  <2>1. CASE Dispatch(s)
    BY <1>2, <2>1, AliveDispatch
  <2>2. CASE ~Dispatch(s)
    <3>1. UNCHANGED <<pc, arg, ret, lockState, g_table>> /\ UNCHANGED <<client, native>>
      BY <1>2, LoopStepKeeps DEF wrapperVars
    <3>2. UNCHANGED delivered /\ \A u \in SubThreads : loop'[u] = "callback" => loop[u] = "callback"
      BY <1>2, <2>2 DEF LoopStep, LoopCheck, LoopGet, LoopReply, LoopEnter, CallbackReturns, LoopLeave,
                        GotoLoop, TypeInv, TypeOK
    <3> QED BY <3>1, <3>2, AliveKept
  <2> QED BY <2>1, <2>2
<1>3. CASE UNCHANGED otherVars /\ UNCHANGED wrapperVars
  <2>1. UNCHANGED <<g_table, native, client, delivered, loop, pc, arg, ret, lockState>>
    BY <1>3 DEF otherVars, wrapperVars, globals, lockVars, callVars, loopVars
  <2> QED BY <2>1, AliveKept
<1>4. UNCHANGED allVars => UNCHANGED otherVars /\ UNCHANGED wrapperVars
  BY DEF allVars, vars, otherVars
<1> QED BY <1>1, <1>2, <1>3, <1>4, AliveCall, AliveCallStep
        DEF ClientNext, DLLStep, Run, UndefinedStep, Environment

(* What the DLL may call, or is calling, the dictionary keeps alive: when a *)
(* channel is not subscribed twice, the callbacks do not disconnect, and    *)
(* the library is initialized once.                                         *)
THEOREM CallbacksKeptAlive ==
    ~Reinit /\ ~Resubscribe /\ "close" \notin CallbackCalls => (ClientSpec => []CallbacksAlive)
<1> SUFFICES ASSUME ~Reinit, ~Resubscribe, "close" \notin CallbackCalls PROVE ClientSpec => []CallbacksAlive
  OBVIOUS
<1>1. TypeInv /\ LockInv /\ TableInv /\ SilentInv /\ [Next]_vars => SilentInv'
  BY SilentStep
<1>2. TypeInv /\ LockInv /\ TableInv /\ PipeInv /\ [Next]_vars => PipeInv'
  BY PipeStep
<1>3. TypeInv /\ LockInv /\ TableInv /\ PipeInv /\ SilentInv /\ ClientTypeInv /\ CallerInv /\ AliveInv
      /\ [ClientNext]_allVars => AliveInv'
  BY AliveStep
<1>4. ClientInit => Init
  BY DEF ClientInit
<1> QED BY <1>1, <1>2, <1>3, <1>4, SilentInit, PipeInvInit, AliveInit, AliveInvAlive, CallersAlways,
           ClientStepIsStep, PTL DEF ClientSpec
=============================================================================
