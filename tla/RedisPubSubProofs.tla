------------------------- MODULE RedisPubSubProofs -------------------------
(***************************************************************************)
(* RedisPubSub for all values of the constants, in six parts: the types of *)
(* HiredisContext and of RedisPubSub; the critical section; the table of   *)
(* callbacks with the subscription thread and redis_close; what holds      *)
(* after redis_close; the pipeline of the publishing connection; and the   *)
(* delivery of messages as PubSubChannel promises it.                      *)
(***************************************************************************)
EXTENDS DeliveryRefinement, SequenceTheorems, FiniteSetTheorems, TLAPS

-----------------------------------------------------------------------------
(* HiredisContext: its actions keep its type invariant.                     *)

(* A thread inside redisGetReply is there with a context.                   *)
IOTarget == \A t \in Threads : io[t].at # "none" => io[t].on \in Contexts

HiredisInv == HiredisTypeOK /\ IOTarget

(* A reply or a command appended to a sequence keeps its type.              *)
LEMMA MessageTypes ==
    /\ \A ch \in Channels, m \in Nat : Message(ch, m) \in Reply
    /\ \A ch \in Channels : Subscribed(ch) \in Reply
    /\ \A n \in Nat : IntegerReply(n) \in Reply
    /\ ErrorReply \in Reply
BY DEF Message, Subscribed, IntegerReply, ErrorReply, Reply

(* Taking the first k elements, or all but those, stays within Seq(S).      *)
LEMMA SubSeqTypes ==
    ASSUME NEW S, NEW q \in Seq(S), NEW k \in 0 .. Len(q)
    PROVE  SubSeq(q, 1, k) \in Seq(S) /\ SubSeq(q, k + 1, Len(q)) \in Seq(S)
<1>1. /\ \A i \in 1 .. k : q[i] \in S
      /\ \A i \in k + 1 .. Len(q) : q[i] \in S
  BY ElementOfSeq, LenProperties
<1>2. Len(q) \in Nat
  BY LenProperties
<1> QED BY <1>1, <1>2, SubSeqProperties

(* The number of receivers of a channel is a natural number.                *)
LEMMA ReceiversFinite ==
    ASSUME NEW ch PROVE Cardinality(Receivers(ch)) \in Nat
<1>1. MaxContexts \in Nat
  BY ContextAssumption
<1>2. IsFiniteSet(Contexts)
  BY <1>1, FS_Interval DEF Contexts
<1> QED BY <1>2, FS_Subset, FS_CardinalityType DEF Receivers

LEMMA NoIOType == NoIO \in IO /\ NoIO.at = "none"
<1>1. 0 \in 0 .. MaxContexts
  BY ContextAssumption
<1>2. <<>> \in Seq(Reply)
  OBVIOUS
<1> QED BY <1>1, <1>2 DEF NoIO, IO, NULL

LEMMA HiredisInitInv == HiredisInit => HiredisInv
<1> SUFFICES ASSUME HiredisInit PROVE HiredisInv
  OBVIOUS
<1>1. io \in [Threads -> IO] /\ \A t \in Threads : io[t].at = "none"
  BY NoIOType DEF HiredisInit
<1>2. \A S : <<>> \in Seq(S)
  OBVIOUS
<1> QED BY <1>1, <1>2 DEF HiredisInit, HiredisInv, HiredisTypeOK, IOTarget

(* redisFree and a connection that succeeds.                                *)
LEMMA FreeContextsInv ==
    ASSUME HiredisInv, NEW C, FreeContexts(C) PROVE HiredisInv'
BY DEF HiredisInv, HiredisTypeOK, IOTarget, FreeContexts, Contexts, IO

LEMMA ConnectOKInv ==
    ASSUME HiredisInv, NEW c \in Contexts, ConnectOK(c) PROVE HiredisInv'
BY DEF HiredisInv, HiredisTypeOK, IOTarget, ConnectOK, serverVars

(* A thread enters redisGetReply, and leaves it.                            *)
LEMMA GetReplyType ==
    ASSUME HiredisInv, NEW t \in Threads, NEW c \in Contexts, GetReply(t, c)
    PROVE  io' \in [Threads -> IO] /\ IOTarget'
<1>0. c \in 0 .. MaxContexts
  BY ContextAssumption DEF Contexts
<1>1. [NoIO EXCEPT !.at = "try", !.on = c] \in IO
  BY <1>0, NoIOType DEF IO
<1>2. /\ io' \in [Threads -> IO]
      /\ \A u \in Threads : u # t => io'[u] = io[u]
      /\ io'[t].on = c
  BY <1>1, NoIOType DEF GetReply, HiredisInv, HiredisTypeOK, IO
<1> QED BY <1>2 DEF IOTarget, HiredisInv, Contexts

LEMMA ReturnFromIOType ==
    ASSUME HiredisInv, NEW t \in Threads, ReturnFromIO(t)
    PROVE  io' \in [Threads -> IO] /\ IOTarget'
<1> QED BY NoIOType DEF ReturnFromIO, HiredisInv, HiredisTypeOK, IOTarget, Contexts

LEMMA RedisCommandInv ==
    ASSUME HiredisInv, NEW t \in Threads, NEW c \in Contexts, NEW cmd \in Command,
           RedisCommand(t, c, cmd)
    PROVE  HiredisInv'
<1>1. io' \in [Threads -> IO] /\ IOTarget'
  BY GetReplyType DEF RedisCommand
<1>2. obuf' \in [Contexts -> Seq(Command)]
  BY AppendProperties DEF RedisCommand, HiredisInv, HiredisTypeOK
<1> QED BY <1>1, <1>2 DEF RedisCommand, HiredisInv, HiredisTypeOK, serverVars

(* The next place of a thread inside redisGetReply keeps io well typed.     *)
LEMMA IOUpdate ==
    ASSUME HiredisInv, NEW t \in Threads, io[t].at # "none", NEW r, r \in IO,
           r.on = io[t].on, io' = [io EXCEPT ![t] = r]
    PROVE  io' \in [Threads -> IO] /\ IOTarget'
BY DEF HiredisInv, HiredisTypeOK, IOTarget, Contexts

LEMMA IOErrorInv ==
    ASSUME HiredisInv, NEW t \in Threads, io[t].at # "none", IOError(t) PROVE HiredisInv'
<1>1. io' = [io EXCEPT ![t] = [io[t] EXCEPT !.at = "err"]]
  BY DEF IOError
<1>2. [io[t] EXCEPT !.at = "err"] \in IO /\ [io[t] EXCEPT !.at = "err"].on = io[t].on
  BY DEF HiredisInv, HiredisTypeOK, IO
<1>3. io' \in [Threads -> IO] /\ IOTarget'
  BY <1>1, <1>2, IOUpdate
<1> QED BY <1>3 DEF IOError, HiredisInv, HiredisTypeOK, serverVars

LEMMA TryReaderInv ==
    ASSUME HiredisInv, NEW t \in Threads, TryReader(t) PROVE HiredisInv'
<1> DEFINE c == io[t].on
<1>0. io[t] \in IO /\ c \in Contexts /\ io[t].at # "none"
  BY DEF TryReader, HiredisInv, HiredisTypeOK, IOTarget
<1>1. CASE ctx[c] # "freed" /\ reader[c] # <<>>
  <2>1. Head(reader[c]) \in Reply /\ Tail(reader[c]) \in Seq(Reply)
    BY <1>0, <1>1, HeadTailProperties DEF HiredisInv, HiredisTypeOK
  <2> DEFINE r == [io[t] EXCEPT !.at = "ok", !.reply = Head(reader[c])]
  <2>2. r \in IO /\ r.on = io[t].on
    BY <1>0, <2>1 DEF IO
  <2>3. io' = [io EXCEPT ![t] = r] /\ reader' = [reader EXCEPT ![c] = Tail(@)]
        /\ UNCHANGED <<ctx, obuf, serverVars, crashed>>
    BY <1>1 DEF TryReader
  <2>4. io' \in [Threads -> IO] /\ IOTarget'
    BY <1>0, <2>2, <2>3, IOUpdate
  <2> QED BY <1>0, <2>1, <2>3, <2>4 DEF HiredisInv, HiredisTypeOK, serverVars
<1>2. CASE ctx[c] # "freed" /\ reader[c] = <<>>
  <2> DEFINE r == [io[t] EXCEPT !.at = "flush"]
  <2>2. r \in IO /\ r.on = io[t].on
    BY <1>0 DEF IO
  <2>3. io' = [io EXCEPT ![t] = r] /\ UNCHANGED <<ctx, obuf, reader, serverVars, crashed>>
    BY <1>2 DEF TryReader
  <2>4. io' \in [Threads -> IO] /\ IOTarget'
    BY <1>0, <2>2, <2>3, IOUpdate
  <2> QED BY <2>3, <2>4 DEF HiredisInv, HiredisTypeOK, serverVars
<1>3. CASE ctx[c] = "freed" /\ IOError(t)
  BY <1>0, <1>3, IOErrorInv
<1> QED BY <1>1, <1>2, <1>3 DEF TryReader

(* What the server does keeps its part of the state well typed.             *)
ServerTypeOK ==
    /\ sock \in [Contexts -> Seq(Reply)]
    /\ dropped \in [Contexts -> BOOLEAN]
    /\ subscribed \in [Contexts -> SUBSET Channels]
    /\ nmsg \in Nat

LEMMA ServerExecutesType ==
    ASSUME HiredisInv, NEW c \in Contexts, NEW cmd \in Command, ServerExecutes(c, cmd)
    PROVE  ServerTypeOK'
<1>0. cmd.channel \in Channels /\ Cardinality(Receivers(cmd.channel)) \in Nat
      /\ nmsg \in Nat /\ nmsg + 1 \in Nat
  BY ReceiversFinite DEF Command, HiredisInv, HiredisTypeOK
<1>1. \A q \in Seq(Reply), r \in Reply : Append(q, r) \in Seq(Reply)
  BY AppendProperties
<1>2. CASE "deny" \in Faults /\ sock' = [sock EXCEPT ![c] = Append(@, ErrorReply)]
           /\ UNCHANGED <<dropped, subscribed, nmsg>>
  BY <1>1, <1>2, MessageTypes DEF ServerTypeOK, HiredisInv, HiredisTypeOK
<1>3. CASE /\ cmd.verb = "SUBSCRIBE"
           /\ subscribed' = [subscribed EXCEPT ![c] = @ \cup {cmd.channel}]
           /\ sock' = [sock EXCEPT ![c] = Append(@, Subscribed(cmd.channel))]
           /\ UNCHANGED <<dropped, nmsg>>
  BY <1>0, <1>1, <1>3, MessageTypes DEF ServerTypeOK, HiredisInv, HiredisTypeOK
<1>4. CASE /\ cmd.verb = "PUBLISH"
           /\ nmsg' = nmsg + 1
           /\ sock' = [d \in Contexts |->
                 IF d \in Receivers(cmd.channel) THEN Append(sock[d], Message(cmd.channel, nmsg + 1))
                 ELSE IF d = c THEN Append(sock[d], IntegerReply(Cardinality(Receivers(cmd.channel))))
                 ELSE sock[d]]
           /\ UNCHANGED <<dropped, subscribed>>
  <2>1. Message(cmd.channel, nmsg + 1) \in Reply
        /\ IntegerReply(Cardinality(Receivers(cmd.channel))) \in Reply
    BY <1>0, MessageTypes
  <2>2. sock \in [Contexts -> Seq(Reply)]
    BY DEF HiredisInv, HiredisTypeOK
  <2>3. sock' \in [Contexts -> Seq(Reply)]
    BY <1>1, <1>4, <2>1, <2>2
  <2> QED BY <1>0, <1>4, <2>3 DEF ServerTypeOK, HiredisInv, HiredisTypeOK
<1> QED BY <1>2, <1>3, <1>4 DEF ServerExecutes

LEMMA FlushInv ==
    ASSUME HiredisInv, NEW t \in Threads, Flush(t) PROVE HiredisInv'
<1> DEFINE c == io[t].on
<1>0. io[t] \in IO /\ c \in Contexts /\ io[t].at # "none"
  BY DEF Flush, HiredisInv, HiredisTypeOK, IOTarget
<1>1. CASE ctx[c] = "open" /\ obuf[c] = <<>> /\ io' = [io EXCEPT ![t].at = "recv"]
           /\ UNCHANGED <<ctx, obuf, reader, serverVars, crashed>>
  <2> DEFINE r == [io[t] EXCEPT !.at = "recv"]
  <2>2. r \in IO /\ r.on = io[t].on
    BY <1>0 DEF IO
  <2>3. io' \in [Threads -> IO] /\ IOTarget'
    BY <1>0, <1>1, <2>2, IOUpdate
  <2> QED BY <1>1, <2>3 DEF HiredisInv, HiredisTypeOK, serverVars
<1>2. CASE /\ ctx[c] = "open" /\ obuf[c] # <<>>
           /\ obuf' = [obuf EXCEPT ![c] = Tail(@)]
           /\ IF dropped[c] THEN UNCHANGED serverVars ELSE ServerExecutes(c, Head(obuf[c]))
           /\ UNCHANGED <<ctx, reader, io, crashed>>
  <2>1. Head(obuf[c]) \in Command /\ Tail(obuf[c]) \in Seq(Command)
    BY <1>0, <1>2, HeadTailProperties DEF HiredisInv, HiredisTypeOK
  <2>2. ServerTypeOK'
    BY <1>0, <1>2, <2>1, ServerExecutesType DEF HiredisInv, HiredisTypeOK, ServerTypeOK, serverVars
  <2> QED BY <1>0, <1>2, <2>1, <2>2 DEF HiredisInv, HiredisTypeOK, ServerTypeOK, IOTarget, Contexts
<1>3. CASE IOError(t)
  BY <1>0, <1>3, IOErrorInv
<1> QED BY <1>1, <1>2, <1>3 DEF Flush

LEMMA RecvInv ==
    ASSUME HiredisInv, NEW t \in Threads, Recv(t) PROVE HiredisInv'
<1> DEFINE c == io[t].on
<1>0. io[t] \in IO /\ c \in Contexts /\ io[t].at # "none" /\ sock[c] \in Seq(Reply)
  BY DEF Recv, HiredisInv, HiredisTypeOK, IOTarget
<1>1. CASE /\ \E k \in 1 .. Len(sock[c]) :
                /\ io' = [io EXCEPT ![t].at = "parse", ![t].buf = SubSeq(sock[c], 1, k)]
                /\ sock' = [sock EXCEPT ![c] = SubSeq(@, k + 1, Len(@))]
           /\ UNCHANGED <<ctx, obuf, reader, dropped, subscribed, nmsg, crashed>>
  <2>1. PICK k \in 1 .. Len(sock[c]) :
                /\ io' = [io EXCEPT ![t].at = "parse", ![t].buf = SubSeq(sock[c], 1, k)]
                /\ sock' = [sock EXCEPT ![c] = SubSeq(@, k + 1, Len(@))]
    BY <1>1
  <2>2. k \in 0 .. Len(sock[c])
    BY <1>0, LenProperties
  <2>3. SubSeq(sock[c], 1, k) \in Seq(Reply) /\ SubSeq(sock[c], k + 1, Len(sock[c])) \in Seq(Reply)
    BY <1>0, <2>2, SubSeqTypes
  <2> DEFINE r == [io[t] EXCEPT !.at = "parse", !.buf = SubSeq(sock[c], 1, k)]
  <2>4. r \in IO /\ r.on = io[t].on
    BY <1>0, <2>3 DEF IO
  <2>5. io' = [io EXCEPT ![t] = r]
    BY <2>1
  <2>6. io' \in [Threads -> IO] /\ IOTarget'
    BY <1>0, <2>4, <2>5, IOUpdate
  <2>7. sock' \in [Contexts -> Seq(Reply)]
    BY <1>0, <2>1, <2>3 DEF HiredisInv, HiredisTypeOK
  <2> QED BY <1>1, <2>6, <2>7 DEF HiredisInv, HiredisTypeOK
<1>2. CASE IOError(t)
  BY <1>0, <1>2, IOErrorInv
<1> QED BY <1>1, <1>2 DEF Recv

LEMMA ParseInv ==
    ASSUME HiredisInv, NEW t \in Threads, Parse(t) PROVE HiredisInv'
<1> DEFINE c == io[t].on
           all == reader[c] \o io[t].buf
<1>0. io[t] \in IO /\ c \in Contexts /\ io[t].at # "none"
      /\ reader[c] \in Seq(Reply) /\ io[t].buf \in Seq(Reply)
  BY DEF Parse, HiredisInv, HiredisTypeOK, IOTarget, IO
<1>1. CASE /\ all # <<>>
           /\ io' = [io EXCEPT ![t].at = "ok", ![t].reply = Head(all), ![t].buf = <<>>]
           /\ reader' = [reader EXCEPT ![c] = Tail(all)]
           /\ UNCHANGED <<ctx, obuf, serverVars, crashed>>
  <2>1. all \in Seq(Reply)
    BY <1>0, ConcatProperties
  <2>2. Head(all) \in Reply /\ Tail(all) \in Seq(Reply)
    BY <1>1, <2>1, HeadTailProperties
  <2> DEFINE r == [io[t] EXCEPT !.at = "ok", !.reply = Head(all), !.buf = <<>>]
  <2>3. r \in IO /\ r.on = io[t].on
    BY <1>0, <2>2, EmptySeq DEF IO
  <2>4. io' = [io EXCEPT ![t] = r]
    BY <1>1
  <2>5. io' \in [Threads -> IO] /\ IOTarget'
    BY <1>0, <2>3, <2>4, IOUpdate
  <2>6. reader' \in [Contexts -> Seq(Reply)]
    BY <1>1, <2>2 DEF HiredisInv, HiredisTypeOK
  <2> QED BY <1>1, <2>5, <2>6 DEF HiredisInv, HiredisTypeOK, serverVars
<1>2. CASE IOError(t)
  BY <1>0, <1>2, IOErrorInv
<1> QED BY <1>1, <1>2 DEF Parse

LEMMA CrashInv == ASSUME HiredisInv, Crash PROVE HiredisInv'
BY DEF HiredisInv, HiredisTypeOK, IOTarget, Crash, serverVars, Contexts

(* Every step inside redisGetReply.                                         *)
LEMMA IOStepInv ==
    ASSUME HiredisInv, NEW t \in Threads, IOStep(t) PROVE HiredisInv'
BY TryReaderInv, FlushInv, RecvInv, ParseInv, CrashInv DEF IOStep

(* Publishers elsewhere, and dropped connections.                           *)
LEMMA ExternalPublishInv ==
    ASSUME HiredisInv, NEW ch \in Channels, ExternalPublish(ch) PROVE HiredisInv'
<1>1. Message(ch, nmsg + 1) \in Reply /\ nmsg + 1 \in Nat
  BY MessageTypes DEF HiredisInv, HiredisTypeOK
<1>2. \A q \in Seq(Reply) : Append(q, Message(ch, nmsg + 1)) \in Seq(Reply)
  BY <1>1, AppendProperties
<1>3. sock' \in [Contexts -> Seq(Reply)]
  BY <1>2 DEF ExternalPublish, HiredisInv, HiredisTypeOK
<1> QED BY <1>1, <1>3 DEF ExternalPublish, HiredisInv, HiredisTypeOK, IOTarget, Contexts

LEMMA DropInv ==
    ASSUME HiredisInv, NEW c \in Contexts, Drop(c) PROVE HiredisInv'
<1>1. PICK k \in 0 .. Len(sock[c]) : sock' = [sock EXCEPT ![c] = SubSeq(@, 1, k)]
  BY DEF Drop
<1>2. sock[c] \in Seq(Reply)
  BY DEF HiredisInv, HiredisTypeOK
<1>3. SubSeq(sock[c], 1, k) \in Seq(Reply)
  BY <1>2, SubSeqTypes
<1>4. sock' \in [Contexts -> Seq(Reply)]
  BY <1>1, <1>3 DEF HiredisInv, HiredisTypeOK
<1> QED BY <1>4 DEF Drop, HiredisInv, HiredisTypeOK, IOTarget, Contexts

-----------------------------------------------------------------------------
(* RedisPubSub: type correctness.                                           *)

(* A call that has arguments has them in their sets.                        *)
PublishPC == {"publish_enter", "publish_command"}
SubscribePC == {"subscribe_enter", "subscribe_store", "subscribe_command", "subscribe_reply"}
ArgsKnown ==
    \A t \in Threads :
        /\ pc[t] \in PublishPC \cup SubscribePC => arg[t].channel \in Channels
        /\ pc[t] \in SubscribePC => arg[t].callback \in Callbacks

DepthPositive == lockOwner # NoThread => lockDepth >= 1

(* TypeOK is not inductive by itself: a step into redisGetReply needs a     *)
(* context, an append to the table needs the arguments of the call, and     *)
(* leaving the lock needs a positive depth.                                 *)
TypeInv == TypeOK /\ IOTarget /\ ArgsKnown /\ DepthPositive

LEMMA TypeInvHiredis == TypeInv => HiredisInv
BY DEF TypeInv, TypeOK, HiredisInv

LEMMA UnchangedHiredis == ASSUME HiredisInv, UNCHANGED hiredisVars PROVE HiredisInv'
BY DEF HiredisInv, HiredisTypeOK, IOTarget, hiredisVars, Contexts

(* The part of the type invariant that is about the DLL's own variables.    *)
PubSubTypeOK ==
    /\ g_context \in 0 .. MaxContexts
    /\ g_sub_context \in 0 .. MaxContexts
    /\ g_running \in BOOLEAN
    /\ g_table \in Seq(Entry)
    /\ lockState \in {"raw", "ready", "dead"}
    /\ lockOwner \in Threads \cup {NoThread}
    /\ lockDepth \in Nat
    /\ pc \in [Threads -> PCs]
    /\ arg \in [Threads -> [channel : Channels \cup {NoChannel}, callback : Callbacks \cup {NULL}]]
    /\ ret \in [Threads -> Int]
    /\ loop \in [SubThreads -> Loops]
    /\ got \in [SubThreads -> Reply \cup {NoReply}]
    /\ npub \in Nat /\ nsub \in Nat
    /\ delivered \in Seq(Delivery)
    /\ ArgsKnown
    /\ DepthPositive

LEMMA TypeInvParts == TypeInv <=> HiredisInv /\ PubSubTypeOK
BY DEF TypeInv, TypeOK, HiredisInv, PubSubTypeOK

LEMMA TypeInvPrime == HiredisInv' /\ PubSubTypeOK' => TypeInv'
BY DEF TypeInv, TypeOK, HiredisInv, PubSubTypeOK

(* Entering and leaving the lock.                                           *)
LEMMA EnterType ==
    ASSUME PubSubTypeOK, NEW t \in Threads, Enter(t)
    PROVE  /\ lockState' \in {"raw", "ready", "dead"}
           /\ lockOwner' \in Threads \cup {NoThread}
           /\ lockDepth' \in Nat
           /\ DepthPositive'
BY PubSubAssumption DEF PubSubTypeOK, DepthPositive, Enter, lockVars

LEMMA LeaveType ==
    ASSUME PubSubTypeOK, NEW t \in Threads, Leave(t)
    PROVE  /\ lockState' \in {"raw", "ready", "dead"}
           /\ lockOwner' \in Threads \cup {NoThread}
           /\ lockDepth' \in Nat
           /\ DepthPositive'
BY PubSubAssumption DEF PubSubTypeOK, DepthPositive, Leave, lockVars

(* The pc, the arguments and the result of a call.                          *)
LEMMA GotoType ==
    ASSUME PubSubTypeOK, NEW t \in Threads, NEW label \in PCs, Goto(t, label), UNCHANGED arg,
           label \in PublishPC => pc[t] \in PublishPC,
           label \in SubscribePC => pc[t] \in SubscribePC
    PROVE  pc' \in [Threads -> PCs] /\ ArgsKnown'
BY DEF PubSubTypeOK, Goto, ArgsKnown, PublishPC, SubscribePC

LEMMA ReturnType ==
    ASSUME PubSubTypeOK, NEW t \in Threads, NEW r \in Int, Return(t, r)
    PROVE  /\ pc' \in [Threads -> PCs]
           /\ arg' \in [Threads -> [channel : Channels \cup {NoChannel}, callback : Callbacks \cup {NULL}]]
           /\ ret' \in [Threads -> Int]
           /\ ArgsKnown'
<1>1. NoArg \in [channel : Channels \cup {NoChannel}, callback : Callbacks \cup {NULL}]
  BY DEF NoArg
<1>2. "idle" \in PCs
  BY DEF PCs
<1> QED BY <1>1, <1>2 DEF PubSubTypeOK, Return, Goto, ArgsKnown, PublishPC, SubscribePC

LEMMA WillReturnType ==
    ASSUME PubSubTypeOK, NEW t \in Threads, NEW r \in Int, NEW label \in {"publish_leave", "subscribe_leave"},
           WillReturn(t, label, r)
    PROVE  /\ pc' \in [Threads -> PCs]
           /\ ret' \in [Threads -> Int]
           /\ ArgsKnown'
<1>1. label \in PCs
  BY DEF PCs, CriticalPC
<1> QED BY <1>1 DEF PubSubTypeOK, WillReturn, Goto, ArgsKnown, PublishPC, SubscribePC

LEMMA StartType ==
    ASSUME PubSubTypeOK, NEW t \in Threads, NEW ch \in Channels, NEW cb, NEW label,
           \/ label = "publish_enter" /\ cb = NULL
           \/ label = "subscribe_enter" /\ cb \in Callbacks,
           Start(t, label, ch, cb)
    PROVE  /\ pc' \in [Threads -> PCs]
           /\ arg' \in [Threads -> [channel : Channels \cup {NoChannel}, callback : Callbacks \cup {NULL}]]
           /\ ArgsKnown'
<1>1. label \in PCs
  BY DEF PCs
<1> QED BY <1>1 DEF PubSubTypeOK, Start, Goto, ArgsKnown, PublishPC, SubscribePC

LEMMA DropLastType ==
    ASSUME NEW S, NEW q \in Seq(S) PROVE SubSeq(q, 1, Len(q) - 1) \in Seq(S)
<1>1. Len(q) \in Nat /\ \A i \in 1 .. Len(q) - 1 : q[i] \in S
  BY ElementOfSeq, LenProperties
<1> QED BY <1>1, SubSeqProperties

(* Starting a call.                                                         *)
LEMMA CallType == ASSUME TypeInv, NEW t \in Threads, Call(t) PROVE TypeInv'
<1>0. HiredisInv /\ PubSubTypeOK
  BY TypeInvParts
<1>1. CASE InitCall(t)
  <2>1. HiredisInv'
    BY <1>0, <1>1, UnchangedHiredis DEF InitCall
  <2>2. pc' \in [Threads -> PCs] /\ ArgsKnown'
    BY <1>0, <1>1, GotoType DEF InitCall, PCs, InitPC, PublishPC, SubscribePC
  <2> QED BY <1>0, <1>1, <2>1, <2>2, TypeInvPrime
          DEF InitCall, PubSubTypeOK, DepthPositive, globals, loopVars
<1>2. CASE CloseCall(t)
  <2>1. HiredisInv'
    BY <1>0, <1>2, UnchangedHiredis DEF CloseCall
  <2>2. pc' \in [Threads -> PCs] /\ ArgsKnown'
    BY <1>0, <1>2, GotoType DEF CloseCall, PCs, PublishPC, SubscribePC
  <2> QED BY <1>0, <1>2, <2>1, <2>2, TypeInvPrime
          DEF CloseCall, PubSubTypeOK, DepthPositive, globals, lockVars, loopVars
<1>3. CASE ProcessCall(t)
  <2>1. HiredisInv'
    BY <1>0, <1>3, UnchangedHiredis DEF ProcessCall
  <2>2. (IF g_sub_context = NULL THEN -1 ELSE 0) \in Int
    OBVIOUS
  <2>3. /\ pc' \in [Threads -> PCs]
        /\ arg' \in [Threads -> [channel : Channels \cup {NoChannel}, callback : Callbacks \cup {NULL}]]
        /\ ret' \in [Threads -> Int]
        /\ ArgsKnown'
    BY <1>0, <1>3, <2>2, ReturnType DEF ProcessCall
  <2> QED BY <1>0, <1>3, <2>1, <2>3, TypeInvPrime
          DEF ProcessCall, PubSubTypeOK, DepthPositive, globals, lockVars, loopVars
<1>4. ASSUME NEW ch \in Channels, PublishCall(t, ch) PROVE TypeInv'
  <2>1. HiredisInv'
    BY <1>0, <1>4, UnchangedHiredis DEF PublishCall
  <2>2. /\ pc' \in [Threads -> PCs]
        /\ arg' \in [Threads -> [channel : Channels \cup {NoChannel}, callback : Callbacks \cup {NULL}]]
        /\ ret' \in [Threads -> Int]
        /\ ArgsKnown'
    <3>1. CASE Return(t, -1)
      BY <1>0, <3>1, ReturnType
    <3>2. CASE Start(t, "publish_enter", ch, NULL)
      BY <1>0, <3>2, StartType DEF Start, PubSubTypeOK
    <3> QED BY <1>4, <3>1, <3>2 DEF PublishCall
  <2>3. npub' \in Nat
    BY <1>0, <1>4 DEF PublishCall, PubSubTypeOK
  <2> QED BY <1>0, <1>4, <2>1, <2>2, <2>3, TypeInvPrime
          DEF PublishCall, PubSubTypeOK, DepthPositive, globals, lockVars, loopVars
<1>5. ASSUME NEW ch \in Channels, NEW cb \in Callbacks, SubscribeCall(t, ch, cb) PROVE TypeInv'
  <2>1. HiredisInv'
    BY <1>0, <1>5, UnchangedHiredis DEF SubscribeCall
  <2>2. /\ pc' \in [Threads -> PCs]
        /\ arg' \in [Threads -> [channel : Channels \cup {NoChannel}, callback : Callbacks \cup {NULL}]]
        /\ ret' \in [Threads -> Int]
        /\ ArgsKnown'
    <3>1. CASE Return(t, -1)
      BY <1>0, <3>1, ReturnType
    <3>2. CASE Start(t, "subscribe_enter", ch, cb)
      BY <1>0, <3>2, StartType DEF Start, PubSubTypeOK
    <3> QED BY <1>5, <3>1, <3>2 DEF SubscribeCall
  <2>3. nsub' \in Nat
    BY <1>0, <1>5 DEF SubscribeCall, PubSubTypeOK
  <2> QED BY <1>0, <1>5, <2>1, <2>2, <2>3, TypeInvPrime
          DEF SubscribeCall, PubSubTypeOK, DepthPositive, globals, lockVars, loopVars
<1> QED BY <1>1, <1>2, <1>3, <1>4, <1>5 DEF Call

(* redis_init and redis_close.                                              *)
LEMMA InitType ==
    ASSUME TypeInv, NEW t \in Threads, InitPub(t) \/ InitSub(t) \/ InitDone(t) PROVE TypeInv'
<1>0. HiredisInv /\ PubSubTypeOK /\ MaxContexts \in Nat
  BY TypeInvParts, ContextAssumption
<1>1. CASE InitPub(t)
  <2>1. CASE /\ \E c \in Contexts : Fresh(c) /\ ConnectOK(c) /\ g_context' = c
             /\ Goto(t, "init_sub") /\ UNCHANGED <<arg, ret>>
    <3>1. HiredisInv' /\ g_context' \in 0 .. MaxContexts
      BY <1>0, <2>1, ConnectOKInv DEF Contexts
    <3>2. pc' \in [Threads -> PCs] /\ ArgsKnown'
      BY <1>0, <2>1, GotoType DEF PCs, InitPC, PublishPC, SubscribePC
    <3> QED BY <1>0, <1>1, <2>1, <3>1, <3>2, TypeInvPrime
            DEF InitPub, PubSubTypeOK, DepthPositive, lockVars, loopVars
  <2>2. CASE /\ \E c \in {NULL} \cup {d \in Contexts : Fresh(d)} : FreeContexts({c}) /\ g_context' = c
             /\ Return(t, -1)
    <3>1. HiredisInv' /\ g_context' \in 0 .. MaxContexts
      BY <1>0, <2>2, FreeContextsInv DEF Contexts, NULL
    <3>2. /\ pc' \in [Threads -> PCs]
          /\ arg' \in [Threads -> [channel : Channels \cup {NoChannel}, callback : Callbacks \cup {NULL}]]
          /\ ret' \in [Threads -> Int]
          /\ ArgsKnown'
      BY <1>0, <2>2, ReturnType
    <3> QED BY <1>0, <1>1, <3>1, <3>2, TypeInvPrime
            DEF InitPub, PubSubTypeOK, DepthPositive, lockVars, loopVars
  <2> QED BY <1>1, <2>1, <2>2 DEF InitPub
<1>2. CASE InitSub(t)
  <2>1. CASE /\ \E c \in Contexts : Fresh(c) /\ ConnectOK(c) /\ g_sub_context' = c
             /\ Goto(t, "init_done") /\ UNCHANGED <<arg, ret>>
    <3>1. HiredisInv' /\ g_sub_context' \in 0 .. MaxContexts
      BY <1>0, <2>1, ConnectOKInv DEF Contexts
    <3>2. pc' \in [Threads -> PCs] /\ ArgsKnown'
      BY <1>0, <2>1, GotoType DEF PCs, InitPC, PublishPC, SubscribePC
    <3> QED BY <1>0, <1>2, <2>1, <3>1, <3>2, TypeInvPrime
            DEF InitSub, PubSubTypeOK, DepthPositive, lockVars, loopVars
  <2>2. CASE /\ \E c \in {NULL} \cup {d \in Contexts : Fresh(d)} :
                   FreeContexts({c, g_context}) /\ g_sub_context' = c
             /\ Return(t, -1)
    <3>1. HiredisInv' /\ g_sub_context' \in 0 .. MaxContexts
      BY <1>0, <2>2, FreeContextsInv DEF Contexts, NULL
    <3>2. /\ pc' \in [Threads -> PCs]
          /\ arg' \in [Threads -> [channel : Channels \cup {NoChannel}, callback : Callbacks \cup {NULL}]]
          /\ ret' \in [Threads -> Int]
          /\ ArgsKnown'
      BY <1>0, <2>2, ReturnType
    <3> QED BY <1>0, <1>2, <3>1, <3>2, TypeInvPrime
            DEF InitSub, PubSubTypeOK, DepthPositive, lockVars, loopVars
  <2> QED BY <1>2, <2>1, <2>2 DEF InitSub
<1>3. CASE InitDone(t)
  <2>1. HiredisInv'
    BY <1>0, <1>3, UnchangedHiredis DEF InitDone
  <2>2. /\ pc' \in [Threads -> PCs]
        /\ arg' \in [Threads -> [channel : Channels \cup {NoChannel}, callback : Callbacks \cup {NULL}]]
        /\ ret' \in [Threads -> Int]
        /\ ArgsKnown'
    BY <1>0, <1>3, ReturnType DEF InitDone
  <2> QED BY <1>0, <1>3, <2>1, <2>2, TypeInvPrime, EmptySeq
          DEF InitDone, PubSubTypeOK, DepthPositive, lockVars, loopVars
<1> QED BY <1>1, <1>2, <1>3

LEMMA CloseType ==
    ASSUME TypeInv, NEW t \in Threads,
           CloseEnter(t) \/ CloseBody(t) \/ CloseLeave(t) \/ CloseDelete(t)
    PROVE  TypeInv'
<1>0. HiredisInv /\ PubSubTypeOK /\ MaxContexts \in Nat
  BY TypeInvParts, ContextAssumption
<1>1. CASE CloseEnter(t)
  <2>1. HiredisInv'
    BY <1>0, <1>1, UnchangedHiredis DEF CloseEnter
  <2>2. pc' \in [Threads -> PCs] /\ ArgsKnown'
    BY <1>0, <1>1, GotoType DEF CloseEnter, PCs, CriticalPC, PublishPC, SubscribePC
  <2>3. /\ lockState' \in {"raw", "ready", "dead"} /\ lockOwner' \in Threads \cup {NoThread}
        /\ lockDepth' \in Nat /\ DepthPositive'
    BY <1>0, <1>1, EnterType DEF CloseEnter
  <2> QED BY <1>0, <1>1, <2>1, <2>2, <2>3, TypeInvPrime DEF CloseEnter, PubSubTypeOK, globals, loopVars
<1>2. CASE CloseBody(t)
  <2>1. HiredisInv'
    BY <1>0, <1>2, FreeContextsInv DEF CloseBody
  <2>2. pc' \in [Threads -> PCs] /\ ArgsKnown'
    BY <1>0, <1>2, GotoType DEF CloseBody, PCs, CriticalPC, PublishPC, SubscribePC
  <2>3. g_context' \in 0 .. MaxContexts /\ g_sub_context' \in 0 .. MaxContexts
    BY <1>0, <1>2 DEF CloseBody, NULL
  <2> QED BY <1>0, <1>2, <2>1, <2>2, <2>3, TypeInvPrime, EmptySeq
          DEF CloseBody, PubSubTypeOK, DepthPositive, lockVars, loopVars
<1>3. CASE CloseLeave(t)
  <2>1. HiredisInv'
    BY <1>0, <1>3, UnchangedHiredis DEF CloseLeave
  <2>2. pc' \in [Threads -> PCs] /\ ArgsKnown'
    BY <1>0, <1>3, GotoType DEF CloseLeave, PCs, PublishPC, SubscribePC
  <2>3. /\ lockState' \in {"raw", "ready", "dead"} /\ lockOwner' \in Threads \cup {NoThread}
        /\ lockDepth' \in Nat /\ DepthPositive'
    BY <1>0, <1>3, LeaveType DEF CloseLeave
  <2> QED BY <1>0, <1>3, <2>1, <2>2, <2>3, TypeInvPrime DEF CloseLeave, PubSubTypeOK, globals, loopVars
<1>4. CASE CloseDelete(t)
  <2>1. HiredisInv'
    BY <1>0, <1>4, UnchangedHiredis DEF CloseDelete
  <2>2. /\ pc' \in [Threads -> PCs]
        /\ arg' \in [Threads -> [channel : Channels \cup {NoChannel}, callback : Callbacks \cup {NULL}]]
        /\ ret' \in [Threads -> Int]
        /\ ArgsKnown'
    BY <1>0, <1>4, ReturnType DEF CloseDelete
  <2> QED BY <1>0, <1>4, <2>1, <2>2, TypeInvPrime
          DEF CloseDelete, PubSubTypeOK, DepthPositive, globals, loopVars
<1> QED BY <1>1, <1>2, <1>3, <1>4

(* redis_publish and redis_subscribe.                                       *)
LEMMA ReturnFromIOInv ==
    ASSUME HiredisInv, NEW t \in Threads, ReturnFromIO(t),
           UNCHANGED <<ctx, obuf, reader, serverVars, crashed>>
    PROVE  HiredisInv'
BY ReturnFromIOType DEF HiredisInv, HiredisTypeOK, serverVars

LEMMA PublishType ==
    ASSUME TypeInv, NEW t \in Threads,
           PublishEnter(t) \/ PublishCommand(t) \/ PublishReply(t) \/ PublishLeave(t)
    PROVE  TypeInv'
<1>0. HiredisInv /\ PubSubTypeOK
  BY TypeInvParts
<1>1. CASE PublishEnter(t)
  <2>1. HiredisInv'
    BY <1>0, <1>1, UnchangedHiredis DEF PublishEnter
  <2>2. pc' \in [Threads -> PCs] /\ ArgsKnown'
    BY <1>0, <1>1, GotoType DEF PublishEnter, PCs, CriticalPC, PublishPC, SubscribePC
  <2>3. /\ lockState' \in {"raw", "ready", "dead"} /\ lockOwner' \in Threads \cup {NoThread}
        /\ lockDepth' \in Nat /\ DepthPositive'
    BY <1>0, <1>1, EnterType DEF PublishEnter
  <2> QED BY <1>0, <1>1, <2>1, <2>2, <2>3, TypeInvPrime DEF PublishEnter, PubSubTypeOK, globals, loopVars
<1>2. CASE PublishCommand(t)
  <2>1. g_context \in Contexts /\ arg[t].channel \in Channels
    BY <1>0, <1>2 DEF PublishCommand, PubSubTypeOK, ArgsKnown, PublishPC, NULL, Contexts
  <2>2. [verb |-> "PUBLISH", channel |-> arg[t].channel] \in Command
    BY <2>1 DEF Command
  <2>3. HiredisInv'
    BY <1>0, <1>2, <2>1, <2>2, RedisCommandInv DEF PublishCommand
  <2>4. pc' \in [Threads -> PCs] /\ ArgsKnown'
    BY <1>0, <1>2, GotoType DEF PublishCommand, PCs, CriticalPC, PublishPC, SubscribePC
  <2> QED BY <1>0, <1>2, <2>3, <2>4, TypeInvPrime
          DEF PublishCommand, PubSubTypeOK, DepthPositive, globals, lockVars, loopVars
<1>3. CASE PublishReply(t)
  <2>1. HiredisInv'
    BY <1>0, <1>3, ReturnFromIOInv DEF PublishReply
  <2>2. (IF io[t].at = "ok" THEN IntegerOf(io[t].reply) ELSE -1) \in Int
    BY <1>0 DEF HiredisInv, HiredisTypeOK, IO, Reply, NoReply, IntegerOf
  <2>3. pc' \in [Threads -> PCs] /\ ret' \in [Threads -> Int] /\ ArgsKnown'
    BY <1>0, <1>3, <2>2, WillReturnType DEF PublishReply
  <2> QED BY <1>0, <1>3, <2>1, <2>3, TypeInvPrime
          DEF PublishReply, WillReturn, PubSubTypeOK, DepthPositive, globals, lockVars, loopVars
<1>4. CASE PublishLeave(t)
  <2>1. HiredisInv'
    BY <1>0, <1>4, UnchangedHiredis DEF PublishLeave
  <2>2. ret[t] \in Int
    BY <1>0 DEF PubSubTypeOK
  <2>3. /\ pc' \in [Threads -> PCs]
        /\ arg' \in [Threads -> [channel : Channels \cup {NoChannel}, callback : Callbacks \cup {NULL}]]
        /\ ret' \in [Threads -> Int]
        /\ ArgsKnown'
    BY <1>0, <1>4, <2>2, ReturnType DEF PublishLeave
  <2>4. /\ lockState' \in {"raw", "ready", "dead"} /\ lockOwner' \in Threads \cup {NoThread}
        /\ lockDepth' \in Nat /\ DepthPositive'
    BY <1>0, <1>4, LeaveType DEF PublishLeave
  <2> QED BY <1>0, <1>4, <2>1, <2>3, <2>4, TypeInvPrime DEF PublishLeave, PubSubTypeOK, globals, loopVars
<1> QED BY <1>1, <1>2, <1>3, <1>4

LEMMA SubscribeType ==
    ASSUME TypeInv, NEW t \in Threads,
           \/ SubscribeEnter(t) \/ SubscribeStore(t) \/ SubscribeCommand(t)
           \/ SubscribeReply(t) \/ SubscribeLeave(t)
    PROVE  TypeInv'
<1>0. HiredisInv /\ PubSubTypeOK
  BY TypeInvParts
<1>1. CASE SubscribeEnter(t)
  <2>1. HiredisInv'
    BY <1>0, <1>1, UnchangedHiredis DEF SubscribeEnter
  <2>2. pc' \in [Threads -> PCs] /\ ArgsKnown'
    BY <1>0, <1>1, GotoType DEF SubscribeEnter, PCs, CriticalPC, PublishPC, SubscribePC
  <2>3. /\ lockState' \in {"raw", "ready", "dead"} /\ lockOwner' \in Threads \cup {NoThread}
        /\ lockDepth' \in Nat /\ DepthPositive'
    BY <1>0, <1>1, EnterType DEF SubscribeEnter
  <2> QED BY <1>0, <1>1, <2>1, <2>2, <2>3, TypeInvPrime DEF SubscribeEnter, PubSubTypeOK, globals, loopVars
<1>2. CASE SubscribeStore(t)
  <2>0. HiredisInv'
    BY <1>0, <1>2, UnchangedHiredis DEF SubscribeStore
  <2>1. CASE WillReturn(t, "subscribe_leave", -1) /\ UNCHANGED g_table
    <3>1. pc' \in [Threads -> PCs] /\ ret' \in [Threads -> Int] /\ ArgsKnown'
      BY <1>0, <2>1, WillReturnType
    <3> QED BY <1>0, <1>2, <2>0, <2>1, <3>1, TypeInvPrime
            DEF SubscribeStore, WillReturn, PubSubTypeOK, DepthPositive, lockVars, loopVars
  <2>2. CASE /\ g_table' = Append(g_table, [channel |-> arg[t].channel, callback |-> arg[t].callback])
             /\ Goto(t, "subscribe_command") /\ UNCHANGED <<arg, ret>>
    <3>1. arg[t].channel \in Channels /\ arg[t].callback \in Callbacks
      BY <1>0, <1>2 DEF SubscribeStore, PubSubTypeOK, ArgsKnown, SubscribePC
    <3>2. pc' \in [Threads -> PCs] /\ ArgsKnown'
      BY <1>0, <1>2, <2>2, GotoType DEF SubscribeStore, PCs, CriticalPC, PublishPC, SubscribePC
    <3>3. [channel |-> arg[t].channel, callback |-> arg[t].callback] \in Entry
      BY <3>1 DEF Entry
    <3>4. g_table' \in Seq(Entry)
      BY <1>0, <2>2, <3>3, AppendProperties DEF PubSubTypeOK
    <3> QED BY <1>0, <1>2, <2>0, <2>2, <3>2, <3>4, TypeInvPrime
            DEF SubscribeStore, PubSubTypeOK, DepthPositive, lockVars, loopVars
  <2> QED BY <1>2, <2>1, <2>2 DEF SubscribeStore
<1>5. CASE SubscribeCommand(t)
  <2>1. g_sub_context \in Contexts /\ arg[t].channel \in Channels
    BY <1>0, <1>5 DEF SubscribeCommand, PubSubTypeOK, ArgsKnown, SubscribePC, NULL, Contexts
  <2>2. [verb |-> "SUBSCRIBE", channel |-> arg[t].channel] \in Command
    BY <2>1 DEF Command
  <2>3. HiredisInv'
    BY <1>0, <1>5, <2>1, <2>2, RedisCommandInv DEF SubscribeCommand
  <2>4. pc' \in [Threads -> PCs] /\ ArgsKnown'
    BY <1>0, <1>5, GotoType DEF SubscribeCommand, PCs, CriticalPC, PublishPC, SubscribePC
  <2> QED BY <1>0, <1>5, <2>3, <2>4, TypeInvPrime
          DEF SubscribeCommand, PubSubTypeOK, DepthPositive, globals, lockVars, loopVars
<1>3. CASE SubscribeReply(t)
  <2>1. HiredisInv'
    BY <1>0, <1>3, ReturnFromIOInv DEF SubscribeReply
  <2>2. PICK r \in {-1, 0} : WillReturn(t, "subscribe_leave", r)
    BY <1>3 DEF SubscribeReply
  <2>3. pc' \in [Threads -> PCs] /\ ret' \in [Threads -> Int] /\ ArgsKnown' /\ UNCHANGED arg
    <3>1. r \in Int
      OBVIOUS
    <3>2. UNCHANGED arg
      BY <2>2 DEF WillReturn
    <3> QED BY <1>0, <2>2, <3>1, <3>2, WillReturnType
  <2>4. g_table' \in Seq(Entry)
    <3>1. SubSeq(g_table, 1, Len(g_table) - 1) \in Seq(Entry)
      BY <1>0, DropLastType DEF PubSubTypeOK
    <3> QED BY <1>0, <1>3, <3>1 DEF SubscribeReply, DropLastEntry, PubSubTypeOK
  <2>5. loop' \in [SubThreads -> Loops]
    BY <1>0, <1>3 DEF SubscribeReply, PubSubTypeOK, Loops
  <2> QED BY <1>0, <1>3, <2>1, <2>3, <2>4, <2>5, TypeInvPrime
          DEF SubscribeReply, PubSubTypeOK, DepthPositive, lockVars
<1>4. CASE SubscribeLeave(t)
  <2>1. HiredisInv'
    BY <1>0, <1>4, UnchangedHiredis DEF SubscribeLeave
  <2>2. ret[t] \in Int
    BY <1>0 DEF PubSubTypeOK
  <2>3. /\ pc' \in [Threads -> PCs]
        /\ arg' \in [Threads -> [channel : Channels \cup {NoChannel}, callback : Callbacks \cup {NULL}]]
        /\ ret' \in [Threads -> Int]
        /\ ArgsKnown'
    BY <1>0, <1>4, <2>2, ReturnType DEF SubscribeLeave
  <2>4. /\ lockState' \in {"raw", "ready", "dead"} /\ lockOwner' \in Threads \cup {NoThread}
        /\ lockDepth' \in Nat /\ DepthPositive'
    BY <1>0, <1>4, LeaveType DEF SubscribeLeave
  <2> QED BY <1>0, <1>4, <2>1, <2>3, <2>4, TypeInvPrime DEF SubscribeLeave, PubSubTypeOK, globals, loopVars
<1> QED BY <1>1, <1>2, <1>3, <1>4, <1>5

(* The subscription thread.                                                 *)
LEMMA LoopType ==
    ASSUME TypeInv, NEW s \in SubThreads, LoopStep(s) PROVE TypeInv'
<1>0. HiredisInv /\ PubSubTypeOK /\ s \in Threads
  BY TypeInvParts, PubSubAssumption
<1>00. {"check", "get", "reply", "enter", "ended", "dispatch", "callback", "leave"} \subseteq Loops
  BY DEF Loops, CriticalLoop
<1> USE DEF GotoLoop
<1>1. CASE LoopCheck(s)
  <2>1. HiredisInv'
    BY <1>0, <1>1, UnchangedHiredis DEF LoopCheck
  <2> QED BY <1>0, <1>00, <1>1, <2>1, TypeInvPrime
          DEF LoopCheck, PubSubTypeOK, ArgsKnown, DepthPositive, globals, lockVars, callVars
<1>2. CASE LoopGet(s)
  <2>1. g_sub_context \in Contexts
    BY <1>0, <1>2 DEF LoopGet, PubSubTypeOK, NULL, Contexts
  <2>2. io' \in [Threads -> IO] /\ IOTarget'
    BY <1>0, <1>2, <2>1, GetReplyType DEF LoopGet
  <2>3. HiredisInv'
    BY <1>0, <1>2, <2>2 DEF LoopGet, HiredisInv, HiredisTypeOK, serverVars
  <2> QED BY <1>0, <1>00, <1>2, <2>3, TypeInvPrime
          DEF LoopGet, PubSubTypeOK, ArgsKnown, DepthPositive, globals, lockVars, callVars
<1>3. CASE LoopReply(s)
  <2>1. HiredisInv'
    BY <1>0, <1>3, ReturnFromIOInv DEF LoopReply
  <2>2. io[s].reply \in Reply \cup {NoReply}
    BY <1>0 DEF HiredisInv, HiredisTypeOK, IO
  <2>3. got' \in [SubThreads -> Reply \cup {NoReply}] /\ loop' \in [SubThreads -> Loops]
    BY <1>0, <1>00, <1>3, <2>2 DEF LoopReply, PubSubTypeOK
  <2> QED BY <1>0, <1>3, <2>1, <2>3, TypeInvPrime
          DEF LoopReply, PubSubTypeOK, ArgsKnown, DepthPositive, globals, lockVars, callVars
<1>4. CASE LoopEnter(s)
  <2>1. HiredisInv'
    BY <1>0, <1>4, UnchangedHiredis DEF LoopEnter
  <2>2. /\ lockState' \in {"raw", "ready", "dead"} /\ lockOwner' \in Threads \cup {NoThread}
        /\ lockDepth' \in Nat /\ DepthPositive'
    BY <1>0, <1>4, EnterType DEF LoopEnter
  <2> QED BY <1>0, <1>00, <1>4, <2>1, <2>2, TypeInvPrime
          DEF LoopEnter, PubSubTypeOK, ArgsKnown, globals, callVars
<1>5. CASE Dispatch(s)
  <2>1. HiredisInv'
    BY <1>0, <1>5, UnchangedHiredis DEF Dispatch
  <2>2. delivered' \in Seq(Delivery) /\ loop' \in [SubThreads -> Loops]
    <3>1. CASE GotoLoop(s, "leave") /\ UNCHANGED delivered
      BY <1>0, <1>00, <3>1 DEF PubSubTypeOK
    <3>2. ASSUME NEW i \in 1 .. Len(g_table), g_table[i].channel = got[s].channel,
                 delivered' = Append(delivered, [callback |-> g_table[i].callback,
                                                 channel |-> got[s].channel, n |-> got[s].n]),
                 GotoLoop(s, "callback")
          PROVE  delivered' \in Seq(Delivery) /\ loop' \in [SubThreads -> Loops]
      <4>1. g_table[i] \in Entry /\ got[s] \in Reply \cup {NoReply}
        BY <1>0, ElementOfSeq DEF PubSubTypeOK
      <4>2. [callback |-> g_table[i].callback, channel |-> got[s].channel, n |-> got[s].n] \in Delivery
        BY <3>2, <4>1 DEF Entry, Reply, NoReply, Delivery
      <4> QED BY <1>0, <1>00, <3>2, <4>2, AppendProperties DEF PubSubTypeOK
    <3> QED BY <1>5, <3>1, <3>2 DEF Dispatch
  <2> QED BY <1>0, <1>5, <2>1, <2>2, TypeInvPrime
          DEF Dispatch, PubSubTypeOK, ArgsKnown, DepthPositive, globals, lockVars, callVars
<1>6. CASE CallbackReturns(s)
  <2>1. HiredisInv'
    BY <1>0, <1>6, UnchangedHiredis DEF CallbackReturns
  <2> QED BY <1>0, <1>00, <1>6, <2>1, TypeInvPrime
          DEF CallbackReturns, PubSubTypeOK, ArgsKnown, DepthPositive, globals, lockVars, callVars
<1>7. CASE LoopLeave(s)
  <2>1. HiredisInv'
    BY <1>0, <1>7, UnchangedHiredis DEF LoopLeave
  <2>2. /\ lockState' \in {"raw", "ready", "dead"} /\ lockOwner' \in Threads \cup {NoThread}
        /\ lockDepth' \in Nat /\ DepthPositive'
    BY <1>0, <1>7, LeaveType DEF LoopLeave
  <2> QED BY <1>0, <1>00, <1>7, <2>1, <2>2, TypeInvPrime
          DEF LoopLeave, PubSubTypeOK, ArgsKnown, globals, callVars
<1> QED BY <1>1, <1>2, <1>3, <1>4, <1>5, <1>6, <1>7 DEF LoopStep

(* Steps that leave the DLL's own variables alone.                          *)
LEMMA OthersType ==
    ASSUME TypeInv, HiredisInv', UNCHANGED otherVars PROVE TypeInv'
BY TypeInvParts, TypeInvPrime
   DEF PubSubTypeOK, ArgsKnown, DepthPositive, otherVars, globals, lockVars, callVars, loopVars

LEMMA TypeInit == Init => TypeInv
<1> SUFFICES ASSUME Init PROVE TypeInv
  OBVIOUS
<1>1. HiredisInv
  BY HiredisInitInv DEF Init
<1>2. NULL \in 0 .. MaxContexts
  BY ContextAssumption DEF NULL
<1>3. "idle" \in PCs /\ "none" \in Loops
  BY DEF PCs, Loops
<1>4. NoArg \in [channel : Channels \cup {NoChannel}, callback : Callbacks \cup {NULL}]
  BY DEF NoArg
<1>5. g_table \in Seq(Entry) /\ delivered \in Seq(Delivery)
  BY EmptySeq DEF Init
<1>6. ArgsKnown /\ DepthPositive
  BY DEF Init, ArgsKnown, DepthPositive, PublishPC, SubscribePC
<1>7. /\ pc \in [Threads -> PCs] /\ ret \in [Threads -> Int]
      /\ arg \in [Threads -> [channel : Channels \cup {NoChannel}, callback : Callbacks \cup {NULL}]]
      /\ loop \in [SubThreads -> Loops] /\ got \in [SubThreads -> Reply \cup {NoReply}]
  BY <1>3, <1>4 DEF Init
<1>8. PubSubTypeOK
  BY <1>2, <1>5, <1>6, <1>7 DEF Init, PubSubTypeOK
<1> QED BY <1>1, <1>8, TypeInvParts

LEMMA TypeStep == TypeInv /\ [Next]_vars => TypeInv'
<1> SUFFICES ASSUME TypeInv, [Next]_vars PROVE TypeInv'
  OBVIOUS
<1>0. HiredisInv
  BY TypeInvHiredis
<1>1. ASSUME NEW t \in Threads, Call(t) PROVE TypeInv'
  BY <1>1, CallType
<1>2. ASSUME NEW t \in Threads, CallStep(t) PROVE TypeInv'
  BY <1>2, InitType, CloseType, PublishType, SubscribeType DEF CallStep
<1>3. ASSUME NEW s \in SubThreads, LoopStep(s) PROVE TypeInv'
  BY <1>3, LoopType
<1>4. ASSUME NEW t \in Threads, IOStep(t), UNCHANGED otherVars PROVE TypeInv'
  BY <1>0, <1>4, IOStepInv, OthersType
<1>5. ASSUME NEW t \in Threads, UndefinedStep(t) PROVE TypeInv'
  BY <1>0, <1>5, CrashInv, OthersType DEF UndefinedStep
<1>6. CASE Environment
  BY <1>0, <1>6, ExternalPublishInv, DropInv, OthersType DEF Environment
<1>7. CASE UNCHANGED vars
  BY <1>0, <1>7, UnchangedHiredis, OthersType DEF vars, otherVars, globals, lockVars, callVars, loopVars
<1> QED BY <1>1, <1>2, <1>3, <1>4, <1>5, <1>6, <1>7 DEF Next, Run

(* Every reachable state is well typed, in particular no step of a thread   *)
(* inside redisGetReply lacks its context and no lock depth is negative.    *)
THEOREM TypeCorrect == Spec => []TypeOK
<1>1. TypeInv => TypeOK
  BY DEF TypeInv
<1> QED BY TypeInit, TypeStep, <1>1, PTL DEF Spec

-----------------------------------------------------------------------------
(* The critical section excludes as long as the library is initialized once *)
(* (~Reinit): a second redis_init resets a lock that the old thread may be  *)
(* inside.                                                                  *)

(* How often thread t is inside the lock: in a call, and around a callback. *)
Holds(t) == (IF pc[t] \in CriticalPC THEN 1 ELSE 0)
            + (IF t \in SubThreads /\ loop[t] \in CriticalLoop THEN 1 ELSE 0)

(* The lock counts the entries of its owner, and nobody else has entered.   *)
LockCounts ==
    lockState = "ready" =>
        /\ lockOwner = NoThread => lockDepth = 0
        /\ \A t \in Threads : IF lockOwner = t THEN lockDepth = Holds(t) ELSE Holds(t) = 0

(* Before redis_init nothing runs.                                          *)
RawIdle ==
    lockState = "raw" =>
        /\ g_context = NULL /\ g_sub_context = NULL
        /\ \A t \in Threads : pc[t] = "idle"
        /\ \A s \in SubThreads : loop[s] = "none"

LockInv == LockCounts /\ RawIdle

LEMMA HoldsCritical ==
    \A t \in Threads : Holds(t) \in Nat /\ (Critical(t) <=> Holds(t) # 0)
BY DEF Holds, Critical

LEMMA LockInvMutex == LockInv => MutualExclusion
BY HoldsCritical DEF LockInv, LockCounts, MutualExclusion

(* The three ways a step can treat the lock: not at all, entering it, and   *)
(* leaving it.                                                              *)
LEMMA LockUntouched ==
    ASSUME LockInv, UNCHANGED lockVars,
           lockState = "ready" => \A t \in Threads : Holds(t)' = Holds(t),
           lockState = "raw" => RawIdle'
    PROVE  LockInv'
BY DEF LockInv, LockCounts, RawIdle, lockVars

LEMMA LockEntered ==
    ASSUME TypeInv, LockInv, NEW t \in Threads, Enter(t),
           Holds(t)' = Holds(t) + 1,
           \A u \in Threads \ {t} : Holds(u)' = Holds(u)
    PROVE  LockInv'
<1>1. lockDepth \in Nat /\ NoThread \notin Threads
  BY PubSubAssumption DEF TypeInv, TypeOK
<1>2. CASE lockState = "dead"
  BY <1>2 DEF Enter, lockVars, LockInv, LockCounts, RawIdle
<1>3. CASE lockState = "ready" /\ LockFree(t) /\ lockOwner' = t /\ lockDepth' = lockDepth + 1
           /\ UNCHANGED lockState
  <2>1. Holds(t) = lockDepth
    BY <1>1, <1>3 DEF LockInv, LockCounts, LockFree
  <2>2. \A u \in Threads \ {t} : Holds(u) = 0
    BY <1>1, <1>3 DEF LockInv, LockCounts, LockFree
  <2>3. LockCounts'
    BY <1>1, <1>3, <2>1, <2>2 DEF LockCounts
  <2> QED BY <1>3, <2>3 DEF LockInv, RawIdle
<1> QED BY <1>2, <1>3 DEF Enter

LEMMA LockLeft ==
    ASSUME TypeInv, LockInv, NEW t \in Threads, Leave(t), Holds(t) >= 1,
           Holds(t)' = Holds(t) - 1,
           \A u \in Threads \ {t} : Holds(u)' = Holds(u)
    PROVE  LockInv' /\ (lockState = "ready" => lockOwner = t /\ lockState' = "ready")
<1>1. lockDepth \in Nat /\ NoThread \notin Threads /\ Holds(t) \in Nat
  BY PubSubAssumption, HoldsCritical DEF TypeInv, TypeOK
<1>2. CASE lockState = "dead"
  BY <1>2 DEF Leave, lockVars, LockInv, LockCounts, RawIdle
<1>3. CASE lockState = "ready"
  <2>1. lockOwner = t /\ Holds(t) = lockDepth /\ \A u \in Threads \ {t} : Holds(u) = 0
    BY <1>1, <1>3 DEF LockInv, LockCounts
  <2>2. /\ lockDepth' = lockDepth - 1 /\ lockState' = "ready"
        /\ lockOwner' = IF lockDepth = 1 THEN NoThread ELSE t
    BY <1>3, <2>1 DEF Leave
  <2>3. LockCounts'
    BY <1>1, <1>3, <2>1, <2>2 DEF LockCounts
  <2> QED BY <1>3, <2>1, <2>2, <2>3 DEF LockInv, RawIdle
<1> QED BY <1>2, <1>3 DEF Leave

LEMMA LockInvInit == Init => LockInv
BY DEF Init, LockInv, LockCounts, RawIdle, NULL

(* How a call and a loop step change Holds.                                 *)
LEMMA HoldsCall ==
    ASSUME TypeInv, NEW t \in Threads, NEW label, Goto(t, label), UNCHANGED loop
    PROVE  /\ \A u \in Threads \ {t} : Holds(u)' = Holds(u)
           /\ Holds(t)' = Holds(t) + (IF label \in CriticalPC THEN 1 ELSE 0)
                                  - (IF pc[t] \in CriticalPC THEN 1 ELSE 0)
BY DEF TypeInv, TypeOK, Goto, Holds

LEMMA HoldsLoop ==
    ASSUME TypeInv, NEW s \in SubThreads, NEW label, GotoLoop(s, label), UNCHANGED pc
    PROVE  /\ \A u \in Threads \ {s} : Holds(u)' = Holds(u)
           /\ Holds(s)' = Holds(s) + (IF label \in CriticalLoop THEN 1 ELSE 0)
                                  - (IF loop[s] \in CriticalLoop THEN 1 ELSE 0)
BY DEF TypeInv, TypeOK, GotoLoop, Holds

(* A call that keeps clear of the lock, from one label to another.          *)
LEMMA LockKeptByCall ==
    ASSUME TypeInv, LockInv, NEW t \in Threads, NEW label, Goto(t, label), UNCHANGED loop,
           label \in CriticalPC <=> pc[t] \in CriticalPC,
           UNCHANGED lockVars, lockState # "raw" \/ (label = "idle" /\ UNCHANGED <<g_context, g_sub_context>>)
    PROVE  LockInv'
<1>1. \A u \in Threads : Holds(u)' = Holds(u)
  BY HoldsCall, HoldsCritical
<1>2. lockState = "raw" => RawIdle'
  BY DEF LockInv, RawIdle, Goto, TypeInv, TypeOK, lockVars
<1> QED BY <1>1, <1>2, LockUntouched

LEMMA LockKeptByLoop ==
    ASSUME TypeInv, LockInv, NEW s \in SubThreads, NEW label, GotoLoop(s, label), UNCHANGED pc,
           label \in CriticalLoop <=> loop[s] \in CriticalLoop,
           UNCHANGED lockVars, lockState # "raw"
    PROVE  LockInv'
<1>1. s \in Threads
  BY PubSubAssumption
<1>2. \A u \in Threads : Holds(u)' = Holds(u)
  BY <1>1, HoldsLoop, HoldsCritical
<1> QED BY <1>2, LockUntouched

LEMMA LockCall ==
    ASSUME ~Reinit, TypeInv, LockInv, NEW t \in Threads, Call(t) PROVE LockInv'
<1>0. "idle" \notin CriticalPC /\ "init_pub" \notin CriticalPC /\ "close_enter" \notin CriticalPC
      /\ "publish_enter" \notin CriticalPC /\ "subscribe_enter" \notin CriticalPC
  BY DEF CriticalPC
<1>1. CASE InitCall(t)
  <2>1. lockState = "raw" /\ \A s \in SubThreads : loop[s] = "none"
    BY <1>1 DEF InitCall, LockInv, RawIdle
  <2>2. \A u \in Threads : Holds(u) = 0
    BY <1>0, <1>1, <2>1 DEF InitCall, Holds, CriticalLoop
  <2>3. \A u \in Threads : Holds(u)' = 0
    BY <1>0, <1>1, <2>2, HoldsCall DEF InitCall, loopVars
  <2> QED BY <1>1, <2>3, PubSubAssumption DEF InitCall, LockInv, LockCounts, RawIdle
<1>2. CASE CloseCall(t)
  BY <1>0, <1>2, LockKeptByCall DEF CloseCall, MayCall, loopVars
<1>3. CASE ProcessCall(t)
  BY <1>0, <1>3, LockKeptByCall DEF ProcessCall, MayCall, Return, loopVars, globals
<1>4. ASSUME NEW ch \in Channels, PublishCall(t, ch) PROVE LockInv'
  <2>1. CASE g_context = NULL
    BY <1>0, <1>4, <2>1, LockKeptByCall DEF PublishCall, MayCall, Return, loopVars, globals
  <2>2. CASE g_context # NULL
    <3>1. lockState # "raw"
      BY <2>2 DEF LockInv, RawIdle
    <3> QED BY <1>0, <1>4, <2>2, <3>1, LockKeptByCall DEF PublishCall, MayCall, Start, loopVars
  <2> QED BY <2>1, <2>2
<1>5. ASSUME NEW ch \in Channels, NEW cb \in Callbacks, SubscribeCall(t, ch, cb) PROVE LockInv'
  <2>1. CASE g_context = NULL \/ g_sub_context = NULL
    BY <1>0, <1>5, <2>1, LockKeptByCall DEF SubscribeCall, MayCall, Return, loopVars, globals
  <2>2. CASE ~(g_context = NULL \/ g_sub_context = NULL)
    <3>1. lockState # "raw"
      BY <2>2 DEF LockInv, RawIdle
    <3> QED BY <1>0, <1>5, <2>2, <3>1, LockKeptByCall DEF SubscribeCall, MayCall, Start, loopVars
  <2> QED BY <2>1, <2>2
<1> QED BY <1>1, <1>2, <1>3, <1>4, <1>5 DEF Call

LEMMA LockCallStep ==
    ASSUME TypeInv, LockInv, NEW t \in Threads, CallStep(t) PROVE LockInv'
<1>0. pc[t] # "idle"
  BY DEF CallStep, InitPub, InitSub, InitDone, CloseEnter, CloseBody, CloseLeave, CloseDelete,
         PublishEnter, PublishCommand, PublishReply, PublishLeave,
         SubscribeEnter, SubscribeStore, SubscribeCommand, SubscribeReply, SubscribeLeave
<1>00. lockState # "raw"
  BY <1>0 DEF LockInv, RawIdle
<1>1. CASE InitPub(t) \/ InitSub(t) \/ InitDone(t)
  <2>1. pc[t] \in InitPC /\ UNCHANGED lockVars /\ UNCHANGED loop
    BY <1>1 DEF InitPub, InitSub, InitDone, InitPC, loopVars
  <2>2. PICK label \in {"idle", "init_sub", "init_done"} : Goto(t, label)
    BY <1>1 DEF InitPub, InitSub, InitDone, Return
  <2> QED BY <1>00, <2>1, <2>2, LockKeptByCall DEF InitPC, CriticalPC
<1>2. CASE CloseEnter(t)
  <2>1. Goto(t, "close_body") /\ UNCHANGED loop /\ Enter(t) /\ pc[t] = "close_enter"
    BY <1>2 DEF CloseEnter, loopVars
  <2>2. Holds(t)' = Holds(t) + 1 /\ \A u \in Threads \ {t} : Holds(u)' = Holds(u)
    BY <2>1, HoldsCall, HoldsCritical DEF CriticalPC
  <2> QED BY <2>1, <2>2, LockEntered
<1>3. CASE CloseBody(t)
  BY <1>00, <1>3, LockKeptByCall DEF CloseBody, CriticalPC, loopVars
<1>4. CASE CloseLeave(t)
  <2>1. Goto(t, "close_delete") /\ UNCHANGED loop /\ Leave(t) /\ pc[t] = "close_leave"
    BY <1>4 DEF CloseLeave, loopVars
  <2>2. Holds(t)' = Holds(t) - 1 /\ Holds(t) >= 1 /\ \A u \in Threads \ {t} : Holds(u)' = Holds(u)
    BY <2>1, HoldsCall, HoldsCritical DEF CriticalPC, Holds
  <2> QED BY <2>1, <2>2, LockLeft
<1>5. CASE CloseDelete(t)
  BY <1>5 DEF CloseDelete, LockInv, LockCounts, RawIdle
<1>6. CASE PublishEnter(t)
  <2>1. Goto(t, "publish_command") /\ UNCHANGED loop /\ Enter(t) /\ pc[t] = "publish_enter"
    BY <1>6 DEF PublishEnter, loopVars
  <2>2. Holds(t)' = Holds(t) + 1 /\ \A u \in Threads \ {t} : Holds(u)' = Holds(u)
    BY <2>1, HoldsCall, HoldsCritical DEF CriticalPC
  <2> QED BY <2>1, <2>2, LockEntered
<1>7. CASE PublishCommand(t)
  BY <1>00, <1>7, LockKeptByCall DEF PublishCommand, CriticalPC, loopVars
<1>8. CASE PublishReply(t)
  BY <1>00, <1>8, LockKeptByCall DEF PublishReply, WillReturn, CriticalPC, loopVars
<1>9. CASE PublishLeave(t)
  <2>1. Goto(t, "idle") /\ UNCHANGED loop /\ Leave(t) /\ pc[t] = "publish_leave"
    BY <1>9 DEF PublishLeave, Return, loopVars
  <2>2. Holds(t)' = Holds(t) - 1 /\ Holds(t) >= 1 /\ \A u \in Threads \ {t} : Holds(u)' = Holds(u)
    BY <2>1, HoldsCall, HoldsCritical DEF CriticalPC, Holds
  <2> QED BY <2>1, <2>2, LockLeft
<1>10. CASE SubscribeEnter(t)
  <2>1. Goto(t, "subscribe_store") /\ UNCHANGED loop /\ Enter(t) /\ pc[t] = "subscribe_enter"
    BY <1>10 DEF SubscribeEnter, loopVars
  <2>2. Holds(t)' = Holds(t) + 1 /\ \A u \in Threads \ {t} : Holds(u)' = Holds(u)
    BY <2>1, HoldsCall, HoldsCritical DEF CriticalPC
  <2> QED BY <2>1, <2>2, LockEntered
<1>11. CASE SubscribeStore(t)
  <2>1. PICK label \in {"subscribe_leave", "subscribe_command"} : Goto(t, label)
    BY <1>11 DEF SubscribeStore, WillReturn
  <2> QED BY <1>00, <1>11, <2>1, LockKeptByCall DEF SubscribeStore, CriticalPC, loopVars
<1>14. CASE SubscribeCommand(t)
  BY <1>00, <1>14, LockKeptByCall DEF SubscribeCommand, CriticalPC, loopVars
<1>12. CASE SubscribeReply(t)
  <2>1. Goto(t, "subscribe_leave") /\ pc[t] = "subscribe_reply" /\ UNCHANGED lockVars
    BY <1>12 DEF SubscribeReply, WillReturn
  <2>2. \A s \in SubThreads : loop'[s] \in CriticalLoop <=> loop[s] \in CriticalLoop
    BY <1>12 DEF SubscribeReply, CriticalLoop, TypeInv, TypeOK
  <2>3. \A u \in Threads : Holds(u)' = Holds(u)
    BY <2>1, <2>2 DEF Holds, Goto, CriticalPC, TypeInv, TypeOK
  <2> QED BY <1>00, <2>1, <2>3, LockUntouched
<1>13. CASE SubscribeLeave(t)
  <2>1. Goto(t, "idle") /\ UNCHANGED loop /\ Leave(t) /\ pc[t] = "subscribe_leave"
    BY <1>13 DEF SubscribeLeave, Return, loopVars
  <2>2. Holds(t)' = Holds(t) - 1 /\ Holds(t) >= 1 /\ \A u \in Threads \ {t} : Holds(u)' = Holds(u)
    BY <2>1, HoldsCall, HoldsCritical DEF CriticalPC, Holds
  <2> QED BY <2>1, <2>2, LockLeft
<1> QED BY <1>1, <1>2, <1>3, <1>4, <1>5, <1>6, <1>7, <1>8, <1>9, <1>10, <1>11, <1>12, <1>13,
         <1>14 DEF CallStep

LEMMA LockLoopStep ==
    ASSUME TypeInv, LockInv, NEW s \in SubThreads, LoopStep(s) PROVE LockInv'
<1>0. s \in Threads /\ loop[s] # "none"
  BY PubSubAssumption
     DEF LoopStep, LoopCheck, LoopGet, LoopReply, LoopEnter, Dispatch, CallbackReturns, LoopLeave
<1>00. lockState # "raw"
  BY <1>0 DEF LockInv, RawIdle
<1>1. CASE LoopCheck(s) \/ LoopGet(s) \/ LoopReply(s)
  <2>1. loop[s] \in {"check", "get", "reply"} /\ UNCHANGED lockVars /\ UNCHANGED pc
    BY <1>1 DEF LoopCheck, LoopGet, LoopReply, callVars
  <2>2. PICK label \in {"check", "get", "reply", "enter", "ended"} : GotoLoop(s, label)
    BY <1>1 DEF LoopCheck, LoopGet, LoopReply
  <2> QED BY <1>00, <2>1, <2>2, LockKeptByLoop DEF CriticalLoop
<1>2. CASE LoopEnter(s)
  <2>1. GotoLoop(s, "dispatch") /\ UNCHANGED pc /\ Enter(s) /\ loop[s] = "enter"
    BY <1>2 DEF LoopEnter, callVars
  <2>2. Holds(s)' = Holds(s) + 1 /\ \A u \in Threads \ {s} : Holds(u)' = Holds(u)
    BY <1>0, <2>1, HoldsLoop, HoldsCritical DEF CriticalLoop
  <2> QED BY <1>0, <2>1, <2>2, LockEntered
<1>3. CASE Dispatch(s) \/ CallbackReturns(s)
  <2>1. loop[s] \in {"dispatch", "callback"} /\ UNCHANGED lockVars /\ UNCHANGED pc
    BY <1>3 DEF Dispatch, CallbackReturns, callVars
  <2>2. PICK label \in {"leave", "callback"} : GotoLoop(s, label)
    BY <1>3 DEF Dispatch, CallbackReturns
  <2> QED BY <1>00, <2>1, <2>2, LockKeptByLoop DEF CriticalLoop
<1>4. CASE LoopLeave(s)
  <2>1. GotoLoop(s, "check") /\ UNCHANGED pc /\ Leave(s) /\ loop[s] = "leave"
    BY <1>4 DEF LoopLeave, callVars
  <2>2. Holds(s)' = Holds(s) - 1 /\ Holds(s) >= 1 /\ \A u \in Threads \ {s} : Holds(u)' = Holds(u)
    BY <1>0, <2>1, HoldsLoop, HoldsCritical DEF CriticalLoop, Holds
  <2> QED BY <1>0, <2>1, <2>2, LockLeft
<1> QED BY <1>1, <1>2, <1>3, <1>4 DEF LoopStep

(* Steps that leave the DLL's own variables alone.                          *)
LEMMA LockOthers == ASSUME LockInv, UNCHANGED otherVars PROVE LockInv'
<1>1. \A u \in Threads : Holds(u)' = Holds(u)
  BY DEF Holds, otherVars, callVars, loopVars
<1> QED BY <1>1, LockUntouched DEF LockInv, RawIdle, otherVars, globals, lockVars, callVars, loopVars

LEMMA LockStep == ~Reinit /\ TypeInv /\ LockInv /\ [Next]_vars => LockInv'
<1> SUFFICES ASSUME ~Reinit, TypeInv, LockInv, [Next]_vars PROVE LockInv'
  OBVIOUS
<1>1. ASSUME NEW t \in Threads, Call(t) PROVE LockInv'
  BY <1>1, LockCall
<1>2. ASSUME NEW t \in Threads, CallStep(t) PROVE LockInv'
  BY <1>2, LockCallStep
<1>3. ASSUME NEW s \in SubThreads, LoopStep(s) PROVE LockInv'
  BY <1>3, LockLoopStep
<1>4. CASE UNCHANGED otherVars
  BY <1>4, LockOthers
<1>5. UNCHANGED vars => UNCHANGED otherVars
  BY DEF vars, otherVars
<1> QED BY <1>1, <1>2, <1>3, <1>4, <1>5 DEF Next, Run, UndefinedStep, Environment

(* Between EnterCriticalSection and LeaveCriticalSection a thread owns the  *)
(* lock, through every error path and for calls made from callbacks.        *)
THEOREM Mutex == ~Reinit => (Spec => []MutualExclusion)
<1> SUFFICES ASSUME ~Reinit PROVE Spec => []MutualExclusion
  OBVIOUS
<1>1. TypeInv /\ LockInv /\ [Next]_vars => LockInv'
  BY LockStep
<1> QED BY <1>1, TypeInit, TypeStep, LockInvInit, LockInvMutex, PTL DEF Spec

-----------------------------------------------------------------------------
(* The table of callbacks, the subscription thread and redis_close, as long *)
(* as the library is initialized once: a failed redis_subscribe removes its *)
(* own entry, there is at most one subscription thread, and no callback     *)
(* runs after redis_close.                                                  *)

(* redis_close has done its work, if not yet deleted the lock.              *)
ClosedPC == {"close_leave", "close_delete"}
Closed == lockState = "dead" \/ \E u \in Threads : pc[u] \in ClosedPC

(* What redis_close leaves behind: no context, and no entry but that of a   *)
(* redis_subscribe that came after it and cannot go on.                     *)
NothingAfterClose ==
    Closed => /\ g_context = NULL /\ g_sub_context = NULL
              /\ g_table # <<>> => \E t \in Threads : pc[t] = "subscribe_command"
              /\ \A t \in Threads : pc[t] # "subscribe_reply"

(* The labels between storing an entry and having the answer.               *)
StoredPC == {"subscribe_command", "subscribe_reply"}

OwnLast ==
    \A t \in Threads : (lockState # "dead" /\ pc[t] \in StoredPC) =>
        g_table # <<>> /\ g_table[Len(g_table)] = arg[t]

(* A thread was started for an entry, which stays until redis_close; the    *)
(* entry of a subscribe that still waits for its answer is another one.     *)
ThreadHasEntry ==
    (~Closed /\ \E s \in SubThreads : loop[s] # "none") =>
        /\ Len(g_table) >= 1
        /\ (\E t \in Threads : pc[t] \in StoredPC) => Len(g_table) >= 2

OneThread == \A s, u \in SubThreads : loop[s] # "none" /\ loop[u] # "none" => s = u

(* While redis_init runs nothing else does.                                 *)
InitAlone ==
    \A t \in Threads : pc[t] \in InitPC =>
        /\ lockState = "ready"
        /\ \A u \in Threads \ {t} : pc[u] = "idle"
        /\ \A s \in SubThreads : loop[s] = "none"

TableInv == NothingAfterClose /\ OwnLast /\ ThreadHasEntry /\ OneThread /\ InitAlone

LEMMA TableInvInit == Init => TableInv
<1> SUFFICES ASSUME Init PROVE TableInv
  OBVIOUS
<1>1. \A t \in Threads : pc[t] = "idle"
  BY DEF Init
<1>2. (\A s \in SubThreads : loop[s] = "none") /\ lockState = "raw"
  BY DEF Init
<1> QED BY <1>1, <1>2
        DEF TableInv, NothingAfterClose, OwnLast, ThreadHasEntry, OneThread, InitAlone, Closed, ClosedPC, InitPC,
            StoredPC

(* The labels TableInv speaks of.                                           *)
MarkedPC == StoredPC \cup ClosedPC \cup InitPC

(* A step that touches neither the table nor the connections, starts no     *)
(* thread, and neither comes from nor goes to one of these labels.          *)
LEMMA TableKept ==
    ASSUME TableInv, UNCHANGED <<g_context, g_sub_context, g_table, lockState>>,
           \A s \in SubThreads : loop'[s] = "none" <=> loop[s] = "none",
           \A u \in Threads : \/ pc'[u] = pc[u] /\ arg'[u] = arg[u]
                              \/ pc[u] \notin MarkedPC /\ pc'[u] \notin MarkedPC,
           \A u \in Threads : pc[u] \notin InitPC
    PROVE  TableInv'
<1>1. \A u \in Threads : pc'[u] \in ClosedPC <=> pc[u] \in ClosedPC
  BY DEF MarkedPC
<1>2. \A u \in Threads : /\ pc'[u] = "subscribe_reply" <=> pc[u] = "subscribe_reply"
                         /\ pc'[u] = "subscribe_command" <=> pc[u] = "subscribe_command"
  BY DEF MarkedPC, StoredPC
<1>3. \A u \in Threads : pc'[u] \notin InitPC
  BY DEF MarkedPC
<1>4. Closed' <=> Closed
  BY <1>1 DEF Closed
<1>5. NothingAfterClose'
  BY <1>2, <1>4 DEF TableInv, NothingAfterClose
<1>6. OwnLast'
  BY <1>2 DEF TableInv, OwnLast, MarkedPC, StoredPC
<1>7. ThreadHasEntry'
  BY <1>2, <1>4 DEF TableInv, ThreadHasEntry, StoredPC
<1>8. OneThread' /\ InitAlone'
  BY <1>3 DEF TableInv, OneThread, InitAlone
<1> QED BY <1>5, <1>6, <1>7, <1>8 DEF TableInv

(* The same for a step that leaves the variables TableInv speaks of alone.  *)
LEMMA TableUntouched ==
    ASSUME TableInv, UNCHANGED <<g_context, g_sub_context, g_table, lockState, pc, arg, loop>>
    PROVE  TableInv'
BY DEF TableInv, NothingAfterClose, OwnLast, ThreadHasEntry, OneThread, InitAlone, Closed

(* A call that goes on from an unmarked label to an unmarked label.         *)
LEMMA TableCallStep ==
    ASSUME TypeInv, TableInv, UNCHANGED <<g_context, g_sub_context, g_table, lockState, loop>>,
           NEW t \in Threads, NEW label, Goto(t, label), label \notin MarkedPC, pc[t] \notin MarkedPC,
           \A u \in Threads \ {t} : arg'[u] = arg[u],
           \A u \in Threads : pc[u] \notin InitPC
    PROVE  TableInv'
BY TableKept DEF Goto, TypeInv, TypeOK

LEMMA TableCall ==
    ASSUME ~Reinit, TypeInv, LockInv, TableInv, NEW t \in Threads, Call(t) PROVE TableInv'
<1>0. "idle" \notin MarkedPC /\ "close_enter" \notin MarkedPC
      /\ "publish_enter" \notin MarkedPC /\ "subscribe_enter" \notin MarkedPC
  BY DEF MarkedPC, StoredPC, ClosedPC, InitPC
<1>1. CASE InitCall(t)
  <2>1. lockState = "raw" /\ \A s \in SubThreads : loop[s] = "none"
    BY <1>1 DEF InitCall, LockInv, RawIdle
  <2>2. \A u \in Threads : pc[u] = "idle"
    BY <1>1 DEF InitCall
  <2>3. \A u \in Threads : pc'[u] = IF u = t THEN "init_pub" ELSE "idle"
    BY <1>1, <2>2 DEF InitCall, Goto, TypeInv, TypeOK
  <2>4. UNCHANGED loop /\ lockState' = "ready"
    BY <1>1 DEF InitCall, loopVars
  <2>5. ~Closed'
    BY <2>3, <2>4 DEF Closed, ClosedPC
  <2>6. NothingAfterClose' /\ OwnLast' /\ ThreadHasEntry'
    BY <2>1, <2>3, <2>4, <2>5 DEF NothingAfterClose, OwnLast, ThreadHasEntry, StoredPC
  <2>7. OneThread' /\ InitAlone'
    BY <2>1, <2>3, <2>4 DEF OneThread, InitAlone, InitPC
  <2> QED BY <2>6, <2>7 DEF TableInv
<1>2. CASE CloseCall(t)
  BY <1>0, <1>2, TableCallStep DEF CloseCall, MayCall, globals, lockVars, loopVars
<1>3. CASE ProcessCall(t)
  BY <1>0, <1>3, TableCallStep
     DEF ProcessCall, MayCall, Return, globals, lockVars, loopVars, TypeInv, TypeOK
<1>4. ASSUME NEW ch \in Channels, PublishCall(t, ch) PROVE TableInv'
  <2>1. PICK label \in {"idle", "publish_enter"} : Goto(t, label)
    BY <1>4 DEF PublishCall, Return, Start
  <2>2. \A u \in Threads \ {t} : arg'[u] = arg[u]
    BY <1>4 DEF PublishCall, Return, Start, TypeInv, TypeOK
  <2> QED BY <1>0, <1>4, <2>1, <2>2, TableCallStep DEF PublishCall, MayCall, globals, lockVars, loopVars
<1>5. ASSUME NEW ch \in Channels, NEW cb \in Callbacks, SubscribeCall(t, ch, cb) PROVE TableInv'
  <2>1. PICK label \in {"idle", "subscribe_enter"} : Goto(t, label)
    BY <1>5 DEF SubscribeCall, Return, Start
  <2>2. \A u \in Threads \ {t} : arg'[u] = arg[u]
    BY <1>5 DEF SubscribeCall, Return, Start, TypeInv, TypeOK
  <2> QED BY <1>0, <1>5, <2>1, <2>2, TableCallStep DEF SubscribeCall, MayCall, globals, lockVars, loopVars
<1> QED BY <1>1, <1>2, <1>3, <1>4, <1>5 DEF Call

(* What a thread inside a call, and a thread inside the lock, can rely on.  *)
LEMMA NobodyInInit ==
    ASSUME TableInv, NEW t \in Threads, pc[t] \notin InitPC \cup {"idle"}
    PROVE  \A u \in Threads : pc[u] \notin InitPC
BY DEF TableInv, InitAlone

LEMMA OthersOutside ==
    ASSUME TypeInv, LockInv, NEW t \in Threads, Critical(t), lockState # "dead"
    PROVE  lockState = "ready" /\ \A u \in Threads \ {t} : ~Critical(u)
<1>1. pc[t] # "idle" \/ (t \in SubThreads /\ loop[t] # "none")
  BY DEF Critical, CriticalPC, CriticalLoop
<1>2. lockState = "ready"
  BY <1>1 DEF LockInv, RawIdle, TypeInv, TypeOK
<1> QED BY <1>2, LockInvMutex DEF MutualExclusion

LEMMA LeaveKeepsState ==
    ASSUME TypeInv, LockInv, NEW t \in Threads, Critical(t), Leave(t)
    PROVE  UNCHANGED lockState
BY LockInvMutex DEF MutualExclusion, Leave, lockVars

LEMMA TableInitSteps ==
    ASSUME TypeInv, TableInv, NEW t \in Threads, InitPub(t) \/ InitSub(t) \/ InitDone(t)
    PROVE  TableInv'
<1>1. pc[t] \in InitPC /\ UNCHANGED lockState /\ UNCHANGED loop
  BY DEF InitPub, InitSub, InitDone, InitPC, lockVars, loopVars
<1>2. /\ lockState = "ready" /\ \A u \in Threads \ {t} : pc[u] = "idle"
      /\ \A s \in SubThreads : loop[s] = "none"
  BY <1>1 DEF TableInv, InitAlone
<1>3. PICK label \in {"idle", "init_sub", "init_done"} : Goto(t, label)
  BY DEF InitPub, InitSub, InitDone, Return
<1>4. \A u \in Threads : pc'[u] = IF u = t THEN label ELSE "idle"
  BY <1>2, <1>3 DEF Goto, TypeInv, TypeOK
<1>5. ~Closed' /\ \A u \in Threads : pc'[u] \notin StoredPC
  BY <1>1, <1>2, <1>4 DEF Closed, ClosedPC, StoredPC
<1>6. InitAlone'
  BY <1>1, <1>2, <1>4 DEF InitAlone, InitPC
<1> QED BY <1>1, <1>2, <1>5, <1>6 DEF TableInv, NothingAfterClose, OwnLast, ThreadHasEntry, OneThread

LEMMA TableCloseSteps ==
    ASSUME TypeInv, LockInv, TableInv, NEW t \in Threads,
           CloseEnter(t) \/ CloseBody(t) \/ CloseLeave(t) \/ CloseDelete(t)
    PROVE  TableInv'
<1>0. \A u \in Threads : pc[u] \notin InitPC
  BY NobodyInInit DEF CloseEnter, CloseBody, CloseLeave, CloseDelete, InitPC
<1>1. CASE CloseEnter(t)
  BY <1>0, <1>1, TableCallStep
     DEF CloseEnter, Enter, MarkedPC, StoredPC, ClosedPC, InitPC, globals, lockVars, loopVars
<1>2. CASE CloseBody(t)
  <2>1. /\ lockState # "dead" => \A u \in Threads : pc[u] \notin StoredPC
        /\ \A u \in Threads : pc[u] # "subscribe_reply"
    <3>1. lockState # "dead" => \A u \in Threads : pc[u] \notin StoredPC
      BY <1>2, OthersOutside DEF CloseBody, Critical, CriticalPC, StoredPC
    <3>2. lockState = "dead" => Closed
      BY DEF Closed
    <3> QED BY <3>1, <3>2 DEF TableInv, NothingAfterClose, StoredPC
  <2>2. \A u \in Threads : pc'[u] = IF u = t THEN "close_leave" ELSE pc[u]
    BY <1>2 DEF CloseBody, Goto, TypeInv, TypeOK
  <2>3. Closed' /\ \A u \in Threads : pc'[u] # "subscribe_reply" /\ pc'[u] \notin InitPC
    BY <1>0, <2>1, <2>2 DEF Closed, ClosedPC, InitPC
  <2>4. OneThread'
    BY <1>2 DEF CloseBody, TableInv, OneThread, loopVars
  <2>5. OwnLast'
    BY <1>2, <2>1, <2>2 DEF CloseBody, OwnLast, StoredPC, lockVars
  <2> QED BY <1>2, <2>3, <2>4, <2>5
          DEF CloseBody, TableInv, NothingAfterClose, ThreadHasEntry, InitAlone
<1>3. CASE CloseLeave(t) \/ CloseDelete(t)
  <2>1. Closed /\ pc[t] \in ClosedPC /\ UNCHANGED <<g_context, g_sub_context, g_table, loop>>
    BY <1>3 DEF CloseLeave, CloseDelete, Closed, ClosedPC, globals, loopVars
  <2>2. \A u \in Threads : pc[u] # "subscribe_reply"
    BY <2>1 DEF TableInv, NothingAfterClose
  <2>3. PICK label \in {"close_delete", "idle"} :
            /\ \A u \in Threads : pc'[u] = IF u = t THEN label ELSE pc[u]
            /\ label = "idle" => lockState' = "dead"
    BY <1>3 DEF CloseLeave, CloseDelete, Return, Goto, TypeInv, TypeOK
  <2>4. Closed'
    BY <2>3 DEF Closed, ClosedPC
  <2>5. \A u \in Threads : pc'[u] # "subscribe_reply" /\ pc'[u] \notin InitPC
    BY <1>0, <2>2, <2>3 DEF InitPC
  <2>6. \A u \in Threads : pc'[u] = "subscribe_command" <=> pc[u] = "subscribe_command"
    BY <2>1, <2>3 DEF ClosedPC
  <2>7. OwnLast'
    <3>1. lockState' # "dead" => lockState # "dead"
      BY <1>3 DEF CloseLeave, CloseDelete, Leave, lockVars
    <3>2. \A u \in Threads : pc'[u] = "subscribe_command" => arg'[u] = arg[u]
      BY <1>3, <2>3 DEF CloseLeave, CloseDelete, Return, TypeInv, TypeOK
    <3> QED BY <2>1, <2>5, <2>6, <3>1, <3>2 DEF TableInv, OwnLast, StoredPC
  <2> QED BY <2>1, <2>4, <2>5, <2>6, <2>7
          DEF TableInv, NothingAfterClose, ThreadHasEntry, OneThread, InitAlone
<1> QED BY <1>1, <1>2, <1>3

LEMMA TablePublishSteps ==
    ASSUME TypeInv, LockInv, TableInv, NEW t \in Threads,
           PublishEnter(t) \/ PublishCommand(t) \/ PublishReply(t) \/ PublishLeave(t)
    PROVE  TableInv'
<1>0. \A u \in Threads : pc[u] \notin InitPC
  BY NobodyInInit DEF PublishEnter, PublishCommand, PublishReply, PublishLeave, InitPC
<1>1. UNCHANGED lockState
  BY LeaveKeepsState DEF PublishEnter, PublishCommand, PublishReply, PublishLeave, Enter, lockVars,
                         Critical, CriticalPC
<1>2. PICK label \in {"publish_command", "publish_reply", "publish_leave", "idle"} : Goto(t, label)
  BY DEF PublishEnter, PublishCommand, PublishReply, PublishLeave, WillReturn, Return
<1>3. \A u \in Threads \ {t} : arg'[u] = arg[u]
  BY DEF PublishEnter, PublishCommand, PublishReply, PublishLeave, WillReturn, Return, TypeInv, TypeOK
<1>4. pc[t] \notin MarkedPC /\ label \notin MarkedPC
  BY DEF PublishEnter, PublishCommand, PublishReply, PublishLeave, MarkedPC, StoredPC, ClosedPC, InitPC
<1>5. UNCHANGED <<g_context, g_sub_context, g_table, loop>>
  BY DEF PublishEnter, PublishCommand, PublishReply, PublishLeave, globals, loopVars
<1> QED BY <1>0, <1>1, <1>2, <1>3, <1>4, <1>5, TableCallStep

LEMMA TableSubscribeEnterLeave ==
    ASSUME TypeInv, LockInv, TableInv, NEW t \in Threads, SubscribeEnter(t) \/ SubscribeLeave(t)
    PROVE  TableInv'
<1>0. \A u \in Threads : pc[u] \notin InitPC
  BY NobodyInInit DEF SubscribeEnter, SubscribeLeave, InitPC
<1>1. UNCHANGED lockState
  BY LeaveKeepsState DEF SubscribeEnter, SubscribeLeave, Enter, lockVars, Critical, CriticalPC
<1>2. PICK label \in {"subscribe_store", "idle"} : Goto(t, label)
  BY DEF SubscribeEnter, SubscribeLeave, Return
<1>3. \A u \in Threads \ {t} : arg'[u] = arg[u]
  BY DEF SubscribeEnter, SubscribeLeave, Return, TypeInv, TypeOK
<1>4. pc[t] \notin MarkedPC /\ label \notin MarkedPC
  BY DEF SubscribeEnter, SubscribeLeave, MarkedPC, StoredPC, ClosedPC, InitPC
<1>5. UNCHANGED <<g_context, g_sub_context, g_table, loop>>
  BY DEF SubscribeEnter, SubscribeLeave, globals, loopVars
<1> QED BY <1>0, <1>1, <1>2, <1>3, <1>4, <1>5, TableCallStep

LEMMA TableStore ==
    ASSUME TypeInv, LockInv, TableInv, NEW t \in Threads, SubscribeStore(t) PROVE TableInv'
<1>0. pc[t] = "subscribe_store" /\ \A u \in Threads : pc[u] \notin InitPC
  BY NobodyInInit DEF SubscribeStore, InitPC
<1>1. CASE WillReturn(t, "subscribe_leave", -1) /\ UNCHANGED g_table
  BY <1>0, <1>1, TableCallStep
     DEF SubscribeStore, WillReturn, MarkedPC, StoredPC, ClosedPC, InitPC, lockVars, loopVars
<1>2. CASE /\ g_table' = Append(g_table, [channel |-> arg[t].channel, callback |-> arg[t].callback])
           /\ Goto(t, "subscribe_command") /\ UNCHANGED arg
  <2>1. lockState # "dead" => \A u \in Threads \ {t} : pc[u] \notin StoredPC
    BY <1>0, OthersOutside DEF Critical, CriticalPC, StoredPC
  <2>2. \A u \in Threads : pc'[u] = IF u = t THEN "subscribe_command" ELSE pc[u]
    BY <1>2 DEF Goto, TypeInv, TypeOK
  <2>3. UNCHANGED <<g_context, g_sub_context, lockState, loop>>
    BY DEF SubscribeStore, lockVars, loopVars
  <2>4. Closed' => Closed
    BY <2>2, <2>3 DEF Closed, ClosedPC
  <2>5. arg[t] = [channel |-> arg[t].channel, callback |-> arg[t].callback]
    BY DEF TypeInv, TypeOK
  <2>6. /\ g_table \in Seq(Entry) /\ arg[t] \in Entry
    BY <1>0, <2>5 DEF TypeInv, TypeOK, ArgsKnown, SubscribePC, Entry
  <2>7. /\ g_table' # <<>> /\ Len(g_table') = Len(g_table) + 1
        /\ g_table'[Len(g_table')] = arg[t] /\ Len(g_table) \in Nat
    BY <1>2, <2>5, <2>6, AppendProperties, LenProperties
  <2>8. OwnLast'
    BY <1>2, <2>1, <2>2, <2>3, <2>7 DEF OwnLast
  <2>9. ThreadHasEntry'
    <3>1. Closed' <=> Closed
      BY <1>0, <2>2, <2>3 DEF Closed, ClosedPC
    <3> QED BY <2>3, <2>7, <3>1 DEF TableInv, ThreadHasEntry
  <2>10. InitAlone'
    BY <1>0, <2>2 DEF InitAlone, InitPC
  <2>11. NothingAfterClose'
    BY <2>2, <2>3, <2>4 DEF TableInv, NothingAfterClose
  <2> QED BY <2>3, <2>8, <2>9, <2>10, <2>11 DEF TableInv, OneThread
<1> QED BY <1>1, <1>2 DEF SubscribeStore

(* redis_close has not come in between when the command can be appended.    *)
LEMMA TableCommand ==
    ASSUME TypeInv, TableInv, NEW t \in Threads, SubscribeCommand(t) PROVE TableInv'
<1>1. pc[t] = "subscribe_command" /\ \A u \in Threads : pc[u] \notin InitPC
  BY NobodyInInit DEF SubscribeCommand, InitPC
<1>2. ~Closed
  BY DEF SubscribeCommand, TableInv, NothingAfterClose
<1>3. UNCHANGED <<g_context, g_sub_context, g_table, lockState, arg, loop>>
  BY DEF SubscribeCommand, globals, lockVars, loopVars
<1>4. \A u \in Threads : pc'[u] = IF u = t THEN "subscribe_reply" ELSE pc[u]
  BY DEF SubscribeCommand, Goto, TypeInv, TypeOK
<1>5. ~Closed'
  BY <1>2, <1>3, <1>4 DEF Closed, ClosedPC
<1>6. \A u \in Threads : /\ pc'[u] \in StoredPC <=> pc[u] \in StoredPC
                         /\ pc'[u] \notin InitPC
  BY <1>1, <1>4 DEF StoredPC, InitPC
<1> QED BY <1>2, <1>3, <1>5, <1>6
        DEF TableInv, NothingAfterClose, OwnLast, ThreadHasEntry, OneThread, InitAlone

(* The end of redis_subscribe: the entry stays, or leaves again alone.      *)
LEMMA TableReply ==
    ASSUME TypeInv, LockInv, TableInv, NEW t \in Threads, SubscribeReply(t) PROVE TableInv'
<1>0. pc[t] = "subscribe_reply" /\ \A u \in Threads : pc[u] \notin InitPC
  BY NobodyInInit DEF SubscribeReply, InitPC
<1>1. ~Closed
  BY <1>0 DEF TableInv, NothingAfterClose
<1>2. \A u \in Threads \ {t} : pc[u] \notin StoredPC
  BY <1>0, <1>1, OthersOutside DEF Closed, Critical, CriticalPC, StoredPC
<1>3. \A u \in Threads : pc'[u] = IF u = t THEN "subscribe_leave" ELSE pc[u]
  BY DEF SubscribeReply, WillReturn, Goto, TypeInv, TypeOK
<1>4. \A u \in Threads : pc'[u] \notin StoredPC /\ pc'[u] \notin InitPC
  BY <1>0, <1>2, <1>3 DEF InitPC, StoredPC
<1>5. ~Closed'
  BY <1>1, <1>3 DEF SubscribeReply, Closed, ClosedPC, lockVars
<1>6. g_table \in Seq(Entry) /\ Len(g_table) \in Nat
  BY LenProperties DEF TypeInv, TypeOK
<1>7. (\E s \in SubThreads : loop[s] # "none") => Len(g_table) >= 2
  BY <1>0, <1>1 DEF TableInv, ThreadHasEntry, StoredPC
<1>8. OneThread' /\ ((\E s \in SubThreads : loop'[s] # "none") => Len(g_table') >= 1)
  <2>1. CASE DropLastEntry /\ UNCHANGED loop
    <3>1. \A i \in 1 .. Len(g_table) - 1 : g_table[i] \in Entry
      BY <1>6, ElementOfSeq
    <3>2. Len(g_table) >= 2 => Len(SubSeq(g_table, 1, Len(g_table) - 1)) = Len(g_table) - 1
      BY <1>6, <3>1, SubSeqProperties
    <3>3. Len(g_table) >= 2 => Len(g_table') >= 1
      BY <1>6, <2>1, <3>2 DEF DropLastEntry
    <3> QED BY <1>7, <2>1, <3>3 DEF TableInv, OneThread
  <2>2. CASE UNCHANGED <<g_table, loop>>
    BY <1>6, <1>7, <2>2 DEF TableInv, OneThread
  <2>3. CASE /\ Len(g_table) = 1 /\ UNCHANGED g_table
             /\ \E s \in SubThreads : loop[s] = "none" /\ loop' = [loop EXCEPT ![s] = "check"]
    <3>1. \A s \in SubThreads : loop[s] = "none"
      BY <1>7, <2>3
    <3>2. PICK s \in SubThreads : loop' = [loop EXCEPT ![s] = "check"]
      BY <2>3
    <3>3. \A u \in SubThreads : loop'[u] # "none" => u = s
      BY <3>1, <3>2 DEF TypeInv, TypeOK
    <3>4. OneThread'
      BY <3>3 DEF OneThread
    <3> QED BY <2>3, <3>4
  <2> QED BY <2>1, <2>2, <2>3 DEF SubscribeReply, FirstEntry
<1> QED BY <1>4, <1>5, <1>8 DEF TableInv, NothingAfterClose, OwnLast, ThreadHasEntry, InitAlone

LEMMA TableLoopStep ==
    ASSUME TypeInv, LockInv, TableInv, NEW s \in SubThreads, LoopStep(s) PROVE TableInv'
<1>1. UNCHANGED lockState
  <2>1. s \in Threads
    BY PubSubAssumption
  <2>2. CASE LoopLeave(s)
    BY <2>1, <2>2, LeaveKeepsState DEF LoopLeave, Critical, CriticalLoop
  <2> QED BY <2>2 DEF LoopStep, LoopCheck, LoopGet, LoopReply, LoopEnter, Dispatch, CallbackReturns,
                      Enter, lockVars
<1>2. UNCHANGED <<g_context, g_sub_context, g_table, pc, arg>>
  BY DEF LoopStep, LoopCheck, LoopGet, LoopReply, LoopEnter, Dispatch, CallbackReturns, LoopLeave,
         globals, callVars
<1>3. loop[s] # "none"
  BY DEF LoopStep, LoopCheck, LoopGet, LoopReply, LoopEnter, Dispatch, CallbackReturns, LoopLeave
<1>4. \A u \in Threads : pc[u] \notin InitPC
  BY <1>3 DEF TableInv, InitAlone
<1>5. PICK label \in {"check", "get", "reply", "enter", "ended", "dispatch", "callback", "leave"} :
          GotoLoop(s, label)
  BY DEF LoopStep, LoopCheck, LoopGet, LoopReply, LoopEnter, Dispatch, CallbackReturns, LoopLeave
<1>6. \A u \in SubThreads : loop'[u] = "none" <=> loop[u] = "none"
  BY <1>3, <1>5 DEF GotoLoop, TypeInv, TypeOK
<1> QED BY <1>1, <1>2, <1>4, <1>6, TableKept

LEMMA TableStep == ~Reinit /\ TypeInv /\ LockInv /\ TableInv /\ [Next]_vars => TableInv'
<1> SUFFICES ASSUME ~Reinit, TypeInv, LockInv, TableInv, [Next]_vars PROVE TableInv'
  OBVIOUS
<1>1. ASSUME NEW t \in Threads, Call(t) PROVE TableInv'
  BY <1>1, TableCall
<1>2. ASSUME NEW t \in Threads, CallStep(t) PROVE TableInv'
  BY <1>2, TableInitSteps, TableCloseSteps, TablePublishSteps, TableSubscribeEnterLeave, TableStore,
     TableCommand, TableReply DEF CallStep
<1>3. ASSUME NEW s \in SubThreads, LoopStep(s) PROVE TableInv'
  BY <1>3, TableLoopStep
<1>4. CASE UNCHANGED otherVars
  BY <1>4, TableUntouched DEF otherVars, globals, lockVars, callVars, loopVars
<1>5. UNCHANGED vars => UNCHANGED otherVars
  BY DEF vars, otherVars
<1> QED BY <1>1, <1>2, <1>3, <1>4, <1>5 DEF Next, Run, UndefinedStep, Environment

(* redis_subscribe removes its own entry when it fails.                     *)
THEOREM RollbackOwnEntry == ~Reinit => (Spec => []OwnEntryLast)
<1> SUFFICES ASSUME ~Reinit PROVE Spec => []OwnEntryLast
  OBVIOUS
<1>1. TableInv => OwnEntryLast
  BY DEF TableInv, OwnLast, OwnEntryLast, StoredPC
<1>2. TypeInv /\ LockInv /\ [Next]_vars => LockInv'
  BY LockStep
<1>3. TypeInv /\ LockInv /\ TableInv /\ [Next]_vars => TableInv'
  BY TableStep
<1> QED BY <1>1, <1>2, <1>3, TypeInit, TypeStep, LockInvInit, TableInvInit, PTL DEF Spec

(* One subscription thread at most, whatever fails or is denied.            *)
THEOREM SingleThread == ~Reinit => (Spec => []AtMostOneThread)
<1> SUFFICES ASSUME ~Reinit PROVE Spec => []AtMostOneThread
  OBVIOUS
<1>1. TableInv => AtMostOneThread
  BY DEF TableInv, OneThread, AtMostOneThread, Running
<1>2. TypeInv /\ LockInv /\ [Next]_vars => LockInv'
  BY LockStep
<1>3. TypeInv /\ LockInv /\ TableInv /\ [Next]_vars => TableInv'
  BY TableStep
<1> QED BY <1>1, <1>2, <1>3, TypeInit, TypeStep, LockInvInit, TableInvInit, PTL DEF Spec

-----------------------------------------------------------------------------
(* After redis_close.  A callback that calls redis_close itself is still    *)
(* running when the lock is deleted, so the callbacks must not.             *)

NoCallbackClosed ==
    (Closed /\ \E s \in SubThreads : loop[s] = "callback") =>
        \E t \in Threads : pc[t] = "subscribe_command"
CloseNotByCallback == \A s \in SubThreads : pc[s] \notin ClosedPC \cup {"close_enter", "close_body"}
SilentInv == NoCallbackClosed /\ CloseNotByCallback

LEMMA SilentInit == Init => SilentInv
BY PubSubAssumption DEF Init, SilentInv, NoCallbackClosed, CloseNotByCallback, Closed, ClosedPC

LEMMA SilentStep ==
    ASSUME "close" \notin CallbackCalls, ~Reinit, TypeInv, LockInv, TableInv, SilentInv, [Next]_vars
    PROVE  SilentInv'
<1>0. AppThreads \cap SubThreads = {} /\ Threads = AppThreads \cup SubThreads
  BY PubSubAssumption
<1>1. ASSUME NEW t \in Threads, Call(t) PROVE SilentInv'
  <2>1. PICK label \in {"init_pub", "close_enter", "publish_enter", "subscribe_enter", "idle"} : Goto(t, label)
    BY <1>1 DEF Call, InitCall, CloseCall, ProcessCall, PublishCall, SubscribeCall, Start, Return
  <2>2. label = "close_enter" => CloseCall(t)
    BY <1>1, <2>1 DEF Call, InitCall, CloseCall, ProcessCall, PublishCall, SubscribeCall, Start, Return,
                      Goto, TypeInv, TypeOK
  <2>3. UNCHANGED loop /\ (lockState' # "dead" \/ UNCHANGED lockState)
    BY <1>1 DEF Call, InitCall, CloseCall, ProcessCall, PublishCall, SubscribeCall, loopVars, lockVars
  <2>4. CloseNotByCallback'
    BY <1>0, <2>1, <2>2 DEF CloseCall, MayCall, SilentInv, CloseNotByCallback, ClosedPC, Goto, TypeInv, TypeOK
  <2>5. Closed' => Closed
    BY <2>1, <2>3 DEF Closed, ClosedPC, Goto, TypeInv, TypeOK
  <2>6. \A u \in Threads : pc[u] = "subscribe_command" => pc'[u] = "subscribe_command"
    BY <1>1, <2>1 DEF Call, InitCall, CloseCall, ProcessCall, PublishCall, SubscribeCall, MayCall,
                      Goto, TypeInv, TypeOK
  <2> QED BY <2>3, <2>4, <2>5, <2>6 DEF SilentInv, NoCallbackClosed
<1>2. ASSUME NEW t \in Threads, CloseBody(t) PROVE SilentInv'
  <2>1. t \in AppThreads
    BY <1>0, <1>2 DEF CloseBody, SilentInv, CloseNotByCallback
  <2>2. (\E s \in SubThreads : loop[s] = "callback") => \E u \in Threads : pc[u] = "subscribe_command"
    <3>1. CASE lockState = "dead"
      BY <3>1 DEF SilentInv, NoCallbackClosed, Closed
    <3>2. CASE lockState # "dead"
      BY <1>0, <1>2, <2>1, <3>2, OthersOutside DEF CloseBody, Critical, CriticalPC, CriticalLoop
    <3> QED BY <3>1, <3>2
  <2>3. /\ \A u \in Threads : pc[u] = "subscribe_command" => pc'[u] = "subscribe_command"
        /\ UNCHANGED loop
    BY <1>2 DEF CloseBody, loopVars, Goto, TypeInv, TypeOK
  <2>4. CloseNotByCallback'
    BY <1>0, <1>2, <2>1 DEF CloseBody, SilentInv, CloseNotByCallback, Goto, TypeInv, TypeOK
  <2> QED BY <2>2, <2>3, <2>4 DEF SilentInv, NoCallbackClosed
<1>3. ASSUME NEW t \in Threads, CallStep(t), ~CloseBody(t) PROVE SilentInv'
  <2>1. \A s \in SubThreads : loop'[s] = "callback" => loop[s] = "callback"
    BY <1>3 DEF CallStep, InitPub, InitSub, InitDone, CloseEnter, CloseBody, CloseLeave, CloseDelete,
                PublishEnter, PublishCommand, PublishReply, PublishLeave,
                SubscribeEnter, SubscribeStore, SubscribeCommand, SubscribeReply, SubscribeLeave,
                loopVars, TypeInv, TypeOK
  <2>2. PICK label : /\ Goto(t, label)
                     /\ label = "close_body" => pc[t] = "close_enter"
                     /\ label \in ClosedPC => pc[t] \in ClosedPC
                     /\ label # "close_enter"
    BY <1>3 DEF CallStep, InitPub, InitSub, InitDone, CloseEnter, CloseBody, CloseLeave, CloseDelete,
                PublishEnter, PublishCommand, PublishReply, PublishLeave,
                SubscribeEnter, SubscribeStore, SubscribeCommand, SubscribeReply, SubscribeLeave,
                Return, WillReturn, ClosedPC
  <2>3. CloseNotByCallback'
    BY <2>2 DEF SilentInv, CloseNotByCallback, Goto, TypeInv, TypeOK
  <2>4. Closed' => Closed
    <3>1. lockState' = "dead" => Closed
      <4>1. CASE CloseDelete(t)
        BY <4>1 DEF CloseDelete, Closed, ClosedPC
      <4>2. CASE ~CloseDelete(t)
        BY <1>3, <4>2, LeaveKeepsState
           DEF CallStep, InitPub, InitSub, InitDone, CloseEnter, CloseLeave,
               PublishEnter, PublishCommand, PublishReply, PublishLeave,
               SubscribeEnter, SubscribeStore, SubscribeCommand, SubscribeReply, SubscribeLeave,
               Enter, lockVars, Closed, Critical, CriticalPC
      <4> QED BY <4>1, <4>2
    <3>2. \A u \in Threads : pc'[u] \in ClosedPC => \E v \in Threads : pc[v] \in ClosedPC
      BY <2>2 DEF Goto, TypeInv, TypeOK
    <3> QED BY <3>1, <3>2 DEF Closed
  <2>5. Closed => pc[t] # "subscribe_command"
    <3>1. pc[t] = "subscribe_command" => SubscribeCommand(t)
      BY <1>3 DEF CallStep, InitPub, InitSub, InitDone, CloseEnter, CloseLeave, CloseDelete,
                  PublishEnter, PublishCommand, PublishReply, PublishLeave,
                  SubscribeEnter, SubscribeStore, SubscribeReply, SubscribeLeave
    <3> QED BY <3>1 DEF SubscribeCommand, TableInv, NothingAfterClose
  <2>6. Closed => \A u \in Threads : pc[u] = "subscribe_command" => pc'[u] = "subscribe_command"
    BY <2>2, <2>5 DEF Goto, TypeInv, TypeOK
  <2> QED BY <2>1, <2>3, <2>4, <2>6 DEF SilentInv, NoCallbackClosed
<1>4. ASSUME NEW s \in SubThreads, LoopStep(s) PROVE SilentInv'
  <2>1. UNCHANGED lockState
    BY <1>0, <1>4, LeaveKeepsState
       DEF LoopStep, LoopCheck, LoopGet, LoopReply, LoopEnter, Dispatch, CallbackReturns, LoopLeave,
           Enter, lockVars, Critical, CriticalLoop
  <2>2. UNCHANGED pc
    BY <1>4 DEF LoopStep, LoopCheck, LoopGet, LoopReply, LoopEnter, Dispatch, CallbackReturns, LoopLeave, callVars
  <2>3. Closed' <=> Closed
    BY <2>1, <2>2 DEF Closed
  <2>4. CASE Dispatch(s)
    <3>1. (Closed /\ g_table # <<>>) => \E u \in Threads : pc[u] = "subscribe_command"
      BY DEF TableInv, NothingAfterClose
    <3>2. g_table = <<>> => 1 .. Len(g_table) = {}
      BY EmptySeq
    <3>3. ASSUME g_table = <<>> PROVE GotoLoop(s, "leave")
      <4>1. {i \in 1 .. Len(g_table) : g_table[i].channel = got[s].channel} = {}
        BY <3>2, <3>3
      <4> QED BY <2>4, <4>1 DEF Dispatch
    <3>4. CASE g_table = <<>>
      BY <2>2, <2>3, <3>3, <3>4
         DEF SilentInv, NoCallbackClosed, CloseNotByCallback, GotoLoop, TypeInv, TypeOK
    <3>5. CASE g_table # <<>>
      BY <2>2, <2>3, <3>1, <3>5 DEF SilentInv, NoCallbackClosed, CloseNotByCallback
    <3> QED BY <3>4, <3>5
  <2>5. CASE ~Dispatch(s)
    <3>1. PICK label \in {"check", "get", "reply", "enter", "ended", "dispatch", "leave"} : GotoLoop(s, label)
      BY <1>4, <2>5 DEF LoopStep, LoopCheck, LoopGet, LoopReply, LoopEnter, CallbackReturns, LoopLeave
    <3> QED BY <2>2, <2>3, <3>1
            DEF SilentInv, NoCallbackClosed, CloseNotByCallback, GotoLoop, TypeInv, TypeOK
  <2> QED BY <2>4, <2>5
<1>5. CASE UNCHANGED otherVars
  BY <1>5 DEF SilentInv, NoCallbackClosed, CloseNotByCallback, Closed,
              otherVars, lockVars, callVars, loopVars
<1>6. UNCHANGED vars => UNCHANGED otherVars
  BY DEF vars, otherVars
<1> QED BY <1>1, <1>2, <1>3, <1>4, <1>5, <1>6 DEF Next, Run, UndefinedStep, Environment

(* When redis_close has deleted the lock, callbacks are over, although the  *)
(* thread is not joined and may hold a message: unless a callback itself    *)
(* called redis_close, or the library is initialized again, or a            *)
(* redis_subscribe slipped in before the deletion and is about to crash.    *)
THEOREM SilenceAfterClose ==
    ~Reinit /\ "close" \notin CallbackCalls => (Spec => []NoCallbackAfterClose)
<1> SUFFICES ASSUME ~Reinit, "close" \notin CallbackCalls PROVE Spec => []NoCallbackAfterClose
  OBVIOUS
<1>1. TableInv /\ SilentInv => NoCallbackAfterClose
  BY DEF TableInv, NothingAfterClose, SilentInv, NoCallbackClosed, NoCallbackAfterClose, Closed
<1>2. TypeInv /\ LockInv /\ [Next]_vars => LockInv'
  BY LockStep
<1>3. TypeInv /\ LockInv /\ TableInv /\ [Next]_vars => TableInv'
  BY TableStep
<1>4. TypeInv /\ LockInv /\ TableInv /\ SilentInv /\ [Next]_vars => SilentInv'
  BY SilentStep
<1> QED BY <1>1, <1>2, <1>3, <1>4, SilentInit, TypeInit, TypeStep, LockInvInit, TableInvInit, PTL DEF Spec

-----------------------------------------------------------------------------
(* The publishing connection.                                               *)

Quiet(c) == obuf[c] = <<>> /\ reader[c] = <<>> /\ sock[c] = <<>>

(* A context that is not made yet is empty, and nobody has a pointer to it. *)
UnusedUntouched ==
    \A c \in Contexts : ctx[c] = "unused" =>
        /\ Quiet(c) /\ subscribed[c] = {}
        /\ c # g_context /\ c # g_sub_context
        /\ \A t \in Threads : io[t].at # "none" => io[t].on # c

(* Which threads are inside redisGetReply.                                  *)
ReplyPC == {"publish_reply", "subscribe_reply"}
BusyWhere ==
    /\ \A t \in Threads : io[t].at # "none" <=>
           (pc[t] \in ReplyPC \/ (t \in SubThreads /\ loop[t] = "reply"))
    /\ \A s \in SubThreads : pc[s] # "idle" => loop[s] = "callback"

(* redis_init makes two contexts, one after the other.                      *)
ContextsApart ==
    /\ \A t \in Threads : /\ pc[t] = "init_pub" => g_context = NULL
                          /\ pc[t] \in {"init_pub", "init_sub"} => g_sub_context = NULL
    /\ g_context # NULL => g_context # g_sub_context

(* The publishing context is used by redis_publish only, so the server has  *)
(* nothing to push on it.                                                   *)
OnlyPublishes ==
    g_context # NULL =>
        /\ \A t \in Threads : io[t].at # "none" => (io[t].on = g_context <=> pc[t] = "publish_reply")
        /\ subscribed[g_context] = {}
        /\ \A i \in 1 .. Len(obuf[g_context]) : obuf[g_context][i].verb = "PUBLISH"

(* Where the one command, or its answer, is while thread t waits for it on  *)
(* context c: not sent, or on its way back, or lost with the connection.    *)
InFlight(t, c) ==
    /\ reader[c] = <<>>
    /\ \/ io[t].at \in {"try", "flush"} /\ Len(obuf[c]) = 1 /\ sock[c] = <<>>
       \/ io[t].at \in {"flush", "recv"} /\ obuf[c] = <<>> /\ Len(sock[c]) <= 1
       \/ io[t].at = "parse" /\ obuf[c] = <<>> /\ sock[c] = <<>> /\ Len(io[t].buf) = 1
       \/ io[t].at = "ok" /\ obuf[c] = <<>> /\ sock[c] = <<>>

Pipeline ==
    (g_context # NULL /\ ctx[g_context] = "open") =>
        /\ \A t \in Threads : pc[t] = "publish_reply" => InFlight(t, g_context)
        /\ (\A t \in Threads : pc[t] # "publish_reply") => Quiet(g_context)

PipeInv == UnusedUntouched /\ BusyWhere /\ ContextsApart /\ OnlyPublishes /\ Pipeline

(* What a thread at publish_reply, and the publishing context, rely on.     *)
LEMMA PublisherAlone ==
    ASSUME TypeInv, LockInv, TableInv, g_context # NULL, NEW t \in Threads, Critical(t)
    PROVE  \A u \in Threads \ {t} : pc[u] # "publish_reply"
<1>1. ~Closed
  BY DEF TableInv, NothingAfterClose
<1> QED BY <1>1, OthersOutside DEF Critical, CriticalPC, Closed

LEMMA SubsAreThreads == SubThreads \subseteq Threads
BY PubSubAssumption

LEMMA PublishingContext ==
    ASSUME TypeInv, g_context # NULL PROVE g_context \in Contexts
BY ContextAssumption DEF TypeInv, TypeOK, Contexts, NULL

LEMMA PipeInvInit == Init => PipeInv
<1> SUFFICES ASSUME Init PROVE PipeInv
  OBVIOUS
<1>1. /\ g_context = NULL /\ g_sub_context = NULL
      /\ \A t \in Threads : pc[t] = "idle"
      /\ \A s \in SubThreads : loop[s] = "none"
  BY DEF Init
<1>2. \A t \in Threads : io[t].at = "none"
  BY NoIOType DEF Init, HiredisInit
<1>3. \A c \in Contexts : Quiet(c) /\ subscribed[c] = {} /\ c # NULL
  BY ContextAssumption DEF Init, HiredisInit, Quiet, NULL, Contexts
<1> QED BY <1>1, <1>2, <1>3, SubsAreThreads
        DEF PipeInv, UnusedUntouched, BusyWhere, ReplyPC, ContextsApart, OnlyPublishes, Pipeline

(* A step that leaves hiredis and the two globals alone, and no thread      *)
(* enters or leaves redisGetReply.                                          *)
LEMMA PipeKept ==
    ASSUME PipeInv, UNCHANGED <<hiredisVars, g_context, g_sub_context>>,
           \A u \in Threads : pc'[u] = pc[u] \/ (pc[u] \notin ReplyPC /\ pc'[u] \notin ReplyPC),
           \A s \in SubThreads : loop'[s] = "reply" <=> loop[s] = "reply",
           \A s \in SubThreads : pc'[s] # "idle" => loop'[s] = "callback",
           \A u \in Threads : pc'[u] \in {"init_pub", "init_sub"} =>
               pc'[u] = pc[u] \/ (g_context = NULL /\ g_sub_context = NULL)
    PROVE  PipeInv'
<1>1. \A u \in Threads : /\ pc'[u] \in ReplyPC <=> pc[u] \in ReplyPC
                         /\ pc'[u] = "publish_reply" <=> pc[u] = "publish_reply"
  BY DEF ReplyPC
<1>2. UNCHANGED <<ctx, obuf, reader, sock, subscribed, io>>
  BY DEF hiredisVars
<1>3. UnusedUntouched'
  BY <1>2 DEF PipeInv, UnusedUntouched, Quiet, Contexts
<1>4. BusyWhere'
  BY <1>1, <1>2 DEF PipeInv, BusyWhere, ReplyPC
<1>5. ContextsApart'
  BY DEF PipeInv, ContextsApart
<1>6. OnlyPublishes'
  BY <1>1, <1>2 DEF PipeInv, OnlyPublishes
<1>7. Pipeline'
  BY <1>1, <1>2 DEF PipeInv, Pipeline, InFlight, Quiet
<1> QED BY <1>3, <1>4, <1>5, <1>6, <1>7 DEF PipeInv

(* The same for a step of a call, and of the subscription thread's loop.    *)
LEMMA PipeCallStep ==
    ASSUME TypeInv, PipeInv, UNCHANGED <<hiredisVars, g_context, g_sub_context, loop>>,
           NEW t \in Threads, NEW label, Goto(t, label), pc[t] \notin ReplyPC, label \notin ReplyPC,
           label \in {"init_pub", "init_sub"} => g_context = NULL /\ g_sub_context = NULL,
           t \in SubThreads => loop[t] = "callback"
    PROVE  PipeInv'
<1>1. \A u \in Threads : pc'[u] = IF u = t THEN label ELSE pc[u]
  BY DEF Goto, TypeInv, TypeOK
<1>2. SubThreads \subseteq Threads
  BY PubSubAssumption
<1>3. \A s \in SubThreads : pc'[s] # "idle" => loop'[s] = "callback"
  BY <1>1, <1>2 DEF PipeInv, BusyWhere
<1> QED BY <1>1, <1>3, PipeKept

LEMMA PipeLoopStep ==
    ASSUME TypeInv, PipeInv, UNCHANGED <<hiredisVars, g_context, g_sub_context, pc>>,
           NEW s \in SubThreads, NEW label, GotoLoop(s, label), loop[s] # "reply", label # "reply",
           loop[s] = "callback" => pc[s] = "idle"
    PROVE  PipeInv'
<1>1. \A u \in SubThreads : loop'[u] = IF u = s THEN label ELSE loop[u]
  BY DEF GotoLoop, TypeInv, TypeOK
<1>2. \A u \in SubThreads : pc'[u] # "idle" => loop'[u] = "callback"
  BY <1>1 DEF PipeInv, BusyWhere
<1> QED BY <1>1, <1>2, PipeKept

LEMMA PipeCall ==
    ASSUME ~Reinit, TypeInv, LockInv, PipeInv, NEW t \in Threads, Call(t) PROVE PipeInv'
<1>1. pc[t] = "idle" /\ (t \in SubThreads => loop[t] = "callback")
  BY PubSubAssumption DEF Call, InitCall, CloseCall, ProcessCall, PublishCall, SubscribeCall, MayCall
<1>2. UNCHANGED <<hiredisVars, g_context, g_sub_context, loop>>
  BY DEF Call, InitCall, CloseCall, ProcessCall, PublishCall, SubscribeCall, globals, loopVars
<1>3. PICK label \in {"init_pub", "close_enter", "publish_enter", "subscribe_enter", "idle"} :
          Goto(t, label) /\ (label = "init_pub" => InitCall(t))
  BY DEF Call, InitCall, CloseCall, ProcessCall, PublishCall, SubscribeCall, Start, Return
<1>4. label = "init_pub" => g_context = NULL /\ g_sub_context = NULL
  BY <1>3 DEF InitCall, LockInv, RawIdle
<1> QED BY <1>1, <1>2, <1>3, <1>4, PipeCallStep DEF ReplyPC

(* The steps of a call that do not touch the connections.                   *)
LEMMA PipeLockSteps ==
    ASSUME TypeInv, PipeInv, NEW t \in Threads,
           \/ InitDone(t) \/ CloseEnter(t) \/ CloseLeave(t) \/ CloseDelete(t)
           \/ PublishEnter(t) \/ PublishLeave(t) \/ SubscribeEnter(t) \/ SubscribeLeave(t)
    PROVE  PipeInv'
<1>1. pc[t] # "idle" /\ pc[t] \notin ReplyPC
  BY DEF InitDone, CloseEnter, CloseLeave, CloseDelete, PublishEnter, PublishLeave, SubscribeEnter,
         SubscribeLeave, ReplyPC
<1>2. UNCHANGED <<hiredisVars, g_context, g_sub_context, loop>>
  BY DEF InitDone, CloseEnter, CloseLeave, CloseDelete, PublishEnter, PublishLeave, SubscribeEnter,
         SubscribeLeave, globals, loopVars
<1>3. PICK label \in {"idle", "close_body", "close_delete", "publish_command", "subscribe_store"} :
          Goto(t, label)
  BY DEF InitDone, CloseEnter, CloseLeave, CloseDelete, PublishEnter, PublishLeave, SubscribeEnter,
         SubscribeLeave, Return
<1>4. t \in SubThreads => loop[t] = "callback"
  BY <1>1 DEF PipeInv, BusyWhere
<1> QED BY <1>1, <1>2, <1>3, <1>4, PipeCallStep DEF ReplyPC

(* redis_init: a new context is an empty one, and nobody is about to use it.*)
LEMMA PipeInit ==
    ASSUME TypeInv, TableInv, PipeInv, NEW t \in Threads, InitPub(t) \/ InitSub(t) PROVE PipeInv'
<1>0. NULL \notin Contexts /\ SubThreads \subseteq Threads
  BY PubSubAssumption, ContextAssumption DEF NULL, Contexts
<1>1. /\ \A u \in Threads \ {t} : pc[u] = "idle"
      /\ \A s \in SubThreads : loop[s] = "none"
      /\ pc[t] \in {"init_pub", "init_sub"}
  BY DEF TableInv, InitAlone, InitPub, InitSub, InitPC
<1>2. \A u \in Threads : io[u].at = "none"
  BY <1>1, SubsAreThreads DEF PipeInv, BusyWhere, ReplyPC
<1>3. UNCHANGED <<io, loop>>
  BY DEF InitPub, InitSub, ConnectOK, FreeContexts, loopVars
<1>4. PICK label \in {"idle", "init_sub", "init_done"} :
          /\ \A u \in Threads : pc'[u] = IF u = t THEN label ELSE pc[u]
          /\ label = "init_sub" => UNCHANGED g_sub_context
  BY DEF InitPub, InitSub, Return, Goto, TypeInv, TypeOK
<1>5. t \notin SubThreads
  BY <1>1 DEF PipeInv, BusyWhere
<1>6. BusyWhere'
  BY <1>0, <1>1, <1>2, <1>3, <1>4, <1>5 DEF BusyWhere, ReplyPC
<1>7. g_sub_context = NULL
  BY <1>1 DEF PipeInv, ContextsApart
<1>8. \A u \in Threads : pc'[u] # "publish_reply" /\ io'[u].at = "none"
  BY <1>1, <1>2, <1>3, <1>4
<1> DEFINE Calm == g_context # NULL =>
               /\ g_context # g_sub_context /\ subscribed[g_context] = {}
               /\ \A i \in 1 .. Len(obuf[g_context]) : obuf[g_context][i].verb = "PUBLISH"
               /\ ctx[g_context] = "open" => Quiet(g_context)
<1>9. UnusedUntouched' /\ Calm'
  <2>0. /\ UnusedUntouched
        /\ InitSub(t) => Calm /\ \A c \in Contexts : ctx[c] = "unused" => c # g_context
    BY <1>1 DEF PipeInv, UnusedUntouched, ContextsApart, OnlyPublishes, Pipeline, InitSub
  <2>1. ASSUME NEW c \in Contexts, Fresh(c), ConnectOK(c), InitPub(t), g_context' = c
        PROVE  UnusedUntouched' /\ Calm'
    <3>1. \A d \in Contexts : ctx'[d] = IF d = c THEN "open" ELSE ctx[d]
      BY <2>1 DEF ConnectOK, TypeInv, TypeOK, HiredisTypeOK
    <3>2. UNCHANGED <<obuf, reader, sock, subscribed, io, g_sub_context>>
      BY <2>1 DEF ConnectOK, serverVars, InitPub
    <3>3. ctx[c] = "unused" /\ Quiet(c) /\ subscribed[c] = {} /\ obuf[c] = <<>> /\ c # NULL
      BY <1>0, <2>0, <2>1 DEF Fresh, UnusedUntouched, Quiet
    <3> QED BY <1>0, <1>2, <1>7, <2>0, <2>1, <3>1, <3>2, <3>3, EmptySeq DEF UnusedUntouched, Quiet
  <2>2. ASSUME NEW c \in {NULL} \cup {d \in Contexts : Fresh(d)}, FreeContexts({c}), InitPub(t), g_context' = c
        PROVE  UnusedUntouched' /\ Calm'
    <3>1. UNCHANGED <<io, g_sub_context>>
      BY <2>2 DEF FreeContexts, InitPub
    <3> QED BY <1>0, <1>2, <1>7, <2>0, <2>2, <3>1, EmptySeq DEF FreeContexts, UnusedUntouched, Quiet
  <2>3. ASSUME NEW c \in Contexts, Fresh(c), ConnectOK(c), InitSub(t), g_sub_context' = c
        PROVE  UnusedUntouched' /\ Calm'
    <3>1. \A d \in Contexts : ctx'[d] = IF d = c THEN "open" ELSE ctx[d]
      BY <2>3 DEF ConnectOK, TypeInv, TypeOK, HiredisTypeOK
    <3>2. UNCHANGED <<obuf, reader, sock, subscribed, io, g_context>>
      BY <2>3 DEF ConnectOK, serverVars, InitSub
    <3>3. ctx[c] = "unused" /\ c # NULL /\ c # g_context
      BY <1>0, <2>0, <2>3 DEF Fresh, UnusedUntouched
    <3>4. g_context # NULL => g_context \in Contexts
      BY PublishingContext
    <3> QED BY <1>0, <1>2, <1>7, <2>0, <2>3, <3>1, <3>2, <3>3, <3>4 DEF UnusedUntouched, Quiet
  <2>4. ASSUME NEW c \in {NULL} \cup {d \in Contexts : Fresh(d)}, FreeContexts({c, g_context}), InitSub(t), g_sub_context' = c
        PROVE  UnusedUntouched' /\ Calm'
    <3>1. UNCHANGED <<io, g_context>>
      BY <2>4 DEF FreeContexts, InitSub
    <3>2. g_context # NULL => g_context \in Contexts /\ c # g_context
      BY <1>0, <2>0, <2>4, PublishingContext DEF Fresh
    <3> QED BY <1>0, <1>2, <1>7, <2>0, <2>4, <3>1, <3>2, EmptySeq DEF FreeContexts, UnusedUntouched, Quiet
  <2> QED BY <2>1, <2>2, <2>3, <2>4 DEF InitPub, InitSub
<1>10. ContextsApart'
  BY <1>1, <1>4, <1>7, <1>9 DEF ContextsApart
<1>11. OnlyPublishes' /\ Pipeline'
  BY <1>8, <1>9 DEF OnlyPublishes, Pipeline
<1> QED BY <1>6, <1>9, <1>10, <1>11 DEF PipeInv

(* redis_close frees both connections.                                      *)
LEMMA PipeClose ==
    ASSUME TypeInv, PipeInv, NEW t \in Threads, CloseBody(t) PROVE PipeInv'
<1>1. /\ g_context' = NULL /\ g_sub_context' = NULL /\ UNCHANGED <<io, loop>>
      /\ \A u \in Threads : pc'[u] = IF u = t THEN "close_leave" ELSE pc[u]
      /\ pc[t] = "close_body"
  BY DEF CloseBody, FreeContexts, loopVars, Goto, TypeInv, TypeOK
<1>2. BusyWhere'
  BY <1>1, SubsAreThreads DEF PipeInv, BusyWhere, ReplyPC
<1>3. UnusedUntouched'
  BY <1>1, ContextAssumption DEF PipeInv, UnusedUntouched, Quiet, CloseBody, FreeContexts, NULL, Contexts
<1> QED BY <1>1, <1>2, <1>3 DEF PipeInv, ContextsApart, OnlyPublishes, Pipeline

(* The command of redis_publish is alone on its connection.                 *)
LEMMA PipePublish ==
    ASSUME TypeInv, LockInv, TableInv, PipeInv, NEW t \in Threads, PublishCommand(t) PROVE PipeInv'
<1> DEFINE c == g_context
           cmd == [verb |-> "PUBLISH", channel |-> arg[t].channel]
<1>1. /\ pc[t] = "publish_command" /\ c # NULL /\ c \in Contexts
      /\ UNCHANGED <<ctx, reader, sock, subscribed, g_context, g_sub_context, loop>>
      /\ \A u \in Threads : pc'[u] = IF u = t THEN "publish_reply" ELSE pc[u]
  BY PublishingContext DEF PublishCommand, RedisCommand, serverVars, globals, loopVars, Goto, TypeInv, TypeOK
<1>2. \A u \in Threads : pc[u] # "publish_reply"
  BY <1>1, PublisherAlone DEF Critical, CriticalPC
<1>3. /\ io'[t].at = "try" /\ io'[t].on = c
      /\ \A u \in Threads \ {t} : io'[u] = io[u]
  BY NoIOType DEF PublishCommand, RedisCommand, GetReply, IO, TypeInv, TypeOK, HiredisTypeOK
<1>4. \A d \in Contexts : obuf'[d] = IF d = c THEN Append(obuf[d], cmd) ELSE obuf[d]
  BY <1>1 DEF PublishCommand, RedisCommand, TypeInv, TypeOK, HiredisTypeOK
<1>5. obuf[c] \in Seq(Command) /\ cmd \in Command
  BY <1>1 DEF TypeInv, TypeOK, HiredisTypeOK, ArgsKnown, PublishPC, Command
<1>6. /\ Len(obuf'[c]) = Len(obuf[c]) + 1
      /\ \A i \in 1 .. Len(obuf'[c]) : obuf'[c][i].verb = "PUBLISH"
  <2>1. /\ Len(obuf'[c]) = Len(obuf[c]) + 1 /\ obuf'[c][Len(obuf[c]) + 1] = cmd
        /\ \A i \in 1 .. Len(obuf[c]) : obuf'[c][i] = obuf[c][i]
    <3>1. obuf'[c] = Append(obuf[c], cmd)
      BY <1>1, <1>4
    <3> HIDE DEF cmd
    <3> QED BY <1>5, <3>1, AppendProperties
  <2>2. \A i \in 1 .. Len(obuf[c]) : obuf[c][i].verb = "PUBLISH"
    BY <1>1 DEF PipeInv, OnlyPublishes
  <2> QED BY <1>5, <2>1, <2>2, LenProperties
<1>7. ctx[c] = "open" => Quiet(c) /\ Len(obuf[c]) = 0
  BY <1>1, <1>2, EmptySeq DEF PipeInv, Pipeline, Quiet
<1>8. BusyWhere'
  BY <1>1, <1>3, SubsAreThreads DEF PipeInv, BusyWhere, ReplyPC
<1>9. UnusedUntouched'
  BY <1>1, <1>3, <1>4 DEF PipeInv, UnusedUntouched, Quiet
<1>10. ContextsApart'
  BY <1>1 DEF PipeInv, ContextsApart
<1>11. OnlyPublishes'
  BY <1>1, <1>2, <1>3, <1>6 DEF PipeInv, OnlyPublishes
<1>12. Pipeline'
  <2>1. ctx[c] = "open" => InFlight(t, c)'
    BY <1>1, <1>3, <1>6, <1>7 DEF InFlight, Quiet
  <2> QED BY <1>1, <1>2, <2>1 DEF Pipeline
<1> QED BY <1>8, <1>9, <1>10, <1>11, <1>12 DEF PipeInv

(* redis_subscribe sends on the other connection.                           *)
LEMMA PipeStore ==
    ASSUME TypeInv, PipeInv, NEW t \in Threads, SubscribeStore(t) PROVE PipeInv'
<1>1. PICK label \in {"subscribe_leave", "subscribe_command"} : Goto(t, label)
  BY DEF SubscribeStore, WillReturn
<1>2. t \in SubThreads => loop[t] = "callback"
  BY DEF SubscribeStore, PipeInv, BusyWhere
<1> QED BY <1>1, <1>2, PipeCallStep DEF SubscribeStore, loopVars, ReplyPC

LEMMA PipeCommand ==
    ASSUME TypeInv, PipeInv, NEW t \in Threads, SubscribeCommand(t) PROVE PipeInv'
<1> DEFINE c == g_sub_context
<1>1. /\ pc[t] = "subscribe_command" /\ c # NULL /\ c \in Contexts
      /\ UNCHANGED <<ctx, reader, sock, subscribed, g_context, g_sub_context, loop>>
      /\ \A u \in Threads : pc'[u] = IF u = t THEN "subscribe_reply" ELSE pc[u]
  BY ContextAssumption
     DEF SubscribeCommand, RedisCommand, serverVars, globals, loopVars, Goto, TypeInv, TypeOK, Contexts, NULL
<1>2. /\ io'[t].at = "try" /\ io'[t].on = c
      /\ \A u \in Threads \ {t} : io'[u] = io[u]
  BY NoIOType DEF SubscribeCommand, RedisCommand, GetReply, IO, TypeInv, TypeOK, HiredisTypeOK
<1>3. \A d \in Contexts \ {c} : obuf'[d] = obuf[d]
  BY DEF SubscribeCommand, RedisCommand, TypeInv, TypeOK, HiredisTypeOK
<1>4. BusyWhere'
  BY <1>1, <1>2, SubsAreThreads DEF PipeInv, BusyWhere, ReplyPC
<1>5. UnusedUntouched'
  BY <1>1, <1>2, <1>3 DEF PipeInv, UnusedUntouched, Quiet
<1>6. ContextsApart'
  BY <1>1 DEF PipeInv, ContextsApart
<1>7. g_context # NULL => g_context \in Contexts /\ g_context # c /\ obuf'[g_context] = obuf[g_context]
  BY <1>3, PublishingContext DEF PipeInv, ContextsApart
<1>8. OnlyPublishes'
  BY <1>1, <1>2, <1>7 DEF PipeInv, OnlyPublishes
<1>9. Pipeline'
  BY <1>1, <1>2, <1>7 DEF PipeInv, Pipeline, InFlight, Quiet
<1> QED BY <1>4, <1>5, <1>6, <1>8, <1>9 DEF PipeInv

(* A thread takes its reply: the publisher leaves an empty connection.      *)
LEMMA PipeTaken ==
    ASSUME TypeInv, LockInv, TableInv, PipeInv, NEW t \in Threads,
           PublishReply(t) \/ SubscribeReply(t) \/ (t \in SubThreads /\ LoopReply(t))
    PROVE  PipeInv'
<1>0. SubThreads \subseteq Threads
  BY PubSubAssumption
<1>1. /\ UNCHANGED <<ctx, obuf, reader, sock, subscribed, g_context, g_sub_context>>
      /\ io[t].at \in {"ok", "err"}
      /\ io'[t].at = "none" /\ \A u \in Threads \ {t} : io'[u] = io[u]
  BY NoIOType
     DEF PublishReply, SubscribeReply, LoopReply, ReturnFromIO, serverVars, globals, TypeInv, TypeOK, HiredisTypeOK
<1>2. /\ \A u \in Threads \ {t} : pc'[u] = pc[u]
      /\ pc'[t] \notin ReplyPC \cup {"init_pub", "init_sub"}
      /\ t \in SubThreads => loop'[t] # "reply"
      /\ \A s \in SubThreads \ {t} : loop'[s] = loop[s] \/ (loop[s] = "none" /\ loop'[s] = "check")
      /\ (t \in SubThreads /\ pc'[t] # "idle") => loop'[t] = "callback"
  <2>1. CASE PublishReply(t)
    BY <2>1 DEF PublishReply, WillReturn, Goto, loopVars, PipeInv, BusyWhere, TypeInv, TypeOK, ReplyPC
  <2>2. CASE SubscribeReply(t)
    <3>1. t \in SubThreads => loop[t] = "callback"
      BY <2>2 DEF SubscribeReply, PipeInv, BusyWhere
    <3>2. \A s \in SubThreads : loop'[s] = loop[s] \/ (loop[s] = "none" /\ loop'[s] = "check")
      BY <2>2 DEF SubscribeReply, TypeInv, TypeOK
    <3>3. \A u \in Threads : pc'[u] = IF u = t THEN "subscribe_leave" ELSE pc[u]
      BY <2>2 DEF SubscribeReply, WillReturn, Goto, TypeInv, TypeOK
    <3> QED BY <3>1, <3>2, <3>3 DEF ReplyPC
  <2>3. CASE t \in SubThreads /\ LoopReply(t)
    <3>1. UNCHANGED pc /\ pc[t] = "idle"
      BY <1>0, <2>3 DEF LoopReply, callVars, PipeInv, BusyWhere
    <3>2. PICK label \in {"enter", "check", "ended"} : GotoLoop(t, label)
      BY <2>3 DEF LoopReply
    <3> QED BY <2>3, <3>1, <3>2 DEF GotoLoop, ReplyPC, TypeInv, TypeOK
  <2> QED BY <2>1, <2>2, <2>3
<1>3. BusyWhere'
  BY <1>0, <1>1, <1>2 DEF PipeInv, BusyWhere, ReplyPC
<1>4. UnusedUntouched' /\ ContextsApart'
  BY <1>1, <1>2 DEF PipeInv, UnusedUntouched, Quiet, ContextsApart
<1>5. OnlyPublishes'
  BY <1>1, <1>2 DEF PipeInv, OnlyPublishes, ReplyPC
<1>6. Pipeline'
  <2>1. SUFFICES ASSUME g_context # NULL, ctx[g_context] = "open"
                 PROVE  /\ \A u \in Threads : pc'[u] = "publish_reply" => InFlight(u, g_context)'
                        /\ (\A u \in Threads : pc'[u] # "publish_reply") => Quiet(g_context)'
    BY <1>1 DEF Pipeline
  <2>2. \A u \in Threads \ {t} : pc'[u] = "publish_reply" => InFlight(u, g_context)'
    BY <1>1, <1>2, <2>1 DEF PipeInv, Pipeline, InFlight
  <2>3. pc[t] = "publish_reply" => Quiet(g_context)
    BY <1>1, <2>1 DEF PipeInv, Pipeline, InFlight, Quiet
  <2>4. (\A u \in Threads : pc'[u] # "publish_reply") => Quiet(g_context)
    BY <1>2, <2>1, <2>3 DEF PipeInv, Pipeline
  <2> QED BY <1>1, <1>2, <2>2, <2>4 DEF Quiet, ReplyPC
<1> QED BY <1>3, <1>4, <1>5, <1>6 DEF PipeInv

(* The subscription thread's loop.                                          *)
LEMMA PipeLoop ==
    ASSUME TypeInv, LockInv, TableInv, PipeInv, NEW s \in SubThreads, LoopStep(s) PROVE PipeInv'
<1>0. s \in Threads
  BY PubSubAssumption
<1>1. CASE LoopReply(s)
  BY <1>0, <1>1, PipeTaken
<1>2. CASE LoopGet(s)
  <2>1. /\ pc[s] = "idle" /\ g_sub_context # NULL /\ g_sub_context \in Contexts
        /\ UNCHANGED <<ctx, obuf, reader, sock, subscribed, g_context, g_sub_context, pc>>
        /\ \A u \in SubThreads : loop'[u] = IF u = s THEN "reply" ELSE loop[u]
    BY <1>2, ContextAssumption
       DEF LoopGet, GotoLoop, serverVars, globals, callVars, PipeInv, BusyWhere, TypeInv, TypeOK, Contexts, NULL
  <2>2. /\ io'[s].at = "try" /\ io'[s].on = g_sub_context
        /\ \A u \in Threads \ {s} : io'[u] = io[u]
    BY <1>0, <1>2, NoIOType DEF LoopGet, GetReply, IO, TypeInv, TypeOK, HiredisTypeOK
  <2>3. BusyWhere'
    BY <1>0, <2>1, <2>2 DEF PipeInv, BusyWhere, ReplyPC
  <2>4. UnusedUntouched' /\ ContextsApart' /\ OnlyPublishes'
    BY <2>1, <2>2 DEF PipeInv, UnusedUntouched, Quiet, ContextsApart, OnlyPublishes
  <2>5. Pipeline'
    BY <2>1, <2>2 DEF PipeInv, Pipeline, InFlight, Quiet
  <2> QED BY <2>3, <2>4, <2>5 DEF PipeInv
<1>3. CASE LoopCheck(s) \/ LoopEnter(s) \/ Dispatch(s) \/ CallbackReturns(s) \/ LoopLeave(s)
  <2>1. UNCHANGED <<hiredisVars, g_context, g_sub_context, pc>>
    BY <1>3 DEF LoopCheck, LoopEnter, Dispatch, CallbackReturns, LoopLeave, globals, callVars
  <2>2. PICK label \in {"get", "ended", "dispatch", "leave", "callback", "check"} : GotoLoop(s, label)
    BY <1>3 DEF LoopCheck, LoopEnter, Dispatch, CallbackReturns, LoopLeave
  <2>3. loop[s] # "reply" /\ (loop[s] = "callback" => pc[s] = "idle")
    BY <1>3 DEF LoopCheck, LoopEnter, Dispatch, CallbackReturns, LoopLeave
  <2> QED BY <2>1, <2>2, <2>3, PipeLoopStep
<1> QED BY <1>1, <1>2, <1>3 DEF LoopStep

-----------------------------------------------------------------------------
(* Steps inside redisGetReply, and of the server.                           *)

LEMMA OneElement ==
    ASSUME NEW S, NEW q \in Seq(S), Len(q) = 1
    PROVE  q # <<>> /\ Tail(q) = <<>> /\ SubSeq(q, 2, 1) = <<>> /\ Len(SubSeq(q, 1, 1)) = 1
<1>1. q # <<>>
  BY EmptySeq
<1>2. Tail(q) \in Seq(S) /\ Len(Tail(q)) = 0
  BY <1>1, HeadTailProperties
<1>3. SubSeq(q, 2, 1) \in Seq(S) /\ Len(SubSeq(q, 2, 1)) = 0
  BY SubSeqProperties
<1>4. q[1] \in S
  BY ElementOfSeq
<1>5. Len(SubSeq(q, 1, 1)) = 1
  BY <1>4, SubSeqProperties
<1> QED BY <1>1, <1>2, <1>3, <1>5, EmptySeq

(* Of the connections, a step of thread t inside redisGetReply changes the  *)
(* one it is on; the server pushes to subscribed ones.                      *)
LEMMA IOStepFrame ==
    ASSUME TypeInv, NEW t \in Threads, IOStep(t), io[t].at # "none"
    PROVE  /\ \A d \in Contexts : d # io[t].on =>
                 /\ UNCHANGED <<ctx[d], obuf[d], reader[d], subscribed[d]>>
                 /\ subscribed[d] = {} => UNCHANGED sock[d]
           /\ \A u \in Threads \ {t} : UNCHANGED io[u]
           /\ io'[t].on = io[t].on /\ io'[t].at # "none"
<1> DEFINE c == io[t].on
<1>0. /\ io \in [Threads -> IO] /\ io[t] \in IO /\ c \in Contexts
      /\ ctx \in [Contexts -> {"unused", "open", "err", "freed"}]
      /\ obuf \in [Contexts -> Seq(Command)]
      /\ reader \in [Contexts -> Seq(Reply)]
      /\ sock \in [Contexts -> Seq(Reply)]
      /\ subscribed \in [Contexts -> SUBSET Channels]
  BY DEF TypeInv, TypeOK, HiredisTypeOK, IOTarget
<1>1. CASE TryReader(t)
  BY <1>0, <1>1 DEF TryReader, IOError, serverVars, IO
<1>2. CASE Flush(t)
  <2>1. CASE IOError(t) \/ UNCHANGED serverVars
    BY <1>0, <1>2, <2>1 DEF Flush, IOError, serverVars, IO
  <2>2. CASE ServerExecutes(c, Head(obuf[c])) /\ obuf' = [obuf EXCEPT ![c] = Tail(@)]
             /\ UNCHANGED <<ctx, reader, io, crashed>>
    <3>1. \A d \in Contexts : d # c => UNCHANGED subscribed[d] /\ (subscribed[d] = {} => UNCHANGED sock[d])
      <4>1. Head(obuf[c]).channel \notin {}
        OBVIOUS
      <4> QED BY <1>0, <2>2, <4>1 DEF ServerExecutes, Receivers
    <3> QED BY <1>0, <2>2, <3>1
  <2> QED BY <1>2, <2>1, <2>2 DEF Flush
<1>3. CASE Recv(t)
  BY <1>0, <1>3 DEF Recv, IOError, serverVars, IO
<1>4. CASE Parse(t)
  BY <1>0, <1>4 DEF Parse, IOError, serverVars, IO
<1>5. CASE Crash
  BY <1>5 DEF Crash, serverVars
<1> QED BY <1>1, <1>2, <1>3, <1>4, <1>5 DEF IOStep

(* The connection a thread is on: the server does what was sent.            *)
LEMMA IOStepOwn ==
    ASSUME TypeInv, NEW t \in Threads, IOStep(t), io[t].at # "none", NEW c \in Contexts, io[t].on = c,
           \A i \in 1 .. Len(obuf[c]) : obuf[c][i].verb = "PUBLISH",
           subscribed[c] = {}
    PROVE  /\ subscribed'[c] = {}
           /\ \A i \in 1 .. Len(obuf'[c]) : obuf'[c][i].verb = "PUBLISH"
           /\ ctx'[c] = "open" => ctx[c] = "open"
           /\ ctx'[c] = "open" /\ InFlight(t, c) => InFlight(t, c)'
<1>0. /\ io \in [Threads -> IO] /\ io[t] \in IO /\ c \in Contexts
      /\ ctx \in [Contexts -> {"unused", "open", "err", "freed"}]
      /\ obuf \in [Contexts -> Seq(Command)] /\ obuf[c] \in Seq(Command)
      /\ reader \in [Contexts -> Seq(Reply)] /\ reader[c] \in Seq(Reply)
      /\ sock \in [Contexts -> Seq(Reply)] /\ sock[c] \in Seq(Reply) /\ Len(sock[c]) \in Nat
      /\ subscribed \in [Contexts -> SUBSET Channels]
  BY LenProperties DEF TypeInv, TypeOK, HiredisTypeOK, IOTarget
<1>1. CASE IOError(t)
  BY <1>0, <1>1 DEF IOError, serverVars
<1>2. CASE Crash
  BY <1>2 DEF Crash, serverVars, InFlight
<1>3. CASE TryReader(t)
  <2>1. CASE reader[c] # <<>> /\ UNCHANGED <<ctx, obuf, serverVars>>
    BY <2>1 DEF serverVars, InFlight
  <2>2. CASE io' = [io EXCEPT ![t].at = "flush"] /\ UNCHANGED <<ctx, obuf, reader, serverVars>>
    BY <1>0, <1>3, <2>2 DEF TryReader, serverVars, InFlight, IO
  <2> QED BY <1>1, <1>3, <2>1, <2>2 DEF TryReader
<1>4. CASE Flush(t)
  <2>1. CASE obuf[c] = <<>> /\ io' = [io EXCEPT ![t].at = "recv"] /\ UNCHANGED <<ctx, obuf, reader, serverVars>>
    BY <1>0, <1>4, <2>1, EmptySeq DEF Flush, serverVars, InFlight
  <2>2. CASE /\ obuf[c] # <<>> /\ obuf' = [obuf EXCEPT ![c] = Tail(@)]
             /\ IF dropped[c] THEN UNCHANGED serverVars ELSE ServerExecutes(c, Head(obuf[c]))
             /\ UNCHANGED <<ctx, reader, io>>
    <3>1. /\ obuf'[c] = Tail(obuf[c]) /\ Head(obuf[c]) = obuf[c][1] /\ 1 \in 1 .. Len(obuf[c])
          /\ Tail(obuf[c]) \in Seq(Command) /\ Len(Tail(obuf[c])) = Len(obuf[c]) - 1
          /\ \A i \in 1 .. Len(Tail(obuf[c])) : Tail(obuf[c])[i] = obuf[c][i + 1]
      BY <1>0, <2>2, HeadTailProperties, LenProperties, EmptySeq
    <3>2. \A i \in 1 .. Len(obuf'[c]) : obuf'[c][i].verb = "PUBLISH"
      BY <1>0, <3>1, LenProperties
    <3>3. Head(obuf[c]).verb = "PUBLISH"
      BY <3>1
    <3>4. /\ subscribed'[c] = {}
          /\ Len(sock[c]) = 0 => Len(sock'[c]) <= 1
      <4>1. \A r : sock[c] = <<>> => Len(Append(sock[c], r)) <= 1
        OBVIOUS
      <4>2. c \notin Receivers(Head(obuf[c]).channel)
        BY DEF Receivers
      <4>3. CASE dropped[c]
        BY <2>2, <4>3 DEF serverVars
      <4>4. CASE /\ sock' = [sock EXCEPT ![c] = Append(@, ErrorReply)] /\ UNCHANGED subscribed
        BY <1>0, <4>1, <4>4, EmptySeq
      <4>5. CASE /\ UNCHANGED subscribed
                 /\ \E r : sock'[c] = Append(sock[c], r)
        BY <1>0, <4>1, <4>5, EmptySeq
      <4> QED BY <1>0, <2>2, <3>3, <4>2, <4>3, <4>4, <4>5 DEF ServerExecutes
    <3>5. ctx'[c] = "open" /\ InFlight(t, c) => InFlight(t, c)'
      <4>1. SUFFICES ASSUME InFlight(t, c) PROVE InFlight(t, c)'
        OBVIOUS
      <4>2. Len(obuf[c]) = 1 /\ Len(sock[c]) = 0 /\ reader'[c] = <<>> /\ io'[t].at = "flush"
        BY <1>4, <2>2, <4>1, EmptySeq DEF InFlight, Flush
      <4>3. obuf'[c] = <<>>
        BY <1>0, <3>1, <4>2, OneElement
      <4> QED BY <3>4, <4>2, <4>3 DEF InFlight
    <3> QED BY <2>2, <3>2, <3>4, <3>5
  <2> QED BY <1>1, <1>4, <2>1, <2>2 DEF Flush
<1>5. CASE Recv(t)
  <2>1. ASSUME NEW k \in 1 .. Len(sock[c]),
               io' = [io EXCEPT ![t].at = "parse", ![t].buf = SubSeq(sock[c], 1, k)],
               sock' = [sock EXCEPT ![c] = SubSeq(@, k + 1, Len(@))],
               UNCHANGED <<ctx, obuf, reader, subscribed>>, InFlight(t, c)
        PROVE  InFlight(t, c)'
    <3>1. obuf[c] = <<>> /\ reader[c] = <<>> /\ Len(sock[c]) <= 1
      BY <1>5, <2>1, EmptySeq DEF InFlight, Recv
    <3>2. Len(sock[c]) = 1 /\ k = 1
      <4>1. Len(sock[c]) \in Nat /\ Len(sock[c]) <= 1 /\ k \in 1 .. Len(sock[c])
        BY <1>0, <3>1
      <4>2. \A n \in Nat : n <= 1 => \A j \in 1 .. n : n = 1 /\ j = 1
        OBVIOUS
      <4> QED BY <4>1, <4>2
    <3>3. /\ io'[t].at = "parse" /\ io'[t].buf = SubSeq(sock[c], 1, 1)
          /\ sock'[c] = SubSeq(sock[c], 2, 1)
      BY <1>0, <2>1, <3>2 DEF IO
    <3> QED BY <1>0, <2>1, <3>1, <3>2, <3>3, OneElement DEF InFlight
  <2> QED BY <1>1, <1>5, <2>1 DEF Recv
<1>6. CASE Parse(t)
  <2> DEFINE all == reader[c] \o io[t].buf
  <2>1. CASE /\ io' = [io EXCEPT ![t].at = "ok", ![t].reply = Head(all), ![t].buf = <<>>]
             /\ reader' = [reader EXCEPT ![c] = Tail(all)]
             /\ UNCHANGED <<ctx, obuf, serverVars>>
    <3>1. SUFFICES ASSUME InFlight(t, c) PROVE InFlight(t, c)'
      BY <1>0, <2>1 DEF serverVars
    <3>2. obuf[c] = <<>> /\ reader[c] = <<>> /\ sock[c] = <<>> /\ Len(io[t].buf) = 1
      BY <1>6, <3>1 DEF InFlight, Parse
    <3>3. io[t].buf \in Seq(Reply)
      BY <1>0 DEF IO
    <3>4. all = io[t].buf
      BY <3>2, <3>3
    <3>5. Tail(all) = <<>>
      BY <3>2, <3>3, <3>4, OneElement
    <3> QED BY <1>0, <2>1, <3>2, <3>5 DEF serverVars, InFlight, IO
  <2> QED BY <1>1, <1>6, <2>1 DEF Parse
<1> QED BY <1>2, <1>3, <1>4, <1>5, <1>6 DEF IOStep

LEMMA PipeIO ==
    ASSUME TypeInv, LockInv, TableInv, PipeInv, NEW t \in Threads, IOStep(t), UNCHANGED otherVars
    PROVE  PipeInv'
<1>1. UNCHANGED <<g_context, g_sub_context, pc, loop>>
  BY DEF otherVars, globals, callVars, loopVars
<1>2. CASE Crash
  BY <1>1, <1>2 DEF Crash, serverVars, PipeInv, UnusedUntouched, BusyWhere, ContextsApart, OnlyPublishes,
                    Pipeline, InFlight, Quiet
<1>3. CASE io[t].at # "none"
  <2> DEFINE c == io[t].on
  <2>1. c \in Contexts /\ ctx[c] # "unused"
    BY <1>3 DEF TypeInv, IOTarget, PipeInv, UnusedUntouched
  <2>2. /\ \A d \in Contexts : d # c =>
                 /\ UNCHANGED <<ctx[d], obuf[d], reader[d], subscribed[d]>>
                 /\ subscribed[d] = {} => UNCHANGED sock[d]
        /\ \A u \in Threads \ {t} : UNCHANGED io[u]
        /\ io'[t].on = c /\ io'[t].at # "none"
    BY <1>3, IOStepFrame
  <2>3. ctx'[c] # "unused"
    BY <2>1 DEF IOStep, TryReader, Flush, Recv, Parse, IOError, Crash, TypeInv, TypeOK, HiredisTypeOK
  <2>4. UnusedUntouched'
    BY <1>1, <1>3, <2>2, <2>3 DEF PipeInv, UnusedUntouched, Quiet
  <2>5. BusyWhere'
    BY <1>1, <1>3, <2>2 DEF PipeInv, BusyWhere
  <2>6. ContextsApart'
    BY <1>1 DEF PipeInv, ContextsApart
  <2>7. CASE g_context = NULL
    BY <1>1, <2>4, <2>5, <2>6, <2>7 DEF PipeInv, OnlyPublishes, Pipeline
  <2>8. CASE g_context # NULL /\ c # g_context
    <3>1. g_context \in Contexts /\ subscribed[g_context] = {}
      BY <2>8, PublishingContext DEF PipeInv, OnlyPublishes
    <3>2. UNCHANGED <<ctx[g_context], obuf[g_context], reader[g_context], subscribed[g_context], sock[g_context]>>
      BY <1>1, <2>2, <2>8, <3>1
    <3>3. OnlyPublishes'
      BY <1>1, <1>3, <2>2, <2>8, <3>2 DEF PipeInv, OnlyPublishes
    <3>4. pc[t] # "publish_reply"
      BY <1>3, <2>8 DEF PipeInv, OnlyPublishes
    <3>5. Pipeline'
      BY <1>1, <2>2, <2>8, <3>2, <3>4 DEF PipeInv, Pipeline, InFlight, Quiet
    <3> QED BY <2>4, <2>5, <2>6, <3>3, <3>5 DEF PipeInv
  <2>9. CASE g_context # NULL /\ c = g_context
    <3>1. pc[t] = "publish_reply" /\ subscribed[c] = {}
          /\ \A i \in 1 .. Len(obuf[c]) : obuf[c][i].verb = "PUBLISH"
      BY <1>3, <2>9 DEF PipeInv, OnlyPublishes
    <3>2. /\ subscribed'[c] = {}
          /\ \A i \in 1 .. Len(obuf'[c]) : obuf'[c][i].verb = "PUBLISH"
          /\ ctx'[c] = "open" => ctx[c] = "open"
          /\ ctx'[c] = "open" /\ InFlight(t, g_context) => InFlight(t, g_context)'
      BY <1>1, <1>3, <2>1, <2>9, <3>1, IOStepOwn
    <3>3. OnlyPublishes'
      BY <1>1, <1>3, <2>2, <2>9, <3>2 DEF PipeInv, OnlyPublishes
    <3>4. \A u \in Threads \ {t} : pc[u] # "publish_reply"
      BY <2>9, <3>1, PublisherAlone DEF Critical, CriticalPC
    <3>5. Pipeline'
      BY <1>1, <2>9, <3>1, <3>2, <3>4 DEF PipeInv, Pipeline
    <3> QED BY <2>4, <2>5, <2>6, <3>3, <3>5 DEF PipeInv
  <2> QED BY <2>7, <2>8, <2>9
<1> QED BY <1>2, <1>3 DEF IOStep, TryReader, Flush, Recv, Parse

(* Other clients publish on the subscribing connection only; the server may *)
(* drop either connection.                                                  *)
LEMMA PipeEnvironment ==
    ASSUME TypeInv, PipeInv, Environment PROVE PipeInv'
<1>1. UNCHANGED <<g_context, g_sub_context, pc, loop, ctx, obuf, reader, io>>
  BY DEF Environment, ExternalPublish, Drop, otherVars, globals, callVars, loopVars
<1>2. ASSUME NEW d \in Contexts, subscribed[d] = {}
      PROVE  /\ subscribed'[d] = {} /\ Len(sock'[d]) <= Len(sock[d])
             /\ sock[d] = <<>> => sock'[d] = <<>>
  <2>0. /\ sock \in [Contexts -> Seq(Reply)] /\ sock[d] \in Seq(Reply) /\ Len(sock[d]) \in Nat
        /\ subscribed \in [Contexts -> SUBSET Channels]
    BY LenProperties DEF TypeInv, TypeOK, HiredisTypeOK
  <2>1. CASE \E ch \in Channels : ExternalPublish(ch)
    BY <1>2, <2>0, <2>1 DEF ExternalPublish, Receivers
  <2>2. ASSUME NEW c \in Contexts, Drop(c)
        PROVE  /\ subscribed'[d] = {} /\ Len(sock'[d]) <= Len(sock[d])
               /\ sock[d] = <<>> => sock'[d] = <<>>
    <3>1. subscribed'[d] = {}
      BY <1>2, <2>0, <2>2 DEF Drop
    <3>2. PICK k \in 0 .. Len(sock[c]) : sock' = [sock EXCEPT ![c] = SubSeq(@, 1, k)]
      BY <2>2 DEF Drop
    <3>3. CASE c # d
      BY <2>0, <3>1, <3>2, <3>3
    <3>4. CASE c = d
      <4>1. \A i \in 1 .. k : sock[d][i] \in Reply
        BY <2>0, <3>2, <3>4, ElementOfSeq
      <4>2. SubSeq(sock[d], 1, k) \in Seq(Reply) /\ Len(SubSeq(sock[d], 1, k)) = k
        BY <2>0, <3>2, <3>4, <4>1, SubSeqProperties
      <4> QED BY <2>0, <3>1, <3>2, <3>4, <4>2, EmptySeq
    <3> QED BY <3>3, <3>4
  <2> QED BY <2>1, <2>2 DEF Environment
<1>3. \A d \in Contexts : sock'[d] \in Seq(Reply) /\ sock[d] \in Seq(Reply) /\ Len(sock'[d]) \in Nat
      /\ Len(sock[d]) \in Nat
  <2>1. TypeInv'
    BY TypeStep DEF Next
  <2> QED BY <2>1, LenProperties DEF TypeInv, TypeOK, HiredisTypeOK
<1>4. UnusedUntouched'
  BY <1>1, <1>2 DEF PipeInv, UnusedUntouched, Quiet
<1>5. BusyWhere' /\ ContextsApart'
  BY <1>1 DEF PipeInv, BusyWhere, ContextsApart
<1>6. g_context # NULL => g_context \in Contexts /\ subscribed[g_context] = {}
  BY PublishingContext DEF PipeInv, OnlyPublishes
<1>7. OnlyPublishes'
  BY <1>1, <1>2, <1>6 DEF PipeInv, OnlyPublishes
<1>8. Pipeline'
  BY <1>1, <1>2, <1>3, <1>6 DEF PipeInv, Pipeline, InFlight, Quiet
<1> QED BY <1>4, <1>5, <1>7, <1>8 DEF PipeInv

LEMMA PipeStep == ~Reinit /\ TypeInv /\ LockInv /\ TableInv /\ PipeInv /\ [Next]_vars => PipeInv'
<1> SUFFICES ASSUME ~Reinit, TypeInv, LockInv, TableInv, PipeInv, [Next]_vars PROVE PipeInv'
  OBVIOUS
<1>1. ASSUME NEW t \in Threads, Call(t) PROVE PipeInv'
  BY <1>1, PipeCall
<1>2. ASSUME NEW t \in Threads, CallStep(t) PROVE PipeInv'
  BY <1>2, PipeLockSteps, PipeInit, PipeClose, PipePublish, PipeStore, PipeCommand, PipeTaken
     DEF CallStep
<1>3. ASSUME NEW s \in SubThreads, LoopStep(s) PROVE PipeInv'
  BY <1>3, PipeLoop
<1>4. ASSUME NEW t \in Threads, IOStep(t), UNCHANGED otherVars PROVE PipeInv'
  BY <1>4, PipeIO
<1>5. CASE Environment
  BY <1>5, PipeEnvironment
<1>6. CASE Crash /\ UNCHANGED otherVars
  BY <1>6 DEF Crash, serverVars, otherVars, globals, callVars, loopVars,
              PipeInv, UnusedUntouched, BusyWhere, ContextsApart, OnlyPublishes, Pipeline, InFlight, Quiet
<1>7. CASE UNCHANGED vars
  BY <1>7 DEF vars, hiredisVars, globals, callVars, loopVars,
              PipeInv, UnusedUntouched, BusyWhere, ContextsApart, OnlyPublishes, Pipeline, InFlight, Quiet
<1> QED BY <1>1, <1>2, <1>3, <1>4, <1>5, <1>6, <1>7 DEF Next, Run, UndefinedStep

(* redis_publish is alone on its connection: whatever thread calls it, and  *)
(* whatever was lost, denied or dropped before, its reply is its own.       *)
THEOREM PublishFindsEmpty == ~Reinit => (Spec => []PublishPipelineEmpty)
<1> SUFFICES ASSUME ~Reinit PROVE Spec => []PublishPipelineEmpty
  OBVIOUS
<1>1. PipeInv => PublishPipelineEmpty
  BY DEF PipeInv, Pipeline, Quiet, PublishPipelineEmpty
<1>2. TypeInv /\ LockInv /\ [Next]_vars => LockInv'
  BY LockStep
<1>3. TypeInv /\ LockInv /\ TableInv /\ [Next]_vars => TableInv'
  BY TableStep
<1>4. TypeInv /\ LockInv /\ TableInv /\ PipeInv /\ [Next]_vars => PipeInv'
  BY PipeStep
<1> QED BY <1>1, <1>2, <1>3, <1>4, TypeInit, TypeStep, LockInvInit, TableInvInit, PipeInvInit, PTL DEF Spec

-----------------------------------------------------------------------------
(* The delivery of messages, as PubSubChannel promises it: first what the  *)
(* mapping of DeliveryRefinement does to sequences of replies.             *)

(* The two parts of a sequence cut in two make up the sequence.             *)
LEMMA SplitMoved ==
    ASSUME NEW S, NEW q \in Seq(S), NEW k \in 0 .. Len(q)
    PROVE  SubSeq(q, 1, k) \o SubSeq(q, k + 1, Len(q)) = q
<1> DEFINE a == SubSeq(q, 1, k)
           b == SubSeq(q, k + 1, Len(q))
<1>0. Len(q) \in Nat /\ \A i \in 1 .. Len(q) : q[i] \in S
  BY LenProperties, ElementOfSeq
<1>1. /\ a \in Seq(S) /\ Len(a) = k
      /\ \A i \in 1 .. k : a[i] = q[i]
  BY <1>0, SubSeqProperties
<1>2. /\ b \in Seq(S) /\ Len(b) = Len(q) - k
      /\ \A i \in 1 .. Len(q) - k : b[i] = q[k + i]
  BY <1>0, SubSeqProperties
<1> HIDE DEF a, b
<1>3. /\ a \o b \in Seq(S) /\ Len(a \o b) = Len(q)
      /\ \A i \in 1 .. Len(q) : (a \o b)[i] = IF i <= k THEN a[i] ELSE b[i - k]
  <2>1. /\ a \o b \in Seq(S) /\ Len(a \o b) = Len(a) + Len(b)
        /\ \A i \in 1 .. Len(a) + Len(b) : (a \o b)[i] = IF i <= Len(a) THEN a[i] ELSE b[i - Len(a)]
    BY <1>1, <1>2, ConcatProperties
  <2>2. Len(a) + Len(b) = Len(q)
    BY <1>0, <1>1, <1>2
  <2> QED BY <1>1, <2>1, <2>2
<1>4. \A i \in 1 .. Len(q) : (a \o b)[i] = q[i]
  BY <1>0, <1>1, <1>2, <1>3
<1>5. a \o b = q
  BY <1>3, <1>4, SeqEqual
<1> QED BY <1>5 DEF a, b

(* An element appended behind one part is appended to the whole.            *)
LEMMA AppendBehind ==
    ASSUME NEW S, NEW p \in Seq(S), NEW q \in Seq(S), NEW m \in S
    PROVE  p \o Append(q, m) = Append(p \o q, m)
<1>1. p \o q \in Seq(S) /\ Append(q, m) \in Seq(S)
  BY ConcatProperties, AppendProperties
<1>2. p \o Append(q, m) \in Seq(S) /\ Append(p \o q, m) \in Seq(S)
  BY <1>1, ConcatProperties, AppendProperties
<1>3. Append(q, m) = q \o <<m>> /\ Append(p \o q, m) = (p \o q) \o <<m>> /\ <<m>> \in Seq(S)
  BY <1>1, AppendProperties
<1> QED BY <1>3, ConcatAssociative

(* The tail of a sequence before another is the tail of the whole.          *)
LEMMA TailBefore ==
    ASSUME NEW S, NEW p \in Seq(S), NEW q \in Seq(S), p # <<>>
    PROVE  p \o q # <<>> /\ Tail(p) \o q = Tail(p \o q) /\ (p \o q)[1] = p[1] /\ Head(p) = p[1]
<1>1. Len(p) \in Nat \ {0} /\ Len(q) \in Nat
  BY EmptySeq, LenProperties
<1>2. /\ p \o q \in Seq(S) /\ Len(p \o q) = Len(p) + Len(q)
      /\ \A i \in 1 .. Len(p) + Len(q) : (p \o q)[i] = IF i <= Len(p) THEN p[i] ELSE q[i - Len(p)]
  BY ConcatProperties
<1>3. p \o q # <<>>
  BY <1>1, <1>2, EmptySeq
<1>4. /\ Tail(p) \in Seq(S) /\ Len(Tail(p)) = Len(p) - 1
      /\ \A i \in 1 .. Len(p) - 1 : Tail(p)[i] = p[i + 1]
  BY HeadTailProperties
<1>5. /\ Tail(p) \o q \in Seq(S) /\ Len(Tail(p) \o q) = Len(p) - 1 + Len(q)
      /\ \A i \in 1 .. Len(p) - 1 + Len(q) :
             (Tail(p) \o q)[i] = IF i <= Len(p) - 1 THEN Tail(p)[i] ELSE q[i - (Len(p) - 1)]
  BY <1>4, ConcatProperties
<1>6. /\ Tail(p \o q) \in Seq(S) /\ Len(Tail(p \o q)) = Len(p) + Len(q) - 1
      /\ \A i \in 1 .. Len(p) + Len(q) - 1 : Tail(p \o q)[i] = (p \o q)[i + 1]
  BY <1>2, <1>3, HeadTailProperties
<1>7. \A i \in 1 .. Len(p) + Len(q) - 1 : (Tail(p) \o q)[i] = Tail(p \o q)[i]
  BY <1>1, <1>2, <1>4, <1>5, <1>6
<1>8. Tail(p) \o q = Tail(p \o q)
  BY <1>1, <1>5, <1>6, <1>7, SeqEqual
<1>9. (p \o q)[1] = p[1] /\ Head(p) = p[1]
  BY <1>1, <1>2
<1> QED BY <1>3, <1>8, <1>9

(* A sequence that is not empty is its head followed by its tail.           *)
LEMMA HeadAndTail ==
    ASSUME NEW S, NEW q \in Seq(S), q # <<>>
    PROVE  <<q[1]>> \o Tail(q) = q
<1>1. Len(q) \in Nat \ {0} /\ q[1] \in S /\ <<q[1]>> \in Seq(S) /\ Len(<<q[1]>>) = 1 /\ <<q[1]>>[1] = q[1]
  BY EmptySeq, ElementOfSeq
<1>2. /\ Tail(q) \in Seq(S) /\ Len(Tail(q)) = Len(q) - 1
      /\ \A i \in 1 .. Len(q) - 1 : Tail(q)[i] = q[i + 1]
  BY HeadTailProperties
<1> DEFINE a == <<q[1]>>
<1> HIDE DEF a
<1>3. /\ a \o Tail(q) \in Seq(S) /\ Len(a \o Tail(q)) = Len(q)
      /\ \A i \in 1 .. Len(q) : (a \o Tail(q))[i] = IF i <= 1 THEN a[i] ELSE Tail(q)[i - 1]
  BY <1>1, <1>2, ConcatProperties DEF a
<1>4. \A i \in 1 .. Len(q) : (a \o Tail(q))[i] = q[i]
  BY <1>1, <1>2, <1>3 DEF a
<1> QED BY <1>3, <1>4, SeqEqual DEF a

(* A prefix of the last part leaves a prefix of the whole.                  *)
LEMMA PrefixBehind ==
    ASSUME NEW S, NEW p \in Seq(S), NEW q \in Seq(S), NEW k \in 0 .. Len(q)
    PROVE  /\ Len(p) + k \in 0 .. Len(p \o q)
           /\ p \o SubSeq(q, 1, k) = SubSeq(p \o q, 1, Len(p) + k)
<1> DEFINE b == SubSeq(q, 1, k)
           c == SubSeq(p \o q, 1, Len(p) + k)
<1>0. Len(p) \in Nat /\ Len(q) \in Nat /\ \A i \in 1 .. Len(q) : q[i] \in S
  BY LenProperties, ElementOfSeq
<1>1. /\ b \in Seq(S) /\ Len(b) = k
      /\ \A i \in 1 .. k : b[i] = q[i]
  BY <1>0, SubSeqProperties
<1>2. /\ p \o q \in Seq(S) /\ Len(p \o q) = Len(p) + Len(q)
      /\ \A i \in 1 .. Len(p) + Len(q) : (p \o q)[i] = IF i <= Len(p) THEN p[i] ELSE q[i - Len(p)]
  BY ConcatProperties
<1>3. \A i \in 1 .. Len(p) + Len(q) : (p \o q)[i] \in S
  BY <1>2, ElementOfSeq
<1>4. /\ c \in Seq(S) /\ Len(c) = Len(p) + k
      /\ \A i \in 1 .. Len(p) + k : c[i] = (p \o q)[i]
  BY <1>0, <1>3, SubSeqProperties
<1> HIDE DEF b, c
<1>5. /\ p \o b \in Seq(S) /\ Len(p \o b) = Len(p) + Len(b)
      /\ \A i \in 1 .. Len(p) + Len(b) : (p \o b)[i] = IF i <= Len(p) THEN p[i] ELSE b[i - Len(p)]
  BY <1>1, ConcatProperties
<1>6. ASSUME NEW i \in 1 .. Len(p) + k PROVE (p \o b)[i] = c[i]
  <2>1. i \in Nat /\ i \in 1 .. Len(p) + Len(q) /\ i \in 1 .. Len(p) + Len(b)
    BY <1>0, <1>1
  <2>2. i > Len(p) => b[i - Len(p)] = q[i - Len(p)]
    BY <1>0, <1>1, <2>1
  <2> QED BY <1>0, <1>2, <1>4, <1>5, <2>1, <2>2
<1>7. p \o b = c
  <2>1. Len(p \o b) = Len(c) /\ \A i \in 1 .. Len(p \o b) : (p \o b)[i] = c[i]
    BY <1>1, <1>4, <1>5, <1>6
  <2> QED BY <1>4, <1>5, <2>1, SeqEqual
<1> QED BY <1>0, <1>2, <1>7 DEF b, c

(* Contents maps a sequence of replies element by element.                  *)
LEMMA ContentsMeans ==
    ASSUME NEW S, NEW q \in Seq(S)
    PROVE  /\ Contents(q) \in Seq({Content(x) : x \in S})
           /\ Len(Contents(q)) = Len(q)
           /\ \A i \in 1 .. Len(q) : Contents(q)[i] = Content(q[i])
<1>0. Len(q) \in Nat /\ \A i \in 1 .. Len(q) : q[i] \in S
  BY LenProperties, ElementOfSeq
<1> DEFINE T == {Content(x) : x \in S}
           f == [i \in 1 .. Len(q) |-> Content(q[i])]
<1>1. f \in [1 .. Len(q) -> T]
  BY <1>0
<1>2. f \in Seq(T) /\ Len(f) = Len(q)
  <2> HIDE DEF f, T
  <2>1. f \in Seq(T)
    BY <1>0, <1>1, SeqDef
  <2>2. DOMAIN f = 1 .. Len(q) /\ DOMAIN f = 1 .. Len(f) /\ Len(f) \in Nat
    BY <1>1, <2>1, LenProperties
  <2> QED BY <1>0, <2>1, <2>2
<1> QED BY <1>2 DEF Contents

(* One more reply is one more content.                                      *)
LEMMA ContentsOfAppend ==
    ASSUME NEW S, NEW q \in Seq(S), NEW m \in S
    PROVE  Contents(Append(q, m)) = Append(Contents(q), Content(m))
<1> DEFINE T == {Content(x) : x \in S}
           a == Append(q, m)
<1>0. Len(q) \in Nat /\ Content(m) \in T
  BY LenProperties
<1>1. /\ a \in Seq(S) /\ Len(a) = Len(q) + 1
      /\ a[Len(q) + 1] = m /\ \A i \in 1 .. Len(q) : a[i] = q[i]
  BY AppendProperties
<1> HIDE DEF T, a
<1>2. /\ Contents(q) \in Seq(T) /\ Len(Contents(q)) = Len(q)
      /\ \A i \in 1 .. Len(q) : Contents(q)[i] = Content(q[i])
  BY ContentsMeans DEF T
<1>3. /\ Contents(a) \in Seq(T) /\ Len(Contents(a)) = Len(q) + 1
      /\ \A i \in 1 .. Len(q) + 1 : Contents(a)[i] = Content(a[i])
  BY <1>1, ContentsMeans DEF T
<1>4. /\ Append(Contents(q), Content(m)) \in Seq(T) /\ Len(Append(Contents(q), Content(m))) = Len(q) + 1
      /\ Append(Contents(q), Content(m))[Len(q) + 1] = Content(m)
      /\ \A i \in 1 .. Len(q) : Append(Contents(q), Content(m))[i] = Contents(q)[i]
  BY <1>0, <1>2, AppendProperties
<1>5. \A i \in 1 .. Len(q) + 1 : Contents(a)[i] = Append(Contents(q), Content(m))[i]
  BY <1>0, <1>1, <1>2, <1>3, <1>4
<1>6. Contents(a) = Append(Contents(q), Content(m))
  BY <1>3, <1>4, <1>5, SeqEqual
<1> QED BY <1>6 DEF a

(* Contents of head and tail.                                               *)
LEMMA ContentsOfTail ==
    ASSUME NEW S, NEW q \in Seq(S), q # <<>>
    PROVE  /\ Contents(q) # <<>> /\ Head(Contents(q)) = Content(q[1])
           /\ Tail(Contents(q)) = Contents(Tail(q))
<1> DEFINE T == {Content(x) : x \in S}
<1>0. Len(q) \in Nat \ {0}
  BY EmptySeq
<1>1. /\ Tail(q) \in Seq(S) /\ Len(Tail(q)) = Len(q) - 1
      /\ \A i \in 1 .. Len(q) - 1 : Tail(q)[i] = q[i + 1]
  BY HeadTailProperties
<1> HIDE DEF T
<1>2. /\ Contents(q) \in Seq(T) /\ Len(Contents(q)) = Len(q)
      /\ \A i \in 1 .. Len(q) : Contents(q)[i] = Content(q[i])
  BY ContentsMeans DEF T
<1>3. /\ Contents(Tail(q)) \in Seq(T) /\ Len(Contents(Tail(q))) = Len(q) - 1
      /\ \A i \in 1 .. Len(q) - 1 : Contents(Tail(q))[i] = Content(Tail(q)[i])
  BY <1>1, ContentsMeans DEF T
<1>4. Contents(q) # <<>>
  BY <1>0, <1>2, EmptySeq
<1>5. /\ Tail(Contents(q)) \in Seq(T) /\ Len(Tail(Contents(q))) = Len(q) - 1
      /\ \A i \in 1 .. Len(q) - 1 : Tail(Contents(q))[i] = Contents(q)[i + 1]
  BY <1>2, <1>4, HeadTailProperties
<1>6. \A i \in 1 .. Len(q) - 1 : Tail(Contents(q))[i] = Contents(Tail(q))[i]
  BY <1>0, <1>1, <1>2, <1>3, <1>5
<1>7. Tail(Contents(q)) = Contents(Tail(q))
  BY <1>3, <1>5, <1>6, SeqEqual
<1> QED BY <1>0, <1>2, <1>4, <1>7

(* A prefix of the replies is a prefix of their contents.                   *)
LEMMA ContentsOfPrefix ==
    ASSUME NEW S, NEW q \in Seq(S), NEW k \in 0 .. Len(q)
    PROVE  Contents(SubSeq(q, 1, k)) = SubSeq(Contents(q), 1, k)
<1> DEFINE T == {Content(x) : x \in S}
           a == SubSeq(q, 1, k)
           b == SubSeq(Contents(q), 1, k)
<1>0. Len(q) \in Nat /\ \A i \in 1 .. Len(q) : q[i] \in S
  BY LenProperties, ElementOfSeq
<1>1. /\ a \in Seq(S) /\ Len(a) = k
      /\ \A i \in 1 .. k : a[i] = q[i]
  BY <1>0, SubSeqProperties
<1>2. /\ Contents(q) \in Seq(T) /\ Len(Contents(q)) = Len(q)
      /\ \A i \in 1 .. Len(q) : Contents(q)[i] = Content(q[i])
  BY ContentsMeans
<1> HIDE DEF T
<1>3. \A i \in 1 .. Len(q) : Contents(q)[i] \in T
  BY <1>2, ElementOfSeq
<1>4. /\ b \in Seq(T) /\ Len(b) = k
      /\ \A i \in 1 .. k : b[i] = Contents(q)[i]
  BY <1>0, <1>2, <1>3, SubSeqProperties
<1> HIDE DEF a, b
<1>5. /\ Contents(a) \in Seq(T) /\ Len(Contents(a)) = k
      /\ \A i \in 1 .. k : Contents(a)[i] = Content(a[i])
  BY <1>1, ContentsMeans DEF T
<1>6. \A i \in 1 .. k : Contents(a)[i] = b[i]
  BY <1>0, <1>1, <1>2, <1>4, <1>5
<1>7. Contents(a) = b
  BY <1>4, <1>5, <1>6, SeqEqual
<1> QED BY <1>7 DEF a, b

(* Without the answer in front.                                             *)
LEMMA WithoutAnswerType ==
    ASSUME NEW S, NEW q \in Seq(S) PROVE WithoutAnswer(q) \in Seq(S)
BY HeadTailProperties DEF WithoutAnswer

(* Nothing is left out in front of a message.                               *)
LEMMA AllMessages ==
    ASSUME NEW S, NEW q \in Seq(S), q # <<>> => IsMessage(q[1]) PROVE WithoutAnswer(q) = q
BY DEF WithoutAnswer

(* A message that arrives behind the replies is also last without answer.   *)
LEMMA MessageArrives ==
    ASSUME NEW S, NEW q \in Seq(S), NEW m \in S, IsMessage(m)
    PROVE  WithoutAnswer(Append(q, m)) = Append(WithoutAnswer(q), m)
<1>1. /\ Append(q, m) \in Seq(S) /\ Append(q, m) # <<>>
      /\ Append(q, m) = q \o <<m>> /\ <<m>> \in Seq(S)
  BY AppendProperties, EmptySeq
<1>2. CASE q = <<>>
  <2>1. Append(q, m)[1] = m /\ Append(q, m) = <<m>>
    BY <1>2
  <2> QED BY <1>2, <2>1 DEF WithoutAnswer
<1>3. CASE q # <<>>
  <2>1. Tail(q) \o <<m>> = Tail(q \o <<m>>) /\ (q \o <<m>>)[1] = q[1]
    BY <1>1, <1>3, TailBefore
  <2>2. Tail(q) \o <<m>> = Append(Tail(q), m)
    BY <1>3, HeadTailProperties, AppendProperties
  <2> QED BY <1>1, <1>3, <2>1, <2>2 DEF WithoutAnswer
<1> QED BY <1>2, <1>3

(* A prefix of the replies, without answer, is a prefix of what there was.  *)
LEMMA TailIsLost ==
    ASSUME NEW S, NEW q \in Seq(S), NEW k \in 0 .. Len(q)
    PROVE  \E j \in 0 .. Len(WithoutAnswer(q)) :
               WithoutAnswer(SubSeq(q, 1, k)) = SubSeq(WithoutAnswer(q), 1, j)
<1> DEFINE a == SubSeq(q, 1, k)
<1>0. Len(q) \in Nat /\ \A i \in 1 .. Len(q) : q[i] \in S
  BY LenProperties, ElementOfSeq
<1>1. /\ a \in Seq(S) /\ Len(a) = k
      /\ \A i \in 1 .. k : a[i] = q[i]
  BY <1>0, SubSeqProperties
<1>2. CASE q = <<>> \/ IsMessage(q[1])
  <2>1. WithoutAnswer(q) = q
    BY <1>2 DEF WithoutAnswer
  <2>2. a # <<>> => IsMessage(a[1])
    <3>1. SUFFICES ASSUME a # <<>> PROVE IsMessage(a[1])
      OBVIOUS
    <3>2. k >= 1
      BY <1>0, <1>1, <3>1, EmptySeq
    <3>3. q # <<>>
      BY <1>0, <3>2, EmptySeq
    <3> QED BY <1>0, <1>1, <1>2, <3>2, <3>3
  <2>3. WithoutAnswer(a) = a
    BY <1>1, <2>2, AllMessages
  <2> QED BY <2>1, <2>3
<1>3. CASE q # <<>> /\ ~IsMessage(q[1])
  <2>1. WithoutAnswer(q) = Tail(q)
    BY <1>3 DEF WithoutAnswer
  <2>2. Tail(q) \in Seq(S) /\ Len(Tail(q)) = Len(q) - 1 /\ Len(q) >= 1
    BY <1>0, <1>3, HeadTailProperties, EmptySeq
  <2>3. CASE k = 0
    <3>1. a = <<>>
      BY <2>3, <1>1, EmptySeq
    <3>2. WithoutAnswer(a) = <<>>
      BY <3>1 DEF WithoutAnswer
    <3>3. SubSeq(Tail(q), 1, 0) = <<>>
      BY SubSeqEmpty
    <3>4. 0 \in 0 .. Len(Tail(q))
      BY <1>0, <2>2
    <3> QED BY <2>1, <3>2, <3>3, <3>4
  <2>4. CASE k >= 1
    <3>0. k \in 1 .. Len(q) /\ 1 \in 1 .. Len(q) /\ k - 1 \in 0 .. Len(Tail(q)) /\ k - 1 \in 0 .. Len(q) - 1
      BY <1>0, <2>2, <2>4
    <3>1. a # <<>> /\ a[1] = q[1]
      BY <1>1, <2>4, EmptySeq
    <3>2. WithoutAnswer(a) = Tail(a)
      BY <1>3, <3>1 DEF WithoutAnswer
    <3>3. /\ Tail(a) \in Seq(S) /\ Len(Tail(a)) = k - 1
          /\ \A i \in 1 .. k - 1 : Tail(a)[i] = a[i + 1]
      BY <1>1, <3>1, HeadTailProperties
    <3>4. \A i \in 1 .. Len(q) - 1 : Tail(q)[i] = q[i + 1] /\ Tail(q)[i] \in S
      BY <1>3, <2>2, HeadTailProperties, ElementOfSeq
    <3> DEFINE b == SubSeq(Tail(q), 1, k - 1)
    <3>5. /\ b \in Seq(S) /\ Len(b) = k - 1
          /\ \A i \in 1 .. k - 1 : b[i] = Tail(q)[i]
      <4>1. \A i \in 1 .. k - 1 : Tail(q)[i] \in S
        BY <1>0, <3>0, <3>4
      <4> HIDE DEF a
      <4> QED BY <1>0, <3>0, <4>1, SubSeqProperties
    <3> HIDE DEF a, b
    <3>6. \A i \in 1 .. k - 1 : Tail(a)[i] = b[i]
      BY <1>0, <1>1, <3>0, <3>3, <3>4, <3>5
    <3>7. Tail(a) = b
      BY <3>3, <3>5, <3>6, SeqEqual
    <3> QED BY <2>1, <3>0, <3>2, <3>7 DEF b, a
  <2> QED BY <1>0, <2>3, <2>4
<1> QED BY <1>2, <1>3

(* The one call of redis_subscribe has not sent its command yet.            *)
UnsentPC == {"subscribe_enter", "subscribe_store", "subscribe_command"}
Unsent == nsub = 0 \/ \E t \in Threads : pc[t] \in UnsentPC

(* A subscription thread has been started.                                  *)
Started == \E s \in SubThreads : loop[s] # "none"

(* The subscribing call finds an empty connection, that nobody uses.        *)
OneSubscription ==
    /\ nsub <= 1
    /\ \A t, u \in Threads : pc[t] \in SubscribePC /\ pc[u] \in SubscribePC => t = u
    /\ (\E t \in Threads : pc[t] \in SubscribePC) => nsub = 1 /\ ~Started
    /\ Unsent => /\ g_table = <<>> \/ \E t \in Threads : pc[t] = "subscribe_command"
                 /\ ~Started
                 /\ \A c \in Contexts : subscribed[c] = {}
                 /\ g_sub_context # NULL => Quiet(g_sub_context)
    /\ Len(g_table) <= 1

(* Only redis_close and a redis_init that fails free a context.             *)
Lifetimes ==
    /\ g_sub_context # NULL => g_context # NULL
    /\ \A t \in Threads : pc[t] = "init_sub" => g_context # NULL
    /\ \A c \in Contexts : ctx[c] = "open" => c \in {g_context, g_sub_context}
    /\ (lockState = "raw" \/ \E t \in Threads : pc[t] \in {"init_pub", "init_sub"}) =>
           \A c \in Contexts : ctx[c] # "freed"
    /\ (g_sub_context # NULL /\ ctx[g_sub_context] # "freed") => \A c \in Contexts : ctx[c] # "freed"
    /\ (g_sub_context = NULL /\ Started) => \E c \in Contexts : ctx[c] = "freed"

(* Where received bytes are, and which context a thread waits on.           *)
Buffers ==
    /\ \A t \in Threads : io[t].at = "none" => io[t].buf = <<>>
    /\ \A t \in Threads : pc[t] = "subscribe_reply" => g_sub_context # NULL /\ io[t].on = g_sub_context
    /\ \A s \in SubThreads : loop[s] = "reply" => io[s].on = g_sub_context \/ ctx[io[s].on] = "freed"
    /\ \A t \in Threads : (g_sub_context # NULL /\ io[t].at # "none" /\ io[t].on = g_sub_context) =>
           /\ io[t].buf # <<>> => io[t].at = "parse"
           /\ io[t].at \in {"flush", "recv", "parse"} => ctx[g_sub_context] # "freed"

(* A message of the channel subscribed to.                                  *)
Wanted(r) == IsMessage(r) /\ (g_table # <<>> => r.channel = g_table[1].channel)

(* The answer to SUBSCRIBE has left the context; a thread waits for it.     *)
Answered == Started \/ \E t \in Threads : pc[t] = "subscribe_reply" /\ io[t].at = "ok"
Awaits(t) == pc[t] = "subscribe_reply" /\ io[t].at # "ok"

(* The command is in the output buffer, and nothing has come back.          *)
Unserved ==
    /\ \E t \in Threads : pc[t] = "subscribe_reply" /\ io[t].at \in {"try", "flush"}
    /\ InContext = <<>>
    /\ Len(obuf[g_sub_context]) = 1 /\ obuf[g_sub_context][1].verb = "SUBSCRIBE"
    /\ g_table # <<>> /\ obuf[g_sub_context][1].channel = g_table[1].channel

(* On the subscribing connection the answer comes first, and then messages. *)
Stream ==
    /\ g_table # <<>> => subscribed[g_sub_context] \subseteq {g_table[1].channel}
    /\ \A i \in 1 .. Len(InContext) : i > 1 \/ Answered => Wanted(InContext[i])
    /\ \A t \in Threads : Awaits(t) =>
          /\ reader[g_sub_context] = <<>>
          /\ InContext = <<>> => subscribed[g_sub_context] = {}
          /\ InContext # <<>> => ~IsMessage(InContext[1])
    /\ (ctx[g_sub_context] = "open" /\ obuf[g_sub_context] # <<>>) => Unserved

(* The server knows of no other subscription.                               *)
OnlySubscriber ==
    \A c \in Contexts : subscribed[c] # {} => c = g_sub_context /\ ctx[c] = "open" /\ ~dropped[c]

(* What a subscription thread takes out of the context is for the callback. *)
InHandWanted == \A s \in SubThreads : InHand[s] # <<>> => Wanted(InHand[s][1])

(* The inductive invariant of the delivery.                                 *)
DeliveryInv == /\ OneSubscription /\ Lifetimes /\ Buffers /\ OnlySubscriber /\ InHandWanted
               /\ g_sub_context # NULL => Stream

(* What every step of the library is to the application.                    *)
Promised == [Channel!Next]_(Channel!vars)

-----------------------------------------------------------------------------
(* What a thread may have in its hand: NoReply as long as it waits.         *)
Arrived == Reply \cup {NoReply}

(* The types of what the mapping is made of.                                *)
LEMMA DeliveryTypes ==
    ASSUME TypeInv
    PROVE  /\ io \in [Threads -> IO]
           /\ ctx \in [Contexts -> {"unused", "open", "err", "freed"}]
           /\ obuf \in [Contexts -> Seq(Command)]
           /\ reader \in [Contexts -> Seq(Arrived)]
           /\ sock \in [Contexts -> Seq(Arrived)]
           /\ subscribed \in [Contexts -> SUBSET Channels]
           /\ dropped \in [Contexts -> BOOLEAN]
           /\ \A t \in Threads : io[t].buf \in Seq(Arrived) /\ io[t].reply \in Arrived
           /\ \A s \in SubThreads : got[s] \in Arrived
           /\ g_sub_context # NULL => g_sub_context \in Contexts
           /\ g_context # NULL => g_context \in Contexts
           /\ NULL \notin Contexts
           /\ nmsg \in Nat
           /\ pc \in [Threads -> PCs] /\ loop \in [SubThreads -> Loops] /\ SubThreads \subseteq Threads
           /\ g_table \in Seq(Entry) /\ Len(g_table) \in Nat /\ nsub \in Nat
<1>1. \A q \in Seq(Reply) : q \in Seq(Arrived)
  BY SeqMonotonic DEF Arrived
<1>2. /\ io \in [Threads -> IO]
      /\ reader \in [Contexts -> Seq(Reply)]
      /\ sock \in [Contexts -> Seq(Reply)]
      /\ \A t \in Threads : io[t].buf \in Seq(Reply) /\ io[t].reply \in Arrived
  BY DEF TypeInv, TypeOK, HiredisTypeOK, IO, Arrived
<1>3. reader \in [Contexts -> Seq(Arrived)] /\ sock \in [Contexts -> Seq(Arrived)]
  BY <1>1, <1>2
<1>4. /\ g_sub_context # NULL => g_sub_context \in Contexts
      /\ g_context # NULL => g_context \in Contexts
      /\ NULL \notin Contexts
  BY ContextAssumption DEF TypeInv, TypeOK, Contexts, NULL
<1>5. Len(g_table) \in Nat
  BY LenProperties DEF TypeInv, TypeOK
<1> QED BY <1>1, <1>2, <1>3, <1>4, <1>5, PubSubAssumption DEF TypeInv, TypeOK, HiredisTypeOK, Arrived

(* When only t has something, that is what is held.                         *)
LEMMA HeldAt ==
    ASSUME NEW t \in Threads, NEW f, \A u \in Threads \ {t} : f[u] = <<>>
    PROVE  Held(f) = f[t]
<1>1. CASE f[t] = <<>>
  BY <1>1 DEF Held
<1>2. CASE f[t] # <<>>
  <2>1. (CHOOSE u \in Threads : f[u] # <<>>) = t
    BY <1>2
  <2> QED BY <1>2, <2>1 DEF Held
<1> QED BY <1>1, <1>2

(* When no thread has anything, nothing is held.                            *)
LEMMA HeldNone ==
    ASSUME NEW f, \A u \in Threads : f[u] = <<>> PROVE Held(f) = <<>>
BY DEF Held

(* What is held is what some thread has.                                    *)
LEMMA HeldType ==
    ASSUME NEW S, NEW f, \A t \in Threads : f[t] \in Seq(S) PROVE Held(f) \in Seq(S)
<1>1. CASE \E t \in Threads : f[t] # <<>>
  <2>1. (CHOOSE u \in Threads : f[u] # <<>>) \in Threads
    BY <1>1
  <2> QED BY <1>1, <2>1 DEF Held
<1>2. CASE ~\E t \in Threads : f[t] # <<>>
  BY <1>2, EmptySeq DEF Held
<1> QED BY <1>1, <1>2

(* At most one reply is in the hand of a thread.                            *)
LEMMA InHandMeans ==
    ASSUME NEW t \in Threads
    PROVE  InHand[t] = IF t \in SubThreads
                       THEN IF loop[t] = "reply" /\ io[t].at = "ok" THEN <<io[t].reply>>
                            ELSE IF loop[t] \in {"enter", "dispatch"} THEN <<got[t]>>
                            ELSE <<>>
                       ELSE <<>>
<1>1. CASE t \notin SubThreads
  BY <1>1 DEF InHand
<1>2. CASE t \in SubThreads /\ loop[t] = "reply" /\ io[t].at = "ok"
  BY <1>2 DEF InHand
<1>3. CASE t \in SubThreads /\ loop[t] \in {"enter", "dispatch"}
  BY <1>3 DEF InHand
<1>4. CASE t \in SubThreads /\ ~(loop[t] = "reply" /\ io[t].at = "ok") /\ loop[t] \notin {"enter", "dispatch"}
  BY <1>4 DEF InHand
<1> QED BY <1>1, <1>2, <1>3, <1>4

(* What is on its way to the callback is a sequence of replies.             *)
LEMMA FlowTypes ==
    ASSUME TypeInv
    PROVE  /\ \A t \in Threads : InHand[t] \in Seq(Arrived)
           /\ Held(InHand) \in Seq(Arrived)
           /\ Held(Received(g_sub_context)) \in Seq(Arrived)
           /\ InContext \in Seq(Arrived)
           /\ Held(InHand) \o InContext \in Seq(Arrived)
<1>1. \A x \in Arrived : <<x>> \in Seq(Arrived)
  OBVIOUS
<1>2. ASSUME NEW t \in Threads PROVE InHand[t] \in Seq(Arrived)
  <2>1. io[t].reply \in Arrived /\ (t \in SubThreads => got[t] \in Arrived)
    BY DeliveryTypes
  <2>2. InHand[t] \in {<<io[t].reply>>, <<>>} \/ (t \in SubThreads /\ InHand[t] = <<got[t]>>)
    BY InHandMeans
  <2> QED BY <1>1, <2>1, <2>2, EmptySeq
<1>3. \A t \in Threads : Received(g_sub_context)[t] \in Seq(Arrived)
  BY DeliveryTypes, EmptySeq DEF Received
<1>4. Held(InHand) \in Seq(Arrived) /\ Held(Received(g_sub_context)) \in Seq(Arrived)
  BY <1>2, <1>3, HeldType
<1>5. InContext \in Seq(Arrived)
  <2>1. CASE g_sub_context = NULL
    BY <2>1, EmptySeq DEF InContext
  <2>2. CASE g_sub_context # NULL
    <3>1. reader[g_sub_context] \in Seq(Arrived) /\ sock[g_sub_context] \in Seq(Arrived)
      BY <2>2, DeliveryTypes
    <3> QED BY <1>4, <2>2, <3>1, ConcatProperties DEF InContext
  <2> QED BY <2>1, <2>2
<1> QED BY <1>2, <1>4, <1>5, ConcatProperties

(* The three ways a step can be one of the channel.                         *)
LEMMA PendingType ==
    ASSUME TypeInv
    PROVE  /\ WithoutAnswer(Held(InHand) \o InContext) \in Seq(Arrived)
           /\ Pending \in Seq({Content(x) : x \in Arrived})
           /\ Len(Pending) = Len(WithoutAnswer(Held(InHand) \o InContext))
           /\ Len(Pending) \in Nat
<1>1. WithoutAnswer(Held(InHand) \o InContext) \in Seq(Arrived)
  BY FlowTypes, WithoutAnswerType
<1>2. /\ Pending \in Seq({Content(x) : x \in Arrived})
      /\ Len(Pending) = Len(WithoutAnswer(Held(InHand) \o InContext))
  BY <1>1, ContentsMeans DEF Pending
<1> QED BY <1>1, <1>2, LenProperties

(* A stutter: nothing pending or delivered changes.                         *)
LEMMA StillPromised ==
    ASSUME TypeInv, Pending' = Pending, UNCHANGED delivered, Cut => Cut'
    PROVE  Promised
<1>1. Contents(delivered)' = Contents(delivered)
  OBVIOUS
<1>2. CASE Cut' <=> Cut
  <2>1. UNCHANGED Channel!vars
    BY <1>1, <1>2 DEF Channel!vars, Cut
  <2> QED BY <2>1 DEF Promised
<1>3. CASE Cut' /\ ~Cut
  <2>1. Len(Pending) \in 0 .. Len(Pending) /\ Pending' = SubSeq(Pending, 1, Len(Pending))
    BY PendingType, SubSeqFull
  <2>2. Channel!LoseTail
    BY <1>1, <1>3, <2>1 DEF Channel!LoseTail, Cut
  <2> QED BY <2>2 DEF Promised, Channel!Next
<1> QED BY <1>2, <1>3

(* A loss: a tail of what is pending goes, and the connection with it.      *)
LEMMA LossPromised ==
    ASSUME TypeInv, Cut', UNCHANGED delivered,
           NEW k \in 0 .. Len(Held(InHand) \o InContext),
           Held(InHand)' \o InContext' = SubSeq(Held(InHand) \o InContext, 1, k)
    PROVE  Promised
<1> DEFINE q == Held(InHand) \o InContext
<1>1. q \in Seq(Arrived) /\ WithoutAnswer(q) \in Seq(Arrived)
  BY FlowTypes, PendingType
<1>2. PICK j \in 0 .. Len(WithoutAnswer(q)) : WithoutAnswer(SubSeq(q, 1, k)) = SubSeq(WithoutAnswer(q), 1, j)
  <2> HIDE DEF q
  <2> QED BY <1>1, TailIsLost DEF q
<1>3. Contents(SubSeq(WithoutAnswer(q), 1, j)) = SubSeq(Contents(WithoutAnswer(q)), 1, j)
  BY <1>1, ContentsOfPrefix
<1>4. Pending' = SubSeq(Pending, 1, j) /\ j \in 0 .. Len(Pending)
  BY <1>2, <1>3, PendingType DEF Pending
<1>5. Channel!LoseTail
  BY <1>4 DEF Channel!LoseTail, Cut
<1> QED BY <1>5 DEF Promised, Channel!Next

(* An arrival: one more message is pending.                                 *)
LEMMA ArrivalPromised ==
    ASSUME TypeInv, ~Cut, ~Cut', UNCHANGED delivered,
           NEW m \in Reply, IsMessage(m), m.channel \in Channels,
           Held(InHand)' \o InContext' = Append(Held(InHand) \o InContext, m)
    PROVE  Promised
<1> DEFINE q == Held(InHand) \o InContext
           T == {Content(x) : x \in Arrived}
<1>1. q \in Seq(Arrived) /\ WithoutAnswer(q) \in Seq(Arrived) /\ m \in Arrived
  BY FlowTypes, PendingType DEF Arrived
<1>2. WithoutAnswer(Append(q, m)) = Append(WithoutAnswer(q), m)
  BY <1>1, MessageArrives
<1>3. Contents(Append(WithoutAnswer(q), m)) = Append(Contents(WithoutAnswer(q)), Content(m))
  BY <1>1, ContentsOfAppend
<1>4. Pending' = Append(Pending, Content(m))
  BY <1>2, <1>3 DEF Pending
<1>5. /\ Pending \in Seq(T) /\ Content(m) \in T
      /\ Len(Pending) \in Nat
  BY <1>1, PendingType
<1>6. Len(Pending') = Len(Pending) + 1 /\ Pending'[Len(Pending')] = Content(m)
  <2> HIDE DEF T
  <2> QED BY <1>4, <1>5, AppendProperties
<1>7. Content(m) \in [channel : Channels, n : Nat]
  BY DEF Content, Reply
<1>8. Channel!Arrive
  BY <1>4, <1>6, <1>7 DEF Channel!Arrive, Cut
<1> QED BY <1>8 DEF Promised, Channel!Next

(* A connection that is gone stays gone while nothing of it changes.        *)
LEMMA CutStays ==
    ASSUME TypeInv, UNCHANGED g_sub_context,
           \A c \in Contexts : /\ ctx[c] = "freed" => ctx'[c] = "freed"
                               /\ ctx[c] = "err" => ctx'[c] \in {"err", "freed"}
                               /\ dropped[c] => dropped'[c]
    PROVE  Cut => Cut'
<1>1. g_sub_context # NULL => g_sub_context \in Contexts
  BY DeliveryTypes
<1> QED BY <1>1 DEF Cut, Contexts

(* Nothing changes on the way to the callback.                              *)
LEMMA NothingMoves ==
    ASSUME TypeInv, UNCHANGED delivered, Cut => Cut',
           Held(InHand)' = Held(InHand), InContext' = InContext
    PROVE  Promised
BY StillPromised DEF Pending

(* The context holds the same when its parts do.                            *)
LEMMA SameInContext ==
    ASSUME UNCHANGED g_sub_context,
           g_sub_context # NULL => UNCHANGED <<reader[g_sub_context], sock[g_sub_context]>>,
           \A u \in Threads : Received(g_sub_context)'[u] = Received(g_sub_context)[u]
    PROVE  InContext' = InContext
<1>1. Received(g_sub_context)' = Received(g_sub_context)
  BY DEF Received
<1> QED BY <1>1 DEF InContext

(* The hands hold the same when the state of the loops does.                *)
LEMMA SameInHand ==
    ASSUME \A u \in Threads : InHand'[u] = InHand[u]
    PROVE  Held(InHand)' = Held(InHand)
<1>1. InHand' = InHand
  BY DEF InHand
<1> QED BY <1>1

(* Only one thread is on the subscribing connection, or has a message.      *)
LEMMA OnConnection ==
    ASSUME TypeInv, TableInv, PipeInv, DeliveryInv, NEW t \in Threads,
           io[t].at # "none", io[t].on = g_sub_context
    PROVE  /\ g_sub_context # NULL /\ g_sub_context \in Contexts
           /\ \/ pc[t] = "subscribe_reply" /\ ~Started
              \/ t \in SubThreads /\ loop[t] = "reply" /\ Started /\ pc[t] = "idle"
                 /\ \A u \in Threads : pc[u] # "subscribe_reply"
           /\ \A u \in Threads \ {t} : io[u].at # "none" => io[u].on # g_sub_context
           /\ \A u \in Threads \ {t} : Received(g_sub_context)[u] = <<>> /\ InHand[u] = <<>>
           /\ Held(Received(g_sub_context)) = io[t].buf
           /\ Held(InHand) = InHand[t]
<1>0. SubThreads \subseteq Threads /\ NULL \notin Contexts
  BY DeliveryTypes
<1>1. g_sub_context \in Contexts /\ g_sub_context # NULL
  BY <1>0 DEF TypeInv, IOTarget
<1>2. g_context # NULL /\ g_context # g_sub_context
  BY <1>1 DEF DeliveryInv, Lifetimes, PipeInv, ContextsApart
<1>3. ASSUME NEW u \in Threads, io[u].at # "none", io[u].on = g_sub_context
      PROVE  \/ pc[u] = "subscribe_reply" /\ ~Started
             \/ u \in SubThreads /\ loop[u] = "reply" /\ Started /\ pc[u] = "idle"
  <2>1. pc[u] # "publish_reply"
    BY <1>2, <1>3 DEF PipeInv, OnlyPublishes
  <2>2. pc[u] = "subscribe_reply" \/ (u \in SubThreads /\ loop[u] = "reply")
    BY <1>3, <2>1 DEF PipeInv, BusyWhere, ReplyPC
  <2>3. pc[u] = "subscribe_reply" => ~Started
    BY DEF DeliveryInv, OneSubscription, SubscribePC
  <2>4. u \in SubThreads /\ loop[u] = "reply" => Started /\ pc[u] = "idle"
    BY DEF Started, PipeInv, BusyWhere
  <2> QED BY <2>2, <2>3, <2>4
<1>4. ASSUME NEW u \in Threads, NEW v \in Threads, pc[u] = "subscribe_reply", pc[v] = "subscribe_reply"
      PROVE  u = v
  BY <1>4 DEF DeliveryInv, OneSubscription, SubscribePC
<1>5. \A u, v \in SubThreads : loop[u] # "none" /\ loop[v] # "none" => u = v
  BY DEF TableInv, OneThread
<1>6. Started => \A u \in Threads : pc[u] # "subscribe_reply"
  BY DEF DeliveryInv, OneSubscription, SubscribePC
<1>7. \A u \in Threads \ {t} : io[u].at # "none" => io[u].on # g_sub_context
  BY <1>3, <1>4, <1>5
<1>8. \A u \in Threads \ {t} : Received(g_sub_context)[u] = <<>>
  BY <1>7 DEF Received, DeliveryInv, Buffers
<1>9. \A u \in Threads \ {t} : InHand[u] = <<>>
  <2>1. SUFFICES ASSUME NEW u \in Threads \ {t}, u \in SubThreads PROVE loop[u] = "none"
    BY InHandMeans
  <2> QED BY <1>3, <1>5, <2>1 DEF Started
<1>10. Held(Received(g_sub_context)) = Received(g_sub_context)[t] /\ Held(InHand) = InHand[t]
  BY <1>8, <1>9, HeldAt
<1>11. Received(g_sub_context)[t] = io[t].buf
  BY DEF Received
<1> QED BY <1>1, <1>3, <1>6, <1>7, <1>8, <1>9, <1>10, <1>11

(* Only the thread that runs can have a message in its hand.                *)
LEMMA HandOf ==
    ASSUME TypeInv, TableInv, NEW s \in SubThreads, loop[s] # "none"
    PROVE  Held(InHand) = InHand[s] /\ \A u \in Threads \ {s} : InHand[u] = <<>>
<1>1. s \in Threads /\ \A u \in SubThreads : loop[u] # "none" => u = s
  BY SubsAreThreads DEF TableInv, OneThread
<1>2. ASSUME NEW u \in Threads \ {s} PROVE InHand[u] = <<>>
  <2>1. u \in SubThreads => loop[u] = "none"
    BY <1>1
  <2> QED BY <2>1, InHandMeans
<1> QED BY <1>1, <1>2, HeldAt

(* Before a subscription thread is started no message is in hand.           *)
LEMMA HandEmpty ==
    ASSUME ~Started PROVE Held(InHand) = <<>> /\ \A u \in Threads : InHand[u] = <<>>
<1>1. ASSUME NEW u \in Threads PROVE InHand[u] = <<>>
  <2>1. u \in SubThreads => loop[u] = "none"
    BY DEF Started
  <2> QED BY <2>1, InHandMeans
<1> QED BY <1>1, HeldNone

(* The invariant of the connection, when nothing of it changes.             *)
LEMMA RestKept ==
    ASSUME TypeInv, DeliveryInv, UNCHANGED <<hiredisVars, g_context, g_sub_context>>,
           g_table' = g_table \/ (g_table' = <<>> /\ \A u \in Threads : pc[u] # "subscribe_reply"),
           lockState' = "raw" => lockState = "raw",
           \A u \in Threads : pc'[u] = "subscribe_reply" <=> pc[u] = "subscribe_reply",
           \A u \in Threads : pc'[u] \in {"init_pub", "init_sub"} => pc[u] = pc'[u] \/ (lockState = "raw" /\ pc'[u] = "init_pub"),
           \A s \in SubThreads : loop'[s] = "none" <=> loop[s] = "none",
           \A s \in SubThreads : loop'[s] = "reply" => loop[s] = "reply",
           \A s \in SubThreads : InHand'[s] \in {InHand[s], <<>>}
    PROVE  /\ Lifetimes' /\ Buffers' /\ OnlySubscriber' /\ InHandWanted'
           /\ g_sub_context' # NULL => Stream'
           /\ InContext' = InContext
<1>1. UNCHANGED <<ctx, obuf, reader, sock, dropped, subscribed, io>>
  BY DEF hiredisVars
<1>2. Started' <=> Started
  BY DEF Started
<1>3. InContext' = InContext
  <2>1. \A u \in Threads : Received(g_sub_context)'[u] = Received(g_sub_context)[u]
    BY <1>1 DEF Received
  <2> QED BY <1>1, <2>1, SameInContext
<1>4. Lifetimes'
  BY <1>1, <1>2 DEF DeliveryInv, Lifetimes, Contexts
<1>5. Buffers'
  BY <1>1 DEF DeliveryInv, Buffers
<1>6. OnlySubscriber'
  BY <1>1 DEF DeliveryInv, OnlySubscriber, Contexts
<1>7. \A r : Wanted(r) => Wanted(r)'
  BY DEF Wanted
<1>8. InHandWanted'
  BY <1>7 DEF DeliveryInv, InHandWanted
<1>9. ASSUME g_sub_context # NULL PROVE Stream'
  <2>0. Stream
    BY <1>9 DEF DeliveryInv
  <2>1. (Answered' <=> Answered) /\ \A t \in Threads : Awaits(t)' <=> Awaits(t)
    BY <1>1, <1>2 DEF Answered, Awaits
  <2>2. Unserved => Unserved'
    BY <1>1, <1>3 DEF Unserved
  <2>3. g_table' # <<>> => g_table' = g_table
    OBVIOUS
  <2> QED BY <1>1, <1>3, <1>7, <2>0, <2>1, <2>2, <2>3 DEF Stream
<1> QED BY <1>3, <1>4, <1>5, <1>6, <1>8, <1>9

(* OneSubscription, when no thread moves into the subscribing call.         *)
LEMMA OneSubscriptionKept ==
    ASSUME TypeInv, DeliveryInv, UNCHANGED <<hiredisVars, g_sub_context, nsub>>,
           g_table' \in {g_table, <<>>},
           \A u \in Threads : pc'[u] \in SubscribePC => pc[u] \in SubscribePC,
           \A u \in Threads : pc'[u] \in UnsentPC => pc[u] \in UnsentPC,
           \A u \in Threads : pc[u] = "subscribe_command" => pc'[u] = "subscribe_command",
           \A s \in SubThreads : loop'[s] = "none" <=> loop[s] = "none"
    PROVE  OneSubscription'
<1>1. UNCHANGED <<ctx, obuf, reader, sock, dropped, subscribed, io>>
  BY DEF hiredisVars
<1>2. (Started' <=> Started) /\ (Unsent' => Unsent)
  BY DEF Started, Unsent
<1>3. Len(g_table') <= 1
  BY EmptySeq DEF DeliveryInv, OneSubscription
<1> QED BY <1>1, <1>2, <1>3 DEF DeliveryInv, OneSubscription, Quiet, Contexts

(* DeliveryInv and the promise, when the connections are left alone.        *)
LEMMA DeliveryKept ==
    ASSUME TypeInv, DeliveryInv, UNCHANGED <<hiredisVars, g_context, g_sub_context, nsub, delivered>>,
           g_table' = g_table \/ (g_table' = <<>> /\ \A u \in Threads : pc[u] # "subscribe_reply"),
           lockState' = "raw" => lockState = "raw",
           \A u \in Threads : pc'[u] = "subscribe_reply" <=> pc[u] = "subscribe_reply",
           \A u \in Threads : pc'[u] \in UnsentPC => pc[u] \in UnsentPC,
           \A u \in Threads : pc[u] = "subscribe_command" => pc'[u] = "subscribe_command",
           \A u \in Threads : pc'[u] \in {"init_pub", "init_sub"} => pc[u] = pc'[u] \/ (lockState = "raw" /\ pc'[u] = "init_pub"),
           \A s \in SubThreads : loop'[s] = "none" <=> loop[s] = "none",
           \A s \in SubThreads : loop'[s] = "reply" => loop[s] = "reply",
           \A s \in Threads : InHand'[s] = InHand[s]
    PROVE  DeliveryInv' /\ Promised
<1>0. SubThreads \subseteq Threads
  BY PubSubAssumption
<1>1. /\ Lifetimes' /\ Buffers' /\ OnlySubscriber' /\ InHandWanted'
      /\ g_sub_context' # NULL => Stream'
      /\ InContext' = InContext
  BY <1>0, RestKept
<1>2. OneSubscription'
  BY OneSubscriptionKept DEF SubscribePC, UnsentPC
<1>3. Held(InHand)' = Held(InHand)
  BY SameInHand
<1>4. Cut => Cut'
  BY CutStays DEF hiredisVars
<1> QED BY <1>1, <1>2, <1>3, <1>4, NothingMoves DEF DeliveryInv

(* A step of one loop that neither takes nor gives a message.               *)
LEMMA SameHands ==
    ASSUME UNCHANGED <<io, got>>,
           \A s \in SubThreads : \/ loop'[s] = loop[s]
                                 \/ loop[s] \notin {"reply", "enter", "dispatch"} /\ loop'[s] \notin {"reply", "enter", "dispatch"}
                                 \/ loop[s] = "enter" /\ loop'[s] = "dispatch"
    PROVE  \A u \in Threads : InHand'[u] = InHand[u]
<1> SUFFICES ASSUME NEW u \in Threads PROVE InHand'[u] = InHand[u]
  OBVIOUS
<1>1. CASE u \notin SubThreads
  BY <1>1, InHandMeans DEF InHand
<1>2. CASE u \in SubThreads /\ loop'[u] = loop[u]
  BY <1>2, InHandMeans DEF InHand
<1>3. CASE u \in SubThreads /\ loop'[u] # loop[u]
  BY <1>3, InHandMeans DEF InHand
<1> QED BY <1>1, <1>2, <1>3

-----------------------------------------------------------------------------
(* A step of a call outside of the subscribing one.                         *)
LEMMA CallKept ==
    ASSUME TypeInv, DeliveryInv, UNCHANGED <<hiredisVars, g_context, g_sub_context, nsub, delivered, loop, got>>,
           NEW t \in Threads, NEW label, Goto(t, label),
           g_table' = g_table \/ (g_table' = <<>> /\ \A u \in Threads : pc[u] # "subscribe_reply"),
           lockState' = "raw" => lockState = "raw",
           pc[t] # "subscribe_reply", label # "subscribe_reply",
           pc[t] # "subscribe_command", label \in UnsentPC => pc[t] \in UnsentPC,
           label # "init_sub", label = "init_pub" => lockState = "raw"
    PROVE  DeliveryInv' /\ Promised
<1>1. \A u \in Threads : pc'[u] = IF u = t THEN label ELSE pc[u]
  BY DeliveryTypes DEF Goto
<1>2. \A u \in Threads : InHand'[u] = InHand[u]
  BY SameHands DEF hiredisVars
<1> QED BY <1>1, <1>2, DeliveryKept DEF UnsentPC

(* A call of the library begins.                                            *)
LEMMA DeliveryCall ==
    ASSUME ~Reinit, MaxSubscribes = 1, TypeInv, LockInv, TableInv, PipeInv, DeliveryInv,
           NEW t \in Threads, Call(t)
    PROVE  DeliveryInv' /\ Promised
<1>1. CASE InitCall(t)
  <2>1. /\ pc[t] = "idle" /\ Goto(t, "init_pub") /\ lockState = "raw" /\ lockState' = "ready"
        /\ UNCHANGED <<hiredisVars, globals, nsub, delivered, loopVars>>
    BY <1>1 DEF InitCall, MayCall
  <2> QED BY <2>1, CallKept DEF globals, loopVars, UnsentPC
<1>2. CASE CloseCall(t)
  <2>1. /\ pc[t] = "idle" /\ Goto(t, "close_enter")
        /\ UNCHANGED <<hiredisVars, globals, lockVars, nsub, delivered, loopVars>>
    BY <1>2 DEF CloseCall, MayCall
  <2> QED BY <2>1, CallKept DEF globals, loopVars, lockVars, UnsentPC
<1>3. CASE ProcessCall(t)
  <2>1. /\ pc[t] = "idle" /\ Goto(t, "idle")
        /\ UNCHANGED <<hiredisVars, globals, lockVars, nsub, delivered, loopVars>>
    BY <1>3 DEF ProcessCall, MayCall, Return
  <2> QED BY <2>1, CallKept DEF globals, loopVars, lockVars, UnsentPC
<1>4. ASSUME NEW ch \in Channels, PublishCall(t, ch) PROVE DeliveryInv' /\ Promised
  <2>1. /\ pc[t] = "idle" /\ (Goto(t, "idle") \/ Goto(t, "publish_enter"))
        /\ UNCHANGED <<hiredisVars, globals, lockVars, nsub, delivered, loopVars>>
    BY <1>4 DEF PublishCall, MayCall, Return, Start
  <2> QED BY <2>1, CallKept DEF globals, loopVars, lockVars, UnsentPC
<1>5. ASSUME NEW ch \in Channels, NEW cb \in Callbacks, SubscribeCall(t, ch, cb)
      PROVE  DeliveryInv' /\ Promised
  <2>1. /\ pc[t] = "idle" /\ nsub' = nsub + 1
        /\ nsub = 0
        /\ UNCHANGED <<hiredisVars, globals, lockVars, delivered, loopVars>>
    BY <1>5, DeliveryTypes DEF SubscribeCall, MayCall
  <2>2. PICK label \in {"idle", "subscribe_enter"} : Goto(t, label)
    BY <1>5 DEF SubscribeCall, Return, Start
  <2>3. \A u \in Threads : pc'[u] = IF u = t THEN label ELSE pc[u]
    BY <2>2, DeliveryTypes DEF Goto
  <2>4. \A u \in Threads : InHand'[u] = InHand[u]
    BY <2>1, SameHands DEF hiredisVars, loopVars
  <2>5. SubThreads \subseteq Threads
    BY PubSubAssumption
  <2>6. /\ Lifetimes' /\ Buffers' /\ OnlySubscriber' /\ InHandWanted'
        /\ g_sub_context' # NULL => Stream'
        /\ InContext' = InContext
    BY <2>1, <2>3, <2>4, <2>5, RestKept DEF globals, lockVars, loopVars
  <2>7. OneSubscription'
    <3>1. Unsent /\ \A u \in Threads : pc[u] \notin SubscribePC
      BY <2>1 DEF Unsent, DeliveryInv, OneSubscription
    <3>2. UNCHANGED <<g_table, g_sub_context, obuf, reader, sock, subscribed, loop>> /\ nsub' = 1
      BY <2>1 DEF globals, hiredisVars, loopVars
    <3>3. Started' <=> Started
      BY <3>2 DEF Started
    <3>4. \A u, v \in Threads : pc'[u] \in SubscribePC /\ pc'[v] \in SubscribePC => u = v
      BY <2>3, <3>1 DEF SubscribePC
    <3>5. g_table = <<>>
      BY <3>1 DEF DeliveryInv, OneSubscription, SubscribePC
    <3> QED BY <3>1, <3>2, <3>3, <3>4, <3>5 DEF DeliveryInv, OneSubscription, Quiet, Contexts
  <2>8. Held(InHand)' = Held(InHand)
    BY <2>4, SameInHand
  <2>9. Cut => Cut'
    BY <2>1, CutStays DEF hiredisVars, globals
  <2> QED BY <2>1, <2>6, <2>7, <2>8, <2>9, NothingMoves DEF DeliveryInv
<1> QED BY <1>1, <1>2, <1>3, <1>4, <1>5 DEF Call

(* The steps of a call that leave the connections alone.                    *)
LEMMA DeliveryLockSteps ==
    ASSUME TypeInv, LockInv, TableInv, PipeInv, DeliveryInv, NEW t \in Threads,
           \/ InitDone(t) \/ CloseEnter(t) \/ CloseLeave(t) \/ CloseDelete(t)
           \/ PublishEnter(t) \/ PublishLeave(t) \/ SubscribeEnter(t) \/ SubscribeLeave(t)
    PROVE  DeliveryInv' /\ Promised
<1>0. pc[t] # "idle" /\ lockState # "raw"
  BY DEF LockInv, RawIdle, InitDone, CloseEnter, CloseLeave, CloseDelete,
         PublishEnter, PublishLeave, SubscribeEnter, SubscribeLeave
<1>1. lockState' # "raw"
  BY <1>0 DEF InitDone, CloseEnter, CloseLeave, CloseDelete,
         PublishEnter, PublishLeave, SubscribeEnter, SubscribeLeave, Enter, Leave, lockVars
<1>2. UNCHANGED <<hiredisVars, g_context, g_sub_context, nsub, delivered, loop, got>>
  BY DEF InitDone, CloseEnter, CloseLeave, CloseDelete,
         PublishEnter, PublishLeave, SubscribeEnter, SubscribeLeave, globals, loopVars
<1>3. PICK label : /\ Goto(t, label)
                   /\ label \in {"idle", "close_body", "close_delete", "publish_command", "subscribe_store"}
                   /\ label = "subscribe_store" => pc[t] = "subscribe_enter"
  BY DEF InitDone, CloseEnter, CloseLeave, CloseDelete,
         PublishEnter, PublishLeave, SubscribeEnter, SubscribeLeave, Return
<1>4. pc[t] \notin {"subscribe_reply", "subscribe_command"}
  BY DEF InitDone, CloseEnter, CloseLeave, CloseDelete,
         PublishEnter, PublishLeave, SubscribeEnter, SubscribeLeave
<1>5. g_table' = g_table \/ (g_table' = <<>> /\ \A u \in Threads : pc[u] # "subscribe_reply")
  <2>1. CASE InitDone(t)
    BY <2>1 DEF InitDone, TableInv, InitAlone, InitPC
  <2>2. CASE ~InitDone(t)
    BY <2>2 DEF CloseEnter, CloseLeave, CloseDelete,
         PublishEnter, PublishLeave, SubscribeEnter, SubscribeLeave, globals
  <2> QED BY <2>1, <2>2
<1> QED BY <1>0, <1>1, <1>2, <1>3, <1>4, <1>5, CallKept DEF UnsentPC

(* redis_init.                                                              *)
LEMMA DeliveryInitSteps ==
    ASSUME TypeInv, LockInv, TableInv, PipeInv, DeliveryInv, NEW t \in Threads,
           InitPub(t) \/ InitSub(t)
    PROVE  DeliveryInv' /\ Promised
<1>0. pc[t] \in {"init_pub", "init_sub"} /\ NULL \notin Contexts /\ SubThreads \subseteq Threads
  BY DeliveryTypes DEF InitPub, InitSub
<1>1. /\ \A u \in Threads \ {t} : pc[u] = "idle"
      /\ \A s \in SubThreads : loop[s] = "none"
      /\ lockState = "ready"
  BY <1>0 DEF TableInv, InitAlone, InitPC
<1>2. g_sub_context = NULL /\ (pc[t] = "init_pub" => g_context = NULL)
  BY <1>0 DEF PipeInv, ContextsApart
<1>3. /\ UNCHANGED <<io, dropped, loop, got, g_table, lockState, nsub, delivered>>
      /\ \A c \in Contexts : ctx[c] # "freed"
      /\ \A c \in Contexts : subscribed[c] = {}
  <2>1. UNCHANGED <<io, dropped, loop, got, g_table, lockState, nsub, delivered>>
    BY DEF InitPub, InitSub, ConnectOK, FreeContexts, serverVars, loopVars, lockVars
  <2> QED BY <1>0, <1>2, <2>1 DEF DeliveryInv, Lifetimes, OnlySubscriber
<1>4. PICK label \in {"idle", "init_sub", "init_done"} : \A u \in Threads : pc'[u] = IF u = t THEN label ELSE pc[u]
  BY DeliveryTypes DEF InitPub, InitSub, Return, Goto
<1>5. \A u \in Threads : pc'[u] \notin SubscribePC /\ pc[u] \notin SubscribePC
  BY <1>0, <1>1, <1>4 DEF SubscribePC
<1>6. ~Started /\ ~Started' /\ (Unsent' => Unsent)
  BY <1>1, <1>3, <1>5 DEF Started, Unsent, UnsentPC, SubscribePC
<1>7. \A u \in Threads : io[u].at = "none" /\ io[u].buf = <<>>
  BY <1>0, <1>1 DEF PipeInv, BusyWhere, ReplyPC, DeliveryInv, Buffers
(* What is there of the connections after the step.                         *)
<1>8. /\ \A c \in Contexts : subscribed'[c] = {}
      /\ g_sub_context' # NULL => /\ Quiet(g_sub_context)' /\ g_sub_context' \in Contexts /\ g_context' # NULL
      /\ \A c \in Contexts : ctx'[c] = "open" => c \in {g_context', g_sub_context'}
      /\ g_sub_context' # NULL /\ ctx'[g_sub_context'] # "freed" => \A c \in Contexts : ctx'[c] # "freed"
      /\ label = "init_sub" => g_context' # NULL /\ \A c \in Contexts : ctx'[c] # "freed"
  <2>0. /\ ctx \in [Contexts -> {"unused", "open", "err", "freed"}] /\ Lifetimes /\ UnusedUntouched
        /\ subscribed \in [Contexts -> SUBSET Channels]
        /\ obuf \in [Contexts -> Seq(Command)] /\ reader \in [Contexts -> Seq(Arrived)]
        /\ sock \in [Contexts -> Seq(Arrived)]
    BY DeliveryTypes DEF DeliveryInv, PipeInv
  <2>1. ASSUME NEW c \in Contexts, Fresh(c), ConnectOK(c), InitPub(t), g_context' = c
        PROVE  <1>8!1 /\ <1>8!2 /\ <1>8!3 /\ <1>8!4 /\ <1>8!5
    BY <1>0, <1>2, <1>3, <2>0, <2>1 DEF InitPub, ConnectOK, serverVars, Lifetimes
  <2>2. ASSUME NEW c \in {NULL} \cup {d \in Contexts : Fresh(d)}, FreeContexts({c}), InitPub(t), g_context' = c, Return(t, -1)
        PROVE  <1>8!1 /\ <1>8!2 /\ <1>8!3 /\ <1>8!4 /\ <1>8!5
    <3>1. label # "init_sub"
      BY <1>4, <2>2, DeliveryTypes DEF Return, Goto
    <3> QED BY <1>0, <1>2, <1>3, <2>0, <2>2, <3>1 DEF InitPub, FreeContexts, Lifetimes
  <2>3. ASSUME NEW c \in Contexts, Fresh(c), ConnectOK(c), InitSub(t), g_sub_context' = c
        PROVE  <1>8!1 /\ <1>8!2 /\ <1>8!3 /\ <1>8!4 /\ <1>8!5
    <3>1. Quiet(c) /\ ctx[c] = "unused"
      BY <2>0, <2>3 DEF UnusedUntouched, Fresh
    <3>2. Quiet(c)'
      BY <2>3, <3>1 DEF Quiet, ConnectOK, serverVars
    <3>3. g_context # NULL /\ g_context' = g_context
      BY <2>0, <2>3 DEF Lifetimes, InitSub
    <3>4. label # "init_sub"
      BY <1>4, <2>3, DeliveryTypes DEF InitSub, Goto, Return
    <3> QED BY <1>0, <1>2, <1>3, <2>0, <2>3, <3>2, <3>3, <3>4 DEF InitSub, ConnectOK, serverVars, Lifetimes
  <2>4. ASSUME NEW c \in {NULL} \cup {d \in Contexts : Fresh(d)}, FreeContexts({c, g_context}), InitSub(t), g_sub_context' = c
        PROVE  <1>8!1 /\ <1>8!2 /\ <1>8!3 /\ <1>8!4 /\ <1>8!5
    <3>1. label # "init_sub"
      BY <1>4, <2>4, DeliveryTypes DEF InitSub, Goto, Return
    <3>2. g_context # NULL /\ g_context' = g_context
      BY <2>0, <2>4 DEF Lifetimes, InitSub
    <3>3. \A d \in Contexts : /\ ctx'[d] = IF d \in {c, g_context} THEN "freed" ELSE ctx[d]
                              /\ obuf'[d] = IF d \in {c, g_context} THEN <<>> ELSE obuf[d]
                              /\ reader'[d] = IF d \in {c, g_context} THEN <<>> ELSE reader[d]
                              /\ sock'[d] = IF d \in {c, g_context} THEN <<>> ELSE sock[d]
                              /\ subscribed'[d] = IF d \in {c, g_context} THEN {} ELSE subscribed[d]
      BY <2>0, <2>4 DEF FreeContexts
    <3>4. c # NULL => Quiet(c)' /\ ctx'[c] = "freed" /\ c \in Contexts
      BY <1>0, <2>4, <3>3 DEF Quiet
    <3> QED BY <1>0, <1>2, <1>3, <2>0, <2>4, <3>1, <3>2, <3>3, <3>4 DEF Lifetimes
  <2> QED BY <2>1, <2>2, <2>3, <2>4 DEF InitPub, InitSub
<1>9. /\ \A u \in Threads : io'[u].at = "none" /\ io'[u].buf = <<>> /\ pc'[u] # "subscribe_reply"
      /\ \A s \in SubThreads : loop'[s] = "none"
      /\ \A u \in Threads : InHand[u] = <<>> /\ InHand'[u] = <<>>
      /\ \A u \in Threads : Received(g_sub_context)'[u] = <<>>
  <2>1. \A u \in Threads : io'[u].at = "none" /\ io'[u].buf = <<>> /\ pc'[u] # "subscribe_reply"
    BY <1>3, <1>5, <1>7 DEF SubscribePC
  <2>2. \A s \in SubThreads : loop'[s] = "none"
    BY <1>1, <1>3
  <2>3. \A u \in Threads : InHand[u] = <<>>
    BY <1>6, HandEmpty
  <2>4. \A u \in Threads : InHand'[u] = <<>>
    BY <2>2 DEF InHand
  <2> QED BY <2>1, <2>2, <2>3, <2>4 DEF Received
<1>10. OneSubscription'
  <2>1. Unsent => g_table = <<>>
    BY <1>5 DEF DeliveryInv, OneSubscription, SubscribePC
  <2> QED BY <1>3, <1>5, <1>6, <1>8, <2>1 DEF DeliveryInv, OneSubscription
<1>11. Lifetimes'
  BY <1>0, <1>1, <1>3, <1>4, <1>6, <1>8 DEF Lifetimes
<1>12. Buffers' /\ OnlySubscriber' /\ InHandWanted'
  BY <1>0, <1>8, <1>9 DEF Buffers, OnlySubscriber, InHandWanted
<1>13. InContext' = <<>> /\ InContext = <<>> /\ Held(InHand)' = Held(InHand)
  <2>1. InContext = <<>>
    BY <1>2 DEF InContext
  <2>2. Held(Received(g_sub_context))' = <<>>
    BY <1>9 DEF Held
  <2>3. InContext' = <<>>
    <3>1. <<>> \o <<>> \o <<>> = <<>>
      OBVIOUS
    <3> QED BY <1>8, <2>2, <3>1 DEF InContext, Quiet
  <2> QED BY <1>9, <2>1, <2>3, SameInHand
<1>14. g_sub_context' # NULL => Stream'
  <2>1. Len(<<>>) = 0
    OBVIOUS
  <2> QED BY <1>8, <1>9, <1>13, <2>1 DEF Stream, Awaits, Quiet
<1>15. Cut => Cut'
  BY <1>2, <1>3 DEF Cut
<1> QED BY <1>3, <1>10, <1>11, <1>12, <1>13, <1>14, <1>15, NothingMoves DEF DeliveryInv

(* A context that is freed takes all that is pending in it.                 *)
LEMMA ConnectionLost ==
    ASSUME TypeInv, Cut', UNCHANGED delivered, Held(InHand)' = Held(InHand), InContext' = <<>>
    PROVE  Promised
<1> DEFINE p == Held(InHand)
<1>1. p \in Seq(Arrived) /\ InContext \in Seq(Arrived) /\ Len(p) \in Nat /\ Len(InContext) \in Nat
  BY FlowTypes, LenProperties
<1>2. SubSeq(InContext, 1, 0) = <<>> /\ 0 \in 0 .. Len(InContext)
  BY <1>1, SubSeqEmpty
<1>3. /\ Len(p) + 0 \in 0 .. Len(p \o InContext)
      /\ p \o SubSeq(InContext, 1, 0) = SubSeq(p \o InContext, 1, Len(p) + 0)
  BY <1>1, <1>2, PrefixBehind
<1> QED BY <1>2, <1>3, LossPromised

(* redis_close takes what the context holds, not what is in a callback's    *)
(* thread already.                                                          *)
LEMMA DeliveryClose ==
    ASSUME TypeInv, LockInv, TableInv, PipeInv, DeliveryInv, NEW t \in Threads, CloseBody(t)
    PROVE  DeliveryInv' /\ Promised
<1>0. /\ NULL \notin Contexts /\ SubThreads \subseteq Threads
      /\ g_sub_context # NULL => g_sub_context \in Contexts
      /\ ctx \in [Contexts -> {"unused", "open", "err", "freed"}]
      /\ subscribed \in [Contexts -> SUBSET Channels]
  BY DeliveryTypes
<1>1. /\ pc[t] = "close_body" /\ g_table' = <<>> /\ g_sub_context' = NULL /\ g_context' = NULL
      /\ UNCHANGED <<io, dropped, loop, got, lockState, nsub, delivered>>
      /\ \A c \in Contexts : /\ ctx'[c] = IF c \in {g_sub_context, g_context} THEN "freed" ELSE ctx[c]
                             /\ subscribed'[c] = IF c \in {g_sub_context, g_context} THEN {} ELSE subscribed[c]
  BY DEF CloseBody, FreeContexts, lockVars, loopVars
<1>2. \A u \in Threads : pc'[u] = IF u = t THEN "close_leave" ELSE pc[u]
  BY DeliveryTypes DEF CloseBody, Goto
<1>3. lockState # "raw" /\ \A u \in Threads : pc[u] \notin InitPC
  BY <1>1 DEF LockInv, RawIdle, TableInv, InitAlone, InitPC
<1>4. \A u \in Threads : pc[u] # "subscribe_reply"
  <2>1. CASE lockState = "dead"
    BY <2>1 DEF TableInv, NothingAfterClose, Closed
  <2>2. CASE lockState # "dead"
    <3>1. Critical(t)
      BY <1>1 DEF Critical, CriticalPC
    <3>2. \A u \in Threads \ {t} : ~Critical(u)
      BY <2>2, <3>1, OthersOutside
    <3> QED BY <1>1, <3>2 DEF Critical, CriticalPC
  <2> QED BY <2>1, <2>2
<1>5. (Started' <=> Started) /\ (Unsent' => Unsent)
  BY <1>1, <1>2 DEF Started, Unsent, UnsentPC
<1>6. \A u \in Threads : InHand'[u] = InHand[u]
  BY <1>1 DEF InHand
<1>7. OneSubscription'
  <2>1. Len(<<>>) = 0
    OBVIOUS
  <2>2. \A u \in Threads : pc'[u] \in SubscribePC => pc'[u] = pc[u]
    BY <1>2 DEF SubscribePC
  <2> QED BY <1>1, <1>5, <2>1, <2>2 DEF DeliveryInv, OneSubscription
<1>8. Lifetimes'
  <2>1. ASSUME NEW c \in Contexts, ctx'[c] = "open" PROVE FALSE
    BY <1>1, <2>1 DEF DeliveryInv, Lifetimes
  <2>2. ~(lockState' = "raw" \/ \E u \in Threads : pc'[u] \in {"init_pub", "init_sub"})
    BY <1>1, <1>2, <1>3 DEF InitPC
  <2>3. Started' => \E c \in Contexts : ctx'[c] = "freed"
    BY <1>0, <1>1, <1>5 DEF DeliveryInv, Lifetimes
  <2> QED BY <1>1, <2>1, <2>2, <2>3 DEF Lifetimes
<1>9. Buffers'
  <2>1. \A s \in SubThreads : loop'[s] = "reply" => io'[s].on = NULL \/ ctx'[io'[s].on] = "freed"
    <3> SUFFICES ASSUME NEW s \in SubThreads, loop[s] = "reply"
                 PROVE  io[s].on = NULL \/ ctx'[io[s].on] = "freed"
      BY <1>1
    <3>1. io[s].on \in Contexts
      BY <1>0 DEF PipeInv, BusyWhere, TypeInv, IOTarget
    <3> QED BY <1>1, <3>1 DEF DeliveryInv, Buffers
  <2> QED BY <1>1, <1>2, <1>4, <2>1 DEF DeliveryInv, Buffers
<1>10. OnlySubscriber'
  BY <1>1 DEF DeliveryInv, OnlySubscriber
<1>11. InHandWanted'
  BY <1>0, <1>1, <1>6 DEF DeliveryInv, InHandWanted, Wanted
<1>12. Promised
  <2>1. Held(InHand)' = Held(InHand) /\ InContext' = <<>>
    BY <1>1, <1>6, SameInHand DEF InContext
  <2>2. CASE g_sub_context = NULL
    <3>1. Cut => Cut'
      BY <1>1, <2>2 DEF Cut
    <3> QED BY <1>1, <2>1, <2>2, <3>1, NothingMoves DEF InContext
  <2>3. CASE g_sub_context # NULL
    <3>1. Cut'
      BY <1>0, <1>1, <2>3 DEF Cut, Contexts
    <3> QED BY <1>1, <2>1, <3>1, ConnectionLost
  <2> QED BY <2>2, <2>3
<1> QED BY <1>1, <1>7, <1>8, <1>9, <1>10, <1>11, <1>12 DEF DeliveryInv

-----------------------------------------------------------------------------
(* A step elsewhere: of the subscribing connection it changes nothing, but  *)
(* the server may put one more message on its socket.                       *)
LEMMA OffConnection ==
    ASSUME TypeInv, PipeInv, DeliveryInv,
           UNCHANGED <<g_context, g_sub_context, g_table, lockState, nsub, delivered, subscribed, loop, got>>,
           \A c \in Contexts : dropped'[c] = dropped[c] \/ (c # g_sub_context /\ dropped'[c]),
           \A c \in Contexts : ctx'[c] = ctx[c] \/ (c # g_sub_context /\ ctx[c] = "open" /\ ctx'[c] = "err"),
           g_sub_context # NULL => UNCHANGED <<obuf[g_sub_context], reader[g_sub_context]>>,
           \/ g_sub_context # NULL => UNCHANGED sock[g_sub_context]
           \/ /\ g_sub_context # NULL
              /\ \E ch \in subscribed[g_sub_context] :
                     sock'[g_sub_context] = Append(sock[g_sub_context], Message(ch, nmsg + 1)),
           \A u \in Threads : pc'[u] = pc[u] \/ ({pc[u], pc'[u]} \cap (SubscribePC \cup InitPC) = {}),
           \A u \in Threads :
               \/ io'[u] = io[u]
               \/ /\ pc[u] # "subscribe_reply"
                  /\ io[u].at # "none" => io[u].on # g_sub_context
                  /\ io'[u].at # "none" => io'[u].on # g_sub_context
                  /\ io'[u].at = "none" => io'[u].buf = <<>>
                  /\ (u \in SubThreads /\ loop[u] = "reply") =>
                         io'[u].on = io[u].on /\ io[u].at # "none" /\ io'[u].at # "none"
                         /\ io[u].at # "ok" /\ io'[u].at # "ok"
    PROVE  DeliveryInv' /\ Promised
<1>0. /\ NULL \notin Contexts /\ SubThreads \subseteq Threads
      /\ g_sub_context # NULL => g_sub_context \in Contexts
      /\ \A s \in SubThreads : loop[s] = "reply" => io[s].on = g_sub_context \/ ctx[io[s].on] = "freed"
      /\ \A u \in Threads : io[u].at = "none" => io[u].buf = <<>>
      /\ \A u \in Threads : io[u].on \in 0 .. MaxContexts
  BY DeliveryTypes DEF DeliveryInv, Buffers, IO
<1>1. /\ \A u \in Threads : /\ pc'[u] = "subscribe_reply" <=> pc[u] = "subscribe_reply"
                            /\ pc'[u] \in SubscribePC => pc'[u] = pc[u]
                            /\ pc'[u] \in {"init_pub", "init_sub"} => pc'[u] = pc[u]
                            /\ pc[u] = "subscribe_reply" => io'[u] = io[u]
      /\ (Started' <=> Started)
  BY DEF SubscribePC, InitPC, Started
<1>2. Unsent' => Unsent
  BY <1>1 DEF Unsent, UnsentPC, SubscribePC
<1>3. \A u \in Threads : InHand'[u] = InHand[u] /\ Received(g_sub_context)'[u] = Received(g_sub_context)[u]
  <2> SUFFICES ASSUME NEW u \in Threads
               PROVE InHand'[u] = InHand[u] /\ Received(g_sub_context)'[u] = Received(g_sub_context)[u]
    OBVIOUS
  <2>1. CASE io'[u] = io[u]
    BY <2>1 DEF InHand, Received
  <2>2. CASE io'[u] # io[u]
    <3>1. Received(g_sub_context)'[u] = <<>> /\ Received(g_sub_context)[u] = <<>>
      BY <1>0, <2>2 DEF Received
    <3>2. ~(u \in SubThreads /\ loop[u] = "reply" /\ io[u].at = "ok")
          /\ ~(u \in SubThreads /\ loop'[u] = "reply" /\ io'[u].at = "ok")
      BY <2>2
    <3>3. InHand'[u] = InHand[u]
      BY <3>2 DEF InHand
    <3> QED BY <3>1, <3>3
  <2> QED BY <2>1, <2>2
<1>4. OneSubscription'
  <2>1. ASSUME g_sub_context # NULL, Unsent, Quiet(g_sub_context) PROVE Quiet(g_sub_context)'
    <3>1. subscribed[g_sub_context] = {}
      BY <1>0, <2>1 DEF DeliveryInv, OneSubscription
    <3> QED BY <2>1, <3>1 DEF Quiet
  <2> QED BY <1>1, <1>2, <2>1 DEF DeliveryInv, OneSubscription, SubscribePC
<1>5. Lifetimes'
  <2>1. \A c \in Contexts : /\ ctx'[c] = "open" => ctx[c] = "open"
                            /\ ctx'[c] = "freed" <=> ctx[c] = "freed"
    OBVIOUS
  <2> QED BY <1>0, <1>1, <2>1 DEF DeliveryInv, Lifetimes
<1>6. Buffers'
  <2>1. /\ \A u \in Threads : io'[u].at = "none" => io'[u].buf = <<>>
        /\ \A u \in Threads : pc'[u] = "subscribe_reply" => g_sub_context' # NULL /\ io'[u].on = g_sub_context'
    BY <1>1 DEF DeliveryInv, Buffers
  <2>2. ASSUME NEW s \in SubThreads, loop'[s] = "reply"
        PROVE  io'[s].on = g_sub_context' \/ ctx'[io'[s].on] = "freed"
    <3>1. io'[s].on = io[s].on
      BY <1>0, <2>2
    <3>2. io[s].on \in Contexts
      BY <1>0, <2>2 DEF PipeInv, BusyWhere, TypeInv, IOTarget
    <3> QED BY <1>0, <2>2, <3>1, <3>2
  <2>3. ASSUME NEW u \in Threads, g_sub_context' # NULL, io'[u].at # "none", io'[u].on = g_sub_context'
        PROVE  /\ io'[u].buf # <<>> => io'[u].at = "parse"
               /\ io'[u].at \in {"flush", "recv", "parse"} => ctx'[g_sub_context'] # "freed"
    <3>1. io'[u] = io[u]
      BY <2>3
    <3> QED BY <1>0, <2>3, <3>1 DEF DeliveryInv, Buffers
  <2> QED BY <2>1, <2>2, <2>3 DEF Buffers
<1>7. OnlySubscriber'
  BY <1>0 DEF DeliveryInv, OnlySubscriber
<1>8. \A r : Wanted(r) => Wanted(r)'
  BY DEF Wanted
<1>9. InHandWanted'
  BY <1>0, <1>3, <1>8 DEF DeliveryInv, InHandWanted
<1>10. Held(InHand)' = Held(InHand)
  BY <1>3, SameInHand
<1>11. (Answered' <=> Answered) /\ \A u \in Threads : Awaits(u)' <=> Awaits(u)
  BY <1>1 DEF Answered, Awaits
<1>12. CASE g_sub_context # NULL => UNCHANGED sock[g_sub_context]
  <2>1. InContext' = InContext
    BY <1>3, <1>12, SameInContext
  <2>2. Cut => Cut'
    BY CutStays
  <2>3. ASSUME g_sub_context # NULL PROVE Stream'
    <3>1. Stream
      BY <2>3 DEF DeliveryInv
    <3>2. Unserved => Unserved'
      BY <1>1, <2>1, <2>3 DEF Unserved
    <3> QED BY <1>0, <1>1, <1>8, <1>11, <2>1, <2>3, <3>1, <3>2 DEF Stream
  <2> QED BY <1>4, <1>5, <1>6, <1>7, <1>9, <1>10, <2>1, <2>2, <2>3, NothingMoves DEF DeliveryInv
<1>13. ASSUME g_sub_context # NULL, NEW ch \in subscribed[g_sub_context],
              sock'[g_sub_context] = Append(sock[g_sub_context], Message(ch, nmsg + 1))
       PROVE  DeliveryInv' /\ Promised
  <2> DEFINE m == Message(ch, nmsg + 1)
             a == Held(Received(g_sub_context))
             r == reader[g_sub_context]
  <2>0. /\ Stream /\ ch \in Channels /\ g_sub_context \in Contexts
        /\ ctx[g_sub_context] = "open" /\ ~dropped[g_sub_context]
        /\ \A c \in Contexts : ctx[c] # "freed"
    BY <1>0, <1>13, DeliveryTypes DEF DeliveryInv, OnlySubscriber, Lifetimes
  <2>1. m \in Reply /\ m \in Arrived /\ IsMessage(m) /\ m.channel = ch
    <3>1. m.kind = "message" /\ m.channel = ch
      BY DEF Message
    <3>2. nmsg + 1 \in Nat
      BY DeliveryTypes
    <3>3. m \in Reply
      BY <2>0, <3>2, MessageTypes
    <3> QED BY <3>1, <3>3 DEF IsMessage, Arrived
  <2>2. /\ a \in Seq(Arrived) /\ r \in Seq(Arrived) /\ r \o a \in Seq(Arrived)
        /\ sock[g_sub_context] \in Seq(Arrived) /\ InContext \in Seq(Arrived) /\ Held(InHand) \in Seq(Arrived)
    BY <2>0, FlowTypes, DeliveryTypes, ConcatProperties
  <2>3. InContext' = Append(InContext, m)
    <3>1. Received(g_sub_context)' = Received(g_sub_context)
      BY <1>3 DEF Received
    <3>2. InContext' = r \o a \o sock'[g_sub_context]
      BY <1>13, <3>1 DEF InContext
    <3>3. (r \o a) \o Append(sock[g_sub_context], m) = Append((r \o a) \o sock[g_sub_context], m)
      <4> DEFINE b == r \o a
                 x == sock[g_sub_context]
      <4>1. b \in Seq(Arrived) /\ x \in Seq(Arrived) /\ m \in Arrived
        BY <2>1, <2>2
      <4> HIDE DEF b, x, m
      <4>2. b \o Append(x, m) = Append(b \o x, m)
        BY <4>1, AppendBehind
      <4> QED BY <4>2 DEF b, x
    <3> QED BY <1>13, <3>2, <3>3 DEF InContext
  <2> HIDE DEF m
  <2>4. Held(InHand)' \o InContext' = Append(Held(InHand) \o InContext, m)
    BY <1>10, <2>1, <2>2, <2>3, AppendBehind
  <2>5. ~Cut /\ ~Cut'
    BY <1>0, <2>0 DEF Cut
  <2>6. Promised
    BY <2>0, <2>1, <2>4, <2>5, ArrivalPromised
  <2>7. /\ Len(InContext) \in Nat /\ Len(InContext') = Len(InContext) + 1 /\ InContext'[Len(InContext) + 1] = m
        /\ \A i \in 1 .. Len(InContext) : InContext'[i] = InContext[i]
    BY <2>1, <2>2, <2>3, AppendProperties, LenProperties
  <2>8. Stream'
    <3>1. Wanted(m) /\ g_table' = g_table
      BY <2>0, <2>1 DEF Wanted, Stream
    <3>2. ASSUME NEW i \in 1 .. Len(InContext'), i > 1 \/ Answered' PROVE Wanted(InContext[i])'
      <4>1. i \in 1 .. Len(InContext) \/ i = Len(InContext) + 1
        BY <2>7
      <4>2. i \in 1 .. Len(InContext) => Wanted(InContext[i])
        BY <1>11, <2>0, <3>2 DEF Stream
      <4>3. Wanted(InContext'[i])
        BY <2>7, <3>1, <4>1, <4>2
      <4> QED BY <1>8, <4>3
    <3>3. ASSUME NEW u \in Threads, Awaits(u)
          PROVE  InContext # <<>> /\ reader'[g_sub_context'] = <<>> /\ InContext' # <<>> /\ ~IsMessage(InContext'[1])
      <4>1. InContext # <<>> /\ reader[g_sub_context] = <<>> /\ ~IsMessage(InContext[1])
        BY <1>13, <2>0, <3>3 DEF Stream
      <4>2. Len(InContext) # 0
        BY <2>2, <4>1, EmptySeq
      <4>3. InContext'[1] = InContext[1]
        BY <2>7, <4>2
      <4>4. InContext' # <<>>
        BY <2>1, <2>2, <2>3, AppendProperties
      <4> QED BY <1>13, <4>1, <4>3, <4>4
    <3>4. ASSUME ctx'[g_sub_context'] = "open", obuf'[g_sub_context'] # <<>> PROVE FALSE
      <4>1. Unserved
        BY <1>13, <2>0, <3>4 DEF Stream
      <4> QED BY <3>3, <4>1 DEF Unserved, Awaits
    <3>5. g_table' # <<>> => subscribed'[g_sub_context'] \subseteq {g_table'[1].channel}
      BY <2>0 DEF Stream
    <3> QED BY <1>11, <3>2, <3>3, <3>4, <3>5 DEF Stream
  <2> QED BY <1>4, <1>5, <1>6, <1>7, <1>9, <2>6, <2>8 DEF DeliveryInv
<1> QED BY <1>12, <1>13

(* A step of redis_publish.                                                 *)
LEMMA DeliveryPublish ==
    ASSUME TypeInv, PipeInv, DeliveryInv, NEW t \in Threads, PublishCommand(t) \/ PublishReply(t)
    PROVE  DeliveryInv' /\ Promised
<1>0. /\ NULL \notin Contexts /\ SubThreads \subseteq Threads /\ io \in [Threads -> IO]
      /\ g_context # NULL => g_context \in Contexts
      /\ obuf \in [Contexts -> Seq(Command)]
      /\ t \in SubThreads => loop[t] # "reply"
  BY DeliveryTypes DEF PublishCommand, PublishReply, PipeInv, BusyWhere
<1>1. /\ g_context # NULL => g_context # g_sub_context
      /\ g_sub_context # NULL => g_context # NULL
  BY DEF PipeInv, ContextsApart, DeliveryInv, Lifetimes
<1>2. \A u \in Threads : pc'[u] = pc[u] \/ ({pc[u], pc'[u]} \cap (SubscribePC \cup InitPC) = {})
  <2>1. PICK label \in {"publish_reply", "publish_leave"} : Goto(t, label)
    BY DEF PublishCommand, PublishReply, WillReturn
  <2>2. pc[t] \in {"publish_command", "publish_reply"}
    BY DEF PublishCommand, PublishReply
  <2>3. \A u \in Threads : pc'[u] = IF u = t THEN label ELSE pc[u]
    BY <2>1, DeliveryTypes DEF Goto
  <2> QED BY <2>2, <2>3 DEF SubscribePC, InitPC
<1>3. /\ UNCHANGED <<g_context, g_sub_context, g_table, lockState, nsub, delivered, subscribed, dropped, loop, got>>
      /\ UNCHANGED <<ctx, reader, sock>>
  BY DEF PublishCommand, PublishReply, RedisCommand, serverVars, globals, lockVars, loopVars
<1>4. g_sub_context # NULL => UNCHANGED obuf[g_sub_context]
  <2>1. CASE PublishReply(t)
    BY <1>3, <2>1 DEF PublishReply
  <2>2. CASE PublishCommand(t)
    <3>1. \A d \in Contexts : d # g_context => obuf'[d] = obuf[d]
      BY <1>0, <2>2 DEF PublishCommand, RedisCommand
    <3>2. g_sub_context # NULL => g_sub_context \in Contexts
      BY DeliveryTypes
    <3> QED BY <1>1, <1>3, <3>1, <3>2
  <2> QED BY <2>1, <2>2
<1>5. /\ \A u \in Threads \ {t} : io'[u] = io[u]
      /\ io[t].at # "none" => io[t].on # g_sub_context
      /\ io'[t].at # "none" => io'[t].on # g_sub_context
      /\ io'[t].at = "none" => io'[t].buf = <<>>
  <2>1. CASE PublishCommand(t)
    <3>1. io[t].at = "none"
      BY <1>0, <2>1 DEF PublishCommand, PipeInv, BusyWhere, ReplyPC
    <3>2. /\ io' = [io EXCEPT ![t] = [NoIO EXCEPT !.at = "try", !.on = g_context]] /\ g_context # NULL
      BY <2>1 DEF PublishCommand, RedisCommand, GetReply
    <3> QED BY <1>0, <1>1, <3>1, <3>2 DEF NoIO
  <2>2. CASE PublishReply(t)
    <3>1. io' = [io EXCEPT ![t] = NoIO] /\ pc[t] = "publish_reply"
      BY <2>2 DEF PublishReply, ReturnFromIO
    <3>2. io[t].at # "none" => io[t].on # g_sub_context
      BY <1>0, <1>1, <3>1 DEF PipeInv, OnlyPublishes, TypeInv, IOTarget
    <3> QED BY <1>0, <3>1, <3>2 DEF NoIO
  <2> QED BY <2>1, <2>2
<1>6. pc[t] # "subscribe_reply"
  BY DEF PublishCommand, PublishReply
<1> QED BY <1>0, <1>2, <1>3, <1>4, <1>5, <1>6, OffConnection

(* Another client publishes.                                                *)
LEMMA DeliveryExternal ==
    ASSUME TypeInv, PipeInv, DeliveryInv, NEW ch \in Channels, ExternalPublish(ch), UNCHANGED otherVars
    PROVE  DeliveryInv' /\ Promised
<1>1. /\ UNCHANGED <<g_context, g_sub_context, g_table, lockState, nsub, delivered, subscribed, dropped, loop, got>>
      /\ UNCHANGED <<ctx, obuf, reader, io, pc>>
  BY DEF ExternalPublish, otherVars, globals, lockVars, callVars, loopVars
<1>2. ASSUME g_sub_context # NULL
      PROVE  sock'[g_sub_context] = IF ch \in subscribed[g_sub_context]
                                    THEN Append(sock[g_sub_context], Message(ch, nmsg + 1)) ELSE sock[g_sub_context]
  BY <1>2, DeliveryTypes DEF ExternalPublish, Receivers
<1> QED BY <1>1, <1>2, OffConnection

(* Inside redisGetReply on another context.                                 *)
LEMMA DeliveryElsewhere ==
    ASSUME TypeInv, PipeInv, DeliveryInv, NEW t \in Threads, IOStep(t), UNCHANGED otherVars,
           io[t].at # "none", io[t].on # g_sub_context
    PROVE  DeliveryInv' /\ Promised
<1> DEFINE c == io[t].on
<1>0. /\ io \in [Threads -> IO] /\ io[t] \in IO /\ c \in Contexts
      /\ ctx \in [Contexts -> {"unused", "open", "err", "freed"}] /\ ctx[c] # "unused"
      /\ g_sub_context # NULL => g_sub_context \in Contexts
      /\ SubThreads \subseteq Threads
      /\ obuf \in [Contexts -> Seq(Command)] /\ sock \in [Contexts -> Seq(Arrived)]
      /\ subscribed \in [Contexts -> SUBSET Channels]
  BY DeliveryTypes DEF TypeInv, IOTarget, PipeInv, UnusedUntouched
<1>1. /\ UNCHANGED <<g_context, g_sub_context, g_table, lockState, nsub, delivered, loop, got, pc>>
  BY DEF otherVars, globals, lockVars, callVars, loopVars
<1>2. /\ \A d \in Contexts : d # c => UNCHANGED <<ctx[d], obuf[d], reader[d]>>
      /\ \A u \in Threads \ {t} : UNCHANGED io[u]
      /\ io'[t].on = c /\ io'[t].at # "none"
  BY IOStepFrame
<1>3. UNCHANGED dropped /\ ctx'[c] \in {ctx[c], "err"} /\ (ctx[c] = "freed" => ctx'[c] = "freed")
  BY <1>0 DEF IOStep, TryReader, Flush, Recv, Parse, IOError, Crash, serverVars, ServerExecutes
<1>4. ctx[c] = "open" => c = g_context /\ g_context # NULL
  BY <1>0, DeliveryTypes DEF DeliveryInv, Lifetimes
<1>5. UNCHANGED subscribed /\ (g_sub_context # NULL =>
          \/ UNCHANGED sock[g_sub_context]
          \/ \E ch \in subscribed[g_sub_context] :
                 sock'[g_sub_context] = Append(sock[g_sub_context], Message(ch, nmsg + 1)))
  <2>1. CASE ctx[c] = "open" /\ obuf[c] # <<>> /\ ~dropped[c] /\ ServerExecutes(c, Head(obuf[c]))
    <3>1. Head(obuf[c]).verb = "PUBLISH"
      <4>1. Head(obuf[c]) = obuf[c][1] /\ 1 \in 1 .. Len(obuf[c])
        BY <1>0, <2>1, HeadTailProperties, LenProperties, EmptySeq
      <4> QED BY <1>4, <2>1, <4>1 DEF PipeInv, OnlyPublishes
    <3> DEFINE ch == Head(obuf[c]).channel
    <3>2. CASE UNCHANGED subscribed /\ sock' = [sock EXCEPT ![c] = Append(@, ErrorReply)]
      BY <1>0, <1>1, <3>2
    <3>3. CASE UNCHANGED subscribed
               /\ sock' = [d \in Contexts |->
                     IF d \in Receivers(ch) THEN Append(sock[d], Message(ch, nmsg + 1))
                     ELSE IF d = c THEN Append(sock[d], IntegerReply(Cardinality(Receivers(ch))))
                     ELSE sock[d]]
      BY <1>0, <1>1, <3>3 DEF Receivers
    <3> QED BY <2>1, <3>1, <3>2, <3>3 DEF ServerExecutes
  <2>2. CASE UNCHANGED serverVars
    BY <1>1, <2>2 DEF serverVars
  <2>3. CASE Recv(t)
    BY <1>0, <1>1, <2>3 DEF Recv, IOError, serverVars
  <2>4. CASE Flush(t)
    BY <2>1, <2>2, <2>4 DEF Flush, IOError
  <2> QED BY <2>2, <2>3, <2>4 DEF IOStep, TryReader, Parse, IOError, Crash
<1>6. pc[t] # "subscribe_reply"
  BY DEF DeliveryInv, Buffers
<1>7. io'[t] = io[t] \/ (t \in SubThreads /\ loop[t] = "reply" => io[t].at # "ok" /\ io'[t].at # "ok")
  <2>1. SUFFICES ASSUME t \in SubThreads, loop[t] = "reply", ~Crash PROVE io[t].at # "ok" /\ io'[t].at # "ok"
    BY DEF Crash
  <2>2. ctx[c] = "freed"
    BY <2>1 DEF DeliveryInv, Buffers
  <2>3. io[t].at # "ok"
    BY <2>1 DEF IOStep, TryReader, Flush, Recv, Parse
  <2>4. io' = [io EXCEPT ![t].at = "err"]
    BY <2>1, <2>2 DEF IOStep, TryReader, Flush, Recv, Parse, IOError
  <2> QED BY <1>0, <2>3, <2>4 DEF IO
<1>8. \A d \in Contexts : ctx'[d] = ctx[d] \/ (d # g_sub_context /\ ctx[d] = "open" /\ ctx'[d] = "err")
  BY <1>0, <1>2, <1>3
<1>9. g_sub_context # NULL => UNCHANGED <<obuf[g_sub_context], reader[g_sub_context]>>
  BY <1>0, <1>1, <1>2
<1> QED BY <1>1, <1>2, <1>3, <1>5, <1>6, <1>7, <1>8, <1>9, OffConnection

(* Steps of the loop that leave the connections alone.                      *)
LEMMA DeliveryLoopSteps ==
    ASSUME TypeInv, PipeInv, DeliveryInv, NEW s \in SubThreads,
           LoopCheck(s) \/ LoopEnter(s) \/ CallbackReturns(s) \/ LoopLeave(s)
    PROVE  DeliveryInv' /\ Promised
<1>0. SubThreads \subseteq Threads /\ loop \in [SubThreads -> Loops]
  BY DeliveryTypes
<1>1. /\ UNCHANGED <<hiredisVars, g_context, g_sub_context, nsub, delivered, g_table, pc>>
      /\ lockState' = "raw" => lockState = "raw"
  BY DEF LoopCheck, LoopEnter, CallbackReturns, LoopLeave, globals, callVars, lockVars, Enter, Leave
<1>2. PICK label \in {"get", "ended", "dispatch", "leave", "check"} :
          /\ \A u \in SubThreads : loop'[u] = IF u = s THEN label ELSE loop[u]
          /\ loop[s] \in {"check", "enter", "callback", "leave"}
          /\ label = "dispatch" <=> loop[s] = "enter"
  BY <1>0 DEF LoopCheck, LoopEnter, CallbackReturns, LoopLeave, GotoLoop
<1>3. \A u \in Threads : InHand'[u] = InHand[u]
  <2>1. CASE LoopLeave(s)
    <3>1. \A u \in SubThreads \ {s} : got'[u] = got[u]
      BY <2>1, DeliveryTypes DEF LoopLeave, TypeInv, TypeOK
    <3>2. loop[s] = "leave" /\ loop'[s] = "check"
      BY <1>0, <2>1 DEF LoopLeave, GotoLoop
    <3>3. UNCHANGED io
      BY <1>1 DEF hiredisVars
    <3>4. ASSUME NEW u \in Threads, u = s PROVE InHand'[u] = InHand[u]
      BY <3>2, <3>4 DEF InHand
    <3>5. ASSUME NEW u \in Threads, u # s PROVE InHand'[u] = InHand[u]
      BY <1>2, <3>1, <3>3, <3>5 DEF InHand
    <3> QED BY <3>4, <3>5
  <2>2. CASE ~LoopLeave(s)
    <3>1. UNCHANGED <<io, got>>
      BY <2>2 DEF LoopCheck, LoopEnter, CallbackReturns, hiredisVars
    <3> QED BY <1>2, <3>1, SameHands
  <2> QED BY <2>1, <2>2
<1> QED BY <1>0, <1>1, <1>2, <1>3, DeliveryKept

(* The thread enters redisGetReply, or comes back with what is in its hand. *)
LEMMA DeliveryGetReply ==
    ASSUME TypeInv, PipeInv, DeliveryInv, NEW s \in SubThreads, LoopGet(s) \/ LoopReply(s)
    PROVE  DeliveryInv' /\ Promised
<1>0. /\ SubThreads \subseteq Threads /\ loop \in [SubThreads -> Loops] /\ io \in [Threads -> IO]
      /\ got \in [SubThreads -> Arrived] /\ s \in Threads
  BY DeliveryTypes DEF TypeInv, TypeOK, Arrived
<1>1. /\ UNCHANGED <<ctx, obuf, reader, sock, dropped, subscribed>>
      /\ UNCHANGED <<g_context, g_sub_context, g_table, lockState, pc, nsub, delivered>>
  BY DEF LoopGet, LoopReply, serverVars, globals, lockVars, callVars
<1>2. /\ \A u \in Threads \ {s} : io'[u] = io[u]
      /\ \A u \in SubThreads \ {s} : loop'[u] = loop[u] /\ got'[u] = got[u]
      /\ loop[s] \in {"get", "reply"} /\ loop'[s] # "none"
  BY <1>0 DEF LoopGet, LoopReply, GetReply, ReturnFromIO, GotoLoop
<1>3. (g_sub_context # NULL /\ io[s].at # "none" /\ io[s].on = g_sub_context) => io[s].buf = <<>>
  <2>1. io[s].at \in {"none", "ok", "err"}
    BY <1>0 DEF LoopGet, LoopReply, PipeInv, BusyWhere, ReplyPC
  <2> QED BY <1>0, <2>1 DEF DeliveryInv, Buffers
<1>4. InHand'[s] = InHand[s]
  <2>1. CASE LoopGet(s)
    <3>1. loop[s] = "get" /\ loop'[s] = "reply" /\ io'[s].at = "try"
      BY <1>0, <2>1 DEF LoopGet, GetReply, GotoLoop, NoIO
    <3> QED BY <1>0, <3>1 DEF InHand
  <2>2. CASE LoopReply(s) /\ io[s].at = "ok"
    <3>1. InHand[s] = <<io[s].reply>>
      BY <1>0, <2>2, InHandMeans DEF LoopReply
    <3>2. io[s].reply.kind = "message"
      BY <3>1 DEF DeliveryInv, InHandWanted, Wanted, IsMessage
    <3>3. loop'[s] = "enter" /\ got'[s] = io[s].reply
      BY <1>0, <2>2, <3>2 DEF LoopReply, GotoLoop
    <3>4. InHand'[s] = <<got'[s]>>
      BY <1>0, <3>3 DEF InHand
    <3> QED BY <3>1, <3>3, <3>4
  <2>3. CASE LoopReply(s) /\ io[s].at = "err"
    <3>1. loop[s] = "reply" /\ loop'[s] = "ended"
      BY <1>0, <2>3 DEF LoopReply, GotoLoop
    <3> QED BY <1>0, <2>3, <3>1 DEF InHand
  <2> QED BY <2>1, <2>2, <2>3 DEF LoopReply
<1>5. \A u \in Threads : InHand'[u] = InHand[u]
  <2>1. ASSUME NEW u \in Threads, u # s PROVE InHand'[u] = InHand[u]
    BY <1>2, <2>1 DEF InHand
  <2> QED BY <1>4, <2>1
<1>6. /\ io'[s].buf = <<>> /\ io'[s].at \in {"none", "try"}
      /\ loop'[s] = "reply" => io'[s].on = g_sub_context
  <2>1. CASE LoopGet(s)
    BY <1>0, <1>1, <2>1 DEF LoopGet, GetReply, NoIO
  <2>2. CASE LoopReply(s)
    <3>1. io'[s] = NoIO
      BY <1>0, <2>2 DEF LoopReply, ReturnFromIO
    <3>2. loop'[s] # "reply"
      BY <1>0, <2>2 DEF LoopReply, GotoLoop
    <3> QED BY <3>1, <3>2 DEF NoIO
  <2> QED BY <2>1, <2>2
<1>7. InContext' = InContext
  <2>1. CASE g_sub_context = NULL
    BY <1>1, <2>1 DEF InContext
  <2>2. CASE g_sub_context # NULL
    <3>1. Received(g_sub_context)'[s] = <<>> /\ Received(g_sub_context)[s] = <<>>
      BY <1>0, <1>3, <1>6, <2>2 DEF Received, DeliveryInv, Buffers
    <3>2. ASSUME NEW u \in Threads, u # s PROVE Received(g_sub_context)'[u] = Received(g_sub_context)[u]
      BY <1>1, <1>2, <3>2 DEF Received
    <3> QED BY <1>1, <3>1, <3>2, SameInContext
  <2> QED BY <2>1, <2>2
<1>8. Started /\ Started' /\ (Unsent' => Unsent) /\ \A u \in Threads : pc[u] # "subscribe_reply"
  BY <1>1, <1>2 DEF Started, Unsent, DeliveryInv, OneSubscription, SubscribePC
<1>9. OneSubscription'
  BY <1>1, <1>8 DEF DeliveryInv, OneSubscription
<1>10. Lifetimes' /\ OnlySubscriber'
  BY <1>1, <1>8 DEF DeliveryInv, Lifetimes, OnlySubscriber
<1>11. Buffers'
  <2>0. Buffers
    BY DEF DeliveryInv
  <2>1. \A u \in Threads : io'[u].at = "none" => io'[u].buf = <<>>
    BY <1>2, <1>6, <2>0 DEF Buffers
  <2>2. \A u \in SubThreads : loop'[u] = "reply" => io'[u].on = g_sub_context' \/ ctx'[io'[u].on] = "freed"
    BY <1>0, <1>1, <1>2, <1>6, <2>0 DEF Buffers
  <2>3. ASSUME NEW u \in Threads, g_sub_context' # NULL, io'[u].at # "none", io'[u].on = g_sub_context'
        PROVE  /\ io'[u].buf # <<>> => io'[u].at = "parse"
               /\ io'[u].at \in {"flush", "recv", "parse"} => ctx'[g_sub_context'] # "freed"
    BY <1>1, <1>2, <1>6, <2>0, <2>3 DEF Buffers
  <2> QED BY <1>1, <1>8, <2>1, <2>2, <2>3 DEF Buffers
<1>12. InHandWanted'
  BY <1>0, <1>1, <1>5 DEF DeliveryInv, InHandWanted, Wanted
<1>13. g_sub_context' # NULL => Stream'
  BY <1>1, <1>7, <1>8 DEF DeliveryInv, Stream, Wanted, Answered, Awaits, Unserved
<1>14. Cut => Cut'
  BY <1>1, CutStays
<1>15. Held(InHand)' = Held(InHand)
  BY <1>5, SameInHand
<1> QED BY <1>1, <1>7, <1>9, <1>10, <1>11, <1>12, <1>13, <1>14, <1>15, NothingMoves DEF DeliveryInv

(* The message goes to the callback; after redis_close it may be dropped.   *)
LEMMA DeliveryDispatch ==
    ASSUME TypeInv, TableInv, PipeInv, DeliveryInv, NEW s \in SubThreads, Dispatch(s)
    PROVE  DeliveryInv' /\ Promised
<1> DEFINE m == got[s]
<1>0. /\ SubThreads \subseteq Threads /\ loop \in [SubThreads -> Loops] /\ s \in Threads
      /\ m \in Arrived
  BY DeliveryTypes
<1>1. /\ UNCHANGED <<hiredisVars, g_context, g_sub_context, g_table, lockState, pc, nsub, got>>
      /\ \A u \in SubThreads \ {s} : loop'[u] = loop[u]
      /\ loop[s] = "dispatch" /\ loop'[s] \in {"leave", "callback"}
  BY <1>0 DEF Dispatch, GotoLoop, globals, lockVars, callVars
<1>2. UNCHANGED io
  BY <1>1 DEF hiredisVars
<1>3. /\ \A u \in Threads \ {s} : InHand[u] = <<>> /\ InHand'[u] = <<>>
      /\ InHand[s] = <<m>> /\ InHand'[s] = <<>>
      /\ Held(InHand) = <<m>> /\ Held(InHand)' = <<>>
  <2>1. Held(InHand) = InHand[s] /\ \A u \in Threads \ {s} : InHand[u] = <<>>
    BY <1>1, HandOf
  <2>2. InHand[s] = <<m>>
    BY <1>0, <1>1, InHandMeans
  <2>3. InHand'[s] = <<>>
    BY <1>0, <1>1 DEF InHand
  <2>4. \A u \in Threads \ {s} : InHand'[u] = InHand[u]
    BY <1>1, <1>2 DEF InHand
  <2>5. Held(InHand)' = <<>>
    BY <2>1, <2>3, <2>4 DEF Held
  <2> QED BY <2>1, <2>2, <2>3, <2>4, <2>5
<1>4. /\ Lifetimes' /\ Buffers' /\ OnlySubscriber' /\ InHandWanted'
      /\ g_sub_context' # NULL => Stream'
      /\ InContext' = InContext
  <2>1. \A u \in SubThreads : /\ loop'[u] = "none" <=> loop[u] = "none"
                              /\ loop'[u] = "reply" => loop[u] = "reply"
                              /\ InHand'[u] \in {InHand[u], <<>>}
    BY <1>0, <1>1, <1>3
  <2> QED BY <1>1, <2>1, RestKept
<1>5. OneSubscription'
  BY <1>1, OneSubscriptionKept
<1>6. /\ Wanted(m) /\ IsMessage(m) /\ Started
      /\ InContext # <<>> => IsMessage(InContext[1])
  <2>1. Wanted(m) /\ Started
    BY <1>1, <1>3 DEF DeliveryInv, InHandWanted, Started
  <2>2. ASSUME InContext # <<>> PROVE IsMessage(InContext[1])
    <3>1. g_sub_context # NULL
      BY <2>2 DEF InContext
    <3>2. 1 \in 1 .. Len(InContext)
      BY <2>2, FlowTypes, EmptySeq, LenProperties
    <3> QED BY <2>1, <3>1, <3>2 DEF DeliveryInv, Stream, Answered, Wanted
  <2> QED BY <2>1, <2>2 DEF Wanted
<1>7. /\ InContext \in Seq(Arrived) /\ <<m>> \in Seq(Arrived) /\ <<m>> \o InContext \in Seq(Arrived)
      /\ Len(InContext) \in Nat
  BY <1>3, FlowTypes, LenProperties
<1>8. ASSUME NEW i \in 1 .. Len(g_table), g_table[i].channel = m.channel,
             delivered' = Append(delivered, [callback |-> g_table[i].callback, channel |-> m.channel, n |-> m.n])
      PROVE  Promised
  <2> DEFINE q == <<m>> \o InContext
             d == [callback |-> g_table[i].callback, channel |-> m.channel, n |-> m.n]
  <2>1. q # <<>> /\ q[1] = m /\ Tail(q) = InContext
    <3>1. <<m>> # <<>> /\ <<m>>[1] = m /\ Tail(<<m>>) = <<>> /\ <<>> \o InContext = InContext
      BY <1>7
    <3> QED BY <1>7, <3>1, TailBefore
  <2> HIDE DEF q
  <2>2. WithoutAnswer(q) = q /\ WithoutAnswer(InContext) = InContext
    BY <1>6, <2>1 DEF WithoutAnswer
  <2>3. Pending = Contents(q) /\ Pending' = Contents(InContext)
    <3>1. <<>> \o InContext = InContext
      BY <1>7
    <3> QED BY <1>3, <1>4, <2>2, <3>1 DEF Pending, q
  <2>4. Pending # <<>> /\ Head(Pending) = Content(m) /\ Pending' = Tail(Pending)
    BY <1>7, <2>1, <2>3, ContentsOfTail DEF q
  <2>5. Contents(delivered)' = Append(Contents(delivered), Content(m))
    <3>1. delivered \in Seq(Delivery \cup {d}) /\ d \in Delivery \cup {d}
      <4>1. delivered \in Seq(Delivery)
        BY DEF TypeInv, TypeOK
      <4> QED BY <4>1, SeqMonotonic
    <3>2. Contents(Append(delivered, d)) = Append(Contents(delivered), Content(d))
      BY <3>1, ContentsOfAppend
    <3>3. Content(d) = Content(m)
      BY DEF Content
    <3> QED BY <1>8, <3>2, <3>3
  <2>6. Cut' <=> Cut
    BY <1>1 DEF Cut, hiredisVars
  <2>7. Channel!Deliver
    BY <2>4, <2>5, <2>6 DEF Channel!Deliver, Cut
  <2> QED BY <2>7 DEF Promised, Channel!Next
<1>9. ASSUME {i \in 1 .. Len(g_table) : g_table[i].channel = m.channel} = {}, UNCHANGED delivered
      PROVE  Promised
  <2>1. Closed
    <3>1. SUFFICES ASSUME ~Closed PROVE FALSE
      OBVIOUS
    <3>2. Len(g_table) >= 1 /\ Len(g_table) \in Nat
      BY <1>1, <3>1, DeliveryTypes DEF TableInv, ThreadHasEntry
    <3>3. g_table # <<>> /\ 1 \in 1 .. Len(g_table)
      BY <3>2, EmptySeq
    <3> QED BY <1>6, <1>9, <3>3 DEF Wanted
  <2>2. g_sub_context = NULL /\ InContext = <<>>
    BY <2>1 DEF TableInv, NothingAfterClose, InContext
  <2>3. Cut'
    BY <1>1, <1>6, <2>2 DEF DeliveryInv, Lifetimes, Cut, hiredisVars
  <2>4. Held(InHand)' \o InContext' = <<>>
    <3>1. <<>> \o <<>> = <<>>
      OBVIOUS
    <3> QED BY <1>3, <1>4, <2>2, <3>1
  <2>5. SubSeq(Held(InHand) \o InContext, 1, 0) = <<>> /\ 0 \in 0 .. Len(Held(InHand) \o InContext)
    BY <1>3, <1>7, SubSeqEmpty, LenProperties
  <2> QED BY <1>9, <2>3, <2>4, <2>5, LossPromised
<1>10. Promised
  <2>1. CASE {i \in 1 .. Len(g_table) : g_table[i].channel = m.channel} = {} /\ UNCHANGED delivered
    BY <1>9, <2>1
  <2> QED BY <1>8, <2>1 DEF Dispatch
<1> QED BY <1>4, <1>5, <1>10 DEF DeliveryInv

(* No byte is on its way on a connection that is quiet before anybody reads *)
(* it.                                                                      *)
LEMMA QuietConnection ==
    ASSUME TypeInv, TableInv, PipeInv, DeliveryInv, g_sub_context # NULL, ~Started,
           Quiet(g_sub_context), \A u \in Threads : pc[u] # "subscribe_reply"
    PROVE  /\ InContext = <<>>
           /\ \A u \in Threads : io[u].at # "none" => io[u].on # g_sub_context
           /\ \A u \in Threads : Received(g_sub_context)[u] = <<>>
<1>1. \A u \in Threads : io[u].at # "none" => io[u].on # g_sub_context
  BY OnConnection
<1>2. \A u \in Threads : Received(g_sub_context)[u] = <<>>
  BY <1>1 DEF Received, DeliveryInv, Buffers
<1>3. <<>> \o <<>> \o <<>> = <<>>
  OBVIOUS
<1> QED BY <1>1, <1>2, <1>3 DEF Held, InContext, Quiet

(* The entry is stored while the connection, if it is still there, is empty.*)
LEMMA DeliveryStore ==
    ASSUME TypeInv, LockInv, TableInv, PipeInv, DeliveryInv, NEW t \in Threads, SubscribeStore(t)
    PROVE  DeliveryInv' /\ Promised
<1>0. /\ SubThreads \subseteq Threads /\ pc[t] = "subscribe_store"
      /\ UNCHANGED <<hiredisVars, g_context, g_sub_context, lockState, loop, got, nsub, delivered>>
  BY DeliveryTypes DEF SubscribeStore, loopVars, lockVars
<1>1. lockState # "raw"
  BY <1>0 DEF LockInv, RawIdle
<1>2. CASE Goto(t, "subscribe_leave") /\ UNCHANGED g_table
  BY <1>0, <1>1, <1>2, CallKept DEF UnsentPC
<1>3. ASSUME g_table' = Append(g_table, [channel |-> arg[t].channel, callback |-> arg[t].callback]),
             Goto(t, "subscribe_command")
      PROVE  DeliveryInv' /\ Promised
  <2>1. UNCHANGED <<ctx, obuf, reader, sock, dropped, subscribed, io>>
    BY <1>0 DEF hiredisVars
  <2>2. \A u \in Threads : pc'[u] = IF u = t THEN "subscribe_command" ELSE pc[u]
    BY <1>3, DeliveryTypes DEF Goto
  <2>3. /\ \A u \in Threads \ {t} : pc[u] \notin SubscribePC
        /\ nsub = 1 /\ Unsent /\ ~Started /\ ~Started' /\ g_table = <<>>
        /\ g_sub_context # NULL => Quiet(g_sub_context)
        /\ \A c \in Contexts : subscribed[c] = {}
    <3>1. \A u \in Threads \ {t} : pc[u] \notin SubscribePC
      BY <1>0 DEF DeliveryInv, OneSubscription, SubscribePC
    <3> QED BY <1>0, <3>1 DEF DeliveryInv, OneSubscription, Unsent, UnsentPC, SubscribePC, Started
  <2>4. Len(g_table') = 1
    <3>1. \A e : Append(<<>>, e) = <<e>> /\ Len(<<e>>) = 1
      OBVIOUS
    <3> QED BY <1>3, <2>3, <3>1
  <2>5. OneSubscription'
    BY <1>0, <2>1, <2>2, <2>3, <2>4 DEF DeliveryInv, OneSubscription, SubscribePC, Quiet, Contexts
  <2>6. \A u \in Threads : pc[u] # "subscribe_reply" /\ pc'[u] # "subscribe_reply"
    BY <1>0, <2>2, <2>3 DEF SubscribePC
  <2>7. Lifetimes' /\ Buffers' /\ OnlySubscriber'
    BY <1>0, <2>1, <2>2, <2>3, <2>6 DEF DeliveryInv, Lifetimes, Buffers, OnlySubscriber, Contexts
  <2>8. /\ \A u \in Threads : InHand[u] = <<>> /\ InHand'[u] = <<>>
        /\ Held(InHand)' = Held(InHand)
    <3>1. \A u \in Threads : InHand[u] = <<>>
      BY <2>3, HandEmpty
    <3>2. \A u \in Threads : InHand'[u] = <<>>
      BY <2>3 DEF InHand, Started
    <3> QED BY <3>1, <3>2, SameInHand
  <2>9. InHandWanted'
    BY <1>0, <2>8 DEF InHandWanted
  <2>10. InContext' = InContext
    <3>1. \A u \in Threads : Received(g_sub_context)'[u] = Received(g_sub_context)[u]
      BY <1>0, <2>1 DEF Received
    <3> QED BY <1>0, <2>1, <3>1, SameInContext
  <2>11. ASSUME g_sub_context' # NULL PROVE Stream'
    <3>1. InContext' = <<>>
      BY <1>0, <2>3, <2>6, <2>10, <2>11, QuietConnection
    <3>2. \A u \in Threads : ~Awaits(u)'
      BY <2>6 DEF Awaits
    <3>3. Len(<<>>) = 0 /\ g_sub_context \in Contexts
      BY <1>0, <2>11, DeliveryTypes
    <3> QED BY <1>0, <2>1, <2>3, <2>11, <3>1, <3>2, <3>3 DEF Stream, Quiet
  <2>12. Cut => Cut'
    BY <1>0, <2>1, CutStays
  <2> QED BY <1>0, <2>5, <2>7, <2>8, <2>9, <2>10, <2>11, <2>12, NothingMoves DEF DeliveryInv
<1> QED BY <1>2, <1>3 DEF SubscribeStore, WillReturn

(* The command is in the output buffer of a connection that is empty.       *)
LEMMA DeliveryCommand ==
    ASSUME TypeInv, LockInv, TableInv, PipeInv, DeliveryInv, NEW t \in Threads, SubscribeCommand(t)
    PROVE  DeliveryInv' /\ Promised
<1> DEFINE S == g_sub_context
           cmd == [verb |-> "SUBSCRIBE", channel |-> arg[t].channel]
<1>0. /\ SubThreads \subseteq Threads /\ io \in [Threads -> IO] /\ S # NULL /\ S \in Contexts
      /\ obuf \in [Contexts -> Seq(Command)] /\ pc[t] = "subscribe_command"
      /\ RedisCommand(t, S, cmd)
  BY DeliveryTypes DEF SubscribeCommand
<1>1. /\ UNCHANGED <<ctx, reader, sock, dropped, subscribed>>
      /\ UNCHANGED <<g_context, g_sub_context, g_table, lockState, loop, got, nsub, delivered>>
  BY DEF SubscribeCommand, RedisCommand, serverVars, globals, loopVars, lockVars
<1>2. \A u \in Threads : pc'[u] = IF u = t THEN "subscribe_reply" ELSE pc[u]
  BY DeliveryTypes DEF SubscribeCommand, Goto
<1>3. /\ \A u \in Threads \ {t} : io'[u] = io[u] /\ pc[u] \notin SubscribePC
      /\ io'[t].at = "try" /\ io'[t].on = S /\ io'[t].buf = <<>>
      /\ io[t].at = "none"
  <2>1. io' = [io EXCEPT ![t] = [NoIO EXCEPT !.at = "try", !.on = S]]
    BY <1>0 DEF RedisCommand, GetReply
  <2>2. io[t].at = "none"
    BY <1>0 DEF PipeInv, BusyWhere, ReplyPC
  <2> QED BY <1>0, <2>1, <2>2 DEF NoIO, DeliveryInv, OneSubscription, SubscribePC
<1>4. /\ nsub = 1 /\ Unsent /\ ~Started /\ Quiet(S)
      /\ \A c \in Contexts : subscribed[c] = {}
  BY <1>0 DEF DeliveryInv, OneSubscription, Unsent, UnsentPC, SubscribePC
<1>5. /\ g_table # <<>> /\ Len(g_table) = 1 /\ g_table[1].channel = arg[t].channel
      /\ Len(obuf'[S]) = 1 /\ obuf'[S][1] = cmd
  <2>1. obuf'[S] = Append(<<>>, cmd)
    BY <1>0, <1>4 DEF RedisCommand, Quiet
  <2>2. \A e : Append(<<>>, e) = <<e>> /\ Len(<<e>>) = 1 /\ <<e>>[1] = e
    OBVIOUS
  <2>3. g_table # <<>> /\ g_table[Len(g_table)] = arg[t]
    BY <1>0 DEF TableInv, OwnLast, StoredPC, NothingAfterClose, Closed
  <2>4. Len(g_table) = 1
    <3>1. Len(g_table) \in Nat /\ Len(g_table) <= 1
      BY DeliveryTypes DEF DeliveryInv, OneSubscription
    <3>2. Len(g_table) # 0
      BY <2>3, DeliveryTypes, EmptySeq
    <3>3. \A n \in Nat : n # 0 /\ n <= 1 => n = 1
      OBVIOUS
    <3> QED BY <3>1, <3>2, <3>3
  <2> QED BY <2>1, <2>2, <2>3, <2>4
<1>6. /\ InContext = <<>>
      /\ \A u \in Threads : io[u].at # "none" => io[u].on # S
      /\ \A u \in Threads : Received(S)[u] = <<>>
  BY <1>0, <1>3, <1>4, QuietConnection DEF SubscribePC
<1>7. ~Started' /\ ~Unsent'
  BY <1>1, <1>2, <1>3, <1>4 DEF Started, Unsent, UnsentPC, SubscribePC
<1>8. OneSubscription'
  BY <1>1, <1>2, <1>3, <1>4, <1>5, <1>7 DEF DeliveryInv, OneSubscription, SubscribePC
<1>9. Lifetimes' /\ OnlySubscriber'
  BY <1>1, <1>2, <1>7 DEF DeliveryInv, Lifetimes, OnlySubscriber
<1>10. Buffers'
  <2>1. \A u \in SubThreads : loop'[u] # "reply"
    BY <1>1, <1>4 DEF Started
  <2> QED BY <1>0, <1>1, <1>2, <1>3, <1>6, <2>1 DEF DeliveryInv, Buffers, SubscribePC
<1>11. /\ \A u \in Threads : InHand[u] = <<>> /\ InHand'[u] = <<>>
       /\ Held(InHand)' = Held(InHand)
  <2>1. \A u \in Threads : InHand[u] = <<>>
    BY <1>4, HandEmpty
  <2>2. \A u \in Threads : InHand'[u] = <<>>
    BY <1>7 DEF InHand, Started
  <2> QED BY <2>1, <2>2, SameInHand
<1>12. InHandWanted'
  BY <1>0, <1>11 DEF InHandWanted
<1>13. InContext' = <<>>
  <2>1. \A u \in Threads : Received(S)'[u] = <<>>
    BY <1>1, <1>3, <1>6 DEF Received
  <2>2. <<>> \o <<>> \o <<>> = <<>> /\ Held(Received(S))' = <<>>
    BY <2>1 DEF Held
  <2> QED BY <1>1, <1>4, <2>2 DEF InContext, Quiet
<1>14. Stream'
  <2>1. Unserved'
    BY <1>1, <1>2, <1>3, <1>5, <1>13 DEF Unserved
  <2>2. Len(<<>>) = 0
    OBVIOUS
  <2> QED BY <1>0, <1>1, <1>4, <1>13, <2>1, <2>2 DEF Stream, Quiet
<1>15. Cut => Cut'
  BY <1>1, CutStays
<1> QED BY <1>1, <1>6, <1>8, <1>9, <1>10, <1>11, <1>12, <1>13, <1>14, <1>15, NothingMoves DEF DeliveryInv

(* The subscribing call comes back; with it, or never, starts the thread.   *)
LEMMA DeliveryAnswered ==
    ASSUME TypeInv, TableInv, PipeInv, DeliveryInv, NEW t \in Threads, SubscribeReply(t)
    PROVE  DeliveryInv' /\ Promised
<1> DEFINE S == g_sub_context
<1>0. /\ SubThreads \subseteq Threads /\ io \in [Threads -> IO] /\ loop \in [SubThreads -> Loops]
      /\ pc[t] = "subscribe_reply" /\ io[t].at \in {"ok", "err"}
      /\ S # NULL /\ io[t].on = S /\ ~Started /\ nsub = 1
  BY DeliveryTypes DEF SubscribeReply, DeliveryInv, Buffers, OneSubscription, SubscribePC
<1>1. /\ UNCHANGED <<ctx, obuf, reader, sock, dropped, subscribed>>
      /\ UNCHANGED <<g_context, g_sub_context, lockState, got, nsub, delivered>>
  BY DEF SubscribeReply, serverVars, lockVars
<1>2. \A u \in Threads : pc'[u] = IF u = t THEN "subscribe_leave" ELSE pc[u]
  BY DeliveryTypes DEF SubscribeReply, WillReturn, Goto
<1>3. /\ \A u \in Threads \ {t} : io'[u] = io[u] /\ pc[u] \notin SubscribePC
      /\ io'[t].at = "none" /\ io'[t].buf = <<>> /\ io[t].buf = <<>>
  <2>1. io' = [io EXCEPT ![t] = NoIO]
    BY DEF SubscribeReply, ReturnFromIO
  <2>2. io[t].buf = <<>>
    BY <1>0 DEF DeliveryInv, Buffers
  <2> QED BY <1>0, <2>1, <2>2 DEF NoIO, DeliveryInv, OneSubscription, SubscribePC
<1>4. g_table' = g_table \/ g_table' = <<>>
  <2>1. CASE DropLastEntry
    <3>1. Len(g_table) = 1
      <4>1. g_table # <<>> /\ Len(g_table) <= 1
        BY <1>0 DEF TableInv, OwnLast, StoredPC, NothingAfterClose, Closed, DeliveryInv, OneSubscription
      <4>2. g_table \in Seq(Entry) /\ Len(g_table) \in Nat
        BY DeliveryTypes
      <4>3. Len(g_table) # 0
        BY <4>1, <4>2, EmptySeq
      <4> QED BY <4>1, <4>2, <4>3
    <3> QED BY <2>1, <3>1, SubSeqEmpty DEF DropLastEntry
  <2> QED BY <2>1 DEF SubscribeReply
<1>5. /\ \A u \in SubThreads : loop[u] = "none" /\ loop'[u] \in {"none", "check"}
      /\ Started' => Answered
  <2>1. \A u \in SubThreads : loop[u] = "none"
    BY <1>0 DEF Started
  <2>2. loop' = loop \/ (io[t].at = "ok" /\ \E s \in SubThreads : loop' = [loop EXCEPT ![s] = "check"])
    BY DEF SubscribeReply
  <2> QED BY <1>0, <2>1, <2>2 DEF Answered, Started
<1>6. ~Unsent' /\ \A u \in Threads : pc'[u] \notin SubscribePC
  BY <1>0, <1>1, <1>2, <1>3 DEF Unsent, UnsentPC, SubscribePC
<1>7. OneSubscription'
  <2>1. Len(<<>>) = 0
    OBVIOUS
  <2> QED BY <1>0, <1>1, <1>4, <1>6, <2>1 DEF DeliveryInv, OneSubscription
<1>8. Lifetimes' /\ OnlySubscriber'
  BY <1>0, <1>1, <1>2 DEF DeliveryInv, Lifetimes, OnlySubscriber
<1>9. Buffers'
  <2>1. \A u \in Threads : pc'[u] # "subscribe_reply"
    BY <1>6 DEF SubscribePC
  <2> QED BY <1>1, <1>3, <1>5, <2>1 DEF DeliveryInv, Buffers
<1>10. /\ \A u \in Threads : InHand[u] = <<>> /\ InHand'[u] = <<>>
       /\ Held(InHand)' = Held(InHand)
  <2>1. \A u \in Threads : InHand[u] = <<>>
    BY <1>0, HandEmpty
  <2>2. \A u \in Threads : InHand'[u] = <<>>
    BY <1>5 DEF InHand
  <2> QED BY <2>1, <2>2, SameInHand
<1>11. InHandWanted'
  BY <1>0, <1>10 DEF InHandWanted
<1>12. InContext' = InContext
  <2>1. Received(S)[t] = <<>> /\ Received(S)'[t] = <<>>
    BY <1>3 DEF Received
  <2>2. ASSUME NEW u \in Threads, u # t PROVE Received(S)'[u] = Received(S)[u]
    BY <1>1, <1>3, <2>2 DEF Received
  <2> QED BY <1>1, <2>1, <2>2, SameInContext
<1>13. Stream'
  <2>0. Stream
    BY <1>0 DEF DeliveryInv
  <2>1. \A r : Wanted(r) => Wanted(r)'
    BY <1>4 DEF Wanted
  <2>2. (Answered' => Answered) /\ \A u \in Threads : ~Awaits(u)'
    BY <1>5, <1>6 DEF Answered, Awaits, SubscribePC
  <2>3. ~Unserved
    BY <1>0, <1>3 DEF Unserved, SubscribePC
  <2> QED BY <1>1, <1>4, <1>12, <2>0, <2>1, <2>2, <2>3 DEF Stream
<1>14. Cut => Cut'
  BY <1>1, CutStays
<1> QED BY <1>1, <1>7, <1>8, <1>9, <1>10, <1>11, <1>12, <1>13, <1>14, NothingMoves DEF DeliveryInv

(* Inside redisGetReply on the subscribing connection.                      *)
OnSubscriber(t) ==
    /\ TypeInv /\ TableInv /\ PipeInv /\ DeliveryInv
    /\ IOStep(t) /\ UNCHANGED otherVars
    /\ io[t].at # "none" /\ io[t].on = g_sub_context

(* It does so in redis_subscribe, or in subscription_thread.                *)
Subscribing(t) == pc[t] = "subscribe_reply" /\ ~Started
Looping(t) == t \in SubThreads /\ loop[t] = "reply" /\ Started /\ pc[t] # "subscribe_reply"

(* Such a step changes the connection and this thread only.                 *)
LEMMA OnSubscriberFrame ==
    ASSUME NEW t \in Threads, OnSubscriber(t)
    PROVE  /\ g_sub_context # NULL /\ g_sub_context \in Contexts
           /\ UNCHANGED <<g_context, g_sub_context, g_table, lockState, pc, loop, got, nsub, delivered, dropped>>
           /\ Subscribing(t) \/ Looping(t)
           /\ \A u \in Threads \ {t} : /\ io'[u] = io[u] /\ pc[u] # "subscribe_reply"
                                       /\ io[u].at # "none" => io[u].on # g_sub_context
           /\ io'[t].on = g_sub_context /\ io'[t].at # "none" /\ io[t] \in IO
           /\ \A d \in Contexts \ {g_sub_context} : UNCHANGED <<ctx[d], subscribed[d]>>
           /\ \A u \in Threads \ {t} : InHand[u] = <<>> /\ InHand'[u] = <<>>
           /\ Held(InHand) = InHand[t] /\ Held(InHand)' = InHand'[t]
           /\ InContext = (reader[g_sub_context] \o io[t].buf) \o sock[g_sub_context]
           /\ InContext' = (reader'[g_sub_context] \o io'[t].buf) \o sock'[g_sub_context]
           /\ Stream /\ ~Unsent /\ (Started' <=> Started)
           /\ OneSubscription'
<1> DEFINE S == g_sub_context
<1>0. TypeInv /\ TableInv /\ PipeInv /\ DeliveryInv /\ IOStep(t) /\ io[t].at # "none" /\ io[t].on = S
  BY DEF OnSubscriber
<1>1. /\ S # NULL /\ S \in Contexts
      /\ \/ pc[t] = "subscribe_reply" /\ ~Started
         \/ t \in SubThreads /\ loop[t] = "reply" /\ Started /\ pc[t] = "idle"
            /\ \A u \in Threads : pc[u] # "subscribe_reply"
      /\ \A u \in Threads \ {t} : io[u].at # "none" => io[u].on # S
      /\ \A u \in Threads \ {t} : Received(S)[u] = <<>> /\ InHand[u] = <<>>
      /\ Held(Received(S)) = io[t].buf
      /\ Held(InHand) = InHand[t]
  BY <1>0, OnConnection
<1>2. UNCHANGED <<g_context, g_sub_context, g_table, lockState, pc, loop, got, nsub, delivered>>
  BY DEF OnSubscriber, otherVars, globals, lockVars, callVars, loopVars
<1>3. UNCHANGED dropped
  BY <1>0 DEF IOStep, TryReader, Flush, Recv, Parse, IOError, Crash, serverVars, ServerExecutes
<1>4. /\ \A d \in Contexts \ {S} : UNCHANGED <<ctx[d], subscribed[d]>>
      /\ \A u \in Threads \ {t} : io'[u] = io[u]
      /\ io'[t].on = S /\ io'[t].at # "none"
  BY <1>0, IOStepFrame
<1>5. \A u \in Threads \ {t} : pc[u] # "subscribe_reply"
  BY <1>0, <1>1 DEF DeliveryInv, OneSubscription, SubscribePC
<1>6. \A u \in Threads \ {t} : InHand'[u] = <<>> /\ Received(S)'[u] = <<>>
  <2> SUFFICES ASSUME NEW u \in Threads \ {t} PROVE InHand'[u] = <<>> /\ Received(S)'[u] = <<>>
    OBVIOUS
  <2>1. InHand'[u] = InHand[u] /\ Received(S)'[u] = Received(S)[u]
    BY <1>2, <1>4 DEF InHand, Received
  <2> QED BY <1>1, <2>1
<1>7. Held(InHand)' = InHand'[t] /\ Held(Received(S))' = io'[t].buf
  <2>1. Held(InHand') = InHand'[t]
    BY <1>6, HeldAt
  <2>2. Held(Received(S)') = Received(S)'[t]
    BY <1>6, HeldAt
  <2>3. Received(S)'[t] = io'[t].buf
    BY <1>2, <1>4 DEF Received
  <2> QED BY <2>1, <2>2, <2>3
<1>8. /\ InContext = (reader[S] \o io[t].buf) \o sock[S]
      /\ InContext' = (reader'[S] \o io'[t].buf) \o sock'[S]
  BY <1>1, <1>2, <1>7 DEF InContext
<1>9. Stream /\ ~Unsent /\ (Started' <=> Started)
  BY <1>0, <1>1, <1>2 DEF DeliveryInv, OneSubscription, Unsent, UnsentPC, SubscribePC, Started
<1>10. OneSubscription'
  BY <1>0, <1>2, <1>9 DEF DeliveryInv, OneSubscription, Unsent
<1>11. io[t] \in IO /\ (Subscribing(t) \/ Looping(t))
  BY <1>0, <1>1, DeliveryTypes DEF Subscribing, Looping
<1> QED BY <1>1, <1>2, <1>3, <1>4, <1>5, <1>6, <1>7, <1>8, <1>9, <1>10, <1>11

(* The parts of the invariant that do not speak of the bytes.               *)
LEMMA OnSubscriberKeeps ==
    ASSUME NEW t \in Threads, OnSubscriber(t),
           ctx'[g_sub_context] = ctx[g_sub_context] \/ (ctx[g_sub_context] # "freed" /\ ctx'[g_sub_context] = "err"),
           subscribed'[g_sub_context] # {} => ctx'[g_sub_context] = "open" /\ ~dropped[g_sub_context],
           io'[t].buf # <<>> => io'[t].at = "parse",
           io'[t].at \in {"flush", "recv", "parse"} => ctx'[g_sub_context] # "freed"
    PROVE  OneSubscription' /\ Lifetimes' /\ Buffers' /\ OnlySubscriber' /\ (Cut => Cut')
<1> DEFINE S == g_sub_context
<1>0. /\ TypeInv /\ TableInv /\ PipeInv /\ DeliveryInv
      /\ SubThreads \subseteq Threads
  BY DeliveryTypes DEF OnSubscriber
<1>1. /\ S # NULL /\ S \in Contexts
      /\ UNCHANGED <<g_context, g_sub_context, g_table, lockState, pc, loop, got, nsub, delivered, dropped>>
      /\ \A u \in Threads \ {t} : io'[u] = io[u]
      /\ io'[t].on = S /\ io'[t].at # "none" /\ io[t].on = S
      /\ \A d \in Contexts \ {S} : UNCHANGED <<ctx[d], subscribed[d]>>
      /\ Started' <=> Started
      /\ OneSubscription'
  BY OnSubscriberFrame DEF OnSubscriber
<1>2. \A d \in Contexts : /\ ctx'[d] = "freed" <=> ctx[d] = "freed"
                          /\ ctx'[d] = "open" => ctx[d] = "open"
                          /\ ctx[d] = "err" => ctx'[d] = "err"
  BY <1>1
<1>3. Lifetimes'
  BY <1>0, <1>1, <1>2 DEF DeliveryInv, Lifetimes
<1>4. OnlySubscriber'
  BY <1>0, <1>1 DEF DeliveryInv, OnlySubscriber
<1>5. Buffers'
  <2>0. Buffers
    BY <1>0 DEF DeliveryInv
  <2>1. \A u \in Threads : io'[u].at = "none" => io'[u].buf = <<>>
    BY <1>1, <2>0 DEF Buffers
  <2>2. \A u \in Threads : pc'[u] = "subscribe_reply" => g_sub_context' # NULL /\ io'[u].on = g_sub_context'
    BY <1>1, <2>0 DEF Buffers
  <2>3. ASSUME NEW s \in SubThreads, loop'[s] = "reply" PROVE io'[s].on = g_sub_context' \/ ctx'[io'[s].on] = "freed"
    <3>1. CASE s = t
      BY <1>1, <3>1
    <3>2. CASE s # t
      <4>1. io'[s] = io[s] /\ io[s].at # "none"
        BY <1>0, <1>1, <2>3, <3>2 DEF PipeInv, BusyWhere
      <4>2. io[s].on \in Contexts
        BY <1>0, <4>1 DEF TypeInv, IOTarget
      <4> QED BY <1>0, <1>1, <1>2, <2>0, <2>3, <4>1, <4>2 DEF Buffers
    <3> QED BY <3>1, <3>2
  <2>4. ASSUME NEW u \in Threads, io'[u].at # "none", io'[u].on = g_sub_context'
        PROVE  /\ io'[u].buf # <<>> => io'[u].at = "parse"
               /\ io'[u].at \in {"flush", "recv", "parse"} => ctx'[g_sub_context'] # "freed"
    BY <1>1, <1>2, <2>0, <2>4 DEF Buffers
  <2> QED BY <2>1, <2>2, <2>3, <2>4 DEF Buffers
<1>6. Cut => Cut'
  BY <1>0, <1>1, <1>2, CutStays
<1> QED BY <1>1, <1>3, <1>4, <1>5, <1>6

(* Nothing on the connection is taken or added.                             *)
LEMMA OnSubscriberSame ==
    ASSUME NEW t \in Threads, OnSubscriber(t),
           OneSubscription' /\ Lifetimes' /\ Buffers' /\ OnlySubscriber' /\ (Cut => Cut'),
           InContext' = InContext, UNCHANGED <<reader[g_sub_context], subscribed[g_sub_context]>>,
           io[t].at # "ok", io'[t].at # "ok",
           (ctx'[g_sub_context] = "open" /\ obuf'[g_sub_context] # <<>>) =>
               ctx[g_sub_context] = "open" /\ UNCHANGED obuf[g_sub_context] /\ io'[t].at \in {"try", "flush"}
    PROVE  DeliveryInv' /\ Promised
<1>0. TypeInv /\ TableInv /\ PipeInv /\ DeliveryInv /\ SubThreads \subseteq Threads
  BY DeliveryTypes DEF OnSubscriber
<1>1. /\ g_sub_context # NULL /\ g_sub_context \in Contexts
      /\ UNCHANGED <<g_context, g_sub_context, g_table, lockState, pc, loop, got, nsub, delivered, dropped>>
      /\ Subscribing(t) \/ Looping(t)
      /\ \A u \in Threads \ {t} : io'[u] = io[u] /\ pc[u] # "subscribe_reply"
      /\ \A u \in Threads \ {t} : InHand[u] = <<>> /\ InHand'[u] = <<>>
      /\ Stream /\ (Started' <=> Started)
  BY OnSubscriberFrame
<1>2. InHand[t] = <<>> /\ InHand'[t] = <<>>
  <2>1. t \in SubThreads => loop[t] \in {"none", "reply"} /\ loop'[t] \in {"none", "reply"}
    BY <1>1 DEF Subscribing, Looping, Started
  <2> QED BY <2>1 DEF InHand
<1>3. \A u \in Threads : InHand'[u] = InHand[u]
  BY <1>1, <1>2
<1>4. \A r : Wanted(r) => Wanted(r)'
  BY <1>1 DEF Wanted
<1>5. InHandWanted'
  BY <1>0, <1>3, <1>4 DEF DeliveryInv, InHandWanted
<1>6. (Answered' <=> Answered) /\ \A u \in Threads : Awaits(u)' <=> Awaits(u)
  BY <1>1 DEF Answered, Awaits
<1>7. Stream'
  <2>1. ASSUME ctx'[g_sub_context'] = "open", obuf'[g_sub_context'] # <<>> PROVE Unserved'
    <3>1. Unserved /\ UNCHANGED obuf[g_sub_context] /\ io'[t].at \in {"try", "flush"}
      BY <1>1, <2>1 DEF Stream
    <3>2. pc[t] = "subscribe_reply"
      BY <1>1, <3>1 DEF Unserved
    <3> QED BY <1>1, <3>1, <3>2 DEF Unserved
  <2> QED BY <1>1, <1>4, <1>6, <2>1 DEF Stream
<1>8. Held(InHand)' = Held(InHand)
  BY <1>3, SameInHand
<1> QED BY <1>0, <1>1, <1>5, <1>7, <1>8, NothingMoves DEF DeliveryInv

(* The oldest reply leaves the context: the answer for the subscribing      *)
(* call, a message for the subscription thread.                             *)
LEMMA OnSubscriberTaken ==
    ASSUME NEW t \in Threads, OnSubscriber(t),
           OneSubscription' /\ Lifetimes' /\ Buffers' /\ OnlySubscriber' /\ (Cut => Cut'),
           InContext # <<>>, InContext' = Tail(InContext),
           io[t].at \in {"try", "parse"}, io'[t].at = "ok", io'[t].reply = InContext[1],
           io[t].at = "try" => reader[g_sub_context] # <<>>,
           UNCHANGED <<ctx, obuf, subscribed>>
    PROVE  DeliveryInv' /\ Promised
<1> DEFINE q == InContext
<1>0. TypeInv /\ TableInv /\ PipeInv /\ DeliveryInv /\ SubThreads \subseteq Threads
  BY DeliveryTypes DEF OnSubscriber
<1>1. /\ g_sub_context # NULL /\ g_sub_context \in Contexts
      /\ UNCHANGED <<g_context, g_sub_context, g_table, lockState, pc, loop, got, nsub, delivered, dropped>>
      /\ Subscribing(t) \/ Looping(t)
      /\ \A u \in Threads \ {t} : io'[u] = io[u] /\ pc[u] # "subscribe_reply"
      /\ \A u \in Threads \ {t} : InHand[u] = <<>> /\ InHand'[u] = <<>>
      /\ Held(InHand) = InHand[t] /\ Held(InHand)' = InHand'[t]
      /\ Stream /\ (Started' <=> Started)
  BY OnSubscriberFrame
<1>2. /\ q \in Seq(Arrived) /\ Len(q) \in Nat \ {0}
      /\ Tail(q) \in Seq(Arrived) /\ Len(Tail(q)) = Len(q) - 1
      /\ \A i \in 1 .. Len(q) - 1 : Tail(q)[i] = q[i + 1]
      /\ q[1] \in Arrived
  <2>1. q \in Seq(Arrived) /\ q # <<>>
    BY <1>0, FlowTypes
  <2>2. Len(q) \in Nat /\ Len(q) # 0
    BY <2>1, LenProperties, EmptySeq
  <2> HIDE DEF q
  <2> QED BY <2>1, <2>2, HeadTailProperties, ElementOfSeq
<1>3. \A i \in 1 .. Len(Tail(q)) : Wanted(Tail(q)[i])
  <2> SUFFICES ASSUME NEW i \in 1 .. Len(Tail(q)) PROVE Wanted(Tail(q)[i])
    OBVIOUS
  <2>1. i + 1 \in 1 .. Len(q) /\ i + 1 > 1 /\ Tail(q)[i] = q[i + 1]
    BY <1>2
  <2>2. Wanted(q[i + 1])
    BY <1>1, <2>1 DEF Stream
  <2> QED BY <2>1, <2>2
<1>4. Tail(q) # <<>> => IsMessage(Tail(q)[1])
  <2>1. Tail(q) # <<>> => 1 \in 1 .. Len(Tail(q))
    BY <1>2, EmptySeq
  <2> QED BY <1>3, <2>1 DEF Wanted
<1>5. \A r : Wanted(r) <=> Wanted(r)'
  BY <1>1 DEF Wanted
<1>6. ~\E u \in Threads : Awaits(u)'
  BY <1>1 DEF Awaits
<1>7. ctx[g_sub_context] = "open" => obuf[g_sub_context] = <<>>
  <2>1. SUFFICES ASSUME Unserved PROVE FALSE
    BY <1>1 DEF Stream
  <2> QED BY <2>1 DEF Unserved
<1>8. Stream'
  <2>1. \A i \in 1 .. Len(InContext') : Wanted(InContext[i])'
    BY <1>3, <1>5
  <2> QED BY <1>1, <1>6, <1>7, <2>1 DEF Stream
<1>9. CASE Subscribing(t)
  <2>1. InHand[t] = <<>> /\ InHand'[t] = <<>>
    <3>1. t \in SubThreads => loop[t] = "none" /\ loop'[t] = "none"
      BY <1>1, <1>9 DEF Subscribing, Started
    <3> QED BY <3>1 DEF InHand
  <2>2. ~IsMessage(q[1])
    BY <1>1, <1>9 DEF Stream, Awaits, Subscribing
  <2>3. WithoutAnswer(q) = Tail(q) /\ WithoutAnswer(Tail(q)) = Tail(q)
    BY <1>4, <2>2 DEF WithoutAnswer
  <2>4. <<>> \o q = q /\ <<>> \o Tail(q) = Tail(q)
    BY <1>2
  <2>5. Pending' = Pending
    BY <1>1, <2>1, <2>3, <2>4 DEF Pending
  <2>6. InHandWanted'
    BY <1>0, <1>1, <2>1 DEF InHandWanted
  <2>7. Promised
    BY <1>0, <1>1, <2>5, StillPromised
  <2> QED BY <1>1, <1>8, <2>6, <2>7 DEF DeliveryInv
<1>10. CASE Looping(t)
  <2>1. InHand[t] = <<>> /\ InHand'[t] = <<q[1]>>
    <3>1. t \in SubThreads /\ loop[t] = "reply" /\ loop'[t] = "reply"
      BY <1>1, <1>10 DEF Looping
    <3> QED BY <3>1 DEF InHand
  <2>2. Wanted(q[1])
    BY <1>1, <1>2, <1>10 DEF Stream, Answered, Looping
  <2>3. <<>> \o q = q /\ <<q[1]>> \o Tail(q) = q
    <3>1. q \in Seq(Arrived) /\ q # <<>>
      BY <1>2
    <3> HIDE DEF q
    <3> QED BY <3>1, HeadAndTail
  <2>4. Pending' = Pending
    BY <1>1, <2>1, <2>3 DEF Pending
  <2>5. InHandWanted'
    <3>1. \A x : <<x>>[1] = x
      OBVIOUS
    <3> QED BY <1>0, <1>1, <1>5, <2>1, <2>2, <3>1 DEF InHandWanted
  <2>6. Promised
    BY <1>0, <1>1, <2>4, StillPromised
  <2> QED BY <1>1, <1>8, <2>5, <2>6 DEF DeliveryInv
<1> QED BY <1>1, <1>9, <1>10

(* The server gets the command, and answers it before anything else.        *)
LEMMA OnSubscriberServed ==
    ASSUME NEW t \in Threads, OnSubscriber(t), io[t].at = "flush",
           ctx[g_sub_context] = "open", obuf[g_sub_context] # <<>>,
           obuf' = [obuf EXCEPT ![g_sub_context] = Tail(@)],
           IF dropped[g_sub_context] THEN UNCHANGED serverVars
           ELSE ServerExecutes(g_sub_context, Head(obuf[g_sub_context])),
           UNCHANGED <<ctx, reader, io>>
    PROVE  DeliveryInv' /\ Promised
<1> DEFINE S == g_sub_context
<1>0. /\ TypeInv /\ TableInv /\ PipeInv /\ DeliveryInv /\ SubThreads \subseteq Threads
      /\ obuf \in [Contexts -> Seq(Command)] /\ sock \in [Contexts -> Seq(Arrived)]
      /\ subscribed \in [Contexts -> SUBSET Channels] /\ reader \in [Contexts -> Seq(Arrived)]
      /\ io[t].buf \in Seq(Arrived)
  BY DeliveryTypes DEF OnSubscriber
<1>1. /\ S # NULL /\ S \in Contexts
      /\ UNCHANGED <<g_context, g_sub_context, g_table, lockState, pc, loop, got, nsub, delivered, dropped>>
      /\ Subscribing(t) \/ Looping(t)
      /\ \A u \in Threads \ {t} : io'[u] = io[u] /\ pc[u] # "subscribe_reply"
      /\ \A u \in Threads \ {t} : InHand[u] = <<>> /\ InHand'[u] = <<>>
      /\ Held(InHand) = InHand[t] /\ Held(InHand)' = InHand'[t]
      /\ InContext = (reader[S] \o io[t].buf) \o sock[S]
      /\ InContext' = (reader'[S] \o io'[t].buf) \o sock'[S]
      /\ Stream /\ (Started' <=> Started)
  BY OnSubscriberFrame
<1>2. Unserved
  BY <1>1 DEF Stream
<1>3. pc[t] = "subscribe_reply" /\ ~Started /\ Awaits(t) /\ InContext = <<>> /\ g_table # <<>>
  BY <1>1, <1>2 DEF Unserved, Subscribing, Looping, Awaits
<1>4. /\ obuf'[S] = <<>> /\ Head(obuf[S]).verb = "SUBSCRIBE"
      /\ Head(obuf[S]).channel = g_table[1].channel
  <2>1. Len(obuf[S]) = 1 /\ obuf[S] \in Seq(Command) /\ obuf'[S] = Tail(obuf[S])
    BY <1>0, <1>1, <1>2 DEF Unserved
  <2>2. Tail(obuf[S]) = <<>>
    BY <2>1, OneElement
  <2>3. Head(obuf[S]) = obuf[S][1]
    BY <2>1
  <2> QED BY <1>2, <2>1, <2>2, <2>3 DEF Unserved
<1>5. reader[S] = <<>> /\ io[t].buf = <<>> /\ sock[S] = <<>> /\ subscribed[S] = {}
  <2>1. subscribed[S] = {} /\ reader[S] = <<>>
    BY <1>1, <1>3 DEF Stream
  <2>2. io[t].buf = <<>>
    BY <1>0, <1>1 DEF OnSubscriber, DeliveryInv, Buffers
  <2>3. <<>> \o <<>> = <<>> /\ <<>> \o sock[S] = sock[S]
    BY <1>0, <1>1
  <2> QED BY <1>1, <1>3, <2>1, <2>2, <2>3
<1>6. PICK a \in {<<>>, <<ErrorReply>>, <<Subscribed(g_table[1].channel)>>} :
          /\ sock'[S] = a
          /\ subscribed'[S] \subseteq {g_table[1].channel}
          /\ a = <<>> => subscribed'[S] = {}
          /\ subscribed'[S] # {} => ~dropped[S]
  <2>1. CASE dropped[S]
    BY <1>1, <1>5, <2>1 DEF serverVars
  <2>2. CASE ~dropped[S] /\ UNCHANGED subscribed /\ sock' = [sock EXCEPT ![S] = Append(@, ErrorReply)]
    <3>1. sock'[S] = <<ErrorReply>>
      BY <1>0, <1>1, <1>5, <2>2
    <3> QED BY <1>1, <1>5, <2>2, <3>1
  <2>3. CASE /\ ~dropped[S]
             /\ subscribed' = [subscribed EXCEPT ![S] = @ \cup {g_table[1].channel}]
             /\ sock' = [sock EXCEPT ![S] = Append(@, Subscribed(g_table[1].channel))]
    <3>1. sock'[S] = <<Subscribed(g_table[1].channel)>> /\ <<Subscribed(g_table[1].channel)>> # <<>>
      BY <1>0, <1>1, <1>5, <2>3
    <3>2. subscribed'[S] = {g_table[1].channel}
      BY <1>0, <1>1, <1>5, <2>3
    <3> QED BY <2>3, <3>1, <3>2
  <2> QED BY <1>4, <2>1, <2>2, <2>3 DEF ServerExecutes
<1>7. InContext' = a /\ (a # <<>> => Len(a) = 1 /\ ~IsMessage(a[1])) /\ Len(a) \in {0, 1}
  <2>1. a \in {<<>>, <<ErrorReply>>, <<Subscribed(g_table[1].channel)>>}
    OBVIOUS
  <2>2. ErrorReply.kind # "message" /\ Subscribed(g_table[1].channel).kind # "message"
    BY DEF ErrorReply, Subscribed
  <2>3. \A x : Len(<<x>>) = 1 /\ Len(<<>>) = 0 /\ <<x>>[1] = x /\ <<>> \o <<>> = <<>> /\ <<>> \o <<x>> = <<x>>
    OBVIOUS
  <2> QED BY <1>1, <1>5, <1>6, <2>1, <2>2, <2>3 DEF IsMessage
<1>8. /\ InHand[t] = <<>> /\ InHand'[t] = <<>>
  <2>1. t \in SubThreads => loop[t] = "none" /\ loop'[t] = "none"
    BY <1>1, <1>3 DEF Started
  <2> QED BY <2>1 DEF InHand
<1>9. OneSubscription' /\ Lifetimes' /\ Buffers' /\ OnlySubscriber' /\ (Cut => Cut')
  <2>1. ctx'[S] = ctx[S] /\ ctx'[S] = "open" /\ io'[t].buf = <<>>
    BY <1>5
  <2> QED BY <1>6, <2>1, OnSubscriberKeeps
<1>10. Stream'
  <2>1. ~Answered'
    BY <1>1, <1>3 DEF Answered
  <2>2. \A u \in Threads : Awaits(u)' => u = t
    BY <1>1 DEF Awaits
  <2>3. \A i \in 1 .. Len(InContext') : ~(i > 1)
    <3>1. Len(InContext') \in {0, 1}
      BY <1>7
    <3> QED BY <3>1
  <2> QED BY <1>1, <1>4, <1>5, <1>6, <1>7, <2>1, <2>2, <2>3 DEF Stream
<1>11. InHandWanted'
  BY <1>0, <1>1, <1>8 DEF InHandWanted
<1>12. Pending' = Pending
  <2>1. <<>> \o a = a /\ <<>> \o <<>> = <<>>
    <3>1. \A x : <<>> \o <<x>> = <<x>>
      OBVIOUS
    <3> QED BY <3>1
  <2>2. \A x : Tail(<<x>>) = <<>>
    OBVIOUS
  <2>3. WithoutAnswer(a) = <<>> /\ WithoutAnswer(<<>>) = <<>>
    BY <1>7, <2>2 DEF WithoutAnswer
  <2> QED BY <1>1, <1>3, <1>7, <1>8, <2>1, <2>3 DEF Pending
<1>13. Promised
  BY <1>0, <1>1, <1>9, <1>12, StillPromised
<1> QED BY <1>9, <1>10, <1>11, <1>13 DEF DeliveryInv

(* Every step inside redisGetReply on the subscribing connection.           *)
LEMMA DeliveryOnSubscriber ==
    ASSUME NEW t \in Threads, OnSubscriber(t) PROVE DeliveryInv' /\ Promised
<1> DEFINE S == g_sub_context
           r == reader[S]
           b == io[t].buf
           x == sock[S]
<1>0. /\ TypeInv /\ TableInv /\ PipeInv /\ DeliveryInv /\ SubThreads \subseteq Threads
      /\ io \in [Threads -> IO] /\ ctx \in [Contexts -> {"unused", "open", "err", "freed"}]
      /\ obuf \in [Contexts -> Seq(Command)] /\ sock \in [Contexts -> Seq(Arrived)]
      /\ subscribed \in [Contexts -> SUBSET Channels] /\ reader \in [Contexts -> Seq(Arrived)]
      /\ IOStep(t) /\ UNCHANGED otherVars /\ io[t].at # "none" /\ io[t].on = S
  BY DeliveryTypes DEF OnSubscriber
<1>1. /\ S # NULL /\ S \in Contexts /\ S' = S
      /\ UNCHANGED <<g_context, g_sub_context, g_table, lockState, pc, loop, got, nsub, delivered, dropped>>
      /\ Subscribing(t) \/ Looping(t)
      /\ io[t] \in IO
      /\ InContext = (r \o b) \o x
      /\ InContext' = (reader'[S] \o io'[t].buf) \o sock'[S]
      /\ Stream
  BY OnSubscriberFrame
<1>2. /\ r \in Seq(Arrived) /\ b \in Seq(Arrived) /\ x \in Seq(Arrived) /\ r \o b \in Seq(Arrived)
      /\ InContext \in Seq(Arrived)
  <2>1. r \in Seq(Arrived) /\ b \in Seq(Arrived) /\ x \in Seq(Arrived) /\ InContext \in Seq(Arrived)
    BY <1>0, <1>1, FlowTypes, DeliveryTypes
  <2> HIDE DEF r, b, x
  <2> QED BY <2>1, ConcatProperties
<1>3. /\ b # <<>> => io[t].at = "parse"
      /\ io[t].at \in {"flush", "recv", "parse"} => ctx[S] # "freed"
      /\ subscribed[S] # {} => ctx[S] = "open" /\ ~dropped[S]
  BY <1>0, <1>1 DEF DeliveryInv, Buffers, OnlySubscriber
<1>4. ASSUME IOError(t), subscribed[S] = {}, io[t].at \in {"try", "flush", "recv"} PROVE DeliveryInv' /\ Promised
  <2>1. /\ io'[t].at = "err" /\ io'[t].buf = b
        /\ ctx'[S] = IF ctx[S] = "freed" THEN ctx[S] ELSE "err"
        /\ UNCHANGED <<obuf, reader, sock, subscribed>>
    BY <1>0, <1>1, <1>4 DEF IOError, serverVars, IO
  <2>2. OneSubscription' /\ Lifetimes' /\ Buffers' /\ OnlySubscriber' /\ (Cut => Cut')
    BY <1>0, <1>1, <1>3, <1>4, <2>1, OnSubscriberKeeps
  <2>3. InContext' = InContext
    BY <1>1, <2>1
  <2>4. io[t].at # "ok" /\ io'[t].at # "ok" /\ ctx'[S] # "open"
    BY <1>4, <2>1
  <2>5. UNCHANGED <<reader[g_sub_context], subscribed[g_sub_context]>>
    BY <1>1, <2>1
  <2> QED BY <2>2, <2>3, <2>4, <2>5, OnSubscriberSame
(* A step of redisGetReply that only goes on, the connection as it was.     *)
<1>5. ASSUME NEW label \in {"flush", "recv"}, io' = [io EXCEPT ![t].at = label], b = <<>>,
             UNCHANGED <<ctx, obuf, reader, serverVars>>, ctx[S] # "freed", io[t].at # "ok",
             label = "recv" => obuf[S] = <<>>
      PROVE  DeliveryInv' /\ Promised
  <2>1. io'[t].at = label /\ io'[t].buf = <<>> /\ UNCHANGED <<sock, subscribed>>
    BY <1>0, <1>5 DEF serverVars, IO
  <2>2. OneSubscription' /\ Lifetimes' /\ Buffers' /\ OnlySubscriber' /\ (Cut => Cut')
    BY <1>1, <1>3, <1>5, <2>1, OnSubscriberKeeps
  <2>3. InContext' = InContext
    BY <1>1, <1>5, <2>1
  <2>4. UNCHANGED <<reader[g_sub_context], subscribed[g_sub_context], obuf[g_sub_context]>>
    BY <1>1, <1>5, <2>1
  <2> QED BY <1>1, <1>5, <2>1, <2>2, <2>3, <2>4, OnSubscriberSame
(* The first of what the context holds is returned.                         *)
<1>6. ASSUME io[t].at \in {"try", "parse"}, io[t].at = "try" => r # <<>>,
             r \o b # <<>>,
             io'[t].at = "ok", io'[t].reply = Head(r \o b), io'[t].buf = <<>>,
             reader' = [reader EXCEPT ![S] = Tail(r \o b)],
             UNCHANGED <<ctx, obuf, serverVars>>
      PROVE  DeliveryInv' /\ Promised
  <2> DEFINE all == r \o b
  <2>1. all \o x # <<>> /\ Tail(all) \o x = Tail(all \o x) /\ (all \o x)[1] = Head(all)
    <3>1. all \in Seq(Arrived) /\ all # <<>>
      BY <1>2, <1>6
    <3> HIDE DEF all, x
    <3> QED BY <1>2, <3>1, TailBefore
  <2>2. InContext' = Tail(all) \o x
    <3>1. Tail(all) \in Seq(Arrived)
      BY <1>2, <1>6, HeadTailProperties
    <3>2. Tail(all) \o <<>> = Tail(all)
      BY <3>1
    <3> QED BY <1>0, <1>1, <1>6, <3>2 DEF serverVars
  <2>3. InContext # <<>> /\ InContext' = Tail(InContext) /\ io'[t].reply = InContext[1]
    BY <1>1, <1>6, <2>1, <2>2
  <2>4. OneSubscription' /\ Lifetimes' /\ Buffers' /\ OnlySubscriber' /\ (Cut => Cut')
    BY <1>1, <1>3, <1>6, OnSubscriberKeeps DEF serverVars
  <2> QED BY <1>6, <2>3, <2>4, OnSubscriberTaken DEF serverVars
<1>7. CASE TryReader(t)
  <2>0. io[t].at = "try" /\ b = <<>>
    BY <1>3, <1>7 DEF TryReader
  <2>1. CASE /\ ctx[S] # "freed" /\ r # <<>>
             /\ io' = [io EXCEPT ![t].at = "ok", ![t].reply = Head(reader[S])]
             /\ reader' = [reader EXCEPT ![S] = Tail(@)]
             /\ UNCHANGED <<ctx, obuf, serverVars>>
    <3>1. r \o b = r
      BY <1>2, <2>0
    <3>2. io'[t].at = "ok" /\ io'[t].reply = Head(r) /\ io'[t].buf = <<>>
      BY <1>0, <2>0, <2>1 DEF IO
    <3>3. reader' = [reader EXCEPT ![S] = Tail(r)]
      BY <2>1
    <3> QED BY <1>6, <2>0, <2>1, <3>1, <3>2, <3>3
  <2>2. CASE /\ ctx[S] # "freed" /\ io' = [io EXCEPT ![t].at = "flush"]
             /\ UNCHANGED <<ctx, obuf, reader, serverVars>>
    BY <1>5, <2>0, <2>2
  <2>3. CASE ctx[S] = "freed" /\ IOError(t)
    BY <1>3, <1>4, <2>0, <2>3
  <2> QED BY <1>0, <1>7, <2>1, <2>2, <2>3 DEF TryReader
<1>8. CASE Flush(t)
  <2>0. io[t].at = "flush" /\ b = <<>>
    BY <1>3, <1>8 DEF Flush
  <2>1. CASE /\ ctx[S] = "open" /\ obuf[S] = <<>> /\ io' = [io EXCEPT ![t].at = "recv"]
             /\ UNCHANGED <<ctx, obuf, reader, serverVars>>
    BY <1>5, <2>0, <2>1
  <2>2. CASE /\ ctx[S] = "open" /\ obuf[S] # <<>> /\ obuf' = [obuf EXCEPT ![S] = Tail(@)]
             /\ IF dropped[S] THEN UNCHANGED serverVars ELSE ServerExecutes(S, Head(obuf[S]))
             /\ UNCHANGED <<ctx, reader, io>>
    BY <2>0, <2>2, OnSubscriberServed
  <2>3. CASE (ctx[S] # "open" \/ dropped[S]) /\ IOError(t)
    BY <1>3, <1>4, <2>0, <2>3
  <2> QED BY <1>0, <1>8, <2>1, <2>2, <2>3 DEF Flush
<1>9. CASE Recv(t)
  <2>0. io[t].at = "recv" /\ b = <<>>
    BY <1>3, <1>9 DEF Recv
  <2>1. ASSUME ctx[S] = "open", NEW k \in 1 .. Len(x),
               io' = [io EXCEPT ![t].at = "parse", ![t].buf = SubSeq(sock[S], 1, k)],
               sock' = [sock EXCEPT ![S] = SubSeq(@, k + 1, Len(@))],
               UNCHANGED <<ctx, obuf, reader, dropped, subscribed>>
        PROVE  DeliveryInv' /\ Promised
    <3>1. /\ io'[t].at = "parse" /\ io'[t].buf = SubSeq(x, 1, k) /\ sock'[S] = SubSeq(x, k + 1, Len(x))
          /\ reader'[S] = r
      BY <1>0, <1>1, <2>1 DEF IO
    <3>2. (r \o SubSeq(x, 1, k)) \o SubSeq(x, k + 1, Len(x)) = (r \o b) \o x
      <4> DEFINE y == SubSeq(x, 1, k)
                 z == SubSeq(x, k + 1, Len(x))
      <4>1. k \in 0 .. Len(x)
        <5>1. Len(x) \in Nat
          BY <1>2, LenProperties
        <5> HIDE DEF x
        <5> QED BY <2>1, <5>1
      <4>2. y \in Seq(Arrived) /\ z \in Seq(Arrived)
        <5> HIDE DEF x
        <5> QED BY <1>2, <4>1, SubSeqTypes
      <4>3. y \o z = x
        <5> HIDE DEF x
        <5> QED BY <1>2, <4>1, SplitMoved
      <4>4. r \o b = r
        BY <1>2, <2>0
      <4>5. r \in Seq(Arrived)
        BY <1>2
      <4>6. (r \o y) \o z = r \o (y \o z)
        <5> HIDE DEF y, z, r
        <5> QED BY ONLY <4>2, <4>5, ConcatAssociative
      <4> QED BY <4>3, <4>4, <4>6
    <3>3. InContext' = InContext
      BY <1>1, <3>1, <3>2
    <3>4. OneSubscription' /\ Lifetimes' /\ Buffers' /\ OnlySubscriber' /\ (Cut => Cut')
      BY <1>1, <1>3, <2>1, <3>1, OnSubscriberKeeps
    <3>5. UNCHANGED <<reader[g_sub_context], subscribed[g_sub_context]>>
      BY <1>1, <2>1
    <3>6. (ctx'[S] = "open" /\ obuf'[S] # <<>>) => FALSE
      <4>1. SUFFICES ASSUME Unserved PROVE FALSE
        BY <1>1, <2>1 DEF Stream
      <4>2. PICK u \in Threads : pc[u] = "subscribe_reply" /\ io[u].at \in {"try", "flush"}
        BY <4>1 DEF Unserved
      <4>3. u = t
        BY <4>2, OnSubscriberFrame
      <4> QED BY <2>0, <4>2, <4>3
    <3> QED BY <2>0, <3>1, <3>3, <3>4, <3>5, <3>6, OnSubscriberSame
  <2>2. CASE (ctx[S] # "open" \/ (dropped[S] /\ sock[S] = <<>>)) /\ IOError(t)
    BY <1>3, <1>4, <2>0, <2>2
  <2> QED BY <1>0, <1>9, <2>1, <2>2 DEF Recv
<1>10. CASE Parse(t)
  <2>0. io[t].at = "parse" /\ ctx[S] # "freed"
    BY <1>3, <1>10 DEF Parse
  <2>1. /\ r \o b # <<>>
        /\ io' = [io EXCEPT ![t].at = "ok", ![t].reply = Head(r \o b), ![t].buf = <<>>]
        /\ reader' = [reader EXCEPT ![S] = Tail(r \o b)]
        /\ UNCHANGED <<ctx, obuf, serverVars>>
    BY <1>0, <1>10, <2>0 DEF Parse
  <2>2. io'[t].at = "ok" /\ io'[t].reply = Head(r \o b) /\ io'[t].buf = <<>>
    BY <1>0, <2>1 DEF IO
  <2> QED BY <1>6, <2>0, <2>1, <2>2
<1>11. CASE Crash
  <2>1. /\ UNCHANGED <<ctx, obuf, reader, sock, dropped, subscribed, io>>
        /\ UNCHANGED <<g_context, g_sub_context, g_table, lockState, pc, loop, got, nsub, delivered>>
    BY <1>1, <1>11 DEF Crash, serverVars
  <2> QED BY <1>0, <2>1, OffConnection
<1> QED BY <1>0, <1>7, <1>8, <1>9, <1>10, <1>11 DEF IOStep

(* Nothing is a prefix of every sequence.                                   *)
LEMMA EmptyPrefix ==
    ASSUME NEW k \in 0 .. Len(<<>>) PROVE k = 0 /\ SubSeq(<<>>, 1, k) = <<>>
<1>1. k = 0
  BY SubSeqEmpty
<1> QED BY <1>1, SubSeqEmpty

(* A connection dropped loses a tail of what has not reached its socket.    *)
LEMMA DeliveryDrop ==
    ASSUME TypeInv, TableInv, PipeInv, DeliveryInv, NEW c \in Contexts, Drop(c), UNCHANGED otherVars
    PROVE  DeliveryInv' /\ Promised
<1>0. /\ dropped \in [Contexts -> BOOLEAN] /\ sock \in [Contexts -> Seq(Arrived)]
      /\ subscribed \in [Contexts -> SUBSET Channels] /\ reader \in [Contexts -> Seq(Arrived)]
      /\ SubThreads \subseteq Threads /\ NULL \notin Contexts
      /\ g_sub_context # NULL => g_sub_context \in Contexts
  BY DeliveryTypes
<1>1. /\ UNCHANGED <<g_context, g_sub_context, g_table, lockState, nsub, delivered, loop, got, pc>>
      /\ UNCHANGED <<ctx, obuf, reader, io>>
      /\ \A d \in Contexts : dropped'[d] = (dropped[d] \/ d = c)
      /\ \A d \in Contexts : subscribed'[d] = IF d = c THEN {} ELSE subscribed[d]
      /\ ctx[c] = "open"
  BY <1>0 DEF Drop, otherVars, globals, lockVars, callVars, loopVars
<1>2. PICK k \in 0 .. Len(sock[c]) : sock' = [sock EXCEPT ![c] = SubSeq(@, 1, k)]
  BY DEF Drop
<1>3. CASE c # g_sub_context
  <2>1. subscribed' = subscribed
    <3>1. subscribed[c] = {}
      BY <1>3 DEF DeliveryInv, OnlySubscriber
    <3>2. subscribed' = [subscribed EXCEPT ![c] = {}]
      BY DEF Drop
    <3>3. \A d \in Contexts : subscribed'[d] = subscribed[d]
      BY <1>0, <3>1, <3>2
    <3> QED BY <1>0, <3>2, <3>3
  <2>2. /\ g_sub_context # NULL => UNCHANGED <<obuf[g_sub_context], reader[g_sub_context]>>
        /\ g_sub_context # NULL => UNCHANGED sock[g_sub_context]
    BY <1>0, <1>1, <1>2, <1>3
  <2>3. \A d \in Contexts : dropped'[d] = dropped[d] \/ (d # g_sub_context /\ dropped'[d])
    BY <1>0, <1>1, <1>3
  <2> QED BY <1>1, <2>1, <2>2, <2>3, OffConnection
<1>4. CASE c = g_sub_context
  <2> DEFINE S == g_sub_context
             b == reader[S] \o Held(Received(S))
             x == sock[S]
             h == Held(InHand)
  <2>1. S # NULL /\ S \in Contexts /\ sock'[S] = SubSeq(x, 1, k) /\ k \in 0 .. Len(x) /\ Stream
    BY <1>0, <1>2, <1>4 DEF DeliveryInv
  <2>2. b \in Seq(Arrived) /\ x \in Seq(Arrived) /\ h \in Seq(Arrived) /\ InContext \in Seq(Arrived)
        /\ Len(b) \in Nat /\ Len(x) \in Nat /\ Len(h) \in Nat /\ Len(InContext) \in Nat
    <3>1. reader[S] \in Seq(Arrived) /\ Held(Received(S)) \in Seq(Arrived) /\ x \in Seq(Arrived)
          /\ h \in Seq(Arrived) /\ InContext \in Seq(Arrived)
      BY <1>0, <2>1, FlowTypes
    <3>2. b \in Seq(Arrived)
      BY <3>1, ConcatProperties
    <3> HIDE DEF b, x, h
    <3> QED BY <3>1, <3>2, LenProperties
  <2>3. InContext = b \o x /\ InContext' = b \o SubSeq(x, 1, k)
    <3>1. Held(Received(S))' = Held(Received(S))
      <4>1. Received(S)' = Received(S)
        BY <1>1 DEF Received
      <4> QED BY <4>1
    <3> QED BY <1>1, <2>1, <3>1 DEF InContext
  <2> HIDE DEF b, x, h
  <2>4. Len(b) + k \in 0 .. Len(InContext) /\ InContext' = SubSeq(InContext, 1, Len(b) + k)
    BY <2>1, <2>2, <2>3, PrefixBehind
  <2> DEFINE n == Len(b) + k
  <2>5. /\ Len(h) + n \in 0 .. Len(h \o InContext)
        /\ h \o SubSeq(InContext, 1, n) = SubSeq(h \o InContext, 1, Len(h) + n)
    <3>1. n \in 0 .. Len(InContext)
      BY <2>4
    <3> HIDE DEF n
    <3> QED BY <2>2, <3>1, PrefixBehind
  <2>6. \A u \in Threads : InHand'[u] = InHand[u]
    BY <1>1 DEF InHand
  <2>7. Held(InHand)' = h
    BY <2>6, SameInHand DEF h
  <2>8. Cut'
    BY <1>0, <1>1, <1>4, <2>1 DEF Cut
  <2>9. Promised
    <3>1. Held(InHand)' \o InContext' = SubSeq(h \o InContext, 1, Len(h) + n)
      BY <2>4, <2>5, <2>7
    <3> QED BY <1>1, <2>5, <2>8, <3>1, LossPromised DEF h
  <2>10. (Started' <=> Started) /\ (Unsent' <=> Unsent)
    BY <1>1 DEF Started, Unsent
  <2>11. OneSubscription'
    <3>1. ASSUME Quiet(S) PROVE Quiet(S)'
      <4>1. x = <<>>
        BY <3>1 DEF Quiet, x
      <4>2. sock'[S] = <<>>
        BY <2>1, <4>1, EmptyPrefix
      <4> QED BY <1>1, <3>1, <4>2 DEF Quiet
    <3> QED BY <1>1, <2>10, <3>1 DEF DeliveryInv, OneSubscription
  <2>12. Lifetimes' /\ Buffers'
    BY <1>1, <2>10 DEF DeliveryInv, Lifetimes, Buffers
  <2>13. OnlySubscriber'
    BY <1>1, <1>4 DEF DeliveryInv, OnlySubscriber
  <2>14. InHandWanted'
    BY <1>0, <1>1, <2>6 DEF DeliveryInv, InHandWanted, Wanted
  <2>15. /\ Len(InContext') = n /\ n \in 0 .. Len(InContext) /\ InContext' \in Seq(Arrived)
         /\ \A i \in 1 .. n : InContext'[i] = InContext[i]
    <3>1. n \in 0 .. Len(InContext) /\ InContext' = SubSeq(InContext, 1, n)
      BY <2>4
    <3>2. \A i \in 1 .. Len(InContext) : InContext[i] \in Arrived
      BY <2>2, ElementOfSeq
    <3> HIDE DEF n
    <3> QED BY <2>2, <3>1, <3>2, SubSeqProperties
  <2>16. InContext = <<>> => InContext' = <<>>
    BY <2>2, <2>15, EmptySeq
  <2>17. InContext' # <<>> => InContext # <<>> /\ InContext'[1] = InContext[1]
    <3> HIDE DEF n
    <3>1. InContext' # <<>> => 1 \in 1 .. n
      BY <2>2, <2>15, EmptySeq
    <3> QED BY <2>2, <2>15, <2>16, <3>1
  <2>18. Stream'
    <3>1. \A r : Wanted(r) => Wanted(r)'
      BY <1>1 DEF Wanted
    <3>2. (Answered' <=> Answered) /\ \A u \in Threads : Awaits(u)' <=> Awaits(u)
      BY <1>1, <2>10 DEF Answered, Awaits
    <3>3. ASSUME NEW i \in 1 .. Len(InContext'), i > 1 \/ Answered' PROVE Wanted(InContext[i])'
      <4>1. i \in 1 .. Len(InContext) /\ InContext'[i] = InContext[i]
        <5> HIDE DEF n
        <5> QED BY <2>2, <2>15, <3>3
      <4>2. Wanted(InContext[i])
        BY <2>1, <3>2, <3>3, <4>1 DEF Stream
      <4>3. Wanted(InContext'[i])
        BY <4>1, <4>2
      <4> QED BY <3>1, <4>3
    <3>4. Unserved => Unserved'
      BY <1>1, <2>16 DEF Unserved
    <3>5. subscribed'[g_sub_context'] = {}
      BY <1>1, <1>4, <2>1
    <3> QED BY <1>1, <2>1, <2>17, <3>2, <3>3, <3>4, <3>5 DEF Stream
  <2> QED BY <1>1, <2>9, <2>11, <2>12, <2>13, <2>14, <2>18 DEF DeliveryInv
<1> QED BY <1>3, <1>4

-----------------------------------------------------------------------------
(* Nothing is subscribed and nothing is pending at first.                   *)
LEMMA DeliveryInit == Init => DeliveryInv /\ Channel!Init
<1> SUFFICES ASSUME Init PROVE DeliveryInv /\ Channel!Init
  OBVIOUS
<1>1. /\ g_sub_context = NULL /\ g_table = <<>> /\ nsub = 0 /\ delivered = <<>>
      /\ \A t \in Threads : pc[t] = "idle" /\ io[t] = NoIO
      /\ \A s \in SubThreads : loop[s] = "none"
      /\ \A c \in Contexts : ctx[c] = "unused" /\ subscribed[c] = {}
  BY DEF Init, HiredisInit
<1>2. SubThreads \subseteq Threads /\ Len(<<>>) = 0
  BY PubSubAssumption
<1>3. \A t \in Threads : InHand[t] = <<>>
  BY <1>1 DEF InHand
<1>4. OneSubscription
  BY <1>1, <1>2 DEF OneSubscription, Unsent, Started, SubscribePC
<1>5. Lifetimes /\ Buffers /\ OnlySubscriber /\ InHandWanted
  BY <1>1, <1>2, <1>3 DEF Lifetimes, Buffers, OnlySubscriber, InHandWanted, Started, NoIO
<1>6. DeliveryInv
  BY <1>1, <1>4, <1>5 DEF DeliveryInv
<1>7. Contents(<<>>) = <<>>
  BY DEF Contents
<1>8. Pending = <<>>
  <2>1. Held(InHand) = <<>> /\ InContext = <<>>
    BY <1>1, <1>3, HeldNone DEF InContext
  <2>2. <<>> \o <<>> = <<>> /\ WithoutAnswer(<<>>) = <<>>
    BY DEF WithoutAnswer
  <2> QED BY <1>7, <2>1, <2>2 DEF Pending
<1>9. Cut = FALSE
  BY <1>1 DEF Cut
<1> QED BY <1>1, <1>6, <1>7, <1>8, <1>9 DEF Channel!Init

(* Every step keeps the invariant and is one of the channel or a stutter.   *)
LEMMA DeliveryStep ==
    ~Reinit /\ MaxSubscribes = 1 /\ TypeInv /\ LockInv /\ TableInv /\ PipeInv /\ DeliveryInv /\ [Next]_vars
        => DeliveryInv' /\ Promised
<1> SUFFICES ASSUME ~Reinit, MaxSubscribes = 1, TypeInv, LockInv, TableInv, PipeInv, DeliveryInv, [Next]_vars
             PROVE  DeliveryInv' /\ Promised
  OBVIOUS
<1>1. ASSUME NEW t \in Threads, Call(t) PROVE DeliveryInv' /\ Promised
  BY <1>1, DeliveryCall
<1>2. ASSUME NEW t \in Threads, CallStep(t) PROVE DeliveryInv' /\ Promised
  BY <1>2, DeliveryLockSteps, DeliveryInitSteps, DeliveryClose, DeliveryPublish, DeliveryStore, DeliveryCommand,
         DeliveryAnswered
     DEF CallStep
<1>3. ASSUME NEW s \in SubThreads, LoopStep(s) PROVE DeliveryInv' /\ Promised
  BY <1>3, DeliveryLoopSteps, DeliveryGetReply, DeliveryDispatch DEF LoopStep
<1>4. ASSUME UNCHANGED <<g_context, g_sub_context, g_table, lockState, nsub, delivered, loop, got, pc>>,
             UNCHANGED <<ctx, obuf, reader, sock, dropped, subscribed, io>>
      PROVE  DeliveryInv' /\ Promised
  BY <1>4, OffConnection
<1>5. CASE Crash /\ UNCHANGED otherVars
  BY <1>4, <1>5 DEF Crash, serverVars, otherVars, globals, lockVars, callVars, loopVars
<1>6. ASSUME NEW t \in Threads, IOStep(t), UNCHANGED otherVars PROVE DeliveryInv' /\ Promised
  <2>1. CASE io[t].at = "none"
    <3>1. Crash
      BY <1>6, <2>1 DEF IOStep, TryReader, Flush, Recv, Parse
    <3> QED BY <1>5, <1>6, <3>1
  <2>2. CASE io[t].at # "none" /\ io[t].on # g_sub_context
    BY <1>6, <2>2, DeliveryElsewhere
  <2>3. CASE io[t].at # "none" /\ io[t].on = g_sub_context
    BY <1>6, <2>3, DeliveryOnSubscriber DEF OnSubscriber
  <2> QED BY <2>1, <2>2, <2>3
<1>7. CASE Environment
  BY <1>7, DeliveryExternal, DeliveryDrop DEF Environment
<1>8. CASE UNCHANGED vars
  BY <1>4, <1>8 DEF vars, hiredisVars, globals, lockVars, callVars, loopVars
<1> QED BY <1>1, <1>2, <1>3, <1>5, <1>6, <1>7, <1>8 DEF Next, Run, UndefinedStep

(* A client that subscribes once gets what it is promised: whatever fails,  *)
(* is denied, dropped or closed, and whatever its threads and callbacks do  *)
(* meanwhile, the callback of subscription_thread is called with the        *)
(* messages the server sent, in order, each once and without a gap.         *)
THEOREM DeliversInOrder == ~Reinit /\ MaxSubscribes = 1 => (Spec => DeliveryInOrder)
<1> SUFFICES ASSUME ~Reinit, MaxSubscribes = 1 PROVE Spec => DeliveryInOrder
  OBVIOUS
<1>1. Init => DeliveryInv /\ Channel!Init
  BY DeliveryInit
<1>2. TypeInv /\ LockInv /\ [Next]_vars => LockInv'
  BY LockStep
<1>3. TypeInv /\ LockInv /\ TableInv /\ [Next]_vars => TableInv'
  BY TableStep
<1>4. TypeInv /\ LockInv /\ TableInv /\ PipeInv /\ [Next]_vars => PipeInv'
  BY PipeStep
<1>5. TypeInv /\ LockInv /\ TableInv /\ PipeInv /\ DeliveryInv /\ [Next]_vars
          => DeliveryInv' /\ [Channel!Next]_(Channel!vars)
  BY DeliveryStep DEF Promised
<1> QED BY <1>1, <1>2, <1>3, <1>4, <1>5, TypeInit, TypeStep, LockInvInit, TableInvInit, PipeInvInit, PTL
        DEF Spec, DeliveryInOrder, Channel!Spec
=============================================================================
