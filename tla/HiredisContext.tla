--------------------------- MODULE HiredisContext ---------------------------
(***************************************************************************)
(* Blocking redisContext objects of the vendored hiredis library, the      *)
(* threads that are inside its calls, and the Redis server behind them.    *)
(*                                                                         *)
(* Granularity.  A step is one call of redisGetReply's loop body that can  *)
(* interleave with another thread: looking into the reader, a send, a      *)
(* recv, a feed followed by a parse.  The byte streams are sequences of    *)
(* whole replies and whole commands: a recv that returns part of a reply   *)
(* makes redisGetReply loop, which is a stuttering step here.              *)
(*                                                                         *)
(* Undefined behaviour.  A step on a freed context, or on a context        *)
(* another thread is touching at the same time, either takes one of the    *)
(* outcomes the code would give or crashes the process (Crash).            *)
(***************************************************************************)
EXTENDS Integers, Sequences, FiniteSets

CONSTANTS
    Threads,      \* threads of the process
    MaxContexts,  \* contexts the process can allocate; addresses are not reused
    Channels,     \* Redis channels
    NoChannel,    \* the channel of a reply that names none
    Faults        \* subset of {"connect", "drop", "deny", "spawn"} that may occur

ASSUME ContextAssumption == MaxContexts \in Nat /\ NoChannel \notin Channels

NULL == 0
Contexts == 1 .. MaxContexts

(* Commands the library's client sends, and the replies the server returns. *)
Command == [verb : {"SUBSCRIBE", "PUBLISH"}, channel : Channels]
Reply == [kind    : {"message", "subscribe", "integer", "error"},
          channel : Channels \cup {NoChannel},
          n       : Nat]
NoReply == [kind |-> "none", channel |-> NoChannel, n |-> 0]

Message(ch, m)   == [kind |-> "message",   channel |-> ch, n |-> m]
Subscribed(ch)   == [kind |-> "subscribe", channel |-> ch, n |-> 0]
IntegerReply(n)  == [kind |-> "integer",   channel |-> NoChannel, n |-> n]
ErrorReply       == [kind |-> "error",     channel |-> NoChannel, n |-> 0]

VARIABLES
    ctx,         \* ctx[c]: "unused", "open", "err" (c->err # 0) or "freed"
    obuf,        \* c->obuf: commands appended and not yet sent
    reader,      \* c->reader: replies received and not yet returned
    sock,        \* replies of the server that c's socket has not read yet
    dropped,     \* the server end of c's connection is gone
    subscribed,  \* server: the channels connection c is subscribed to
    nmsg,        \* server: number of messages published so far
    io,          \* io[t]: where thread t is inside redisGetReply
    crashed      \* the process is gone

clientVars == <<ctx, obuf, reader>>
serverVars == <<sock, dropped, subscribed, nmsg>>
hiredisVars == <<ctx, obuf, reader, sock, dropped, subscribed, nmsg, io, crashed>>

(* "ok" and "err" are the results redisGetReply leaves for its caller.      *)
IO == [at    : {"none", "try", "flush", "recv", "parse", "ok", "err"},
       on    : 0 .. MaxContexts,
       buf   : Seq(Reply),
       reply : Reply \cup {NoReply}]
NoIO == [at |-> "none", on |-> NULL, buf |-> <<>>, reply |-> NoReply]

HiredisTypeOK ==
    /\ ctx \in [Contexts -> {"unused", "open", "err", "freed"}]
    /\ obuf \in [Contexts -> Seq(Command)]
    /\ reader \in [Contexts -> Seq(Reply)]
    /\ sock \in [Contexts -> Seq(Reply)]
    /\ dropped \in [Contexts -> BOOLEAN]
    /\ subscribed \in [Contexts -> SUBSET Channels]
    /\ nmsg \in Nat
    /\ io \in [Threads -> IO]
    /\ crashed \in BOOLEAN

HiredisInit ==
    /\ ctx = [c \in Contexts |-> "unused"]
    /\ obuf = [c \in Contexts |-> <<>>]
    /\ reader = [c \in Contexts |-> <<>>]
    /\ sock = [c \in Contexts |-> <<>>]
    /\ dropped = [c \in Contexts |-> FALSE]
    /\ subscribed = [c \in Contexts |-> {}]
    /\ nmsg = 0
    /\ io = [t \in Threads |-> NoIO]
    /\ crashed = FALSE

-----------------------------------------------------------------------------
(* Memory: which contexts exist, and which steps are undefined behaviour.   *)

Fresh(c) == ctx[c] = "unused" /\ \A d \in Contexts : d < c => ctx[d] # "unused"

InGetReply(t) == io[t].at \in {"try", "flush", "recv", "parse"}
UseAfterFree(t) == InGetReply(t) /\ ctx[io[t].on] = "freed"

(* Which threads are at a step that writes c->reader, or c->obuf.           *)
InReader(t, c) == io[t].on = c /\ io[t].at \in {"try", "parse"}
InObuf(t, c) == io[t].on = c /\ io[t].at = "flush"

DataRace(t) == \E u \in Threads \ {t} :
    LET c == io[t].on IN \/ InReader(t, c) /\ InReader(u, c)
                         \/ InObuf(t, c) /\ InObuf(u, c)

(* What appending a command to context c risks.                             *)
UnsafeAppend(t, c) ==
    c # NULL => (ctx[c] = "freed" \/ \E u \in Threads \ {t} : InObuf(u, c))

Crash == crashed' = TRUE /\ UNCHANGED <<ctx, obuf, reader, serverVars, io>>

-----------------------------------------------------------------------------
(* redisConnect and redisFree, as parts of their callers' actions.          *)

ConnectOK(c) == ctx' = [ctx EXCEPT ![c] = "open"]
                /\ UNCHANGED <<obuf, reader, serverVars, io, crashed>>

(* redisFree releases the buffers and closes the socket, so the server      *)
(* forgets the connection; a thread blocked in recv keeps its pointer.      *)
FreeContexts(C) ==
    /\ ctx' = [c \in Contexts |-> IF c \in C THEN "freed" ELSE ctx[c]]
    /\ obuf' = [c \in Contexts |-> IF c \in C THEN <<>> ELSE obuf[c]]
    /\ reader' = [c \in Contexts |-> IF c \in C THEN <<>> ELSE reader[c]]
    /\ sock' = [c \in Contexts |-> IF c \in C THEN <<>> ELSE sock[c]]
    /\ subscribed' = [c \in Contexts |-> IF c \in C THEN {} ELSE subscribed[c]]
    /\ UNCHANGED <<dropped, nmsg, io, crashed>>

-----------------------------------------------------------------------------
(* redisGetReply and redisCommand.                                          *)

(* The call enters redisGetReply with the current thread t.                 *)
GetReply(t, c) == io' = [io EXCEPT ![t] = [NoIO EXCEPT !.at = "try", !.on = c]]

(* redisCommand appends the command and then blocks in redisGetReply.       *)
RedisCommand(t, c, cmd) ==
    /\ obuf' = [obuf EXCEPT ![c] = Append(@, cmd)]
    /\ GetReply(t, c)
    /\ UNCHANGED <<ctx, reader, serverVars, crashed>>

(* The caller takes the result and leaves redisGetReply.                    *)
ReturnFromIO(t) == io' = [io EXCEPT ![t] = NoIO]

(* A failing read or write sets c->err, and redisGetReply returns           *)
(* REDIS_ERR; a context that is already in error, or freed, stays so.       *)
IOError(t) ==
    LET c == io[t].on IN
    /\ io' = [io EXCEPT ![t].at = "err"]
    /\ ctx' = [ctx EXCEPT ![c] = IF @ = "freed" THEN @ ELSE "err"]
    /\ UNCHANGED <<obuf, reader, serverVars, crashed>>

(* redisNextInBandReplyFromReader before any I/O.                           *)
TryReader(t) ==
    LET c == io[t].on IN
    /\ io[t].at = "try"
    /\ \/ /\ ctx[c] # "freed" /\ reader[c] # <<>>
          /\ io' = [io EXCEPT ![t].at = "ok", ![t].reply = Head(reader[c])]
          /\ reader' = [reader EXCEPT ![c] = Tail(@)]
          /\ UNCHANGED <<ctx, obuf, serverVars, crashed>>
       \/ /\ ctx[c] # "freed" /\ reader[c] = <<>>
          /\ io' = [io EXCEPT ![t].at = "flush"]
          /\ UNCHANGED <<ctx, obuf, reader, serverVars, crashed>>
       \/ ctx[c] = "freed" /\ IOError(t)

Receivers(ch) == {d \in Contexts : ch \in subscribed[d]}

(* What the server does with one command of connection c.                   *)
ServerExecutes(c, cmd) ==
    \/ /\ "deny" \in Faults
       /\ sock' = [sock EXCEPT ![c] = Append(@, ErrorReply)]
       /\ UNCHANGED <<dropped, subscribed, nmsg>>
    \/ /\ cmd.verb = "SUBSCRIBE"
       /\ subscribed' = [subscribed EXCEPT ![c] = @ \cup {cmd.channel}]
       /\ sock' = [sock EXCEPT ![c] = Append(@, Subscribed(cmd.channel))]
       /\ UNCHANGED <<dropped, nmsg>>
    \/ /\ cmd.verb = "PUBLISH"
       /\ nmsg' = nmsg + 1
       /\ sock' = [d \in Contexts |->
                     IF d \in Receivers(cmd.channel) THEN Append(sock[d], Message(cmd.channel, nmsg + 1))
                     ELSE IF d = c THEN Append(sock[d], IntegerReply(Cardinality(Receivers(cmd.channel))))
                     ELSE sock[d]]
       /\ UNCHANGED <<dropped, subscribed>>

(* redisBufferWrite, until the output buffer is empty.  A send on a dropped *)
(* connection may still be accepted by the kernel, and the bytes are lost.  *)
Flush(t) ==
    LET c == io[t].on IN
    /\ io[t].at = "flush"
    /\ \/ /\ ctx[c] = "open" /\ obuf[c] = <<>>
          /\ io' = [io EXCEPT ![t].at = "recv"]
          /\ UNCHANGED <<ctx, obuf, reader, serverVars, crashed>>
       \/ /\ ctx[c] = "open" /\ obuf[c] # <<>>
          /\ obuf' = [obuf EXCEPT ![c] = Tail(@)]
          /\ IF dropped[c] THEN UNCHANGED serverVars ELSE ServerExecutes(c, Head(obuf[c]))
          /\ UNCHANGED <<ctx, reader, io, crashed>>
       \/ (ctx[c] # "open" \/ dropped[c]) /\ IOError(t)

(* redisBufferRead up to the return of recv: any nonempty prefix of what    *)
(* has arrived, in the thread's own stack buffer.                           *)
Recv(t) ==
    LET c == io[t].on IN
    /\ io[t].at = "recv"
    /\ \/ /\ ctx[c] = "open"
          /\ \E k \in 1 .. Len(sock[c]) :
               /\ io' = [io EXCEPT ![t].at = "parse", ![t].buf = SubSeq(sock[c], 1, k)]
               /\ sock' = [sock EXCEPT ![c] = SubSeq(@, k + 1, Len(@))]
          /\ UNCHANGED <<ctx, obuf, reader, dropped, subscribed, nmsg, crashed>>
       \/ (ctx[c] # "open" \/ (dropped[c] /\ sock[c] = <<>>)) /\ IOError(t)

(* Mutant: the parse keeps the first reply of what was received only.       *)
ParseDropsRest(t) ==
    LET c == io[t].on
        all == reader[c] \o io[t].buf IN
    /\ io[t].at = "parse"
    /\ ctx[c] # "freed" /\ all # <<>>
    /\ io' = [io EXCEPT ![t].at = "ok", ![t].reply = Head(all), ![t].buf = <<>>]
    /\ reader' = [reader EXCEPT ![c] = <<>>]
    /\ UNCHANGED <<ctx, obuf, serverVars, crashed>>

(* redisReaderFeed, then redisNextInBandReplyFromReader.                    *)
Parse(t) ==
    LET c == io[t].on
        all == reader[c] \o io[t].buf IN
    /\ io[t].at = "parse"
    /\ \/ /\ ctx[c] # "freed" /\ all # <<>>
          /\ io' = [io EXCEPT ![t].at = "ok", ![t].reply = Head(all), ![t].buf = <<>>]
          /\ reader' = [reader EXCEPT ![c] = Tail(all)]
          /\ UNCHANGED <<ctx, obuf, serverVars, crashed>>
       \/ ctx[c] = "freed" /\ IOError(t)

(* One step of thread t inside redisGetReply.                               *)
IOStep(t) ==
    /\ ~crashed
    /\ \/ TryReader(t) \/ Flush(t) \/ Recv(t) \/ Parse(t)
       \/ (UseAfterFree(t) \/ DataRace(t)) /\ Crash

-----------------------------------------------------------------------------
(* The rest of the world.                                                   *)

(* Another client of the server publishes.                                  *)
ExternalPublish(ch) ==
    /\ nmsg' = nmsg + 1
    /\ sock' = [d \in Contexts |->
                  IF d \in Receivers(ch) THEN Append(sock[d], Message(ch, nmsg + 1)) ELSE sock[d]]
    /\ UNCHANGED <<ctx, obuf, reader, dropped, subscribed, io, crashed>>

(* The server, or the network, drops a connection; replies in flight may    *)
(* be lost, those that reached the socket can still be read.                *)
Drop(c) ==
    /\ "drop" \in Faults
    /\ ctx[c] = "open" /\ ~dropped[c]
    /\ dropped' = [dropped EXCEPT ![c] = TRUE]
    /\ subscribed' = [subscribed EXCEPT ![c] = {}]
    /\ \E k \in 0 .. Len(sock[c]) : sock' = [sock EXCEPT ![c] = SubSeq(@, 1, k)]
    /\ UNCHANGED <<ctx, obuf, reader, nmsg, io, crashed>>
=============================================================================
