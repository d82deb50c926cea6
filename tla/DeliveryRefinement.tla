------------------------- MODULE DeliveryRefinement -------------------------
(***************************************************************************)
(* RedisPubSub implements PubSubChannel: what the library promises a client *)
(* that subscribes once, whatever else the client calls.                   *)
(***************************************************************************)
EXTENDS RedisPubSub

IsMessage(r) == r.kind = "message"
Content(x) == [channel |-> x.channel, n |-> x.n]
Contents(q) == [i \in 1 .. Len(q) |-> Content(q[i])]

(* What the one thread that has something has.                              *)
Held(f) == IF \E t \in Threads : f[t] # <<>> THEN f[CHOOSE t \in Threads : f[t] # <<>>] ELSE <<>>

(* The message a subscription thread has taken out of the context and has   *)
(* not given to a callback yet.                                             *)
InHand == [t \in Threads |->
    IF t \notin SubThreads THEN <<>>
    ELSE CASE loop[t] = "reply" /\ io[t].at = "ok" -> <<io[t].reply>>
           [] loop[t] \in {"enter", "dispatch"}    -> <<got[t]>>
           [] OTHER                                -> <<>>]

(* The bytes a thread has received on c and not yet fed to its reader.      *)
Received(c) == [t \in Threads |-> IF io[t].on = c THEN io[t].buf ELSE <<>>]

InContext == IF g_sub_context = NULL THEN <<>>
             ELSE reader[g_sub_context] \o Held(Received(g_sub_context)) \o sock[g_sub_context]

(* The server answers SUBSCRIBE before it sends a message on the connection.*)
WithoutAnswer(q) == IF q # <<>> /\ ~IsMessage(q[1]) THEN Tail(q) ELSE q

Pending == Contents(WithoutAnswer(Held(InHand) \o InContext))

(* A second subscription is in the table, or its answer is still unread     *)
(* although the connection it was made on is lost.                          *)
Several ==
    LET q == WithoutAnswer(Held(InHand) \o InContext) IN
    Len(g_table) > 1 \/ \E i \in 1 .. Len(q) : ~IsMessage(q[i])

(* The subscribing connection is gone: dropped, in error, or freed.         *)
Cut == \/ \E c \in Contexts : ctx[c] = "freed"
       \/ g_sub_context # NULL /\ (dropped[g_sub_context] \/ ctx[g_sub_context] = "err")

Channel == INSTANCE PubSubChannel WITH
               several   <- Several,
               cut       <- Cut,
               Messages  <- [channel : Channels, n : Nat],
               pending   <- Pending,
               delivered <- Contents(delivered)

(* Whatever fails: the callback gets the messages in order, once, without   *)
(* gaps, except for a tail lost with the connection or at redis_close.      *)
DeliveryInOrder == Channel!Spec

(* While the connection lasts, every message is delivered in the end.       *)
DeliveryComplete == Channel!FairSpec
=============================================================================
