------------------------- MODULE RedisPubSubClaims -------------------------
(***************************************************************************)
(* What the comments and documents of the repository say of the library,   *)
(* and redis_pubsub.c does not keep.                                       *)
(***************************************************************************)
EXTENDS RedisPubSub

(* hiredis/README.md: a redisContext is not thread-safe, so no two threads  *)
(* may be inside redisGetReply on the same one.                             *)
ContextNotShared ==
    \A t, u \in Threads :
        (InGetReply(t) /\ InGetReply(u) /\ io[t].on = io[u].on) => t = u

(* hiredis/README.md: redisFree frees the allocations of the context, so    *)
(* nobody may still be using it.                                            *)
NoUseAfterFree == \A t \in Threads : ~UseAfterFree(t)

(* redis_pubsub.c reports "Redis not initialized" unless redis_init         *)
(* succeeded: a publish that passes this test has a context to publish on.  *)
NotInitializedReported ==
    \A t \in Threads : (pc[t] = "publish_command" /\ lockState = "ready") =>
        g_context # NULL /\ ctx[g_context] # "freed"

(* README_CSHARP.md: Subscribe returns true when the subscription succeeded,*)
(* so at that moment the server has it.                                     *)
SubscribedOnSuccess ==
    [][\A t \in Threads :
          (pc[t] = "subscribe_leave" /\ pc'[t] = "idle" /\ ret[t] = 0) =>
              arg[t].channel \in subscribed[g_sub_context]]_vars

(* README_CSHARP.md: Publish returns -1 when sending failed; a PUBLISH the  *)
(* server answers with an error has failed.                                 *)
PublishFailureReported ==
    [][\A t \in Threads :
          (pc[t] = "publish_reply" /\ pc'[t] = "publish_leave"
             /\ io[t].at = "ok" /\ io[t].reply.kind = "error") => ret'[t] = -1]_vars

(* redis_pubsub.h: subscribing is asynchronous, so the call comes back      *)
(* whether or not any message is ever published.                            *)
SubscribeIsAsynchronous ==
    \A t \in Threads : pc[t] = "subscribe_reply" ~> (pc[t] # "subscribe_reply" \/ crashed)

(* hiredis/README.md, again: nor may two subscription threads; a session    *)
(* starts one for its connection, and redis_close ended the one before.     *)
OneReaderAcrossSessions ==
    \A s, u \in SubThreads :
        (InGetReply(s) /\ InGetReply(u) /\ io[s].on = io[u].on) => s = u
=============================================================================
