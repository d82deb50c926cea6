-------------------------- MODULE AsyncProperties --------------------------
(***************************************************************************)
(* What is checked of AsyncContext, and its refinement of AsyncPromise.    *)
(***************************************************************************)
EXTENDS AsyncContext

Promise == INSTANCE AsyncPromise WITH
               queue   <- replies \o subReplies,
               settled <- log,
               ending  <- \E i \in DOMAIN log : log[i].got = 0,
               last    <- calls

(* Each command's callback is called once, in order, with its own reply or  *)
(* with NULL, although pushed messages and unsubscriptions share the stream *)
(* and commands move between two queues (redisProcessCallbacks).            *)
CallbacksInOrder == Promise!Spec

(* No assertion of async.c fails: a clean disconnect leaves no command      *)
(* waiting, a pushed reply meets a subscribed context, the confirmation of  *)
(* a subscription finds its entry, and the answers that are awaited and     *)
(* ignored never count below zero (TypeOK).                                 *)
NoAbort == pc # "abort" /\ TypeOK

(* A message the server sends for a subscription finds the callback of it.  *)
MessagesHaveCallback ==
    (pc = "process" /\ reader # <<>> /\ Head(reader).kind = "message")
        => replies = <<>> /\ Head(reader).name \in DOMAIN subs

(* The context is torn down outside callbacks only, and while it is, no     *)
(* callback can issue a command: the dictionaries do not change under the   *)
(* iteration and nothing is queued behind it (__redisAsyncFree).            *)
TeardownAlone ==
    /\ (pc \in {"free", "freed"}) => (frame.at = "none" /\ "in_callback" \notin flags)
    /\ (pc = "free" \/ frame.at \in {"free", "gone"}) => ~Accepting

(* No reply is lost: when the server has answered everything, or when the   *)
(* context is freed, every command it accepted is settled.                  *)
Quiet == pc = "idle" /\ obuf = <<>> /\ reader = <<>> /\ stream = <<>> /\ ~err
NoReplyLost == (pc = "freed" \/ (Quiet /\ sock = "up")) => Len(log) = calls

(* After the event library was told to clean up nothing is registered with  *)
(* it any more: its data is gone (_EL_CLEANUP, _EL_ADD_READ).               *)
NothingRegisteredLate == ~attached => events = {}

(* When the server has answered everything, the context is in subscribed    *)
(* mode only if it is subscribed to something, and knows to what.           *)
SubscribedModeExact ==
    (Quiet /\ sock = "up")
        => /\ DOMAIN subs = served
           /\ "subscribed" \in flags <=> served # {}
           /\ pendingUnsubs = 0
           /\ \A n \in DOMAIN subs : subs[n] = [pending |-> 0, sent |-> FALSE]

-----------------------------------------------------------------------------
(* Fairness: the event loop serves what is ready, callbacks return, the     *)
(* network makes progress and delivers whole replies in the end.            *)
Fairness ==
    /\ WF_vars(Process) /\ WF_vars(CallbackReturns) /\ WF_vars(FreeStep)
    /\ WF_vars(Transfer) /\ WF_vars(TimeoutReplies \/ TimeoutEnds)
    /\ SF_vars(\E k \in 1 .. Len(stream) : AsyncRead(k))
    /\ WF_vars(Establish \/ Refuse)
    /\ \A what \in {"read", "write"} : SF_vars(HandleEvent(what))

FairSpec == Spec /\ Fairness

(* Every command is settled in the end.                                     *)
EveryCommandSettled == \A i \in Ids : calls >= i ~> Len(log) >= i

(* A context the application ends is freed in the end.                      *)
EndsWhenAsked == (flags \cap {"disconnecting", "freeing"} # {}) ~> pc \in {"freed", "abort"}
=============================================================================
