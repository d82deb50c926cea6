---------------------------- MODULE EventAdapter ----------------------------
(***************************************************************************)
(* The adapters of hiredis to event libraries (adapters/), each between an *)
(* event loop and one redisAsyncContext.                                   *)
(*                                                                         *)
(* The context is what AsyncContext shows it to be: its handlers watch and *)
(* ignore events and set the timer at will, they may call ev.cleanup, once *)
(* and nothing of ev after it, and may free the context.  The application  *)
(* does the same outside handlers.  What the event libraries do with their *)
(* handles is external: a watcher that was stopped is not called, and one  *)
(* may be stopped from its own callback.                                   *)
(***************************************************************************)
EXTENDS Naturals, Sequences, Functions

CONSTANTS
    Adapters,  \* the adapters that are looked at
    TickLate   \* whether redisPollTick is called for a context in error

(* What tells the adapters apart.                                           *)
(*   order   what one callback of the loop does, in this order              *)
(*   recheck whether it looks again if the adapter was cleaned up           *)
(*   enters  the callbacks during which cleanup is deferred to their end    *)
(*   release who frees the adapter's data: "self", "close" (when the loop   *)
(*           closed its handles), "owner" (the application) or "destructor" *)
(*           (the application, by a destructor that writes to the context)  *)
(*   timer   "none", "cleared" (forgotten before its handler runs),         *)
(*           "repeats", "restarts" (kept, and started again), or how the    *)
(*           one that fired is left: "disabled" or "dangling"               *)
Poll         == [order |-> <<"read", "write", "timeout">>, recheck |-> TRUE,
                 enters |-> {"read", "write", "timeout"}, release |-> "self", timer |-> "cleared"]
Libevent     == [order |-> <<"timeout", "read", "write">>, recheck |-> TRUE,
                 enters |-> {"read", "write", "timeout"}, release |-> "self", timer |-> "repeats"]
Libuv        == [order |-> <<"read", "write">>, recheck |-> TRUE,
                 enters |-> {}, release |-> "close", timer |-> "restarts"]
Libev        == [order |-> <<>>, recheck |-> FALSE,
                 enters |-> {}, release |-> "self", timer |-> "repeats"]
Ae           == [order |-> <<>>, recheck |-> FALSE,
                 enters |-> {}, release |-> "self", timer |-> "none"]
Libsdevent   == [order |-> <<"read", "write">>, recheck |-> TRUE,
                 enters |-> {"read", "write"}, release |-> "self", timer |-> "disabled"]
RedisModule  == [order |-> <<>>, recheck |-> FALSE,
                 enters |-> {}, release |-> "self", timer |-> "cleared"]
Ivykis       == [order |-> <<>>, recheck |-> FALSE,
                 enters |-> {}, release |-> "self", timer |-> "none"]
MacOS        == [order |-> <<>>, recheck |-> FALSE,
                 enters |-> {}, release |-> "self", timer |-> "none"]
Qt           == [order |-> <<>>, recheck |-> FALSE,
                 enters |-> {}, release |-> "destructor", timer |-> "none"]
Glib         == [order |-> <<"write", "read">>, recheck |-> FALSE,
                 enters |-> {}, release |-> "owner", timer |-> "none"]
Libhv        == [order |-> <<"read", "write">>, recheck |-> FALSE,
                 enters |-> {}, release |-> "self", timer |-> "dangling"]

Event == {"read", "write", "timeout"}
Traits == [order : Seq(Event), recheck : BOOLEAN, enters : SUBSET Event,
           release : {"self", "close", "owner", "destructor"},
           timer : {"none", "cleared", "repeats", "restarts", "disabled", "dangling"}]

(* The releases that are the application's, which owns the adapter.         *)
Owned == {"owner", "destructor"}

VARIABLES
    adapter,   \* the adapter in use
    context,   \* the context: "live" or "freed"
    attached,  \* ac->ev.cleanup # NULL
    data,      \* the adapter's data, ac->ev.data: "live" or "freed"
    deleted,   \* cleanup is deferred to the end of the callback
    watched,   \* events the loop watches for the context
    timer,     \* the timer: "off", "on", or "spent" but not forgotten
    scheduled, \* the context set a timer that has not fired yet
    todo,      \* events that are left to the callback the loop runs
    call,      \* the handler of async.c that runs, or "none"
    closing,   \* libuv handles that are being closed
    fault      \* what was used after it was freed: "none" so far

adapterVars == <<adapter, context, attached, data, deleted, watched, timer, scheduled,
                 todo, call, closing, fault>>

AdapterTypeOK ==
    /\ adapter \in Adapters
    /\ context \in {"live", "freed"} /\ data \in {"live", "freed"}
    /\ attached \in BOOLEAN /\ deleted \in BOOLEAN /\ scheduled \in BOOLEAN
    /\ watched \subseteq {"read", "write"} /\ closing \subseteq {"poll", "timer"}
    /\ timer \in {"off", "on", "spent"}
    /\ todo \subseteq Event
    /\ call \in Event \cup {"none"}
    /\ fault \in {"none", "context", "data", "timer"}

(* ...Attach, and the event that the connect callback waits for.            *)
AdapterInit ==
    /\ adapter \in Adapters
    /\ context = "live" /\ attached = TRUE /\ data = "live" /\ deleted = FALSE
    /\ watched = {"write"} /\ timer = "off" /\ scheduled = FALSE
    /\ todo = {} /\ call = "none" /\ closing = {} /\ fault = "none"

Idle == todo = {} /\ call = "none" /\ ~deleted

-----------------------------------------------------------------------------
(* What the context does, in a handler or when the application calls it.    *)

ContextCalls == /\ context = "live" /\ attached /\ fault = "none"
                /\ (call # "none" \/ Idle)
ContextRuns == ContextCalls /\ data = "live"

(* Any function of ev, after the application destroyed the adapter that the *)
(* context is attached to: ev still has the functions.                      *)
CallsOrphan ==
    /\ ContextCalls /\ data = "freed"
    /\ fault' = "data"
    /\ UNCHANGED <<adapter, context, attached, data, deleted, watched, timer, scheduled, todo,
                   call, closing>>

Watch(what) ==
    /\ ContextRuns
    /\ watched' = watched \cup {what}
    /\ UNCHANGED <<adapter, context, attached, data, deleted, timer, scheduled, todo, call,
                   closing, fault>>

Ignore(what) ==
    /\ ContextRuns
    /\ watched' = watched \ {what}
    /\ UNCHANGED <<adapter, context, attached, data, deleted, timer, scheduled, todo, call,
                   closing, fault>>

(* Mutant: a timer that has fired is not started again.                     *)
ScheduleTimerOnce ==
    /\ ContextRuns /\ adapter.timer # "none"
    /\ scheduled' = TRUE
    /\ timer' = IF timer = "spent" THEN "spent" ELSE "on"
    /\ UNCHANGED <<adapter, context, attached, data, deleted, watched, todo, call, closing,
                   fault>>

(* ev.scheduleTimer: sets a field, starts a timer, or sets the time of one  *)
(* that exists already.                                                     *)
ScheduleTimer ==
    /\ ContextRuns /\ adapter.timer # "none"
    /\ scheduled' = TRUE
    /\ timer' = IF timer = "spent" /\ adapter.timer = "disabled" THEN "spent" ELSE "on"
    /\ fault' = IF timer = "spent" /\ adapter.timer = "dangling" THEN "timer" ELSE fault
    /\ UNCHANGED <<adapter, context, attached, data, deleted, watched, todo, call, closing>>

(* ev.cleanup.                                                              *)
Entered == call \in adapter.enters
Cleanup ==
    /\ ContextRuns
    /\ attached' = FALSE /\ watched' = {} /\ timer' = "off" /\ scheduled' = FALSE
    /\ fault' = IF timer = "spent" /\ adapter.timer = "dangling" THEN "timer" ELSE fault
    /\ deleted' = Entered
    /\ data' = IF adapter.release = "self" /\ ~Entered THEN "freed" ELSE data
    /\ closing' = IF adapter.release # "close" THEN {}
                  ELSE IF timer = "off" THEN {"poll"} ELSE {"poll", "timer"}
    /\ context' \in {"live", "freed"}
    /\ UNCHANGED <<adapter, todo, call>>

(* The context outlived its cleanup (REDIS_OPT_NOAUTOFREE) and is freed.    *)
FreeLater ==
    /\ context = "live" /\ ~attached /\ Idle /\ fault = "none"
    /\ context' = "freed"
    /\ UNCHANGED <<adapter, attached, data, deleted, watched, timer, scheduled, todo, call,
                   closing, fault>>

(* The application destroys the adapter that it owns, outside its handlers. *)
(* The destructor sets ev.data to NULL in the context it was given, which   *)
(* cleanup did not make it forget.                                          *)
OwnerReleases ==
    /\ adapter.release \in Owned /\ data = "live" /\ Idle /\ fault = "none"
    /\ data' = "freed"
    /\ fault' = IF adapter.release = "destructor" /\ context = "freed" THEN "context" ELSE fault
    /\ UNCHANGED <<adapter, context, attached, deleted, watched, timer, scheduled, todo, call,
                   closing>>

-----------------------------------------------------------------------------
(* What the loop does.                                                      *)

(* redisPollTick looks at its deadline only when it watches for something.  *)
Due == IF timer = "on" /\ (adapter = Poll => watched # {}) THEN {"timeout"} ELSE {}

(* redisPollTick for a context whose error cleaned the adapter up, and that *)
(* was not freed: ac->ev.data still points to the adapter's data.           *)
LateTick == TickLate /\ adapter = Poll /\ context = "live" /\ ~attached

(* It calls back for the events that are ready; adapters with an order get  *)
(* them together, the others one at a time.                                 *)
Callback ==
    /\ Idle /\ fault = "none" /\ (data = "live" \/ LateTick)
    /\ fault' = IF data = "freed" THEN "data" ELSE fault
    /\ \E ready \in SUBSET (watched \cup Due) :
          /\ (ready # {} \/ LateTick)
          /\ ready \subseteq Range(adapter.order) \/ \E what \in ready : ready = {what}
          /\ todo' = ready
    /\ UNCHANGED <<adapter, context, attached, data, deleted, watched, timer, scheduled, call,
                   closing>>

FiredTimer == CASE adapter.timer = "repeats" -> "on"
                [] adapter.timer = "cleared" -> "off"
                [] OTHER -> "spent"

IsNext(what) ==
    todo = {what} \/ \E i \in DOMAIN adapter.order :
                         /\ adapter.order[i] = what
                         /\ \A j \in 1..(i - 1) : adapter.order[j] \notin todo

Handle(what) ==
    /\ call' = what
    /\ timer' = IF what = "timeout" THEN FiredTimer ELSE timer
    /\ scheduled' = IF what = "timeout" THEN adapter.timer = "repeats" ELSE scheduled

(* Mutant: the second handler runs although the first cleaned up.           *)
CallHandlerUnchecked ==
    /\ call = "none" /\ fault = "none"
    /\ \E what \in todo :
          /\ IsNext(what) /\ todo' = todo \ {what}
          /\ IF context = "freed"
             THEN fault' = "context" /\ UNCHANGED <<call, timer, scheduled>>
             ELSE Handle(what) /\ UNCHANGED fault
    /\ UNCHANGED <<adapter, context, attached, data, deleted, watched, closing>>

(* The next handler of the callback.  Adapters that look again do so in     *)
(* their data, and give up when it was cleaned up.                          *)
CallHandler ==
    /\ call = "none" /\ fault = "none"
    /\ \E what \in todo :
          /\ IsNext(what) /\ todo' = todo \ {what}
          /\ CASE adapter.recheck /\ data = "freed" ->
                    fault' = "data" /\ UNCHANGED <<call, timer, scheduled>>
               [] adapter.recheck /\ data = "live" /\ ~attached ->
                    UNCHANGED <<call, timer, scheduled, fault>>
               [] ~adapter.recheck /\ context = "freed" ->
                    fault' = "context" /\ UNCHANGED <<call, timer, scheduled>>
               [] OTHER -> Handle(what) /\ UNCHANGED fault
    /\ UNCHANGED <<adapter, context, attached, data, deleted, watched, closing>>

(* redisPollTick looks at its deadline after the other handlers.            *)
PastDeadline == IF adapter = Poll /\ call # "timeout" /\ attached /\ timer = "on"
                THEN {"timeout"} ELSE {}

HandlerReturns ==
    /\ call # "none" /\ fault = "none"
    /\ call' = "none"
    /\ todo' \in {todo, todo \cup PastDeadline}
    /\ UNCHANGED <<adapter, context, attached, data, deleted, watched, timer, scheduled,
                   closing, fault>>

(* Mutant: the end of the callback forgets the data.                        *)
DeferredCleanupKeepsData ==
    /\ deleted /\ call = "none" /\ fault = "none"
    /\ deleted' = FALSE /\ todo' = {}
    /\ UNCHANGED <<adapter, context, attached, data, watched, timer, scheduled, call, closing,
                   fault>>

(* The end of the callback does what cleanup deferred.                      *)
DeferredCleanup ==
    /\ deleted /\ call = "none" /\ fault = "none"
    /\ deleted' = FALSE /\ todo' = {}
    /\ data' = "freed"
    /\ fault' = IF data = "freed" THEN "data" ELSE fault
    /\ UNCHANGED <<adapter, context, attached, watched, timer, scheduled, call, closing>>

(* on_handle_close, on_timer_close: the last one frees.                     *)
HandleClosed(handle) ==
    /\ Idle /\ handle \in closing /\ fault = "none"
    /\ closing' = closing \ {handle}
    /\ data' = IF closing' = {} THEN "freed" ELSE data
    /\ fault' = IF data = "freed" THEN "data" ELSE fault
    /\ UNCHANGED <<adapter, context, attached, deleted, watched, timer, scheduled, todo, call>>

AdapterNext ==
    \/ \E what \in {"read", "write"} : Watch(what) \/ Ignore(what)
    \/ ScheduleTimer \/ Cleanup \/ CallsOrphan \/ FreeLater \/ OwnerReleases
    \/ Callback \/ CallHandler \/ HandlerReturns \/ DeferredCleanup
    \/ \E handle \in {"poll", "timer"} : HandleClosed(handle)

AdapterSpec == AdapterInit /\ [][AdapterNext]_adapterVars

-----------------------------------------------------------------------------
(* The application destroyed the adapter it owns while a context was        *)
(* attached to it, or one with a destructor at all: its context may be gone.*)
Orphaned == /\ data = "freed"
            /\ \/ adapter.release = "owner" /\ attached
               \/ adapter.release = "destructor"

(* No handler is called for a context that was freed by an earlier handler  *)
(* of the same callback, and the adapter's data is neither used nor freed   *)
(* after it was freed: unless the application, that owns the adapter,       *)
(* destroyed it too early or too late.                                      *)
NoDanglingUse == fault = "none" \/ Orphaned

(* The same of adapters that the application does not own.                  *)
NothingUsedAfterFree == fault = "none"

(* The adapter's data is freed once the context is gone and the loop had a  *)
(* chance to close its handles; a context that is attached has its data,    *)
(* as long as the application keeps an adapter that it owns.                *)
DataReleased ==
    /\ (context = "freed" /\ Idle /\ closing = {} /\ adapter.release \notin Owned) => data = "freed"
    /\ attached => data = "live" \/ Orphaned

(* A timer that the context set, also in the handler of the last timeout,   *)
(* is running until it fires.                                               *)
TimerNotLost == (scheduled /\ attached) => timer = "on"
=============================================================================
