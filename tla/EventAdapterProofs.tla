------------------------- MODULE EventAdapterProofs -------------------------
(***************************************************************************)
(* An adapter never calls a handler for a freed context, releases its data *)
(* once, and keeps its timers, if it follows four rules: they are what the *)
(* nine adapters of the run Adapters have in common, and what every other  *)
(* adapter has to observe.                                                 *)
(***************************************************************************)
EXTENDS EventAdapter, TLAPS

(* One that calls several handlers in a callback looks again in between;    *)
(* if it frees its own data it defers that in those callbacks; only one     *)
(* that frees it defers it; and no timer that has fired dangles.            *)
FollowsRules(a) ==
    /\ a \in Traits
    /\ a.order # <<>> => a.recheck
    /\ a.order # <<>> /\ a.release = "self" => Range(a.order) \subseteq a.enters
    /\ a.enters # {} => a.release = "self"
    /\ a.timer # "dangling"

(* A timer that has fired can be started again.                             *)
KeepsTimer(a) == a.timer # "disabled"

(* Several events are left only to a callback that looks again.             *)
CallbackInv ==
    /\ call # "none" /\ todo # {} => call \in Range(adapter.order)
    /\ todo \subseteq Range(adapter.order) \/ \E what \in todo : todo = {what}
    /\ todo # {} => data = "live" /\ (attached \/ adapter.recheck)

(* While the context is attached everything is there, but for an adapter of *)
(* which the application disposed; afterwards the loop has nothing to call  *)
(* back for.                                                                *)
AttachInv ==
    /\ attached => context = "live" /\ ~deleted /\ closing = {}
                   /\ (data = "live" \/ adapter.release \in Owned)
    /\ ~attached => watched = {} /\ timer = "off" /\ ~scheduled

(* The data that is not free yet is freed by exactly one of the owner, the  *)
(* end of the callback and the last handle to close.                        *)
ReleaseInv ==
    /\ deleted => data = "live" /\ adapter.release = "self"
    /\ closing # {} => data = "live" /\ adapter.release = "close"
    /\ ~attached /\ data = "live" => deleted \/ closing # {} \/ adapter.release \in Owned

TimerInv ==
    /\ timer = "spent" => adapter.timer \notin {"repeats", "cleared"}
    /\ KeepsTimer(adapter) => TimerNotLost

AdapterInv == /\ AdapterTypeOK /\ NoDanglingUse
              /\ CallbackInv /\ AttachInv /\ ReleaseInv /\ TimerInv

Rules == ~TickLate /\ \A a \in Adapters : FollowsRules(a)

LEMMA InitAdapterInv == AdapterInit => AdapterInv
BY DEF AdapterInit, AdapterInv, AdapterTypeOK, NoDanglingUse, Orphaned, CallbackInv, AttachInv, ReleaseInv,
       TimerInv, TimerNotLost, KeepsTimer

(* The context schedules, unschedules and sets timers.                      *)
LEMMA WatchKeeps ==
    ASSUME Rules, AdapterInv, NEW what \in {"read", "write"}, Watch(what) \/ Ignore(what)
    PROVE  AdapterInv'
<1>1. /\ UNCHANGED <<adapter, context, attached, data, deleted, timer, scheduled, todo, call,
                     closing, fault>>
      /\ attached
      /\ watched' = watched \cup {what} \/ watched' = watched \ {what}
  BY DEF Watch, Ignore, ContextRuns, ContextCalls
<1>2. watched' \subseteq {"read", "write"}
  BY <1>1 DEF AdapterInv, AdapterTypeOK
<1> QED
  BY <1>1, <1>2 DEF AdapterInv, AdapterTypeOK, NoDanglingUse, Orphaned, CallbackInv, AttachInv, ReleaseInv,
                    TimerInv, TimerNotLost, KeepsTimer

LEMMA TimerKeeps ==
    ASSUME Rules, AdapterInv, ScheduleTimer PROVE AdapterInv'
<1>1. FollowsRules(adapter)
  BY DEF Rules, AdapterInv, AdapterTypeOK
<1> QED
  BY <1>1 DEF FollowsRules, ScheduleTimer, ContextRuns, ContextCalls, AdapterInv, AdapterTypeOK, NoDanglingUse,
              CallbackInv, AttachInv, ReleaseInv, TimerInv, TimerNotLost, KeepsTimer

LEMMA CleanupKeeps ==
    ASSUME Rules, AdapterInv, Cleanup PROVE AdapterInv'
<1>1. FollowsRules(adapter)
  BY DEF Rules, AdapterInv, AdapterTypeOK
<1>2. fault' = "none"
  BY <1>1 DEF FollowsRules, Cleanup, ContextRuns, ContextCalls, AdapterInv
<1>3. AdapterTypeOK' /\ NoDanglingUse'
  <2>1. closing' \subseteq {"poll", "timer"} /\ data' \in {"live", "freed"}
    BY DEF Cleanup, AdapterInv, AdapterTypeOK
  <2>2. deleted' \in BOOLEAN
    BY DEF Cleanup, Entered
  <2> QED
    BY <1>2, <2>1, <2>2 DEF Cleanup, AdapterInv, AdapterTypeOK, NoDanglingUse, Orphaned
<1>4. AttachInv' /\ TimerInv'
  BY DEF Cleanup, AttachInv, TimerInv, TimerNotLost, KeepsTimer
<1>5. todo # {} => adapter.recheck /\ (adapter.release = "self" => Entered)
  <2>1. todo # {} => call \in Range(adapter.order)
    BY DEF Cleanup, ContextRuns, ContextCalls, Idle, AdapterInv, CallbackInv
  <2>2. adapter.order = <<>> => Range(adapter.order) = {}
    BY DEF Range
  <2> QED
    BY <1>1, <2>1, <2>2 DEF FollowsRules, Entered
<1>6. data = "live" /\ UNCHANGED <<adapter, todo, call>>
  BY DEF Cleanup, ContextRuns
<1>7. data' = "live" \/ (adapter.release = "self" /\ ~Entered /\ data' = "freed")
  BY <1>6 DEF Cleanup
<1>8. CallbackInv'
  BY <1>5, <1>6, <1>7 DEF AdapterInv, CallbackInv
<1>9. ReleaseInv'
  <2>1. Entered => adapter.release = "self"
    BY <1>1 DEF FollowsRules, Entered
  <2>2. adapter.release \in {"self", "close"} \cup Owned
    BY <1>1 DEF FollowsRules, Traits, Owned
  <2> QED
    BY <1>6, <1>7, <2>1, <2>2 DEF Cleanup, ReleaseInv, Owned
<1> QED
  BY <1>3, <1>4, <1>8, <1>9 DEF AdapterInv

LEMMA FreeKeeps ==
    ASSUME Rules, AdapterInv, FreeLater PROVE AdapterInv'
BY DEF FreeLater, AdapterInv, AdapterTypeOK, NoDanglingUse, Orphaned, CallbackInv, AttachInv, ReleaseInv,
       TimerInv, TimerNotLost, KeepsTimer

(* What the application does to an adapter that it owns is its own affair.  *)
LEMMA OwnerKeeps ==
    ASSUME Rules, AdapterInv, OwnerReleases \/ CallsOrphan PROVE AdapterInv'
<1>1. /\ adapter.release \in Owned /\ data' = "freed" /\ fault' \in {"none", "context", "data"}
      /\ fault' # "none" => adapter.release = "destructor" \/ attached
      /\ UNCHANGED <<adapter, context, attached, deleted, watched, timer, scheduled, todo, call, closing>>
      /\ ~deleted /\ closing = {} /\ (todo # {} => data = "live" /\ CallsOrphan)
  BY DEF OwnerReleases, CallsOrphan, ContextCalls, Idle, AdapterInv, AttachInv, ReleaseInv, Owned, CallbackInv
<1>2. todo = {}
  BY <1>1 DEF CallsOrphan
<1>3. NoDanglingUse'
  BY <1>1 DEF NoDanglingUse, Orphaned, Owned
<1> QED
  BY <1>1, <1>2, <1>3 DEF AdapterInv, AdapterTypeOK, CallbackInv, AttachInv, ReleaseInv,
                          TimerInv, TimerNotLost, KeepsTimer

(* Without events nothing is called back: then the context is attached.     *)
LEMMA CallbackKeeps ==
    ASSUME Rules, AdapterInv, Callback PROVE AdapterInv'
<1>1. ~LateTick
  BY DEF Rules, LateTick
<1>2. PICK ready \in SUBSET (watched \cup Due) :
          /\ ready # {}
          /\ ready \subseteq Range(adapter.order) \/ \E what \in ready : ready = {what}
          /\ todo' = ready
  BY <1>1 DEF Callback
<1>3. attached /\ data = "live" /\ fault = "none"
  BY <1>1, <1>2 DEF Callback, AdapterInv, AttachInv, Due
<1>4. watched \cup Due \subseteq Event
  BY DEF AdapterInv, AdapterTypeOK, Due, Event
<1>5. fault' = "none"
  BY <1>3 DEF Callback
<1>6. UNCHANGED <<adapter, context, attached, data, deleted, watched, timer, scheduled, call,
                  closing>>
  BY DEF Callback
<1>7. AdapterTypeOK' /\ NoDanglingUse'
  <2>1. todo' \subseteq Event
    BY <1>2, <1>4
  <2> QED
    BY <1>5, <1>6, <2>1 DEF AdapterInv, AdapterTypeOK, NoDanglingUse, Orphaned
<1>8. CallbackInv'
  BY <1>2, <1>3, <1>6 DEF Callback, Idle, CallbackInv
<1>9. AttachInv'
  BY <1>6 DEF AdapterInv, AttachInv
<1>10. ReleaseInv'
  BY <1>6 DEF AdapterInv, ReleaseInv
<1>11. TimerInv'
  BY <1>6 DEF AdapterInv, TimerInv, KeepsTimer, TimerNotLost
<1> QED
  BY <1>7, <1>8, <1>9, <1>10, <1>11 DEF AdapterInv

LEMMA HandlerKeeps ==
    ASSUME Rules, AdapterInv, CallHandler PROVE AdapterInv'
<1>1. FollowsRules(adapter)
  BY DEF Rules, AdapterInv, AdapterTypeOK
<1>2. PICK what \in todo :
          /\ todo' = todo \ {what}
          /\ \/ UNCHANGED <<call, timer, scheduled, fault>> /\ ~attached
             \/ Handle(what) /\ UNCHANGED fault /\ attached
  BY DEF CallHandler, AdapterInv, AdapterTypeOK, CallbackInv, AttachInv
<1>3. what \in Event /\ data = "live" /\ (attached \/ adapter.recheck)
  BY <1>2 DEF AdapterInv, AdapterTypeOK, CallbackInv, Event
<1>4. AdapterTypeOK' /\ NoDanglingUse'
  BY <1>2, <1>3 DEF CallHandler, Handle, FiredTimer, AdapterInv, AdapterTypeOK, NoDanglingUse, Event
<1>5. CallbackInv'
  <2>1. UNCHANGED <<adapter, attached, data>> /\ call' \in {call, what} /\ call = "none"
    BY <1>2 DEF CallHandler, Handle
  <2>2. CASE todo \subseteq Range(adapter.order)
    BY <1>2, <1>3, <2>1, <2>2 DEF CallbackInv
  <2>3. CASE todo = {what}
    BY <1>2, <2>1, <2>3 DEF CallbackInv
  <2> QED
    BY <2>2, <2>3 DEF AdapterInv, CallbackInv
<1>6. AttachInv' /\ ReleaseInv'
  <2>1. UNCHANGED <<adapter, context, attached, data, deleted, watched, closing>>
    BY DEF CallHandler
  <2>2. attached \/ UNCHANGED <<timer, scheduled>>
    BY <1>2
  <2>3. AttachInv'
    BY <2>1, <2>2 DEF AdapterInv, AttachInv
  <2>4. ReleaseInv'
    BY <2>1 DEF AdapterInv, ReleaseInv
  <2> QED
    BY <2>3, <2>4
<1>7. TimerInv'
  BY <1>1, <1>2 DEF CallHandler, Handle, FiredTimer, FollowsRules, AdapterInv, TimerInv,
                    KeepsTimer, TimerNotLost
<1> QED
  BY <1>4, <1>5, <1>6, <1>7 DEF AdapterInv

LEMMA ReturnKeeps ==
    ASSUME Rules, AdapterInv, HandlerReturns PROVE AdapterInv'
<1>1. UNCHANGED <<adapter, context, attached, data, deleted, watched, timer, scheduled, closing, fault>>
      /\ call' = "none"
  BY DEF HandlerReturns
<1>2. CASE todo' = todo
  BY <1>1, <1>2 DEF AdapterInv, AdapterTypeOK, NoDanglingUse, Orphaned, CallbackInv, AttachInv,
                    ReleaseInv, TimerInv, TimerNotLost, KeepsTimer
<1>3. CASE todo' = todo \cup {"timeout"} /\ adapter = Poll /\ attached
  <2>1. Range(adapter.order) = Event /\ adapter.release = "self"
    <3>1. DOMAIN adapter.order = 1 .. 3 /\ adapter.order[1] = "read" /\ adapter.order[2] = "write"
          /\ adapter.order[3] = "timeout"
      BY <1>3 DEF Poll
    <3> QED BY <1>3, <3>1 DEF Range, Event, Poll
  <2>2. todo' \subseteq Event
    BY <1>3 DEF AdapterInv, AdapterTypeOK, Event
  <2>3. data = "live"
    BY <1>3, <2>1 DEF AdapterInv, AttachInv, Owned
  <2>4. CallbackInv'
    BY <1>1, <1>3, <2>1, <2>2, <2>3 DEF CallbackInv
  <2> QED BY <1>1, <2>2, <2>4 DEF AdapterInv, AdapterTypeOK, NoDanglingUse, Orphaned, AttachInv,
                    ReleaseInv, TimerInv, TimerNotLost, KeepsTimer
<1> QED BY <1>2, <1>3 DEF HandlerReturns, PastDeadline

LEMMA DeferredKeeps ==
    ASSUME Rules, AdapterInv, DeferredCleanup PROVE AdapterInv'
<1>1. FollowsRules(adapter)
  BY DEF Rules, AdapterInv, AdapterTypeOK
<1>2. data = "live" /\ adapter.release = "self" /\ ~attached /\ closing = {}
  BY <1>1 DEF DeferredCleanup, AdapterInv, AttachInv, ReleaseInv, FollowsRules, Event
<1> QED
  BY <1>2 DEF DeferredCleanup, AdapterInv, AdapterTypeOK, NoDanglingUse, Orphaned, CallbackInv, AttachInv,
              ReleaseInv, TimerInv, TimerNotLost, KeepsTimer

LEMMA CloseKeeps ==
    ASSUME Rules, AdapterInv, NEW handle \in {"poll", "timer"}, HandleClosed(handle)
    PROVE  AdapterInv'
<1>1. data = "live" /\ adapter.release = "close" /\ ~attached /\ todo = {} /\ ~deleted
  BY DEF HandleClosed, Idle, AdapterInv, AttachInv, ReleaseInv
<1> QED
  BY <1>1 DEF HandleClosed, AdapterInv, AdapterTypeOK, NoDanglingUse, Orphaned, CallbackInv, AttachInv,
              ReleaseInv, TimerInv, TimerNotLost, KeepsTimer

LEMMA StepKeeps ==
    ASSUME Rules, AdapterInv, [AdapterNext]_adapterVars PROVE AdapterInv'
<1>1. CASE UNCHANGED adapterVars
  BY <1>1 DEF adapterVars, AdapterInv, AdapterTypeOK, NoDanglingUse, Orphaned, CallbackInv, AttachInv,
              ReleaseInv, TimerInv, TimerNotLost, KeepsTimer
<1>2. CASE AdapterNext
  <2>1. CASE \E what \in {"read", "write"} : Watch(what) \/ Ignore(what)
    BY <2>1, WatchKeeps
  <2>2. CASE ScheduleTimer
    BY <2>2, TimerKeeps
  <2>3. CASE Cleanup
    BY <2>3, CleanupKeeps
  <2>4. CASE FreeLater
    BY <2>4, FreeKeeps
  <2>10. CASE OwnerReleases \/ CallsOrphan
    BY <2>10, OwnerKeeps
  <2>5. CASE Callback
    BY <2>5, CallbackKeeps
  <2>6. CASE CallHandler
    BY <2>6, HandlerKeeps
  <2>7. CASE HandlerReturns
    BY <2>7, ReturnKeeps
  <2>8. CASE DeferredCleanup
    BY <2>8, DeferredKeeps
  <2>9. CASE \E handle \in {"poll", "timer"} : HandleClosed(handle)
    BY <2>9, CloseKeeps
  <2> QED
    BY <1>2, <2>1, <2>2, <2>3, <2>4, <2>5, <2>6, <2>7, <2>8, <2>9, <2>10 DEF AdapterNext
<1> QED
  BY <1>1, <1>2

LEMMA InvHolds == Rules => (AdapterSpec => []AdapterInv)
<1> SUFFICES ASSUME Rules PROVE AdapterSpec => []AdapterInv
  OBVIOUS
<1>1. AdapterInv /\ [AdapterNext]_adapterVars => AdapterInv'
  BY StepKeeps
<1> QED
  BY InitAdapterInv, <1>1, PTL DEF AdapterSpec

-----------------------------------------------------------------------------
(* Every state of every adapter that follows the rules is well typed.       *)
THEOREM AdapterTypes == Rules => (AdapterSpec => []AdapterTypeOK)
<1>1. AdapterInv => AdapterTypeOK
  BY DEF AdapterInv
<1> QED BY InvHolds, <1>1, PTL

(* No adapter that follows the rules calls a handler of a freed context, or *)
(* uses or frees its data a second time, whatever the handlers do and       *)
(* whenever the application releases the context; an adapter that the       *)
(* application owns it must not destroy before or after its context.        *)
THEOREM NothingDangles == Rules => (AdapterSpec => []NoDanglingUse)
<1>1. AdapterInv => NoDanglingUse
  BY DEF AdapterInv
<1> QED BY InvHolds, <1>1, PTL

(* An adapter that the application does not own it cannot misuse either.    *)
THEOREM NothingDanglesUnowned ==
    Rules /\ (\A a \in Adapters : a.release \notin Owned) => (AdapterSpec => []NothingUsedAfterFree)
<1> SUFFICES ASSUME Rules, \A a \in Adapters : a.release \notin Owned
             PROVE  AdapterSpec => []NothingUsedAfterFree
  OBVIOUS
<1>1. AdapterInv => NothingUsedAfterFree
  BY DEF AdapterInv, AdapterTypeOK, NoDanglingUse, Orphaned, NothingUsedAfterFree, Owned
<1> QED BY InvHolds, <1>1, PTL

(* Its data is there while the context is attached, unless the application  *)
(* that owns it destroyed it, and else is freed in the end.                 *)
THEOREM DataIsReleased == Rules => (AdapterSpec => []DataReleased)
<1>1. AdapterInv => DataReleased
  BY DEF AdapterInv, AdapterTypeOK, AttachInv, ReleaseInv, DataReleased, Orphaned, Owned, Idle
<1> QED BY InvHolds, <1>1, PTL

(* A timer that the context set runs until it fires, if one that has fired  *)
(* can be started again.                                                    *)
THEOREM TimersKept ==
    Rules /\ (\A a \in Adapters : KeepsTimer(a)) => (AdapterSpec => []TimerNotLost)
<1> SUFFICES ASSUME Rules, \A a \in Adapters : KeepsTimer(a)
             PROVE  AdapterSpec => []TimerNotLost
  OBVIOUS
<1>1. AdapterInv => TimerNotLost
  BY DEF AdapterInv, AdapterTypeOK, TimerInv
<1> QED BY InvHolds, <1>1, PTL
=============================================================================
