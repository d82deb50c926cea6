--------------------------- MODULE MCEventAdapter ---------------------------
EXTENDS EventAdapterProofs

(* The adapters that are used as their library expects, and the others: one *)
(* of two handlers runs on a freed context (Glib, Libhv), a one-shot timer  *)
(* that fired is not enabled again (Libsdevent).  Qt is one of the first as *)
(* long as the application does not destroy it.                             *)
SoundAdapters == {Poll, Libevent, Libuv, Libev, Ae, RedisModule, Ivykis, MacOS, Qt}
TwoHandlers == {Glib, Libhv}
LostTimers == {Libsdevent}
DestroyedByOwner == {Qt}

(* The theorems apply to the sound ones, and to no other.                   *)
ASSUME RulesAssumption ==
    /\ \A a \in SoundAdapters : FollowsRules(a) /\ KeepsTimer(a)
    /\ \A a \in TwoHandlers : ~FollowsRules(a)
    /\ \A a \in LostTimers : FollowsRules(a) /\ ~KeepsTimer(a)
=============================================================================
