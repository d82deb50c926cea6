---------------------------- MODULE CallbackMap -----------------------------
(***************************************************************************)
(* What async.c expects of the dictionary: a map from names to callbacks,  *)
(* and an iteration that meets every entry once.                           *)
(***************************************************************************)
CONSTANTS Keys, Values

VARIABLES
    map,   \* from the names that are there to their callbacks
    ahead  \* names the running iteration has still to meet

mapVars == <<map, ahead>>

Empty == [k \in {} |-> k]

Init == map = Empty /\ ahead = {}

Put(k, v) ==
    /\ ahead = {}
    /\ map' = [x \in DOMAIN map \cup {k} |-> IF x = k THEN v ELSE map[x]]
    /\ UNCHANGED ahead

Delete(k) ==
    /\ k \notin ahead
    /\ map' = [x \in DOMAIN map \ {k} |-> map[x]]
    /\ UNCHANGED ahead

Clear == map' = Empty /\ ahead' = {}

Iterate == ahead = {} /\ ahead' = DOMAIN map /\ UNCHANGED map

Meet(k) == k \in ahead /\ ahead' = ahead \ {k} /\ UNCHANGED map

Next ==
    \/ \E k \in Keys, v \in Values : Put(k, v)
    \/ \E k \in Keys : Delete(k) \/ Meet(k)
    \/ Clear \/ Iterate

Spec == Init /\ [][Next]_mapVars
=============================================================================
