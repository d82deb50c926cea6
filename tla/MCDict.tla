------------------------------- MODULE MCDict -------------------------------
EXTENDS Dict
(* Five names: two collide in every table, two once the table is doubled.   *)
FiveHash == [k \in 1..5 |-> <<0, 8, 2, 3, 6>>[k]]
=============================================================================
