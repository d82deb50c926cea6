--------------------------- MODULE PubSubChannel ---------------------------
(***************************************************************************)
(* What the library promises an application that makes one subscription:   *)
(* the messages the server sends reach the callback one at a time, in      *)
(* order, each at most once and without a gap; a lost connection or        *)
(* redis_close may cut off a tail of them, never a message in the middle.  *)
(* While it has several subscriptions nothing is promised.                 *)
(***************************************************************************)
EXTENDS Naturals, Sequences

CONSTANT Messages

VARIABLES
    several,   \* the application has more than one subscription
    cut,       \* the connection is lost or closed
    pending,   \* messages on their way to the callback, the oldest first
    delivered  \* messages the callback was given

vars == <<cut, pending, delivered>>

Init == cut = FALSE /\ pending = <<>> /\ delivered = <<>>

(* One more message behind those on their way.                              *)
Arrive == /\ ~cut
          /\ Len(pending') = Len(pending) + 1
          /\ pending'[Len(pending')] \in Messages
          /\ pending' = Append(pending, pending'[Len(pending')])
          /\ UNCHANGED <<cut, delivered>>

Deliver == /\ pending # <<>>
           /\ pending' = Tail(pending)
           /\ delivered' = Append(delivered, Head(pending))
           /\ UNCHANGED cut

(* The connection ends, or ended already, and takes a tail with it.         *)
LoseTail == /\ cut' = TRUE
            /\ \E k \in 0 .. Len(pending) : pending' = SubSeq(pending, 1, k)
            /\ UNCHANGED delivered

Next == several \/ several' \/ Arrive \/ Deliver \/ LoseTail

Spec == Init /\ [][Next]_vars

(* While the connection lasts no message is kept for ever.                  *)
FairSpec == Spec /\ WF_vars(~cut /\ ~several /\ Deliver)
=============================================================================
