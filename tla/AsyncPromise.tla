---------------------------- MODULE AsyncPromise ----------------------------
(***************************************************************************)
(* What the asynchronous context promises for commands that have a reply:  *)
(* each is settled exactly once, in the order of issue, with the reply of  *)
(* the server to this command or, once the connection is lost or ended,    *)
(* with nothing; after the first that gets nothing no other gets a reply.  *)
(***************************************************************************)
EXTENDS Naturals, Sequences

VARIABLES
    queue,    \* commands issued and not settled, by number, the oldest first
    settled,  \* commands settled, with what they got: their number or 0
    ending,   \* the connection is lost or ended
    last      \* the number of the last command issued

promiseVars == <<queue, settled, ending, last>>

Init == queue = <<>> /\ settled = <<>> /\ ending = FALSE /\ last = 0

Issue == /\ last' = last + 1
         /\ queue' = Append(queue, last + 1)
         /\ UNCHANGED <<settled, ending>>

Settle(got) == /\ queue # <<>>
               /\ queue' = Tail(queue)
               /\ settled' = Append(settled, [id |-> Head(queue), got |-> got])
               /\ UNCHANGED last

Answer == ~ending /\ Settle(Head(queue)) /\ UNCHANGED ending
Cancel == Settle(0) /\ ending' = TRUE

Next == Issue \/ Answer \/ Cancel

Spec == Init /\ [][Next]_promiseVars

(* Nothing waits for ever.                                                  *)
FairSpec == Spec /\ WF_promiseVars(Answer \/ Cancel)
=============================================================================
