------------------------ MODULE RespReaderProperties ------------------------
(***************************************************************************)
(* What the reply reader promises, for any way to cut the input in pieces. *)
(***************************************************************************)
EXTENDS RespReader

ReaderTypeOK ==
    /\ fed \in 0..Len(stream.units)
    /\ pos \in 0..Len(buf) /\ Len(buf) <= fed
    /\ \A i \in DOMAIN task : task[i].type \in Types \cup {"none"}
    /\ tasks \in {k * StackSize : k \in 1..(Len(stream.units) + 1)}
    /\ err \in {"none", "protocol", "oom"} /\ pc \in {"idle", "reading"}
    /\ dry \in BOOLEAN

(* redisReaderGetReply returns the replies the server sent, whole, in their *)
(* order and once, however the input was cut and whatever it nests; and it  *)
(* reports a protocol error only for a stream that breaks the protocol, and *)
(* only after all the replies before the break.                             *)
RepliesAsSent ==
    /\ Len(got) <= Len(stream.replies)
    /\ \A i \in DOMAIN got : got[i] = stream.replies[i]
    /\ err = "protocol" => stream.bad /\ Len(got) = Len(stream.replies)

(* When redisReaderGetReply has nothing to return, every reply that came in *)
(* full was returned, and a stream that is no reply was found out.          *)
NothingWithheld ==
    (pc = "idle" /\ dry /\ err = "none") =>
        /\ Len(got) = Cardinality({i \in DOMAIN stream.ends : stream.ends[i] <= fed})
        /\ (stream.bad => fed < Len(stream.units))

(* A child is never written outside its parent: the object of the parent    *)
(* task exists, is an aggregate of the size the task counts to, and the     *)
(* stack has room for the tasks in use.                                     *)
ParentsExist ==
    /\ Len(task) <= tasks
    /\ \A i \in 2..Len(task) :
          LET parent == [j \in 1..(i - 2) |-> task[j + 1].idx]
          IN  /\ parent \in DOMAIN reply
              /\ reply[parent].type \in AggregateTypes
              /\ reply[parent].n = task[i - 1].elements
              /\ task[i].idx \in 0..(task[i - 1].elements - 1)

(* Consumed input does not pile up: between calls less than the threshold   *)
(* of it is kept.                                                           *)
ConsumedIsDiscarded == pc = "idle" => pos < DiscardAt

(* The stack, its parents and the buffer, between any two steps.            *)
ReaderSound == ReaderTypeOK /\ ParentsExist /\ ConsumedIsDiscarded

(* With enough memory every reply the server sends in full is returned in   *)
(* the end, or the reader is in error.                                      *)
EveryReplyReturned == <>(err # "none" \/ Len(got) = Len(stream.replies))
=============================================================================
