----------------------------- MODULE RespReader -----------------------------
(***************************************************************************)
(* The reply reader (read.c) with the reply objects it builds (hiredis.c). *)
(*                                                                         *)
(* The server's bytes are units the reader tells apart: the "type" byte,   *)
(* the "line" up to \r\n, the "body" of a bulk string with its \r\n.  A    *)
(* unit that came in part is one that did not come: the reader leaves it   *)
(* where it is.  An object lies under its path, the indexes of the tasks   *)
(* above it; the object pointers of the tasks are the paths of their       *)
(* aggregates.                                                             *)
(***************************************************************************)
EXTENDS Integers, Sequences, FiniteSetsExt

CONSTANTS
    Streams,      \* what the server may send: [units, replies, ends, bad, broken],
                  \* reply i ends with unit ends[i], and when bad, the units
                  \* after them are broken.reply up to its object broken.at
    StackSize,    \* REDIS_READER_STACK_SIZE
    MaxElements,  \* r->maxelements, 0 is unlimited
    DiscardAt,    \* consumed units that are worth discarding
    MayFail       \* whether memory may run out

Unit == [u : {"type", "line", "body"}, type : STRING, ok : BOOLEAN, n : Int]

LineTypes == {"error", "status", "integer", "double", "nil", "bool", "bignum"}
BulkTypes == {"string", "verb"}
PairTypes == {"map", "attr"}
AggregateTypes == {"array", "set", "push"} \cup PairTypes
Types == LineTypes \cup BulkTypes \cup AggregateTypes

(* A reply is its objects by their paths.  The elements of an aggregate,    *)
(* and nothing else, have a path that goes on from its own.                 *)
Element(reply, path, i) == reply[path].type \in AggregateTypes /\ i \in 0..(reply[path].n - 1)
Whole(reply) ==
    /\ IsFiniteSet(DOMAIN reply) /\ DOMAIN reply \subseteq Seq(Nat) /\ <<>> \in DOMAIN reply
    /\ reply = [path \in DOMAIN reply |-> [type |-> reply[path].type, n |-> reply[path].n]]
    /\ \A path \in DOMAIN reply :
          /\ reply[path].n \in Int
          /\ \A k \in 1..Len(path) : /\ SubSeq(path, 1, k - 1) \in DOMAIN reply
                                     /\ Element(reply, SubSeq(path, 1, k - 1), path[k])
          /\ \A i \in 0..(reply[path].n - 1) :
                Element(reply, path, i) => Append(path, i) \in DOMAIN reply

(* The order in which the objects are sent: an aggregate before its         *)
(* elements, an element with all that it contains before the next one.      *)
Before(p, q) ==
    \E k \in 0..Len(p) : /\ k < Len(q) /\ \A i \in 1..k : p[i] = q[i]
                         /\ k = Len(p) \/ p[k + 1] < q[k + 1]
Earlier(reply, path) == {p \in DOMAIN reply : Before(p, path)}

(* The units of some objects of a reply.                                    *)
Bulky(reply, paths) == {p \in paths : reply[p].type \in BulkTypes}
Units(reply, paths) == 2 * Cardinality(paths) + Cardinality(Bulky(reply, paths))

(* The units after the first i are a type, its line and, for a string that  *)
(* is not nil, its body: this object.                                       *)
HasType(units, i) == i + 1 \in DOMAIN units /\ units[i + 1].u = "type" /\ units[i + 1].type \in Types
HasLine(units, i) == HasType(units, i) /\ i + 2 \in DOMAIN units /\ units[i + 2].u = "line"
TooLong(n) == MaxElements > 0 /\ n > MaxElements
Doubled(type, n) == IF type \in PairTypes THEN 2 * n ELSE n

IsObject(units, i, object) ==
    /\ HasLine(units, i) /\ units[i + 2].ok
    /\ LET type == units[i + 1].type
           n == units[i + 2].n
       IN  \/ type \in LineTypes /\ object = [type |-> type, n |-> n]
           \/ type \notin LineTypes /\ n = -1 /\ object = [type |-> "nil", n |-> 0]
           \/ /\ type \in BulkTypes /\ n >= 0 /\ object = [type |-> type, n |-> n]
              /\ i + 3 \in DOMAIN units /\ units[i + 3].ok
           \/ /\ type \in AggregateTypes /\ n >= 0 /\ ~TooLong(n)
              /\ object = [type |-> type, n |-> Doubled(type, n)]

(* They break the protocol.                                                 *)
IsBroken(units, i) ==
    \/ i + 1 \in DOMAIN units /\ ~HasType(units, i)
    \/ /\ HasLine(units, i)
       /\ LET type == units[i + 1].type
              n == units[i + 2].n
          IN  \/ ~units[i + 2].ok
              \/ type \notin LineTypes /\ n < -1
              \/ type \in AggregateTypes /\ TooLong(n)
              \/ type = "verb" /\ n >= 0 /\ i + 3 \in DOMAIN units /\ ~units[i + 3].ok

Start(s, i) == IF i = 1 THEN 0 ELSE s.ends[i - 1]
Carries(s) ==
    /\ s.replies \in Seq(Range(s.replies)) /\ s.ends \in Seq(Nat) /\ Len(s.ends) = Len(s.replies)
    /\ \A i \in 1..Len(s.replies) :
          /\ Whole(s.replies[i])
          /\ s.ends[i] = Start(s, i) + Units(s.replies[i], DOMAIN s.replies[i])
          /\ \A path \in DOMAIN s.replies[i] :
                IsObject(s.units, Start(s, i) + Units(s.replies[i], Earlier(s.replies[i], path)),
                         s.replies[i][path])
    /\ s.bad \in BOOLEAN
    /\ LET begun == Start(s, Len(s.replies) + 1)
           whole == s.broken.reply
       IN  IF s.bad
           THEN /\ Whole(whole) /\ s.broken.at \in DOMAIN whole
                /\ \A path \in Earlier(whole, s.broken.at) :
                      IsObject(s.units, begun + Units(whole, Earlier(whole, path)), whole[path])
                /\ IsBroken(s.units, begun + Units(whole, Earlier(whole, s.broken.at)))
           ELSE begun = Len(s.units)

ASSUME ReaderAssumption ==
    /\ \A s \in Streams : s.units \in Seq(Unit)
    /\ StackSize \in Nat \ {0} /\ MaxElements \in Nat /\ DiscardAt \in Nat \ {0}
    /\ MayFail \in BOOLEAN
ASSUME StreamAssumption == \A s \in Streams : Carries(s)

VARIABLES
    stream, \* what the server sends in this behaviour
    fed,    \* units of it that were passed to redisReaderFeed
    buf,    \* r->buf, which is empty again after an error
    pos,    \* r->pos, units of buf that were consumed
    task,   \* r->task[0..r->ridx], each with type, elements and idx
    tasks,  \* r->tasks, the size of the stack
    reply,  \* r->reply: from the paths of the objects made so far to them
    err,    \* r->err: "none", "protocol" or "oom"
    pc,     \* "idle", or "reading" in redisReaderGetReply
    got,    \* replies that redisReaderGetReply returned
    dry     \* the last redisReaderGetReply returned none, and nothing was fed

readerVars == <<stream, fed, buf, pos, task, tasks, reply, err, pc, got, dry>>

NoReply == <<>>
NewTask(idx) == [type |-> "none", elements |-> -1, idx |-> idx]

ReaderInit ==
    /\ stream \in Streams /\ fed = 0
    /\ buf = <<>> /\ pos = 0
    /\ task = <<>> /\ tasks = StackSize /\ reply = NoReply /\ err = "none"
    /\ pc = "idle" /\ got = <<>> /\ dry = FALSE

-----------------------------------------------------------------------------

Cur == task[Len(task)]
Unread == SubSeq(buf, pos + 1, Len(buf))
Comes(unit) == Unread # <<>> /\ Unread[1].u = unit

(* __redisReaderSetError                                                    *)
SetError(what) ==
    /\ err' = what
    /\ reply' = NoReply
    /\ buf' = <<>> /\ pos' = 0
    /\ task' = <<>>
    /\ UNCHANGED <<stream, fed, tasks, pc, got, dry>>

(* redisReaderFeed.  An empty buffer may be replaced by a smaller one.      *)
Feed ==
    /\ pc = "idle" /\ err = "none"
    /\ \E n \in 1..(Len(stream.units) - fed) :
          \/ /\ fed' = fed + n
             /\ buf' = buf \o SubSeq(stream.units, fed + 1, fed + n)
             /\ dry' = FALSE
             /\ UNCHANGED <<stream, pos, task, tasks, reply, err, pc, got>>
          \/ MayFail /\ SetError("oom")

(* Mutant: a reply that was begun is not gone on with.                      *)
GetReplyAnew ==
    /\ pc = "idle" /\ err = "none" /\ buf # <<>> /\ ~dry
    /\ task = <<>>
    /\ task' = <<NewTask(-1)>>
    /\ pc' = "reading"
    /\ UNCHANGED <<stream, fed, buf, pos, tasks, reply, err, got, dry>>

(* redisReaderGetReply up to its loop.                                      *)
GetReply ==
    /\ pc = "idle" /\ err = "none" /\ buf # <<>> /\ ~dry
    /\ task' = IF task = <<>> THEN <<NewTask(-1)>> ELSE task
    /\ pc' = "reading"
    /\ UNCHANGED <<stream, fed, buf, pos, tasks, reply, err, got, dry>>

(* ... and after it: 1k of consumed input is discarded, a complete reply is *)
(* returned.                                                                *)
Starved ==
    \/ Unread = <<>>
    \/ Cur.type \in BulkTypes /\ Comes("line") /\ Unread[1].ok /\ Unread[1].n >= 0
       /\ Len(Unread) = 1

(* Mutant: the stack grows one task too late.                               *)
NeedsGrowLate == Cur.type \in AggregateTypes /\ Len(task) > tasks

NeedsGrow == Cur.type \in AggregateTypes /\ Len(task) = tasks

(* Mutant: what was not consumed is discarded too.                          *)
DiscardAll == IF pos >= DiscardAt THEN buf' = <<>> /\ pos' = 0 ELSE UNCHANGED <<buf, pos>>

Discard == IF pos >= DiscardAt THEN buf' = Unread /\ pos' = 0 ELSE UNCHANGED <<buf, pos>>

GetReplyReturns ==
    /\ pc = "reading"
    /\ (task # <<>>) => (Starved /\ ~NeedsGrow)
    /\ pc' = "idle"
    /\ Discard
    /\ IF err = "none" /\ task = <<>>
       THEN got' = Append(got, reply) /\ reply' = NoReply /\ dry' = FALSE
       ELSE dry' = TRUE /\ UNCHANGED <<got, reply>>
    /\ UNCHANGED <<stream, fed, task, tasks, err>>

-----------------------------------------------------------------------------
(* processItem, called until there is a reply or no more input.             *)

Reading(types) == pc = "reading" /\ err = "none" /\ task # <<>> /\ Cur.type \in types

ReadType ==
    /\ Reading({"none"}) /\ Unread # <<>>
    /\ IF Comes("type") /\ Unread[1].type \in Types
       THEN /\ task' = [task EXCEPT ![Len(task)].type = Unread[1].type]
            /\ pos' = pos + 1
            /\ UNCHANGED <<stream, fed, buf, tasks, reply, err, pc, got, dry>>
       ELSE SetError("protocol")

(* moveToNextTask: the innermost aggregate that is not complete goes on.    *)
NextTask ==
    LET open == {i \in 2..Len(task) : task[i].idx # task[i - 1].elements - 1}
    IN  IF open = {} THEN <<>>
        ELSE SubSeq(task, 1, Max(open) - 1) \o <<NewTask(task[Max(open)].idx + 1)>>

(* Mutant: the index of the parent is taken for that of the element.        *)
PathOfParent == [i \in 1..(Len(task) - 1) |-> task[i].idx]

(* The create functions put the object into the one of the parent task.     *)
Path == [i \in 1..(Len(task) - 1) |-> task[i + 1].idx]
Create(type, n) ==
    reply' = [path \in DOMAIN reply \cup {Path} |->
                 IF path = Path THEN [type |-> type, n |-> n] ELSE reply[path]]

Item(type, n, units) ==
    \/ /\ Create(type, n)
       /\ task' = NextTask
       /\ pos' = pos + units
       /\ UNCHANGED <<stream, fed, buf, tasks, err, pc, got, dry>>
    \/ MayFail /\ SetError("oom")

ProcessLineItem ==
    /\ Reading(LineTypes) /\ Comes("line")
    /\ IF Unread[1].ok THEN Item(Cur.type, Unread[1].n, 1) ELSE SetError("protocol")

(* A bulk string is read when all of it is there, its length once more.     *)
ProcessBulkItem ==
    /\ Reading(BulkTypes) /\ Comes("line")
    /\ IF ~Unread[1].ok \/ Unread[1].n < -1 THEN SetError("protocol")
       ELSE IF Unread[1].n = -1 THEN Item("nil", 0, 1)
       ELSE /\ Len(Unread) > 1
            /\ IF Cur.type = "verb" /\ ~Unread[2].ok THEN SetError("protocol")
               ELSE Item(Cur.type, Unread[1].n, 2)

(* redisReaderGrow, before the line of an aggregate is read.                *)
Grow ==
    /\ Reading(AggregateTypes) /\ NeedsGrow
    /\ \/ /\ tasks' = tasks + StackSize
          /\ UNCHANGED <<stream, fed, buf, pos, task, reply, err, pc, got, dry>>
       \/ MayFail /\ SetError("oom")

(* The elements of an aggregate are pushed as a task of their own; a nil or *)
(* an empty one is complete.                                                *)
PushTask(elements) ==
    \/ /\ Create(Cur.type, elements)
       /\ task' = Append([task EXCEPT ![Len(task)].elements = elements], NewTask(0))
       /\ pos' = pos + 1
       /\ UNCHANGED <<stream, fed, buf, tasks, err, pc, got, dry>>
    \/ MayFail /\ SetError("oom")

ProcessAggregateItem ==
    /\ Reading(AggregateTypes) /\ ~NeedsGrow /\ Comes("line")
    /\ LET elements == Unread[1].n
       IN  IF ~Unread[1].ok \/ elements < -1 \/ (MaxElements > 0 /\ elements > MaxElements)
           THEN SetError("protocol")
           ELSE IF elements = -1 THEN Item("nil", 0, 1)
           ELSE IF elements = 0 THEN Item(Cur.type, 0, 1)
           ELSE PushTask(IF Cur.type \in PairTypes THEN 2 * elements ELSE elements)

ReaderNext ==
    \/ Feed \/ GetReply \/ GetReplyReturns
    \/ ReadType \/ ProcessLineItem \/ ProcessBulkItem \/ Grow \/ ProcessAggregateItem

ReaderSpec == ReaderInit /\ [][ReaderNext]_readerVars
ReaderFairSpec == ReaderSpec /\ WF_readerVars(ReaderNext)
=============================================================================
