--------------------------- MODULE RespReaderProofs ---------------------------
(***************************************************************************)
(* The reply reader for every set of streams, stack and element limit: no  *)
(* child is written outside its parent, whatever the server sends; and the *)
(* replies that a stream carries are returned as they were sent.           *)
(***************************************************************************)
EXTENDS RespReaderProperties, SequenceTheorems, FiniteSetTheorems, WellFoundedInduction, TLAPS

-----------------------------------------------------------------------------
(* The greatest of a set of indexes.                                        *)

LEMMA Least ==
    ASSUME NEW T, T \subseteq Nat, T # {}
    PROVE  \E x \in T : \A y \in T : x <= y
<1> DEFINE R == {ss \in Nat \X Nat : ss[1] < ss[2]}
<1>1. IsWellFoundedOn(R, Nat)
  BY NatLessThanWellFounded DEF OpToRel
<1>2. \A x, y \in Nat : <<y, x>> \in R <=> y < x
  OBVIOUS
<1> HIDE DEF R
<1>3. \E x \in T : \A y \in T : ~(<<y, x>> \in R)
  BY <1>1, WFMin
<1>4. PICK x \in T : \A y \in T : ~(<<y, x>> \in R)
  BY <1>3
<1>5. ASSUME NEW y \in T PROVE x <= y
  <2>1. x \in Nat /\ y \in Nat
    OBVIOUS
  <2>2. ~(<<y, x>> \in R)
    BY <1>4
  <2>3. ~(y < x)
    BY <1>2, <2>1, <2>2
  <2> QED BY <2>1, <2>3
<1> QED BY <1>5

LEMMA Greatest ==
    ASSUME NEW n \in Nat, NEW S, S \subseteq 1 .. n, S # {}
    PROVE  Max(S) \in S /\ \A j \in S : j <= Max(S)
<1> DEFINE T == {n - i : i \in S}
<1>1. \E x \in T : \A y \in T : x <= y
  <2>1. T \subseteq Nat
    OBVIOUS
  <2>2. T # {}
    <3>1. PICK i \in S : TRUE
      OBVIOUS
    <3> QED BY <3>1
  <2> HIDE DEF T
  <2> QED BY <2>1, <2>2, Least
<1>2. \E i \in S : \A j \in S : i >= j
  <2>1. PICK x \in T : \A y \in T : x <= y
    BY <1>1
  <2>2. PICK i \in S : x = n - i
    BY <2>1
  <2>3. ASSUME NEW j \in S PROVE i >= j
    <3>1. n - j \in T
      OBVIOUS
    <3>2. i \in Int /\ j \in Int
      OBVIOUS
    <3> QED BY <2>1, <2>2, <3>1, <3>2
  <2> QED BY <2>3
<1> QED BY <1>2 DEF Max

-----------------------------------------------------------------------------
(* The stack of tasks.                                                      *)

Task == [type : Types \cup {"none"}, elements : Int, idx : Int]

(* The object of the task at k, and that every task below the first has     *)
(* the object of the one above it as its parent.                            *)
PathTo(s, k) == [j \in 1 .. k - 1 |-> s[j + 1].idx]
HasParents(s, r) ==
    \A i \in 2 .. Len(s) :
        /\ PathTo(s, i - 1) \in DOMAIN r
        /\ r[PathTo(s, i - 1)].type \in AggregateTypes
        /\ r[PathTo(s, i - 1)].n = s[i - 1].elements
        /\ s[i].idx \in 0 .. s[i - 1].elements - 1

LEMMA ParentsExistMeans == ParentsExist <=> Len(task) <= tasks /\ HasParents(task, reply)
<1>1. ASSUME NEW i \in 2 .. Len(task)
      PROVE  PathTo(task, i - 1) = [j \in 1 .. (i - 2) |-> task[j + 1].idx]
  BY DEF PathTo
<1> QED BY <1>1 DEF ParentsExist, HasParents

LEMMA NewTaskType == ASSUME NEW n \in Int PROVE NewTask(n) \in Task /\ NewTask(n).type = "none" /\ NewTask(n).idx = n
BY DEF NewTask, Task

(* Each task but the one at work has consumed input of its own.             *)
Consumed == fed - Len(buf) + pos
Typed(s) == IF s # <<>> /\ s[Len(s)].type = "none" THEN Len(s) - 1 ELSE Len(s)

(* Why it is inductive: the stack is never deeper than the input that was   *)
(* consumed, so it does not outgrow it; and what is below an object on the  *)
(* stack is written at a longer path than that of any parent.               *)
ReaderInv ==
    /\ stream \in Streams /\ buf \in Seq(Unit) /\ task \in Seq(Task)
    /\ Typed(task) <= Consumed
    /\ ReaderSound

LEMMA FirstTasks ==
    ASSUME NEW s \in Seq(Task), NEW n \in 0 .. Len(s)
    PROVE  /\ SubSeq(s, 1, n) \in Seq(Task) /\ Len(SubSeq(s, 1, n)) = n
           /\ \A i \in 1 .. n : SubSeq(s, 1, n)[i] = s[i]
<1>1. Len(s) \in Nat /\ \A i \in 1 .. n : s[i] \in Task
  BY LenProperties, ElementOfSeq
<1>2. \A i \in 1 .. n - 1 + 1 : SubSeq(s, 1, n)[i] = s[1 + i - 1]
  BY <1>1, SubSeqProperties
<1>3. ASSUME NEW i \in 1 .. n PROVE SubSeq(s, 1, n)[i] = s[i]
  <2>1. i \in 1 .. n - 1 + 1 /\ 1 + i - 1 = i
    BY <1>1
  <2> QED BY <1>2, <2>1
<1>4. SubSeq(s, 1, n) \in Seq(Task) /\ Len(SubSeq(s, 1, n)) = n
  BY <1>1, SubSeqProperties
<1> QED BY <1>3, <1>4

(* What a step leaves of the stack.                                         *)
LEMMA Now ==
    ASSUME ReaderInv
    PROVE  /\ stream.units \in Seq(Unit) /\ Len(stream.units) \in Nat
           /\ fed \in 0 .. Len(stream.units) /\ Len(buf) \in 0 .. fed /\ pos \in 0 .. Len(buf)
           /\ Consumed \in 0 .. fed
           /\ Len(task) \in Nat /\ (task # <<>> <=> Len(task) > 0)
           /\ tasks \in Nat /\ tasks >= 1 /\ Len(task) <= tasks
           /\ HasParents(task, reply)
<1>1. /\ stream.units \in Seq(Unit) /\ Len(stream.units) \in Nat /\ Len(buf) \in Nat /\ Len(task) \in Nat
      /\ (task # <<>> <=> Len(task) > 0)
  BY ReaderAssumption, LenProperties, EmptySeq DEF ReaderInv
<1>2. fed \in 0 .. Len(stream.units) /\ Len(buf) \in 0 .. fed /\ pos \in 0 .. Len(buf)
  BY <1>1 DEF ReaderInv, ReaderSound, ReaderTypeOK
<1>3. tasks \in Nat /\ tasks >= 1
  <2>1. PICK k \in 1 .. Len(stream.units) + 1 : tasks = k * StackSize
    BY <1>1 DEF ReaderInv, ReaderSound, ReaderTypeOK
  <2>2. StackSize \in Nat /\ StackSize >= 1 /\ k \in Nat /\ k >= 1
    BY <1>1, ReaderAssumption
  <2> QED BY <2>1, <2>2
<1> QED BY <1>1, <1>2, <1>3, ParentsExistMeans DEF Consumed, ReaderInv, ReaderSound

(* A step that consumed n units and leaves stack s and objects r.           *)
LEMMA StepKeeps ==
    ASSUME ReaderInv, stream' = stream, fed' = fed, buf' = buf, NEW n \in Nat, pos' = pos + n, pos' <= Len(buf),
           task' \in Seq(Task), Typed(task') <= Consumed + n,
           Len(task') <= tasks, tasks' = tasks, HasParents(task', reply'),
           err' \in {"none", "protocol", "oom"}, pc' = "reading", dry' \in BOOLEAN
    PROVE  ReaderInv'
<1>1. Consumed' = Consumed + n
  BY Now DEF Consumed, ReaderInv
<1>2. ReaderTypeOK'
  <2>1. \A i \in DOMAIN task' : task'[i].type \in Types \cup {"none"}
    <3>1. DOMAIN task' = 1 .. Len(task')
      BY LenProperties
    <3>2. \A i \in 1 .. Len(task') : task'[i] \in Task
      BY ElementOfSeq
    <3> QED BY <3>1, <3>2 DEF Task
  <2>2. pos' \in 0 .. Len(buf')
    BY Now
  <2> QED BY <2>1, <2>2 DEF ReaderInv, ReaderSound, ReaderTypeOK
<1>3. ParentsExist' <=> Len(task') <= tasks' /\ HasParents(task', reply')
  <2>1. ASSUME NEW i \in 2 .. Len(task')
        PROVE  PathTo(task', i - 1) = [j \in 1 .. (i - 2) |-> task'[j + 1].idx]
    BY DEF PathTo
  <2> QED BY <2>1 DEF ParentsExist, HasParents
<1> QED BY <1>1, <1>2, <1>3 DEF ReaderInv, ReaderSound, ConsumedIsDiscarded

LEMMA SetErrorStep ==
    ASSUME ReaderInv, NEW what \in {"protocol", "oom"}, SetError(what) PROVE ReaderInv'
<1>1. /\ stream' = stream /\ fed' = fed /\ buf' = <<>> /\ pos' = 0 /\ task' = <<>>
      /\ tasks' = tasks /\ err' = what /\ pc' = pc /\ dry' = dry
  BY DEF SetError
<1>2. <<>> \in Seq(Unit) /\ <<>> \in Seq(Task) /\ Len(<<>>) = 0
  OBVIOUS
<1>3. Typed(task') <= Consumed'
  BY <1>1, <1>2, Now DEF Typed, Consumed
<1>4. ReaderTypeOK'
  BY <1>1, <1>2, Now DEF ReaderInv, ReaderSound, ReaderTypeOK
<1>5. ParentsExist'
  BY <1>1, <1>2, Now DEF ParentsExist
<1>6. ConsumedIsDiscarded'
  BY <1>1, ReaderAssumption DEF ConsumedIsDiscarded
<1> QED BY <1>1, <1>2, <1>3, <1>4, <1>5, <1>6 DEF ReaderInv, ReaderSound

LEMMA FeedStep == ASSUME ReaderInv, Feed PROVE ReaderInv'
<1>1. ASSUME NEW n \in 1 .. Len(stream.units) - fed,
             fed' = fed + n, buf' = buf \o SubSeq(stream.units, fed + 1, fed + n), dry' = FALSE,
             UNCHANGED <<stream, pos, task, tasks, reply, err, pc, got>>
      PROVE  ReaderInv'
  <2> DEFINE m == fed + 1
             l == fed + n
  <2>1. m \in Int /\ l \in Int /\ m <= l /\ l - m + 1 = n /\ n \in Nat
    BY Now
  <2>2. \A i \in m .. l : stream.units[i] \in Unit
    BY Now, ElementOfSeq
  <2> HIDE DEF m, l
  <2>3. SubSeq(stream.units, m, l) \in Seq(Unit) /\ Len(SubSeq(stream.units, m, l)) = n
    BY <2>1, <2>2, SubSeqProperties
  <2>4. buf' = buf \o SubSeq(stream.units, m, l)
    BY <1>1 DEF m, l
  <2>5. buf' \in Seq(Unit) /\ Len(buf') = Len(buf) + n
    BY <2>3, <2>4, ConcatProperties DEF ReaderInv
  <2>6. Consumed' = Consumed
    BY <1>1, <2>1, <2>5, Now DEF Consumed
  <2>7. ReaderTypeOK'
    <3>0. stream' = stream /\ pos' = pos /\ fed' = fed + n
      BY <1>1
    <3>1. fed' \in 0 .. Len(stream'.units) /\ pos' \in 0 .. Len(buf') /\ Len(buf') <= fed'
      BY <2>1, <2>5, <3>0, Now
    <3>2. UNCHANGED <<stream, task, tasks, err, pc>> /\ dry' \in BOOLEAN
      BY <1>1
    <3> QED BY <3>1, <3>2 DEF ReaderInv, ReaderSound, ReaderTypeOK
  <2>8. ParentsExist' /\ ConsumedIsDiscarded'
    BY <1>1 DEF ReaderInv, ReaderSound, ParentsExist, ConsumedIsDiscarded
  <2> QED BY <1>1, <2>5, <2>6, <2>7, <2>8 DEF ReaderInv, ReaderSound
<1>2. CASE SetError("oom")
  BY <1>2, SetErrorStep
<1> QED BY <1>1, <1>2 DEF Feed

LEMMA GetReplyStep == ASSUME ReaderInv, GetReply PROVE ReaderInv'
<1>1. /\ stream' = stream /\ fed' = fed /\ buf' = buf /\ pos' = pos /\ tasks' = tasks /\ reply' = reply
      /\ err' = err /\ pc' = "reading" /\ dry' = dry
  BY DEF GetReply
<1>2. err \in {"none", "protocol", "oom"} /\ dry \in BOOLEAN
  BY DEF ReaderInv, ReaderSound, ReaderTypeOK
<1>3. CASE task # <<>>
  <2>1. task' = task
    BY <1>3 DEF GetReply
  <2>2. task' \in Seq(Task) /\ Typed(task') <= Consumed + 0
    BY <2>1, Now DEF ReaderInv
  <2> QED BY <1>1, <1>2, <2>1, <2>2, Now, StepKeeps
<1>4. CASE task = <<>>
  <2> DEFINE s == <<NewTask(-1)>>
  <2>1. task' = s
    BY <1>4 DEF GetReply
  <2>2. s \in Seq(Task) /\ Len(s) = 1 /\ s[1].type = "none" /\ s # <<>>
    BY NewTaskType
  <2>3. Typed(s) = 0 /\ HasParents(s, reply)
    <3> HIDE DEF s
    <3> QED BY <2>2 DEF Typed, HasParents
  <2> HIDE DEF s
  <2> QED BY <1>1, <1>2, <2>1, <2>2, <2>3, Now, StepKeeps
<1> QED BY <1>3, <1>4

LEMMA UnreadProperties ==
    ASSUME ReaderInv
    PROVE  /\ Unread \in Seq(Unit) /\ Len(Unread) = Len(buf) - pos /\ (Unread # <<>> <=> pos < Len(buf))
           /\ \A i \in 1 .. Len(buf) - pos : Unread[i] \in Unit
<1> DEFINE m == pos + 1
           n == Len(buf)
<1>1. m \in Int /\ n \in Int /\ m >= 1 /\ n - m + 1 = Len(buf) - pos /\ (m <= n <=> pos < Len(buf))
      /\ (~(m <= n) => Len(buf) - pos = 0)
  BY Now
<1>2. \A i \in m .. n : buf[i] \in Unit
  BY <1>1, ElementOfSeq DEF ReaderInv
<1>3. Unread = SubSeq(buf, m, n)
  BY DEF Unread
<1> HIDE DEF m, n
<1>4. Unread \in Seq(Unit) /\ Len(Unread) = IF m <= n THEN n - m + 1 ELSE 0
  BY <1>1, <1>2, <1>3, SubSeqProperties
<1>5. Len(Unread) = Len(buf) - pos
  BY <1>1, <1>4
<1>6. \A i \in 1 .. Len(Unread) : Unread[i] \in Unit
  BY <1>4, ElementOfSeq
<1>7. Unread # <<>> <=> Len(Unread) # 0
  BY <1>4, EmptySeq
<1>8. Len(buf) - pos \in Nat
  BY Now
<1>9. Len(Unread) # 0 <=> pos < Len(buf)
  BY <1>1, <1>5, Now
<1> QED BY <1>4, <1>5, <1>6, <1>7, <1>9

LEMMA GetReplyReturnsStep == ASSUME ReaderInv, GetReplyReturns PROVE ReaderInv'
<1>1. /\ stream' = stream /\ fed' = fed /\ task' = task /\ tasks' = tasks /\ err' = err
      /\ Discard /\ dry' \in BOOLEAN /\ pc' = "idle"
      /\ (reply' = reply \/ task = <<>>)
  BY DEF GetReplyReturns
<1>2. /\ buf' \in Seq(Unit) /\ Len(buf') \in 0 .. fed /\ pos' \in 0 .. Len(buf') /\ pos' < DiscardAt
      /\ Consumed' = Consumed
  <2>1. CASE pos >= DiscardAt
    BY <1>1, <2>1, UnreadProperties, Now, ReaderAssumption DEF Discard, Consumed
  <2>2. CASE ~(pos >= DiscardAt)
    BY <1>1, <2>2, Now, ReaderAssumption DEF Discard, Consumed, ReaderInv
  <2> QED BY <2>1, <2>2
<1>3. ReaderTypeOK'
  BY <1>1, <1>2, Now DEF ReaderInv, ReaderSound, ReaderTypeOK
<1>4. ParentsExist'
  <2>1. CASE task = <<>>
    BY <1>1, <2>1, Now DEF ParentsExist
  <2>2. CASE task # <<>>
    <3>1. UNCHANGED <<task, tasks, reply>>
      BY <1>1, <2>2
    <3> QED BY <3>1 DEF ReaderInv, ReaderSound, ParentsExist
  <2> QED BY <2>1, <2>2
<1>5. ConsumedIsDiscarded'
  BY <1>2 DEF ConsumedIsDiscarded
<1> QED BY <1>1, <1>2, <1>3, <1>4, <1>5 DEF ReaderInv, ReaderSound

-----------------------------------------------------------------------------
(* processItem.                                                             *)

LEMMA ReadTypeStep == ASSUME ReaderInv, ReadType PROVE ReaderInv'
<1> DEFINE n == Len(task)
<1>1. /\ task # <<>> /\ Cur.type = "none" /\ err = "none" /\ pc = "reading" /\ pos < Len(buf)
  BY UnreadProperties DEF ReadType, Reading
<1>2. ASSUME Unread[1].type \in Types, task' = [task EXCEPT ![n].type = Unread[1].type], pos' = pos + 1,
             UNCHANGED <<stream, fed, buf, tasks, reply, err, pc, got, dry>>
      PROVE  ReaderInv'
  <2>1. n \in 1 .. Len(task) /\ task \in [1 .. Len(task) -> Task]
    BY <1>1, Now, LenProperties DEF ReaderInv
  <2>2. /\ task' \in Seq(Task) /\ Len(task') = Len(task) /\ task'[n].type \in Types
        /\ \A i \in 1 .. Len(task) : task'[i].elements = task[i].elements /\ task'[i].idx = task[i].idx
    <3>1. [task[n] EXCEPT !.type = Unread[1].type] \in Task
      BY <1>2, <2>1 DEF Task
    <3>2. task' = [task EXCEPT ![n] = [task[n] EXCEPT !.type = Unread[1].type]]
      BY <1>2
    <3> QED BY <1>2, <2>1, <3>1, <3>2, ExceptSeq DEF Task, ReaderInv
  <2>3. "none" \notin Types
    BY DEF Types, LineTypes, BulkTypes, AggregateTypes, PairTypes
  <2>4. Typed(task') <= Consumed + 1
    BY <1>1, <2>2, <2>3, Now DEF Typed, ReaderInv, Cur
  <2>5. \A k \in 1 .. Len(task) : PathTo(task', k) = PathTo(task, k)
    BY <2>2, Now DEF PathTo
  <2>6. HasParents(task', reply)
    <3>1. ASSUME NEW i \in 2 .. Len(task)
          PROVE  /\ PathTo(task', i - 1) = PathTo(task, i - 1)
                 /\ task'[i - 1].elements = task[i - 1].elements /\ task'[i].idx = task[i].idx
      BY <2>2, <2>5, Now
    <3> QED BY <2>2, <3>1, Now DEF HasParents
  <2>7. dry \in BOOLEAN
    BY DEF ReaderInv, ReaderSound, ReaderTypeOK
  <2>8. /\ stream' = stream /\ fed' = fed /\ buf' = buf /\ tasks' = tasks /\ reply' = reply
        /\ err' = "none" /\ pc' = "reading" /\ dry' = dry
    BY <1>1, <1>2
  <2>9. pos' = pos + 1 /\ pos + 1 <= Len(buf) /\ 1 \in Nat
    BY <1>1, <1>2, Now
  <2> QED BY <2>2, <2>4, <2>6, <2>7, <2>8, <2>9, Now, StepKeeps
<1>3. CASE SetError("protocol")
  BY <1>3, SetErrorStep
<1> QED BY <1>2, <1>3 DEF ReadType

(* The next task has the parent it follows in, or there is none.            *)
LEMMA NextTaskSound ==
    ASSUME ReaderInv, task # <<>>, NEW r,
           DOMAIN r = DOMAIN reply \cup {Path}, \A p \in DOMAIN reply : p # Path => r[p] = reply[p]
    PROVE  /\ NextTask \in Seq(Task) /\ Len(NextTask) <= Len(task) /\ HasParents(NextTask, r)
           /\ NextTask # <<>> => NextTask[Len(NextTask)].type = "none"
<1> DEFINE open == {i \in 2 .. Len(task) : task[i].idx # task[i - 1].elements - 1}
<1>1. CASE open = {}
  <2>1. NextTask = <<>>
    BY <1>1 DEF NextTask
  <2>2. <<>> \in Seq(Task) /\ Len(<<>>) = 0
    OBVIOUS
  <2> QED BY <2>1, <2>2, Now DEF HasParents
<1>2. CASE open # {}
  <2> DEFINE m == Max(open)
             n == m - 1
             s == SubSeq(task, 1, n)
             new == NewTask(task[m].idx + 1)
  <2>1. m \in open
    <3>1. open \subseteq 1 .. Len(task)
      BY Now
    <3> HIDE DEF open
    <3> QED BY <1>2, <3>1, Now, Greatest
  <2>2. m \in 2 .. Len(task) /\ task[m].idx # task[m - 1].elements - 1
    BY <2>1
  <2>3. NextTask = s \o <<new>>
    BY <1>2 DEF NextTask
  <2> HIDE DEF open, m
  <2>4. n \in 1 .. Len(task) - 1 /\ m = n + 1
    BY <2>2, Now
  <2>5. \A i \in 1 .. Len(task) : task[i] \in Task
    BY ElementOfSeq DEF ReaderInv
  <2>6. s \in Seq(Task) /\ Len(s) = n /\ \A i \in 1 .. n : s[i] = task[i]
    BY <2>4, <2>5, FirstTasks DEF ReaderInv
  <2>7. new \in Task /\ new.type = "none" /\ new.idx = task[m].idx + 1
    <3>1. task[m].idx + 1 \in Int
      BY <2>2, <2>5 DEF Task
    <3> QED BY <3>1, NewTaskType
  <2>8. NextTask = Append(s, new)
    <3> HIDE DEF s, new
    <3> QED BY <2>3, <2>6, <2>7, AppendIsConcat
  <2>9. /\ NextTask \in Seq(Task) /\ Len(NextTask) = m
        /\ NextTask[m] = new /\ \A i \in 1 .. n : NextTask[i] = task[i]
    <3> HIDE DEF s, new, n
    <3> QED BY <2>4, <2>6, <2>7, <2>8, AppendProperties
  <2>10. \A k \in 1 .. n : PathTo(NextTask, k) = PathTo(task, k)
    BY <2>4, <2>9 DEF PathTo
  <2>11. \A k \in 1 .. n : PathTo(task, k) # Path
    <3>1. ASSUME NEW k \in 1 .. n PROVE DOMAIN PathTo(task, k) # DOMAIN Path
      <4>1. DOMAIN PathTo(task, k) = 1 .. k - 1 /\ DOMAIN Path = 1 .. Len(task) - 1
        BY DEF PathTo, Path
      <4>2. Len(task) - 1 \in 1 .. Len(task) - 1 /\ Len(task) - 1 \notin 1 .. k - 1
        BY <2>4, Now
      <4> QED BY <4>1, <4>2
    <3> QED BY <3>1
  <2>12. ASSUME NEW i \in 2 .. m
         PROVE  /\ PathTo(NextTask, i - 1) \in DOMAIN r
                /\ r[PathTo(NextTask, i - 1)].type \in AggregateTypes
                /\ r[PathTo(NextTask, i - 1)].n = NextTask[i - 1].elements
                /\ NextTask[i].idx \in 0 .. NextTask[i - 1].elements - 1
    <3>1. i \in 2 .. Len(task) /\ i - 1 \in 1 .. n
      BY <2>4, Now
    <3>2. /\ PathTo(task, i - 1) \in DOMAIN reply
          /\ reply[PathTo(task, i - 1)].type \in AggregateTypes
          /\ reply[PathTo(task, i - 1)].n = task[i - 1].elements
          /\ task[i].idx \in 0 .. task[i - 1].elements - 1
      BY <3>1, Now DEF HasParents
    <3>3. PathTo(NextTask, i - 1) = PathTo(task, i - 1) /\ PathTo(task, i - 1) # Path
          /\ NextTask[i - 1] = task[i - 1]
      BY <2>9, <2>10, <2>11, <3>1
    <3>4. r[PathTo(task, i - 1)] = reply[PathTo(task, i - 1)] /\ PathTo(task, i - 1) \in DOMAIN r
      BY <3>2, <3>3
    <3>5. task[i - 1].elements \in Int
      BY <2>5, <3>1 DEF Task
    <3>6. NextTask[i].idx \in 0 .. task[i - 1].elements - 1
      <4>1. CASE i = m
        BY <2>2, <2>7, <2>9, <3>2, <3>5, <4>1
      <4>2. CASE i # m
        BY <2>4, <2>9, <3>2, <4>2
      <4> QED BY <4>1, <4>2
    <3> QED BY <3>2, <3>3, <3>4, <3>6
  <2>13. HasParents(NextTask, r)
    BY <2>9, <2>12 DEF HasParents
  <2> QED BY <2>4, <2>7, <2>9, <2>13, Now
<1> QED BY <1>1, <1>2

LEMMA CreateMeans ==
    ASSUME NEW type, NEW n, Create(type, n)
    PROVE  /\ DOMAIN reply' = DOMAIN reply \cup {Path}
           /\ \A p \in DOMAIN reply : p # Path => reply'[p] = reply[p]
           /\ reply'[Path] = [type |-> type, n |-> n]
BY DEF Create

LEMMA ItemStep ==
    ASSUME ReaderInv, task # <<>>, pc = "reading", err = "none", Cur.type # "none",
           NEW type, NEW n, NEW units \in 1 .. 2, pos + units <= Len(buf), Item(type, n, units)
    PROVE  ReaderInv'
<1>1. ASSUME Create(type, n), task' = NextTask, pos' = pos + units,
             UNCHANGED <<stream, fed, buf, tasks, err, pc, got, dry>>
      PROVE  ReaderInv'
  <2>1. /\ task' \in Seq(Task) /\ Len(task') <= Len(task) /\ HasParents(task', reply')
        /\ task' # <<>> => task'[Len(task')].type = "none"
    BY <1>1, CreateMeans, NextTaskSound
  <2>2. Len(task') \in Nat
    BY <2>1, LenProperties
  <2>3. Typed(task') <= Consumed + units
    BY <2>1, <2>2, Now DEF Typed, ReaderInv, Cur
  <2>4. dry \in BOOLEAN
    BY DEF ReaderInv, ReaderSound, ReaderTypeOK
  <2> QED BY <1>1, <2>1, <2>2, <2>3, <2>4, Now, StepKeeps
<1>2. CASE SetError("oom")
  BY <1>2, SetErrorStep
<1> QED BY <1>1, <1>2 DEF Item

LEMMA ReadingMeans ==
    ASSUME NEW types, types \subseteq Types, Reading(types)
    PROVE  pc = "reading" /\ err = "none" /\ task # <<>> /\ Cur.type \in types /\ Cur.type # "none"
BY DEF Reading, Types, LineTypes, BulkTypes, AggregateTypes, PairTypes

LEMMA TypesKnown == LineTypes \subseteq Types /\ BulkTypes \subseteq Types /\ AggregateTypes \subseteq Types
BY DEF Types

LEMMA ProcessLineItemStep == ASSUME ReaderInv, ProcessLineItem PROVE ReaderInv'
<1>1. pc = "reading" /\ err = "none" /\ task # <<>> /\ Cur.type # "none"
  BY ReadingMeans, TypesKnown DEF ProcessLineItem
<1>2. pos + 1 <= Len(buf)
  BY UnreadProperties, Now DEF ProcessLineItem, Comes
<1> QED BY <1>1, <1>2, ItemStep, SetErrorStep DEF ProcessLineItem

LEMMA ProcessBulkItemStep == ASSUME ReaderInv, ProcessBulkItem PROVE ReaderInv'
<1>1. pc = "reading" /\ err = "none" /\ task # <<>> /\ Cur.type # "none"
  BY ReadingMeans, TypesKnown DEF ProcessBulkItem
<1>2. pos + 1 <= Len(buf) /\ (Len(Unread) > 1 => pos + 2 <= Len(buf))
  BY UnreadProperties, Now DEF ProcessBulkItem, Comes
<1> QED BY <1>1, <1>2, ItemStep, SetErrorStep DEF ProcessBulkItem

LEMMA GrowStep == ASSUME ReaderInv, Grow PROVE ReaderInv'
<1>1. Cur.type \in AggregateTypes /\ Cur.type # "none" /\ Len(task) = tasks
  BY ReadingMeans, TypesKnown DEF Grow, NeedsGrow
<1>2. ASSUME tasks' = tasks + StackSize,
             UNCHANGED <<stream, fed, buf, pos, task, reply, err, pc, got, dry>>
      PROVE  ReaderInv'
  <2>1. Len(task) <= Len(stream.units)
    BY <1>1, Now DEF ReaderInv, Typed, Cur
  <2>2. tasks' \in {k * StackSize : k \in 1 .. Len(stream.units) + 1}
    <3>1. PICK k \in 1 .. Len(stream.units) + 1 : tasks = k * StackSize
      BY DEF ReaderInv, ReaderSound, ReaderTypeOK
    <3>2. StackSize \in Nat /\ StackSize >= 1 /\ k \in Nat /\ Len(stream.units) \in Nat
      BY Now, ReaderAssumption
    <3>3. k <= k * StackSize /\ (k + 1) * StackSize = k * StackSize + StackSize
      BY <3>2
    <3>4. k + 1 \in 1 .. Len(stream.units) + 1 /\ tasks' = (k + 1) * StackSize
      BY <1>1, <1>2, <2>1, <3>1, <3>2, <3>3
    <3> QED BY <3>4
  <2>3. ReaderTypeOK'
    BY <1>2, <2>2 DEF ReaderInv, ReaderSound, ReaderTypeOK
  <2>4. ParentsExist' /\ ConsumedIsDiscarded'
    <3>1. Len(task) <= tasks + StackSize
      BY Now, ReaderAssumption
    <3> QED BY <1>2, <3>1 DEF ReaderInv, ReaderSound, ParentsExist, ConsumedIsDiscarded
  <2> QED BY <1>2, <2>3, <2>4 DEF ReaderInv, ReaderSound, Typed, Consumed
<1>3. CASE SetError("oom")
  BY <1>3, SetErrorStep
<1> QED BY <1>2, <1>3 DEF Grow

(* The new task is a child of the aggregate that was just created.          *)
LEMMA PushTaskStep ==
    ASSUME ReaderInv, task # <<>>, pc = "reading", err = "none", Cur.type \in AggregateTypes, ~NeedsGrow,
           pos < Len(buf), NEW elements \in Nat, elements > 0, PushTask(elements)
    PROVE  ReaderInv'
<1> DEFINE n == Len(task)
           s == [task EXCEPT ![n].elements = elements]
           new == NewTask(0)
<1>1. ASSUME Create(Cur.type, elements), task' = Append(s, new), pos' = pos + 1,
             UNCHANGED <<stream, fed, buf, tasks, err, pc, got, dry>>
      PROVE  ReaderInv'
  <2>1. n \in 1 .. Len(task) /\ task \in [1 .. Len(task) -> Task]
    BY Now, LenProperties DEF ReaderInv
  <2>2. /\ s \in Seq(Task) /\ Len(s) = n /\ s[n].elements = elements
        /\ \A i \in 1 .. n : s[i].idx = task[i].idx
        /\ \A i \in 1 .. n - 1 : s[i].elements = task[i].elements
    <3>1. [task[n] EXCEPT !.elements = elements] \in Task
      BY <2>1 DEF Task
    <3>2. s = [task EXCEPT ![n] = [task[n] EXCEPT !.elements = elements]]
      OBVIOUS
    <3> QED BY <2>1, <3>1, <3>2, ExceptSeq DEF Task, ReaderInv
  <2>3. new \in Task /\ new.type = "none" /\ new.idx = 0
    BY NewTaskType
  <2> HIDE DEF s, new
  <2>4. /\ task' \in Seq(Task) /\ Len(task') = n + 1 /\ task'[n + 1] = new
        /\ \A i \in 1 .. n : task'[i] = s[i]
    BY <1>1, <2>2, <2>3, AppendProperties
  <2>5. n + 1 <= tasks
    BY Now DEF NeedsGrow
  <2>6. Typed(task') <= Consumed + 1
    <3>1. "none" \notin AggregateTypes
      BY DEF AggregateTypes, PairTypes
    <3> QED BY <2>1, <2>3, <2>4, <3>1, Now DEF Typed, ReaderInv, Cur
  <2>7. \A k \in 1 .. n : PathTo(task', k) = PathTo(task, k)
    BY <2>1, <2>2, <2>4 DEF PathTo
  <2>8. PathTo(task, n) = Path /\ \A k \in 1 .. n - 1 : PathTo(task, k) # Path
    <3>1. ASSUME NEW k \in 1 .. n - 1 PROVE DOMAIN PathTo(task, k) # DOMAIN Path
      <4>1. DOMAIN PathTo(task, k) = 1 .. k - 1 /\ DOMAIN Path = 1 .. Len(task) - 1
        BY DEF PathTo, Path
      <4>2. Len(task) - 1 \in 1 .. Len(task) - 1 /\ Len(task) - 1 \notin 1 .. k - 1
        BY <2>1, Now
      <4> QED BY <4>1, <4>2
    <3>2. PathTo(task, n) = Path
      BY DEF PathTo, Path
    <3> QED BY <3>1, <3>2
  <2>9. ASSUME NEW i \in 2 .. n + 1
        PROVE  /\ PathTo(task', i - 1) \in DOMAIN reply'
               /\ reply'[PathTo(task', i - 1)].type \in AggregateTypes
               /\ reply'[PathTo(task', i - 1)].n = task'[i - 1].elements
               /\ task'[i].idx \in 0 .. task'[i - 1].elements - 1
    <3>1. CASE i = n + 1
      <4>1. i - 1 = n /\ n \in 1 .. n
        BY <2>1, <3>1
      <4>2. PathTo(task', i - 1) = Path
        BY <2>7, <2>8, <4>1
      <4>3. Path \in DOMAIN reply' /\ reply'[Path] = [type |-> Cur.type, n |-> elements]
        BY <1>1, CreateMeans
      <4>4. task'[i - 1].elements = elements /\ task'[i].idx = 0
        BY <2>2, <2>3, <2>4, <3>1, <4>1
      <4> QED BY <4>2, <4>3, <4>4
    <3>2. CASE i # n + 1
      <4>1. i \in 2 .. n /\ i - 1 \in 1 .. n - 1 /\ i - 1 \in 1 .. n /\ i \in 1 .. n
        BY <2>1, <3>2, Now
      <4>2. PathTo(task', i - 1) = PathTo(task, i - 1) /\ PathTo(task, i - 1) # Path
        BY <2>7, <2>8, <4>1
      <4>3. /\ PathTo(task, i - 1) \in DOMAIN reply
            /\ reply[PathTo(task, i - 1)].type \in AggregateTypes
            /\ reply[PathTo(task, i - 1)].n = task[i - 1].elements
            /\ task[i].idx \in 0 .. task[i - 1].elements - 1
        BY <4>1, Now DEF HasParents
      <4>4. task'[i - 1].elements = task[i - 1].elements /\ task'[i].idx = task[i].idx
        BY <2>2, <2>4, <4>1
      <4>5. reply'[PathTo(task, i - 1)] = reply[PathTo(task, i - 1)] /\ PathTo(task, i - 1) \in DOMAIN reply'
        BY <1>1, <4>2, <4>3, CreateMeans
      <4> QED BY <4>2, <4>3, <4>4, <4>5
    <3> QED BY <3>1, <3>2
  <2>10. HasParents(task', reply')
    BY <2>4, <2>9 DEF HasParents
  <2>11. dry \in BOOLEAN /\ pos + 1 <= Len(buf)
    BY Now DEF ReaderInv, ReaderSound, ReaderTypeOK
  <2> HIDE DEF n
  <2> QED BY <1>1, <2>4, <2>5, <2>6, <2>10, <2>11, Now, StepKeeps
<1>2. CASE SetError("oom")
  BY <1>2, SetErrorStep
<1> QED BY <1>1, <1>2 DEF PushTask

LEMMA ProcessAggregateItemStep == ASSUME ReaderInv, ProcessAggregateItem PROVE ReaderInv'
<1> DEFINE elements == Unread[1].n
<1>1. pc = "reading" /\ err = "none" /\ task # <<>> /\ Cur.type \in AggregateTypes /\ Cur.type # "none" /\ ~NeedsGrow
  BY ReadingMeans, TypesKnown DEF ProcessAggregateItem
<1>2. pos + 1 <= Len(buf) /\ pos < Len(buf) /\ elements \in Int
  <2>1. Unread # <<>>
    BY DEF ProcessAggregateItem, Comes
  <2>2. pos < Len(buf) /\ 1 \in 1 .. Len(buf) - pos
    BY <2>1, UnreadProperties, Now
  <2>3. Unread[1] \in Unit
    BY <2>2, UnreadProperties
  <2> QED BY <2>2, <2>3, Now DEF Unit
<1>3. \/ SetError("protocol") \/ Item("nil", 0, 1) \/ Item(Cur.type, 0, 1)
      \/ elements > 0 /\ PushTask(IF Cur.type \in PairTypes THEN 2 * elements ELSE elements)
  BY <1>2 DEF ProcessAggregateItem
<1> HIDE DEF elements
<1>4. elements > 0 => LET k == IF Cur.type \in PairTypes THEN 2 * elements ELSE elements
                      IN  k \in Nat /\ k > 0
  BY <1>2
<1> QED BY <1>1, <1>2, <1>3, <1>4, ItemStep, SetErrorStep, PushTaskStep

-----------------------------------------------------------------------------

LEMMA ReaderInitInv == ReaderInit => ReaderInv
<1> SUFFICES ASSUME ReaderInit PROVE ReaderInv
  OBVIOUS
<1>1. <<>> \in Seq(Unit) /\ <<>> \in Seq(Task) /\ Len(<<>>) = 0
  OBVIOUS
<1>2. stream.units \in Seq(Unit) /\ Len(stream.units) \in Nat
  BY ReaderAssumption, LenProperties DEF ReaderInit
<1>3. ReaderTypeOK
  <2>1. tasks = 1 * StackSize /\ 1 \in 1 .. Len(stream.units) + 1
    BY <1>2, ReaderAssumption DEF ReaderInit
  <2>2. tasks \in {k * StackSize : k \in 1 .. Len(stream.units) + 1}
    BY <2>1
  <2>3. fed \in 0 .. Len(stream.units) /\ pos \in 0 .. Len(buf) /\ Len(buf) <= fed
    BY <1>1, <1>2 DEF ReaderInit
  <2>4. task = <<>> /\ DOMAIN task = {} /\ err = "none" /\ pc = "idle" /\ dry = FALSE
    BY DEF ReaderInit
  <2> QED BY <2>2, <2>3, <2>4 DEF ReaderTypeOK
<1>4. ParentsExist /\ ConsumedIsDiscarded /\ Typed(task) <= Consumed
  BY <1>1, ReaderAssumption DEF ReaderInit, ParentsExist, ConsumedIsDiscarded, Typed, Consumed
<1> QED BY <1>1, <1>3, <1>4 DEF ReaderInit, ReaderInv, ReaderSound

(* Every step of the reader keeps its invariant.                            *)
LEMMA ReaderStep ==
    ASSUME ReaderInv, [ReaderNext]_readerVars
    PROVE  ReaderInv'
<1>1. CASE UNCHANGED readerVars
  BY <1>1 DEF readerVars, ReaderInv, ReaderSound, ReaderTypeOK, ParentsExist, ConsumedIsDiscarded, Typed, Consumed
<1> QED BY <1>1, FeedStep, GetReplyStep, GetReplyReturnsStep, ReadTypeStep, ProcessLineItemStep,
           ProcessBulkItemStep, GrowStep, ProcessAggregateItemStep DEF ReaderNext

(* For every stream, however it is cut in pieces and whatever memory is     *)
(* refused: a child's object is put into an aggregate that exists, at an    *)
(* index it has, the stack has room for the tasks in use and is never       *)
(* larger than the input calls for, and less consumed input than the        *)
(* threshold is kept between calls.  The proof makes no use of              *)
(* StreamAssumption: the units may be any.                                  *)
THEOREM ReaderIsSound == ReaderSpec => []ReaderSound
<1>1. ReaderInit => ReaderInv
  BY ReaderInitInv
<1>2. ReaderInv /\ [ReaderNext]_readerVars => ReaderInv'
  BY ReaderStep
<1>3. ReaderInv => ReaderSound
  BY DEF ReaderInv
<1> QED BY <1>1, <1>2, <1>3, PTL DEF ReaderSpec

-----------------------------------------------------------------------------
(* The order in which the objects of a reply are sent.                      *)

(* A path is a sequence of indexes.                                         *)
LEMMA PathMeans ==
    ASSUME NEW p \in Seq(Nat)
    PROVE  Len(p) \in Nat /\ DOMAIN p = 1 .. Len(p) /\ \A i \in 1 .. Len(p) : p[i] \in Nat
BY LenProperties, ElementOfSeq

(* No object is sent before itself, and none before the reply.              *)
LEMMA NotBeforeItself ==
    ASSUME NEW p \in Seq(Nat)
    PROVE  ~Before(p, p) /\ ~Before(p, <<>>)
<1>1. ASSUME Before(p, p) PROVE FALSE
  <2>1. PICK k \in 0 .. Len(p) : k < Len(p) /\ (k = Len(p) \/ p[k + 1] < p[k + 1])
    BY <1>1 DEF Before
  <2>2. k + 1 \in 1 .. Len(p) /\ p[k + 1] < p[k + 1]
    BY <2>1, PathMeans
  <2>3. p[k + 1] \in Nat
    BY <2>2, PathMeans
  <2> QED BY <2>2, <2>3
<1>2. ~Before(p, <<>>)
  <2>1. Len(<<>>) = 0
    OBVIOUS
  <2> QED BY <2>1, PathMeans DEF Before
<1> QED BY <1>1, <1>2

(* Of two objects one is sent before the other.                             *)
LEMMA OneBeforeTheOther ==
    ASSUME NEW p \in Seq(Nat), NEW q \in Seq(Nat), p # q
    PROVE  Before(p, q) \/ Before(q, p)
<1> DEFINE S == {k \in 1 .. Len(p) + 1 : k <= Len(q) + 1 /\ \A i \in 1 .. k - 1 : p[i] = q[i]}
<1>1. Len(p) \in Nat /\ Len(q) \in Nat
  BY PathMeans
<1>2. 1 \in S
  BY <1>1
<1>3. Max(S) \in S /\ \A j \in S : j <= Max(S)
  <2>1. S \subseteq 1 .. Len(p) + 1 /\ S # {} /\ Len(p) + 1 \in Nat
    BY <1>1, <1>2
  <2> HIDE DEF S
  <2> QED BY <2>1, Greatest
<1>4. PICK m \in S : \A j \in S : j <= m
  BY <1>3
<1> DEFINE k == m - 1
<1>5. /\ k \in 0 .. Len(p) /\ k \in 0 .. Len(q) /\ m = k + 1 /\ m \in Int
      /\ \A i \in 1 .. k : p[i] = q[i]
  BY <1>1, <1>4
<1>6. (m + 1) \notin S
  <2> HIDE DEF S
  <2>1. m + 1 \in S => m + 1 <= m
    BY <1>4
  <2> QED BY <1>5, <2>1
<1>7. ~(k < Len(p) /\ k < Len(q) /\ p[k + 1] = q[k + 1])
  <2> SUFFICES ASSUME k < Len(p), k < Len(q), p[k + 1] = q[k + 1] PROVE FALSE
    OBVIOUS
  <2>1. m + 1 \in 1 .. Len(p) + 1 /\ m + 1 <= Len(q) + 1
    BY <1>1, <1>5
  <2>2. ASSUME NEW i \in 1 .. (m + 1) - 1 PROVE p[i] = q[i]
    <3>1. i \in 1 .. k \/ i = k + 1
      BY <1>5
    <3> QED BY <1>5, <3>1
  <2> QED BY <1>6, <2>1, <2>2
<1> HIDE DEF k, S
<1>8. CASE k = Len(p) /\ k = Len(q)
  BY <1>1, <1>5, <1>8, SeqEqual
<1>9. CASE k = Len(p) /\ k < Len(q)
  BY <1>5, <1>9 DEF Before
<1>10. CASE k < Len(p) /\ k = Len(q)
  <2>1. \A i \in 1 .. k : q[i] = p[i]
    BY <1>5
  <2> QED BY <1>5, <1>10, <2>1 DEF Before
<1>11. CASE k < Len(p) /\ k < Len(q)
  <2>1. \A i \in 1 .. k : q[i] = p[i]
    BY <1>5
  <2>2. p[k + 1] # q[k + 1]
    BY <1>7, <1>11
  <2>3. k + 1 \in 1 .. Len(p) /\ k + 1 \in 1 .. Len(q)
    BY <1>1, <1>5, <1>11
  <2>4. p[k + 1] \in Nat /\ q[k + 1] \in Nat
    BY <2>3, PathMeans
  <2>5. p[k + 1] < q[k + 1] \/ q[k + 1] < p[k + 1]
    BY <2>2, <2>4
  <2> QED BY <1>5, <1>11, <2>1, <2>5 DEF Before
<1> QED BY <1>1, <1>5, <1>8, <1>9, <1>10, <1>11

(* The first element of an aggregate is the next after it.                  *)
LEMMA FirstElementIsNext ==
    ASSUME NEW p \in Seq(Nat), NEW q \in Seq(Nat)
    PROVE  Before(q, Append(p, 0)) <=> Before(q, p) \/ q = p
<1> DEFINE next == Append(p, 0)
<1>1. Len(p) \in Nat /\ Len(q) \in Nat /\ \A i \in 1 .. Len(q) : q[i] \in Nat
  BY PathMeans
<1>2. /\ next \in Seq(Nat) /\ Len(next) = Len(p) + 1 /\ next[Len(p) + 1] = 0
      /\ \A i \in 1 .. Len(p) : next[i] = p[i]
  BY AppendProperties
<1> HIDE DEF next
<1>3. ASSUME Before(q, next) PROVE Before(q, p) \/ q = p
  <2>1. PICK k \in 0 .. Len(q) : /\ k < Len(next) /\ \A i \in 1 .. k : q[i] = next[i]
                                 /\ k = Len(q) \/ q[k + 1] < next[k + 1]
    BY <1>3 DEF Before
  <2>2. k <= Len(p) /\ \A i \in 1 .. k : q[i] = p[i]
    BY <1>1, <1>2, <2>1
  <2>3. CASE k < Len(p)
    <3>1. next[k + 1] = p[k + 1]
      <4>1. k + 1 \in 1 .. Len(p)
        BY <1>1, <2>3
      <4> QED BY <1>2, <4>1
    <3> QED BY <2>1, <2>2, <2>3, <3>1 DEF Before
  <2>4. CASE k = Len(p)
    <3>1. k = Len(q)
      <4>1. SUFFICES ASSUME k # Len(q) PROVE FALSE
        OBVIOUS
      <4>2. q[k + 1] < 0 /\ k + 1 \in 1 .. Len(q)
        BY <1>1, <1>2, <2>1, <2>4, <4>1
      <4> QED BY <1>1, <4>2
    <3> QED BY <2>2, <2>4, <3>1, SeqEqual
  <2> QED BY <1>1, <2>2, <2>3, <2>4
<1>4. ASSUME Before(q, p) PROVE Before(q, next)
  <2>1. PICK k \in 0 .. Len(q) : /\ k < Len(p) /\ \A i \in 1 .. k : q[i] = p[i]
                                 /\ k = Len(q) \/ q[k + 1] < p[k + 1]
    BY <1>4 DEF Before
  <2>2. k + 1 \in 1 .. Len(p) /\ \A i \in 1 .. k : i \in 1 .. Len(p)
    BY <1>1, <2>1
  <2>3. k < Len(next) /\ (\A i \in 1 .. k : q[i] = next[i]) /\ next[k + 1] = p[k + 1]
    BY <1>1, <1>2, <2>1, <2>2
  <2> QED BY <2>1, <2>3 DEF Before
<1>5. ASSUME q = p PROVE Before(q, next)
  <2>1. Len(q) \in 0 .. Len(q) /\ Len(q) < Len(next) /\ \A i \in 1 .. Len(q) : q[i] = next[i]
    BY <1>1, <1>2, <1>5
  <2> QED BY <2>1 DEF Before
<1> QED BY <1>3, <1>4, <1>5 DEF next

(* The first k indexes of a path.                                           *)
LEMMA PrefixMeans ==
    ASSUME NEW p \in Seq(Nat), NEW k \in 0 .. Len(p)
    PROVE  /\ SubSeq(p, 1, k) \in Seq(Nat) /\ Len(SubSeq(p, 1, k)) = k
           /\ \A i \in 1 .. k : SubSeq(p, 1, k)[i] = p[i]
<1>1. \A i \in 1 .. k : p[i] \in Nat
  BY PathMeans
<1>2. k \in Int /\ (1 <= k => k - 1 + 1 = k) /\ (~(1 <= k) => k = 0)
  BY PathMeans
<1>3. SubSeq(p, 1, k) \in Seq(Nat) /\ Len(SubSeq(p, 1, k)) = k
  BY <1>1, <1>2, SubSeqProperties
<1>4. \A i \in 1 .. k - 1 + 1 : SubSeq(p, 1, k)[i] = p[1 + i - 1]
  BY <1>1, <1>2, SubSeqProperties
<1>5. ASSUME NEW i \in 1 .. k PROVE SubSeq(p, 1, k)[i] = p[i]
  <2>1. i \in 1 .. k - 1 + 1 /\ 1 + i - 1 = i
    BY <1>2
  <2> QED BY <1>4, <2>1
<1> QED BY <1>3, <1>5

(* Two paths that agree on k indexes have the same object above them.       *)
LEMMA SamePrefix ==
    ASSUME NEW p \in Seq(Nat), NEW q \in Seq(Nat), NEW k \in 0 .. Len(p), k <= Len(q),
           \A i \in 1 .. k : p[i] = q[i]
    PROVE  SubSeq(p, 1, k) = SubSeq(q, 1, k)
<1>1. k \in 0 .. Len(q)
  BY PathMeans
<1> DEFINE s == SubSeq(p, 1, k)
           t == SubSeq(q, 1, k)
<1>2. /\ s \in Seq(Nat) /\ t \in Seq(Nat) /\ Len(s) = k /\ Len(t) = k
      /\ \A i \in 1 .. k : s[i] = p[i] /\ t[i] = q[i]
  BY <1>1, PrefixMeans
<1> HIDE DEF s, t
<1>3. \A i \in 1 .. Len(s) : s[i] = t[i]
  BY <1>2
<1>4. s = t
  BY <1>2, <1>3, SeqEqual
<1> QED BY <1>4 DEF s, t

(* The object at the path is the last of its aggregate, which is the last   *)
(* of its own, and so on up to index m; and it has no elements.             *)
LastFrom(r, p, m) == \A j \in m + 1 .. Len(p) : p[j] = r[SubSeq(p, 1, j - 1)].n - 1
Childless(r, p) == r[p].type \notin AggregateTypes \/ r[p].n <= 0

(* What a path of a whole reply is, and the objects above and below it.     *)
LEMMA WholeMeans ==
    ASSUME NEW r, Whole(r), NEW p \in DOMAIN r
    PROVE  /\ p \in Seq(Nat) /\ r[p].n \in Int /\ <<>> \in DOMAIN r
           /\ \A k \in 1 .. Len(p) : /\ SubSeq(p, 1, k - 1) \in DOMAIN r
                                     /\ Element(r, SubSeq(p, 1, k - 1), p[k])
           /\ \A i \in 0 .. r[p].n - 1 : Element(r, p, i) => Append(p, i) \in DOMAIN r
BY DEF Whole

(* No other object is sent after it that lies in the same aggregate.        *)
LEMMA NoneAfterTheLast ==
    ASSUME NEW r, Whole(r), NEW p \in DOMAIN r, NEW q \in DOMAIN r, NEW m \in 0 .. Len(p),
           LastFrom(r, p, m), Childless(r, p), \A i \in 1 .. m : q[i] = p[i]
    PROVE  ~Before(p, q)
<1> SUFFICES ASSUME Before(p, q) PROVE FALSE
  OBVIOUS
<1>1. p \in Seq(Nat) /\ q \in Seq(Nat)
  BY WholeMeans
<1>2. Len(p) \in Nat /\ Len(q) \in Nat /\ (\A i \in 1 .. Len(p) : p[i] \in Nat) /\ \A i \in 1 .. Len(q) : q[i] \in Nat
  BY <1>1, PathMeans
<1>3. PICK k \in 0 .. Len(p) : /\ k < Len(q) /\ \A i \in 1 .. k : p[i] = q[i]
                               /\ k = Len(p) \/ p[k + 1] < q[k + 1]
  BY DEF Before
<1> DEFINE j == k + 1
           s == SubSeq(p, 1, k)
<1>4. j \in 1 .. Len(q) /\ j - 1 = k
  BY <1>2, <1>3
<1>5. s = SubSeq(q, 1, k)
  BY <1>1, <1>2, <1>3, SamePrefix
<1>6. SubSeq(q, 1, j - 1) \in DOMAIN r /\ Element(r, SubSeq(q, 1, j - 1), q[j])
  BY <1>4, WholeMeans
<1>7. s \in DOMAIN r /\ Element(r, s, q[j])
  BY <1>4, <1>5, <1>6
<1>8. r[s].n \in Int /\ r[s].type \in AggregateTypes /\ q[j] \in 0 .. r[s].n - 1
  BY <1>7, WholeMeans DEF Element
<1>9. CASE k = Len(p)
  <2>1. s = p
    BY <1>1, <1>9, SubSeqFull
  <2> HIDE DEF s
  <2>2. r[p].n <= 0 /\ q[j] \in 0 .. r[p].n - 1 /\ r[p].n \in Int
    BY <1>8, <2>1 DEF Childless
  <2> QED BY <2>2
<1>10. CASE k # Len(p)
  <2>1. p[j] < q[j] /\ j \in 1 .. Len(p)
    BY <1>2, <1>3, <1>10
  <2>2. ~(j <= m)
    <3>1. SUFFICES ASSUME j <= m PROVE FALSE
      OBVIOUS
    <3>2. j \in 1 .. m
      BY <1>2, <2>1, <3>1
    <3>3. p[j] = q[j] /\ p[j] \in Nat
      BY <1>2, <2>1, <3>2
    <3> QED BY <2>1, <3>3
  <2>3. j \in m + 1 .. Len(p)
    BY <1>2, <2>1, <2>2
  <2>4. p[j] = r[SubSeq(p, 1, j - 1)].n - 1
    BY <2>3 DEF LastFrom
  <2>5. p[j] = r[s].n - 1
    BY <1>4, <2>4
  <2> HIDE DEF s, j
  <2> QED BY <1>8, <2>1, <2>5
<1> QED BY <1>9, <1>10

(* The next element of the innermost aggregate that is not complete is the  *)
(* next after the object at the path.                                       *)
LEMMA NextElementIsNext ==
    ASSUME NEW r, Whole(r), NEW p \in DOMAIN r, NEW q \in DOMAIN r, NEW m \in 1 .. Len(p),
           LastFrom(r, p, m), Childless(r, p),
           NEW next \in Seq(Nat), Len(next) = m, \A i \in 1 .. m - 1 : next[i] = p[i], next[m] = p[m] + 1
    PROVE  Before(q, next) <=> Before(q, p) \/ q = p
<1>1. p \in Seq(Nat) /\ q \in Seq(Nat)
  BY WholeMeans
<1>2. Len(p) \in Nat /\ Len(q) \in Nat /\ (\A i \in 1 .. Len(p) : p[i] \in Nat) /\ \A i \in 1 .. Len(q) : q[i] \in Nat
  BY <1>1, PathMeans
<1>3. m \in Nat /\ m >= 1 /\ m <= Len(p) /\ p[m] \in Nat
  BY <1>2
<1>4. ASSUME Before(q, next) PROVE Before(q, p) \/ q = p
  <2>1. PICK k \in 0 .. Len(q) : /\ k < m /\ \A i \in 1 .. k : q[i] = next[i]
                                 /\ k = Len(q) \/ q[k + 1] < next[k + 1]
    BY <1>4 DEF Before
  <2>2. k < Len(p) /\ \A i \in 1 .. k : i \in 1 .. m - 1
    BY <1>2, <1>3, <2>1
  <2>3. \A i \in 1 .. k : q[i] = p[i]
    BY <2>1, <2>2
  <2>4. CASE k = Len(q)
    BY <2>1, <2>2, <2>3, <2>4 DEF Before
  <2>5. CASE k # Len(q)
    <3>1. k + 1 \in 1 .. Len(q) /\ k + 1 \in 1 .. m /\ k + 1 \in 1 .. Len(p)
      BY <1>2, <1>3, <2>1, <2>5
    <3>2. q[k + 1] \in Nat /\ p[k + 1] \in Nat
      BY <1>2, <3>1
    <3>3. CASE q[k + 1] < p[k + 1]
      BY <2>1, <2>2, <2>3, <3>3 DEF Before
    <3>4. CASE ~(q[k + 1] < p[k + 1])
      <4>1. k + 1 = m
        <5>1. SUFFICES ASSUME k + 1 # m PROVE FALSE
          OBVIOUS
        <5>2. k + 1 \in 1 .. m - 1
          BY <1>3, <3>1, <5>1
        <5>3. next[k + 1] = p[k + 1]
          BY <5>2
        <5> QED BY <2>1, <2>5, <3>4, <5>3
      <4>2. q[m] = p[m]
        BY <2>1, <2>5, <3>2, <3>4, <4>1
      <4>3. ASSUME NEW i \in 1 .. m PROVE q[i] = p[i]
        <5>1. i \in 1 .. k \/ i = m
          BY <1>3, <2>1, <4>1
        <5> QED BY <2>3, <4>2, <5>1
      <4>4. m \in 0 .. Len(p)
        BY <1>3
      <4>5. ~Before(p, q)
        BY <4>3, <4>4, NoneAfterTheLast
      <4> QED BY <1>1, <4>5, OneBeforeTheOther
    <3> QED BY <3>3, <3>4
  <2> QED BY <2>4, <2>5
<1>5. ASSUME Before(q, p) PROVE Before(q, next)
  <2>1. PICK k \in 0 .. Len(q) : /\ k < Len(p) /\ \A i \in 1 .. k : q[i] = p[i]
                                 /\ k = Len(q) \/ q[k + 1] < p[k + 1]
    BY <1>5 DEF Before
  <2>2. CASE k < m
    <3>1. \A i \in 1 .. k : i \in 1 .. m - 1
      BY <1>3, <2>1, <2>2
    <3>2. \A i \in 1 .. k : q[i] = next[i]
      BY <2>1, <3>1
    <3>3. CASE k = Len(q)
      BY <2>1, <2>2, <3>2, <3>3 DEF Before
    <3>4. CASE k # Len(q)
      <4>1. k + 1 \in 1 .. Len(q) /\ (k + 1 = m \/ k + 1 \in 1 .. m - 1)
        BY <1>2, <1>3, <2>1, <2>2, <3>4
      <4>2. q[k + 1] < p[k + 1] /\ q[k + 1] \in Nat
        BY <1>2, <2>1, <3>4, <4>1
      <4>3. q[k + 1] < next[k + 1]
        BY <1>3, <4>1, <4>2
      <4> QED BY <2>1, <2>2, <3>2, <4>3 DEF Before
    <3> QED BY <3>3, <3>4
  <2>3. CASE ~(k < m)
    <3> DEFINE l == m - 1
    <3>1. l \in 0 .. Len(q) /\ l < m /\ l + 1 = m /\ m \in 1 .. k /\ \A i \in 1 .. l : i \in 1 .. k
      BY <1>2, <1>3, <2>1, <2>3
    <3>2. q[l + 1] < next[l + 1]
      BY <1>3, <2>1, <3>1
    <3>3. \A i \in 1 .. l : q[i] = next[i]
      BY <2>1, <3>1
    <3> HIDE DEF l
    <3> QED BY <3>1, <3>2, <3>3 DEF Before
  <2> QED BY <2>2, <2>3
<1>6. ASSUME q = p PROVE Before(q, next)
  <2> DEFINE l == m - 1
  <2>1. l \in 0 .. Len(q) /\ l < m /\ l + 1 = m
    BY <1>2, <1>3, <1>6
  <2>2. q[l + 1] < next[l + 1] /\ \A i \in 1 .. l : q[i] = next[i]
    BY <1>3, <1>6, <2>1
  <2> HIDE DEF l
  <2> QED BY <2>1, <2>2 DEF Before
<1> QED BY <1>4, <1>5, <1>6

(* When every aggregate is complete all the others were sent before.        *)
LEMMA AllBeforeTheLast ==
    ASSUME NEW r, Whole(r), NEW p \in DOMAIN r, NEW q \in DOMAIN r, LastFrom(r, p, 0), Childless(r, p)
    PROVE  Before(q, p) \/ q = p
<1>1. p \in Seq(Nat) /\ q \in Seq(Nat)
  BY WholeMeans
<1>2. 0 \in 0 .. Len(p) /\ \A i \in 1 .. 0 : q[i] = p[i]
  BY <1>1, PathMeans
<1>3. ~Before(p, q)
  BY <1>2, NoneAfterTheLast
<1> QED BY <1>1, <1>3, OneBeforeTheOther

-----------------------------------------------------------------------------
(* The units that the objects of a reply take.                              *)

(* Objects of a whole reply are finitely many, and their units a number.    *)
LEMMA UnitsCounted ==
    ASSUME NEW r, Whole(r), NEW E, E \subseteq DOMAIN r
    PROVE  /\ IsFiniteSet(E) /\ IsFiniteSet(Bulky(r, E))
           /\ Cardinality(E) \in Nat /\ Cardinality(Bulky(r, E)) \in Nat /\ Units(r, E) \in Nat
<1>1. IsFiniteSet(DOMAIN r)
  BY DEF Whole
<1>2. IsFiniteSet(E)
  BY <1>1, FS_Subset
<1>3. Bulky(r, E) \subseteq E
  BY DEF Bulky
<1>4. IsFiniteSet(Bulky(r, E))
  BY <1>2, <1>3, FS_Subset
<1>5. Cardinality(E) \in Nat /\ Cardinality(Bulky(r, E)) \in Nat
  BY <1>2, <1>4, FS_CardinalityType
<1> QED BY <1>2, <1>4, <1>5 DEF Units

(* No objects take no units.                                                *)
LEMMA NoUnits == ASSUME NEW r PROVE Units(r, {}) = 0
<1>1. Bulky(r, {}) = {}
  BY DEF Bulky
<1>2. Cardinality({}) = 0
  BY FS_EmptySet
<1> QED BY <1>1, <1>2 DEF Units

(* More objects take no fewer units.                                        *)
LEMMA MoreUnits ==
    ASSUME NEW r, Whole(r), NEW F, F \subseteq DOMAIN r, NEW E, E \subseteq F
    PROVE  Units(r, E) <= Units(r, F)
<1>1. E \subseteq DOMAIN r /\ Bulky(r, E) \subseteq Bulky(r, F)
  BY DEF Bulky
<1>2. Cardinality(E) <= Cardinality(F)
  BY UnitsCounted, FS_Subset
<1>3. Cardinality(Bulky(r, E)) <= Cardinality(Bulky(r, F))
  BY <1>1, UnitsCounted, FS_Subset
<1>4. /\ Cardinality(E) \in Nat /\ Cardinality(Bulky(r, E)) \in Nat
      /\ Cardinality(F) \in Nat /\ Cardinality(Bulky(r, F)) \in Nat
  BY <1>1, UnitsCounted
<1> QED BY <1>2, <1>3, <1>4 DEF Units

(* One more object takes its own units more.                                *)
UnitsOf(object) == IF object.type \in BulkTypes THEN 3 ELSE 2
LEMMA UnitsOfOneMore ==
    ASSUME NEW r, Whole(r), NEW E, E \subseteq DOMAIN r, NEW p \in DOMAIN r, p \notin E
    PROVE  Units(r, E \cup {p}) = Units(r, E) + UnitsOf(r[p])
<1>1. Cardinality(E \cup {p}) = Cardinality(E) + 1
  BY UnitsCounted, FS_AddElement
<1>2. Cardinality(E) \in Nat /\ Cardinality(Bulky(r, E)) \in Nat
  BY UnitsCounted
<1>3. CASE r[p].type \in BulkTypes
  <2>1. Bulky(r, E \cup {p}) = Bulky(r, E) \cup {p} /\ p \notin Bulky(r, E)
    BY <1>3 DEF Bulky
  <2>2. Cardinality(Bulky(r, E \cup {p})) = Cardinality(Bulky(r, E)) + 1
    BY <2>1, UnitsCounted, FS_AddElement
  <2> QED BY <1>1, <1>2, <1>3, <2>2 DEF Units, UnitsOf
<1>4. CASE r[p].type \notin BulkTypes
  <2>1. Bulky(r, E \cup {p}) = Bulky(r, E)
    BY <1>4 DEF Bulky
  <2> QED BY <1>1, <1>2, <1>4, <2>1 DEF Units, UnitsOf
<1> QED BY <1>3, <1>4

(* What was sent before an object, and with it.                             *)
LEMMA EarlierMeans ==
    ASSUME NEW r, Whole(r), NEW p \in DOMAIN r
    PROVE  /\ Earlier(r, p) \subseteq DOMAIN r /\ p \notin Earlier(r, p) /\ Earlier(r, <<>>) = {}
           /\ Units(r, Earlier(r, p)) \in Nat
           /\ Units(r, Earlier(r, p) \cup {p}) = Units(r, Earlier(r, p)) + UnitsOf(r[p])
           /\ Units(r, Earlier(r, p)) + UnitsOf(r[p]) <= Units(r, DOMAIN r)
<1>1. Earlier(r, p) \subseteq DOMAIN r
  BY DEF Earlier
<1>2. p \notin Earlier(r, p)
  BY WholeMeans, NotBeforeItself DEF Earlier
<1>3. Earlier(r, <<>>) = {}
  BY WholeMeans, NotBeforeItself DEF Earlier
<1>4. Units(r, Earlier(r, p)) \in Nat
  BY <1>1, UnitsCounted
<1>5. Units(r, Earlier(r, p) \cup {p}) = Units(r, Earlier(r, p)) + UnitsOf(r[p])
  BY <1>1, <1>2, UnitsOfOneMore
<1>6. Earlier(r, p) \cup {p} \subseteq DOMAIN r
  BY <1>1
<1>7. Units(r, Earlier(r, p) \cup {p}) <= Units(r, DOMAIN r)
  BY <1>6, MoreUnits
<1> QED BY <1>1, <1>2, <1>3, <1>4, <1>5, <1>7

-----------------------------------------------------------------------------
(* The streams.                                                             *)

(* What a stream is, and how many replies it has.                           *)
LEMMA StreamMeans ==
    ASSUME NEW s \in Streams
    PROVE  /\ s.units \in Seq(Unit) /\ Len(s.units) \in Nat /\ DOMAIN s.units = 1 .. Len(s.units)
           /\ Len(s.replies) \in Nat /\ Len(s.ends) = Len(s.replies)
           /\ s.ends \in Seq(Nat) /\ DOMAIN s.ends = 1 .. Len(s.replies) /\ s.bad \in BOOLEAN
<1>1. s.units \in Seq(Unit) /\ Carries(s)
  BY ReaderAssumption, StreamAssumption
<1>2. /\ s.replies \in Seq(Range(s.replies)) /\ s.ends \in Seq(Nat) /\ Len(s.ends) = Len(s.replies)
      /\ s.bad \in BOOLEAN
  BY <1>1 DEF Carries
<1>3. Len(s.units) \in Nat /\ DOMAIN s.units = 1 .. Len(s.units)
  BY <1>1, LenProperties
<1>4. Len(s.replies) \in Nat
  BY <1>2, LenProperties
<1>5. DOMAIN s.ends = 1 .. Len(s.ends)
  BY <1>2, LenProperties
<1> QED BY <1>1, <1>2, <1>3, <1>4, <1>5

(* The units of a reply lie between its start and its end.                  *)
LEMMA ReplyMeans ==
    ASSUME NEW s \in Streams, NEW i \in 1 .. Len(s.replies)
    PROVE  /\ Whole(s.replies[i])
           /\ s.ends[i] = Start(s, i) + Units(s.replies[i], DOMAIN s.replies[i])
           /\ \A p \in DOMAIN s.replies[i] :
                 IsObject(s.units, Start(s, i) + Units(s.replies[i], Earlier(s.replies[i], p)), s.replies[i][p])
<1>1. Carries(s)
  BY StreamAssumption
<1> QED BY <1>1 DEF Carries

(* What is behind the last reply: the break, or nothing.                    *)
LEMMA BrokenMeans ==
    ASSUME NEW s \in Streams
    PROVE  LET begun == Start(s, Len(s.replies) + 1)
               whole == s.broken.reply
           IN  /\ s.bad => /\ Whole(whole) /\ s.broken.at \in DOMAIN whole
                           /\ \A p \in Earlier(whole, s.broken.at) :
                                 IsObject(s.units, begun + Units(whole, Earlier(whole, p)), whole[p])
                           /\ IsBroken(s.units, begun + Units(whole, Earlier(whole, s.broken.at)))
               /\ ~s.bad => begun = Len(s.units)
<1>1. Carries(s)
  BY StreamAssumption
<1> QED BY <1>1 DEF Carries

(* Where a reply starts is a number.                                        *)
LEMMA StartIsNumber ==
    ASSUME NEW s \in Streams, NEW i \in 1 .. Len(s.replies) + 1
    PROVE  Start(s, i) \in Nat
<1>1. CASE i = 1
  BY <1>1 DEF Start
<1>2. CASE i # 1
  <2>1. i - 1 \in 1 .. Len(s.ends) /\ s.ends \in Seq(Nat)
    BY <1>2, StreamMeans
  <2>2. s.ends[i - 1] \in Nat
    BY <2>1, ElementOfSeq
  <2> QED BY <1>2, <2>2 DEF Start
<1> QED BY <1>1, <1>2

(* A reply ends no later than the next one starts.                          *)
LEMMA EndsIncrease ==
    ASSUME NEW s \in Streams, NEW i \in 1 .. Len(s.replies), NEW j \in i .. Len(s.replies)
    PROVE  s.ends[i] <= s.ends[j]
<1> DEFINE S == {k \in i .. Len(s.replies) : ~(s.ends[i] <= s.ends[k])}
<1>1. Len(s.replies) \in Nat /\ \A k \in 1 .. Len(s.replies) : s.ends[k] \in Nat
  BY StreamMeans, ElementOfSeq
<1>2. ASSUME S # {} PROVE FALSE
  <2>1. S \subseteq Nat
    BY <1>1
  <2> HIDE DEF S
  <2>2. PICK k \in S : \A l \in S : k <= l
    BY <1>2, <2>1, Least
  <2>3. k \in i .. Len(s.replies) /\ ~(s.ends[i] <= s.ends[k])
    BY <2>2 DEF S
  <2>4. s.ends[i] \in Nat /\ k # i
    BY <1>1, <2>3
  <2> DEFINE l == k - 1
  <2>5. l \in i .. Len(s.replies) /\ l \in 1 .. Len(s.replies) /\ ~(k <= l) /\ k \in 1 .. Len(s.replies) /\ k # 1
    BY <1>1, <2>3, <2>4
  <2>6. s.ends[i] <= s.ends[l]
    <3>1. l \notin S
      BY <2>2, <2>5
    <3> HIDE DEF l
    <3> QED BY <2>5, <3>1 DEF S
  <2>7. s.ends[k] = s.ends[l] + Units(s.replies[k], DOMAIN s.replies[k])
    BY <2>5, ReplyMeans DEF Start
  <2>8. Units(s.replies[k], DOMAIN s.replies[k]) \in Nat
    BY <2>5, ReplyMeans, UnitsCounted
  <2>9. s.ends[l] \in Nat
    BY <1>1, <2>5
  <2> HIDE DEF l
  <2> QED BY <2>3, <2>4, <2>6, <2>7, <2>8, <2>9
<1>3. j \notin S
  BY <1>2
<1> QED BY <1>3

-----------------------------------------------------------------------------
(* The reply at work.                                                       *)

Replies == Len(stream.replies)
Nth == Len(got) + 1
HasMore == Nth <= Replies \/ stream.bad
Coming == IF Nth <= Replies THEN stream.replies[Nth] ELSE stream.broken.reply

(* Where the units of an object begin.                                      *)
Offset(p) == Start(stream, Nth) + Units(Coming, Earlier(Coming, p))

(* All that was sent before the object is consumed and in the reply; and it *)
(* is not behind the break of the stream.                                   *)
AtWork(p) ==
    /\ p \in DOMAIN Coming
    /\ Nth > Replies => stream.broken.at \notin Earlier(Coming, p)
    /\ Consumed = IF Cur.type = "none" THEN Offset(p) ELSE Offset(p) + 1
    /\ Cur.type # "none" => HasType(stream.units, Offset(p)) /\ stream.units[Consumed].type = Cur.type
    /\ DOMAIN reply = Earlier(Coming, p)
    /\ \A q \in DOMAIN reply : reply[q] = Coming[q]

(* Between replies, with one that is complete, at an object of one, or      *)
(* waiting for one when there is none left.                                 *)
Progress ==
    /\ task = <<>> /\ pc = "idle" => Consumed = Start(stream, Nth) /\ reply = NoReply
    /\ task = <<>> /\ pc = "reading" =>
          Nth <= Replies /\ Consumed = stream.ends[Nth] /\ reply = stream.replies[Nth]
    /\ task # <<>> /\ HasMore => AtWork(PathTo(task, Len(task)))
    /\ task # <<>> /\ ~HasMore =>
          Consumed = Len(stream.units) /\ Len(task) = 1 /\ Cur.type = "none" /\ DOMAIN reply = {}

BufferInv == \A i \in 1 .. Len(buf) : buf[i] = stream.units[fed - Len(buf) + i]
GotInv ==
    /\ got \in Seq({stream.replies[i] : i \in 1 .. Replies}) /\ Len(got) <= Replies
    /\ \A i \in 1 .. Len(got) : got[i] = stream.replies[i]
ErrInv == err = "protocol" => stream.bad /\ Len(got) = Replies
DryInv == pc = "idle" /\ dry /\ err = "none" => task # <<>> /\ Starved

(* Why it is inductive: the object at work is the next, in the order they   *)
(* are sent, after all the objects that are made.                           *)
ArrivalInv ==
    /\ ReaderInv
    /\ err = "none" => BufferInv /\ Progress
    /\ GotInv /\ ErrInv /\ DryInv

(* The number of the reply at work is that of a reply, or of the break.     *)
LEMMA GotMeans ==
    ASSUME ReaderInv, GotInv
    PROVE  /\ Len(got) \in Nat /\ Replies \in Nat /\ Nth \in 1 .. Replies + 1
           /\ stream \in Streams /\ stream.bad \in BOOLEAN
           /\ (Nth > Replies => Nth = Replies + 1 /\ Len(got) = Replies)
           /\ DOMAIN got = 1 .. Len(got)
           /\ Start(stream, Nth) \in Nat
<1>1. Len(got) \in Nat /\ DOMAIN got = 1 .. Len(got)
  BY LenProperties DEF GotInv
<1>2. stream \in Streams /\ Replies \in Nat /\ stream.bad \in BOOLEAN
  BY StreamMeans DEF ReaderInv, Replies
<1>3. Nth \in 1 .. Replies + 1 /\ (Nth > Replies => Nth = Replies + 1 /\ Len(got) = Replies)
  <2>1. Len(got) <= Replies
    BY DEF GotInv
  <2>2. Len(got) \in Nat /\ Replies \in Nat /\ Nth = Len(got) + 1
    BY <1>1, <1>2 DEF Nth
  <2> QED BY <2>1, <2>2
<1>4. Start(stream, Nth) \in Nat
  BY <1>2, <1>3, StartIsNumber DEF Replies
<1> QED BY <1>1, <1>2, <1>3, <1>4

(* What the stream has for the object at work.                              *)
LEMMA ObjectComes ==
    ASSUME ReaderInv, GotInv, HasMore, NEW p \in DOMAIN Coming,
           Nth > Replies => stream.broken.at \notin Earlier(Coming, p)
    PROVE  /\ Whole(Coming) /\ Offset(p) \in Nat
           /\ \/ IsObject(stream.units, Offset(p), Coming[p])
                 /\ (Nth > Replies => stream.broken.at # p)
              \/ Nth > Replies /\ stream.bad /\ stream.broken.at = p /\ IsBroken(stream.units, Offset(p))
           /\ Nth > Replies => stream.broken.at \in DOMAIN Coming
<1>1. CASE Nth <= Replies
  <2>1. Coming = stream.replies[Nth] /\ Nth \in 1 .. Len(stream.replies) /\ stream \in Streams
    BY <1>1, GotMeans DEF Coming, Replies
  <2>2. Whole(Coming) /\ IsObject(stream.units, Offset(p), Coming[p])
    BY <2>1, ReplyMeans DEF Offset
  <2>3. Units(Coming, Earlier(Coming, p)) \in Nat /\ Start(stream, Nth) \in Nat
    BY <2>2, EarlierMeans, GotMeans
  <2> QED BY <1>1, <2>2, <2>3, GotMeans DEF Offset
<1>2. CASE ~(Nth <= Replies)
  <2> DEFINE at == stream.broken.at
             begun == Start(stream, Nth)
  <2>1. stream.bad /\ Nth > Replies /\ Coming = stream.broken.reply /\ stream \in Streams
        /\ Nth = Len(stream.replies) + 1
    BY <1>2, GotMeans DEF Coming, HasMore, Replies
  <2>2. /\ Whole(Coming) /\ at \in DOMAIN Coming
        /\ \A q \in Earlier(Coming, at) : IsObject(stream.units, begun + Units(Coming, Earlier(Coming, q)), Coming[q])
        /\ IsBroken(stream.units, begun + Units(Coming, Earlier(Coming, at)))
    BY <2>1, BrokenMeans
  <2>3. Units(Coming, Earlier(Coming, p)) \in Nat /\ begun \in Nat
    BY <2>2, EarlierMeans, GotMeans
  <2> HIDE DEF at, begun
  <2>4. CASE p = at
    BY <2>1, <2>2, <2>3, <2>4 DEF Offset, at, begun
  <2>5. CASE p # at
    <3>1. ~Before(at, p)
      BY <2>1, <2>2 DEF Earlier, at
    <3>2. p \in Seq(Nat) /\ at \in Seq(Nat)
      BY <2>2, WholeMeans
    <3>3. Before(p, at)
      BY <2>5, <3>1, <3>2, OneBeforeTheOther
    <3>4. p \in Earlier(Coming, at)
      BY <3>3 DEF Earlier
    <3> QED BY <2>1, <2>2, <2>3, <2>5, <3>4 DEF Offset, at, begun
  <2> QED BY <2>4, <2>5
<1> QED BY <1>1, <1>2

(* The input that is not consumed yet is what the server sends next.        *)
LEMMA UnreadComes ==
    ASSUME ReaderInv, BufferInv
    PROVE  /\ Consumed + Len(Unread) = fed /\ Len(Unread) \in Nat
           /\ \A i \in 1 .. Len(Unread) : /\ Unread[i] = stream.units[Consumed + i] /\ Unread[i] \in Unit
                                          /\ Consumed + i \in DOMAIN stream.units
<1>1. Len(Unread) = Len(buf) - pos
  BY UnreadProperties
<1>2. Consumed + Len(Unread) = fed /\ Len(Unread) \in Nat
  BY <1>1, Now DEF Consumed
<1>3. ASSUME NEW i \in 1 .. Len(Unread)
      PROVE  Unread[i] = stream.units[Consumed + i] /\ Unread[i] \in Unit /\ Consumed + i \in DOMAIN stream.units
  <2>1. i \in 1 .. Len(buf) - pos
    BY <1>1
  <2>2. Unread[i] \in Unit
    BY <2>1, UnreadProperties
  <2>3. Unread[i] = buf[pos + i]
    <3> DEFINE m == pos + 1
               n == Len(buf)
    <3>1. m \in Int /\ n \in Int /\ m >= 1 /\ n - m + 1 = Len(buf) - pos
      BY Now
    <3>2. \A j \in m .. n : buf[j] \in Unit
      BY <3>1, ElementOfSeq DEF ReaderInv
    <3>3. Unread = SubSeq(buf, m, n)
      BY DEF Unread
    <3>4. m + i - 1 = pos + i /\ i \in 1 .. n - m + 1
      BY <2>1, Now
    <3> HIDE DEF m, n
    <3>5. \A j \in 1 .. n - m + 1 : SubSeq(buf, m, n)[j] = buf[m + j - 1]
      BY <3>1, <3>2, SubSeqProperties
    <3> QED BY <3>3, <3>4, <3>5
  <2>4. pos + i \in 1 .. Len(buf) /\ fed - Len(buf) + (pos + i) = Consumed + i
    <3>1. pos \in Nat /\ Len(buf) \in Nat /\ fed \in Nat /\ i \in Nat /\ i >= 1 /\ i <= Len(buf) - pos
      BY <2>1, Now
    <3> QED BY <3>1 DEF Consumed
  <2>5. buf[pos + i] = stream.units[fed - Len(buf) + (pos + i)]
    BY <2>4 DEF BufferInv
  <2>6. Consumed + i \in 1 .. Len(stream.units)
    BY <1>2, Now
  <2>7. DOMAIN stream.units = 1 .. Len(stream.units)
    BY Now, LenProperties
  <2> QED BY <2>2, <2>3, <2>4, <2>5, <2>6, <2>7
<1> QED BY <1>2, <1>3

-----------------------------------------------------------------------------
(* The reply grows by the object at work.                                   *)

(* The path of the object at work is that of the last task.                 *)
LEMMA PathIsPathTo == Path = PathTo(task, Len(task))
BY DEF Path, PathTo

(* What the stack knows of the objects above the one at work.               *)
LEMMA ParentsCome ==
    ASSUME ReaderInv, task # <<>>, HasMore, AtWork(Path), NEW i \in 2 .. Len(task)
    PROVE  /\ i - 1 \in 1 .. Len(Path) /\ Path[i - 1] = task[i].idx
           /\ SubSeq(Path, 1, i - 2) \in DOMAIN Coming
           /\ Coming[SubSeq(Path, 1, i - 2)].n = task[i - 1].elements
           /\ Coming[SubSeq(Path, 1, i - 2)].type \in AggregateTypes
           /\ task[i].idx \in 0 .. task[i - 1].elements - 1
           /\ task[i - 1].elements \in Int
<1>1. Len(Path) = Len(task) - 1 /\ \A k \in 1 .. Len(task) - 1 : Path[k] = task[k + 1].idx
  BY Now DEF Path
<1>2. ASSUME NEW k \in 1 .. Len(task) - 1 PROVE Path[k] \in Nat
  <2>1. k + 1 \in 2 .. Len(task) /\ (k + 1) - 1 = k /\ k \in 1 .. Len(task)
    BY Now
  <2>2. task[k + 1].idx \in 0 .. task[(k + 1) - 1].elements - 1
    BY <2>1, Now DEF HasParents
  <2>3. task[k] \in Task
    BY <2>1, ElementOfSeq DEF ReaderInv
  <2> QED BY <1>1, <2>1, <2>2, <2>3 DEF Task
<1>3. Path \in Seq(Nat)
  <2>1. Path \in [1 .. Len(task) - 1 -> Nat]
    BY <1>1, <1>2 DEF Path
  <2>2. Len(task) - 1 \in Nat
    BY Now
  <2> HIDE DEF Path
  <2> QED BY <2>1, <2>2, SeqDef
<1> DEFINE k == i - 2
           s == SubSeq(Path, 1, k)
           t == PathTo(task, i - 1)
<1>4. k \in 0 .. Len(Path) /\ i - 1 = k + 1 /\ i = k + 2 /\ k + 1 \in 1 .. Len(task) - 1 /\ k + 1 \in 1 .. Len(task)
  BY <1>1, Now
<1>5. t = s
  <2>1. s \in Seq(Nat) /\ Len(s) = k /\ \A j \in 1 .. k : s[j] = Path[j]
    BY <1>3, <1>4, PrefixMeans
  <2>2. t = [j \in 1 .. k |-> task[j + 1].idx]
    BY <1>4 DEF PathTo
  <2>3. s \in [1 .. k -> Nat]
    BY <2>1, LenProperties
  <2>4. \A j \in 1 .. k : s[j] = task[j + 1].idx
    BY <1>1, <1>4, <2>1
  <2> HIDE DEF s, t, k
  <2> QED BY <2>2, <2>3, <2>4
<1>6. /\ t \in DOMAIN reply /\ reply[t].type \in AggregateTypes /\ reply[t].n = task[i - 1].elements
      /\ task[i].idx \in 0 .. task[i - 1].elements - 1
  BY Now DEF HasParents
<1>7. t \in DOMAIN Coming /\ Coming[t] = reply[t]
  BY <1>6 DEF AtWork, Earlier
<1>8. Path[k + 1] = task[i].idx
  BY <1>1, <1>4
<1>9. task[i - 1].elements \in Int
  <2>1. i - 1 \in 1 .. Len(task)
    BY <1>4
  <2>2. task[i - 1] \in Task
    BY <2>1, ElementOfSeq DEF ReaderInv
  <2> QED BY <2>2 DEF Task
<1> HIDE DEF t, k
<1> QED BY <1>1, <1>4, <1>5, <1>6, <1>7, <1>8, <1>9 DEF k

(* moveToNextTask goes to the object that is sent next, and ends the reply  *)
(* with its last object.                                                    *)
LEMMA NextObject ==
    ASSUME ReaderInv, GotInv, task # <<>>, HasMore, AtWork(Path),
           Nth > Replies => stream.broken.at # Path, Childless(Coming, Path)
    PROVE  \/ /\ NextTask = <<>> /\ Nth <= Replies
              /\ Earlier(Coming, Path) \cup {Path} = DOMAIN Coming
           \/ /\ NextTask \in Seq(Task) /\ NextTask # <<>> /\ NextTask[Len(NextTask)].type = "none"
              /\ PathTo(NextTask, Len(NextTask)) \in DOMAIN Coming
              /\ Earlier(Coming, PathTo(NextTask, Len(NextTask))) = Earlier(Coming, Path) \cup {Path}
<1> DEFINE open == {i \in 2 .. Len(task) : task[i].idx # task[i - 1].elements - 1}
           p == Path
           r == Coming
<1>1. p \in DOMAIN r /\ (Nth > Replies => stream.broken.at \notin Earlier(r, p))
  BY DEF AtWork
<1>2. Whole(r) /\ (Nth > Replies => stream.broken.at \in DOMAIN r)
  BY <1>1, ObjectComes
<1>3. p \in Seq(Nat) /\ Len(p) = Len(task) - 1 /\ Len(p) \in Nat
  <2>1. p \in Seq(Nat)
    BY <1>1, <1>2, WholeMeans
  <2>2. Len(p) = Len(task) - 1
    BY Now DEF Path
  <2> QED BY <2>1, <2>2, Now
<1>4. Childless(r, p)
  OBVIOUS
<1>5. ASSUME NEW i \in 2 .. Len(task)
      PROVE  /\ i - 1 \in 1 .. Len(p) /\ p[i - 1] = task[i].idx
             /\ SubSeq(p, 1, i - 2) \in DOMAIN r
             /\ r[SubSeq(p, 1, i - 2)].n = task[i - 1].elements
             /\ r[SubSeq(p, 1, i - 2)].type \in AggregateTypes
             /\ task[i].idx \in 0 .. task[i - 1].elements - 1
             /\ task[i - 1].elements \in Int
  BY ParentsCome
<1>6. ASSUME NEW m \in 0 .. Len(p), \A i \in open : i <= m + 1
      PROVE  LastFrom(r, p, m)
  <2>1. ASSUME NEW j \in m + 1 .. Len(p) PROVE p[j] = r[SubSeq(p, 1, j - 1)].n - 1
    <3> DEFINE i == j + 1
    <3>1. i \in 2 .. Len(task) /\ i - 1 = j /\ i - 2 = j - 1 /\ ~(i <= m + 1)
      BY <1>3
    <3>2. i \notin open
      BY <1>6, <3>1
    <3>3. task[i].idx = task[i - 1].elements - 1
      BY <3>1, <3>2
    <3> HIDE DEF i
    <3>4. p[i - 1] = task[i].idx /\ r[SubSeq(p, 1, i - 2)].n = task[i - 1].elements
      BY <1>5, <3>1
    <3> QED BY <3>1, <3>3, <3>4
  <2> QED BY <2>1 DEF LastFrom
<1>7. CASE open = {}
  <2>1. NextTask = <<>>
    BY <1>7 DEF NextTask
  <2>2. LastFrom(r, p, 0)
    <3>1. 0 \in 0 .. Len(p)
      BY <1>3
    <3> QED BY <1>6, <1>7, <3>1
  <2> HIDE DEF r, p
  <2>3. \A q \in DOMAIN r : Before(q, p) \/ q = p
    BY <1>1, <1>2, <1>4, <2>2, AllBeforeTheLast
  <2>4. Earlier(r, p) \cup {p} = DOMAIN r
    BY <1>1, <2>3 DEF Earlier
  <2>5. Nth <= Replies
    <3>1. SUFFICES ASSUME ~(Nth <= Replies) PROVE FALSE
      OBVIOUS
    <3>2. Nth > Replies
      BY <3>1, GotMeans
    <3> QED BY <1>1, <1>2, <2>4, <3>2 DEF p
  <2> QED BY <2>1, <2>4, <2>5 DEF r, p
<1>8. CASE open # {}
  <2>1. Max(open) \in open /\ \A j \in open : j <= Max(open)
    <3>1. open \subseteq 1 .. Len(task)
      BY Now
    <3> HIDE DEF open
    <3> QED BY <1>8, <3>1, Now, Greatest
  <2> DEFINE l == Max(open)
             m == l - 1
             s == SubSeq(task, 1, m)
             new == NewTask(task[l].idx + 1)
  <2>2. NextTask = s \o <<new>>
    BY <1>8 DEF NextTask
  <2>3. l \in 2 .. Len(task) /\ task[l].idx # task[l - 1].elements - 1 /\ \A i \in open : i <= l
    BY <2>1
  <2> HIDE DEF l
  <2>4. m \in 1 .. Len(p) /\ l = m + 1 /\ l - 2 = m - 1 /\ m \in 0 .. Len(task) /\ m \in 1 .. Len(task)
    BY <1>3, <2>3
  <2>5. LastFrom(r, p, m)
    <3>1. m \in 0 .. Len(p) /\ \A i \in open : i <= m + 1
      BY <2>3, <2>4
    <3> HIDE DEF m, open, r, p
    <3> QED BY <1>6, <3>1
  <2>6. s \in Seq(Task) /\ Len(s) = m /\ \A i \in 1 .. m : s[i] = task[i]
    BY <2>4, FirstTasks DEF ReaderInv
  <2>7. p[m] = task[l].idx /\ p[m] \in Nat
    BY <1>3, <1>5, <2>3, <2>4, PathMeans
  <2>8. new \in Task /\ new.type = "none" /\ new.idx = p[m] + 1
    <3>1. task[l].idx + 1 \in Int
      BY <2>7
    <3> QED BY <2>7, <3>1, NewTaskType
  <2>9. NextTask = Append(s, new)
    <3> HIDE DEF s, new
    <3> QED BY <2>2, <2>6, <2>8, AppendIsConcat
  <2>10. /\ NextTask \in Seq(Task) /\ Len(NextTask) = l
         /\ NextTask[l] = new /\ \A i \in 1 .. m : NextTask[i] = task[i]
    <3> HIDE DEF s, new, m
    <3> QED BY <2>4, <2>6, <2>8, <2>9, AppendProperties
  <2> DEFINE next == PathTo(NextTask, Len(NextTask))
             t == SubSeq(p, 1, m - 1)
  <2>11. /\ t \in Seq(Nat) /\ Len(t) = m - 1 /\ \A i \in 1 .. m - 1 : t[i] = p[i]
    <3>1. m - 1 \in 0 .. Len(p)
      BY <2>4
    <3> HIDE DEF m, p
    <3> QED BY <1>3, <3>1, PrefixMeans
  <2>12. next = [i \in 1 .. m |-> NextTask[i + 1].idx]
    BY <2>4, <2>10 DEF PathTo
  <2>13. ASSUME NEW i \in 1 .. m - 1 PROVE NextTask[i + 1].idx = p[i]
    <3>1. i + 1 \in 1 .. m /\ i + 1 \in 2 .. Len(task) /\ (i + 1) - 1 = i
      BY <1>3, <2>4
    <3>2. p[(i + 1) - 1] = task[i + 1].idx
      BY <1>5, <3>1
    <3> QED BY <2>10, <3>1, <3>2
  <2> HIDE DEF m, new, s, open
  <2>14. NextTask[m + 1].idx = p[m] + 1
    BY <2>4, <2>8, <2>10
  <2>15. next = Append(t, p[m] + 1)
    <3> DEFINE u == Append(t, p[m] + 1)
    <3>1. /\ u \in Seq(Nat) /\ Len(u) = m /\ u[m] = p[m] + 1 /\ \A i \in 1 .. m - 1 : u[i] = p[i]
      <4>1. p[m] + 1 \in Nat /\ m - 1 + 1 = m
        BY <2>4, <2>7
      <4> HIDE DEF t
      <4> QED BY <2>4, <2>11, <4>1, AppendProperties
    <3> HIDE DEF u
    <3>2. u \in [1 .. m -> Nat]
      BY <3>1, LenProperties
    <3>3. ASSUME NEW i \in 1 .. m PROVE u[i] = NextTask[i + 1].idx
      <4>1. i \in 1 .. m - 1 \/ i = m
        BY <2>4
      <4> QED BY <2>13, <2>14, <3>1, <4>1
    <3>4. next = u
      <4> HIDE DEF next
      <4> QED BY <2>12, <3>2, <3>3
    <3> QED BY <3>4 DEF u
  <2>16. next \in Seq(Nat) /\ Len(next) = m /\ next[m] = p[m] + 1 /\ \A i \in 1 .. m - 1 : next[i] = p[i]
    <3>1. p[m] + 1 \in Nat /\ m - 1 + 1 = m
      BY <2>4, <2>7
    <3> HIDE DEF t, next
    <3> QED BY <2>4, <2>11, <2>15, <3>1, AppendProperties
  <2>17. next \in DOMAIN r
    <3>1. /\ t \in DOMAIN r /\ r[t].n = task[l - 1].elements /\ r[t].type \in AggregateTypes
          /\ task[l].idx \in 0 .. task[l - 1].elements - 1 /\ task[l - 1].elements \in Int
      BY <1>5, <2>3, <2>4
    <3>2. p[m] + 1 \in 0 .. r[t].n - 1
      BY <2>3, <2>7, <3>1
    <3>3. Element(r, t, p[m] + 1)
      BY <3>1, <3>2 DEF Element
    <3> HIDE DEF t, next, r, p
    <3> QED BY <1>2, <2>15, <3>1, <3>2, <3>3, WholeMeans
  <2>18. Earlier(r, next) = Earlier(r, p) \cup {p}
    <3> HIDE DEF next, r, p
    <3>1. \A q \in DOMAIN r : Before(q, next) <=> Before(q, p) \/ q = p
      BY <1>1, <1>2, <1>4, <2>4, <2>5, <2>16, NextElementIsNext
    <3> QED BY <1>1, <3>1 DEF Earlier
  <2>19. NextTask # <<>> /\ NextTask[Len(NextTask)].type = "none"
    BY <2>3, <2>8, <2>10
  <2> QED BY <2>10, <2>17, <2>18, <2>19
<1> QED BY <1>7, <1>8

-----------------------------------------------------------------------------
(* The steps.                                                               *)

(* What is at work is the same after a step that returns no reply.          *)
LEMMA GotSame ==
    ASSUME GotInv, UNCHANGED <<stream, got>>
    PROVE  /\ GotInv' /\ Nth' = Nth /\ Replies' = Replies /\ HasMore' = HasMore /\ Coming' = Coming
           /\ \A p : Offset(p)' = Offset(p)
<1>1. stream' = stream /\ got' = got
  OBVIOUS
<1>2. Nth' = Nth /\ Replies' = Replies
  BY <1>1 DEF Nth, Replies
<1>3. HasMore' = HasMore /\ Coming' = Coming
  BY <1>1, <1>2 DEF HasMore, Coming
<1>4. \A p : Offset(p)' = Offset(p)
  BY <1>1, <1>2, <1>3 DEF Offset
<1>5. GotInv'
  BY <1>1, <1>2 DEF GotInv
<1> QED BY <1>2, <1>3, <1>4, <1>5

(* An error is of the stream only when the break of it was reached.         *)
LEMMA SetErrorArrives ==
    ASSUME ArrivalInv, NEW what \in {"protocol", "oom"}, SetError(what),
           what = "protocol" => stream.bad /\ Len(got) = Replies
    PROVE  ArrivalInv'
<1>1. ReaderInv'
  BY SetErrorStep DEF ArrivalInv
<1>2. UNCHANGED <<stream, got>> /\ err' = what
  BY DEF SetError
<1>3. GotInv' /\ Replies' = Replies
  BY <1>2, GotSame DEF ArrivalInv
<1>4. ErrInv'
  BY <1>2, <1>3 DEF ErrInv
<1>5. err' # "none"
  BY <1>2
<1>6. DryInv'
  BY <1>5 DEF DryInv
<1> QED BY <1>1, <1>3, <1>4, <1>5, <1>6 DEF ArrivalInv

(* A step of a reply that is at work.                                       *)
LEMMA ReadingArrives ==
    ASSUME ArrivalInv, ReaderInv', err = "none", UNCHANGED <<stream, fed, buf, err, pc, got, dry>>,
           pc = "reading", Progress'
    PROVE  ArrivalInv'
<1>1. stream' = stream /\ fed' = fed /\ buf' = buf /\ err' = "none" /\ pc' = "reading" /\ got' = got
  OBVIOUS
<1>2. GotInv'
  BY GotSame DEF ArrivalInv
<1>3. BufferInv'
  BY <1>1 DEF ArrivalInv, BufferInv
<1>4. ErrInv' /\ DryInv'
  BY <1>1 DEF ErrInv, DryInv
<1> QED BY <1>2, <1>3, <1>4 DEF ArrivalInv

(* Neither what was consumed nor what is at work changes.                   *)
LEMMA ProgressSame ==
    ASSUME Progress, GotInv, UNCHANGED <<stream, got, task, reply>>, Consumed' = Consumed,
           task = <<>> => pc' = pc
    PROVE  Progress'
<1>1. stream' = stream /\ got' = got /\ task' = task /\ reply' = reply
  OBVIOUS
<1>2. Nth' = Nth /\ Replies' = Replies /\ HasMore' = HasMore /\ Coming' = Coming /\ \A p : Offset(p)' = Offset(p)
  BY GotSame
<1>3. Cur' = Cur /\ PathTo(task, Len(task))' = PathTo(task, Len(task))
  BY <1>1 DEF Cur, PathTo
<1>4. (task # <<>> /\ HasMore => AtWork(PathTo(task, Len(task))))'
  <2>1. SUFFICES ASSUME task # <<>>, HasMore PROVE AtWork(PathTo(task, Len(task)))'
    BY <1>1, <1>2
  <2>2. AtWork(PathTo(task, Len(task)))
    BY <2>1 DEF Progress
  <2> DEFINE p == PathTo(task, Len(task))
  <2>3. p' = p /\ AtWork(p)
    BY <1>3, <2>2
  <2> HIDE DEF p
  <2>4. AtWork(p)'
    BY <1>1, <1>2, <1>3, <2>3 DEF AtWork
  <2> QED BY <2>4 DEF p
<1>5. (task = <<>> /\ pc = "idle" => Consumed = Start(stream, Nth) /\ reply = NoReply)'
  BY <1>1, <1>2 DEF Progress, NoReply
<1>6. (task = <<>> /\ pc = "reading" =>
          Nth <= Replies /\ Consumed = stream.ends[Nth] /\ reply = stream.replies[Nth])'
  BY <1>1, <1>2 DEF Progress
<1>7. (task # <<>> /\ ~HasMore =>
          Consumed = Len(stream.units) /\ Len(task) = 1 /\ Cur.type = "none" /\ DOMAIN reply = {})'
  BY <1>1, <1>2, <1>3 DEF Progress
<1> QED BY <1>4, <1>5, <1>6, <1>7 DEF Progress

(* redisReaderFeed appends what the server sends next.                      *)
LEMMA FeedArrives == ASSUME ArrivalInv, Feed PROVE ArrivalInv'
<1>0. ReaderInv /\ ReaderInv' /\ err = "none" /\ pc = "idle"
  BY FeedStep DEF ArrivalInv, Feed
<1>1. ASSUME NEW n \in 1 .. Len(stream.units) - fed,
             fed' = fed + n, buf' = buf \o SubSeq(stream.units, fed + 1, fed + n), dry' = FALSE,
             UNCHANGED <<stream, pos, task, tasks, reply, err, pc, got>>
      PROVE  ArrivalInv'
  <2> DEFINE m == fed + 1
             l == fed + n
             new == SubSeq(stream.units, m, l)
  <2>1. m \in Int /\ l \in Int /\ m <= l /\ l - m + 1 = n /\ n \in Nat
    BY <1>0, Now
  <2>2. \A i \in m .. l : stream.units[i] \in Unit
    BY <1>0, Now, ElementOfSeq
  <2>3. new \in Seq(Unit) /\ Len(new) = n /\ \A i \in 1 .. n : new[i] = stream.units[m + i - 1]
    <3> HIDE DEF m, l
    <3> QED BY <2>1, <2>2, SubSeqProperties
  <2>4. buf' = buf \o new /\ buf \in Seq(Unit)
    BY <1>0, <1>1 DEF ReaderInv
  <2> HIDE DEF new
  <2>5. /\ Len(buf') = Len(buf) + n
        /\ \A i \in 1 .. Len(buf) + n : buf'[i] = IF i <= Len(buf) THEN buf[i] ELSE new[i - Len(buf)]
    BY <2>3, <2>4, ConcatProperties
  <2>6. Consumed' = Consumed
    BY <1>0, <1>1, <2>1, <2>5, Now DEF Consumed
  <2>7. BufferInv'
    <3>1. ASSUME NEW i \in 1 .. Len(buf) + n PROVE buf'[i] = stream.units[fed - Len(buf) + i]
      <4>1. CASE i <= Len(buf)
        <5>1. i \in 1 .. Len(buf) /\ buf'[i] = buf[i]
          BY <1>0, <2>5, <4>1, Now
        <5> QED BY <1>0, <5>1 DEF ArrivalInv, BufferInv
      <4>2. CASE ~(i <= Len(buf))
        <5>1. i - Len(buf) \in 1 .. n /\ m + (i - Len(buf)) - 1 = fed - Len(buf) + i
          <6>1. fed \in Nat /\ Len(buf) \in Nat /\ i \in Nat /\ i <= Len(buf) + n
            BY <1>0, <2>1, Now
          <6> QED BY <2>1, <4>2, <6>1
        <5>2. new[i - Len(buf)] = stream.units[m + (i - Len(buf)) - 1]
          BY <2>3, <5>1
        <5> QED BY <2>5, <4>2, <5>1, <5>2
      <4> QED BY <4>1, <4>2
    <3>2. fed' - Len(buf') = fed - Len(buf) /\ stream' = stream
      <4>1. fed \in Nat /\ Len(buf) \in Nat
        BY <1>0, Now
      <4> QED BY <1>1, <2>1, <2>5, <4>1
    <3> QED BY <2>5, <3>1, <3>2 DEF BufferInv
  <2>8. Progress'
    BY <1>0, <1>1, <2>6, ProgressSame DEF ArrivalInv
  <2>9. GotInv'
    BY <1>1, GotSame DEF ArrivalInv
  <2>10. ErrInv' /\ DryInv'
    BY <1>0, <1>1 DEF ErrInv, DryInv
  <2> QED BY <1>0, <2>7, <2>8, <2>9, <2>10 DEF ArrivalInv
<1>2. CASE SetError("oom")
  BY <1>2, SetErrorArrives
<1> QED BY <1>1, <1>2 DEF Feed

(* redisReaderGetReply goes on, or begins with the reply that is next.      *)
LEMMA GetReplyArrives == ASSUME ArrivalInv, GetReply PROVE ArrivalInv'
<1>0. ReaderInv /\ GotInv /\ ReaderInv' /\ err = "none" /\ pc = "idle" /\ Progress
  BY GetReplyStep DEF ArrivalInv, GetReply
<1>1. /\ stream' = stream /\ fed' = fed /\ buf' = buf /\ pos' = pos /\ reply' = reply
      /\ err' = err /\ pc' = "reading" /\ got' = got
  BY DEF GetReply
<1>2. Consumed' = Consumed
  BY <1>1 DEF Consumed
<1>3. GotInv' /\ BufferInv' /\ ErrInv' /\ DryInv'
  <2>1. GotInv'
    BY <1>0, <1>1, GotSame
  <2> QED BY <1>0, <1>1, <2>1 DEF ArrivalInv, BufferInv, ErrInv, DryInv
<1>4. Progress'
  <2>1. CASE task # <<>>
    BY <1>0, <1>1, <1>2, <2>1, ProgressSame DEF GetReply
  <2>2. CASE task = <<>>
    <3>1. task' = <<NewTask(-1)>>
      BY <2>2 DEF GetReply
    <3>2. task' # <<>> /\ Len(task') = 1 /\ Cur'.type = "none"
      BY <3>1, NewTaskType DEF Cur
    <3>3. Consumed = Start(stream, Nth) /\ DOMAIN reply = {}
      BY <1>0, <2>2 DEF Progress, NoReply
    <3>4. /\ Nth' = Nth /\ Replies' = Replies /\ HasMore' = HasMore /\ Coming' = Coming
          /\ \A p : Offset(p)' = Offset(p)
      BY <1>0, <1>1, GotSame
    <3>5. PathTo(task', 1) = <<>>
      BY DEF PathTo
    <3>6. ASSUME HasMore PROVE AtWork(<<>>)'
      <4>1. Whole(Coming)
        <5>1. CASE Nth <= Replies
          BY <1>0, <5>1, GotMeans, ReplyMeans DEF Coming, Replies
        <5>2. CASE ~(Nth <= Replies)
          <6>1. stream.bad /\ stream \in Streams
            BY <1>0, <3>6, <5>2, GotMeans DEF HasMore
          <6> QED BY <5>2, <6>1, BrokenMeans DEF Coming
        <5> QED BY <5>1, <5>2
      <4>2. <<>> \in DOMAIN Coming
        BY <4>1 DEF Whole
      <4>3. Earlier(Coming, <<>>) = {}
        BY <4>1, <4>2, EarlierMeans
      <4>4. Offset(<<>>) = Consumed
        <5>1. Start(stream, Nth) \in Nat
          BY <1>0, GotMeans
        <5> QED BY <3>3, <4>3, <5>1, NoUnits DEF Offset
      <4> HIDE DEF Consumed
      <4>5. Earlier(Coming', <<>>) = {} /\ <<>> \in DOMAIN Coming' /\ Consumed' = Offset(<<>>)'
            /\ DOMAIN reply' = {} /\ Cur'.type = "none"
        BY <1>1, <1>2, <3>2, <3>3, <3>4, <4>2, <4>3, <4>4
      <4> QED BY <4>5 DEF AtWork
    <3>7. ASSUME ~HasMore PROVE Consumed = Len(stream.units)
      <4>1. Nth = Len(stream.replies) + 1 /\ ~stream.bad /\ stream \in Streams
        BY <1>0, <3>7, GotMeans DEF HasMore, Replies
      <4> QED BY <3>3, <4>1, BrokenMeans
    <3>8. (task # <<>> /\ HasMore => AtWork(PathTo(task, Len(task))))'
      BY <3>2, <3>4, <3>5, <3>6
    <3>9. (task # <<>> /\ ~HasMore =>
              Consumed = Len(stream.units) /\ Len(task) = 1 /\ Cur.type = "none" /\ DOMAIN reply = {})'
      BY <1>1, <1>2, <3>2, <3>3, <3>4, <3>7
    <3> QED BY <3>2, <3>8, <3>9 DEF Progress
  <2> QED BY <2>1, <2>2
<1> QED BY <1>0, <1>3, <1>4 DEF ArrivalInv

(* redisReaderGetReply returns the reply that is next, or is starved.       *)
LEMMA GetReplyReturnsArrives == ASSUME ArrivalInv, GetReplyReturns PROVE ArrivalInv'
<1>0. ReaderInv /\ GotInv /\ ReaderInv' /\ pc = "reading"
  BY GetReplyReturnsStep DEF ArrivalInv, GetReplyReturns
<1>1. /\ stream' = stream /\ fed' = fed /\ task' = task /\ err' = err /\ Discard /\ pc' = "idle"
      /\ (task # <<>> => Starved)
  BY DEF GetReplyReturns
<1>2. Consumed' = Consumed /\ (pos >= DiscardAt => buf' = Unread /\ pos' = 0)
      /\ (~(pos >= DiscardAt) => buf' = buf /\ pos' = pos)
  <2>1. pos >= DiscardAt => buf' = Unread /\ pos' = 0
    BY <1>1 DEF Discard
  <2>2. ~(pos >= DiscardAt) => buf' = buf /\ pos' = pos
    BY <1>1 DEF Discard
  <2>3. fed \in Nat /\ Len(buf) \in Nat /\ pos \in Nat /\ Len(Unread) = Len(buf) - pos
    BY <1>0, Now, UnreadProperties
  <2> QED BY <1>1, <2>1, <2>2, <2>3 DEF Consumed
<1>3. ASSUME err = "none" PROVE BufferInv'
  <2>1. BufferInv
    BY <1>3 DEF ArrivalInv
  <2>2. CASE pos >= DiscardAt
    <3>1. buf' = Unread /\ fed' - Len(buf') = Consumed
      <4>1. Consumed + Len(Unread) = fed /\ Len(Unread) \in Nat /\ Consumed \in Nat
        BY <1>0, <2>1, UnreadComes, Now
      <4> QED BY <1>1, <1>2, <2>2, <4>1
    <3>2. \A i \in 1 .. Len(Unread) : Unread[i] = stream.units[Consumed + i]
      BY <1>0, <2>1, UnreadComes
    <3> QED BY <1>1, <3>1, <3>2 DEF BufferInv
  <2>3. CASE ~(pos >= DiscardAt)
    BY <1>1, <1>2, <2>1, <2>3 DEF BufferInv
  <2> QED BY <2>2, <2>3
<1>4. CASE err = "none" /\ task = <<>>
  <2>1. got' = Append(got, reply) /\ reply' = NoReply /\ dry' = FALSE
    BY <1>4 DEF GetReplyReturns
  <2>2. Nth <= Replies /\ Consumed = stream.ends[Nth] /\ reply = stream.replies[Nth]
    BY <1>0, <1>4 DEF ArrivalInv, Progress
  <2>3. Len(got) \in Nat /\ Nth = Len(got) + 1 /\ Nth \in 1 .. Replies /\ Replies' = Replies /\ Replies \in Nat
    BY <1>0, <1>1, <2>2, GotMeans DEF Nth, Replies
  <2>4. GotInv'
    <3> DEFINE R == {stream.replies[i] : i \in 1 .. Replies}
    <3>1. got \in Seq(R) /\ reply \in R
      BY <1>0, <2>2, <2>3 DEF GotInv
    <3>2. /\ got' \in Seq(R) /\ Len(got') = Nth /\ got'[Nth] = reply
          /\ \A i \in 1 .. Len(got) : got'[i] = got[i]
      <4> HIDE DEF R
      <4> QED BY <2>1, <2>3, <3>1, AppendProperties
    <3>3. ASSUME NEW i \in 1 .. Nth PROVE got'[i] = stream.replies[i]
      <4>1. i \in 1 .. Len(got) \/ i = Nth
        BY <2>3
      <4> QED BY <1>0, <2>2, <3>2, <4>1 DEF GotInv
    <3>4. R' = R
      BY <1>1, <2>3
    <3> HIDE DEF R
    <3>5. got' \in Seq(R') /\ Len(got') <= Replies' /\ \A i \in 1 .. Len(got') : got'[i] = stream'.replies[i]
      BY <1>1, <2>3, <3>2, <3>3, <3>4
    <3> QED BY <3>5 DEF GotInv, R
  <2>5. Len(got') = Len(got) + 1
    <3>1. got \in Seq({stream.replies[i] : i \in 1 .. Replies}) /\ reply \in {stream.replies[i] : i \in 1 .. Replies}
      BY <1>0, <2>2, <2>3 DEF GotInv
    <3> QED BY <2>1, <3>1, AppendProperties
  <2>6. Nth' = Nth + 1 /\ Nth + 1 # 1 /\ (Nth + 1) - 1 = Nth
    BY <2>3, <2>5 DEF Nth
  <2>7. Start(stream, Nth)' = stream.ends[Nth]
    <3>1. Start(stream, Nth + 1) = stream.ends[Nth]
      BY <2>6 DEF Start
    <3> QED BY <1>1, <2>6, <3>1
  <2>8. Progress'
    BY <1>1, <1>2, <1>4, <2>1, <2>2, <2>7 DEF Progress
  <2>9. ErrInv' /\ DryInv'
    BY <1>1, <1>4, <2>1 DEF ErrInv, DryInv
  <2> QED BY <1>0, <1>3, <1>4, <2>4, <2>8, <2>9 DEF ArrivalInv
<1>5. CASE ~(err = "none" /\ task = <<>>)
  <2>1. UNCHANGED <<got, reply>> /\ dry' = TRUE
    BY <1>5 DEF GetReplyReturns
  <2>2. GotInv'
    BY <1>0, <1>1, <2>1, GotSame
  <2>3. ErrInv'
    BY <1>1, <2>1 DEF ArrivalInv, ErrInv, Replies
  <2>4. ASSUME err = "none" PROVE Progress'
    BY <1>0, <1>1, <1>2, <1>5, <2>1, <2>4, ProgressSame DEF ArrivalInv
  <2>5. ASSUME err = "none" PROVE Starved'
    <3>1. task # <<>> /\ Starved
      BY <1>1, <1>5, <2>5
    <3>2. Unread' = Unread
      <4>1. CASE pos >= DiscardAt
        <5>1. Unread \in Seq(Unit)
          BY <1>0, UnreadProperties
        <5>2. buf' = Unread /\ pos' = 0
          BY <1>2, <4>1
        <5>3. SubSeq(Unread, 1, Len(Unread)) = Unread
          BY <5>1, SubSeqFull
        <5>4. Unread' = SubSeq(buf', pos' + 1, Len(buf'))
          BY DEF Unread
        <5> HIDE DEF Unread
        <5> QED BY <5>2, <5>3, <5>4
      <4>2. CASE ~(pos >= DiscardAt)
        BY <1>2, <4>2 DEF Unread
      <4> QED BY <4>1, <4>2
    <3>3. Cur' = Cur
      BY <1>1 DEF Cur
    <3> HIDE DEF Unread, Cur
    <3> QED BY <3>1, <3>2, <3>3 DEF Starved, Comes
  <2>6. DryInv'
    BY <1>1, <1>5, <2>5 DEF DryInv
  <2> QED BY <1>0, <1>1, <1>3, <2>2, <2>3, <2>4, <2>6 DEF ArrivalInv
<1> QED BY <1>4, <1>5

(* A reader with more input has more to read.                               *)
LEMMA MoreComes ==
    ASSUME ArrivalInv, err = "none", task # <<>>, Unread # <<>>
    PROVE  HasMore /\ AtWork(Path) /\ Whole(Coming) /\ Offset(Path) \in Nat /\ Path \in DOMAIN Coming
<1>1. ReaderInv /\ GotInv /\ BufferInv /\ Progress
  BY DEF ArrivalInv
<1>2. HasMore
  <2>1. SUFFICES ASSUME ~HasMore PROVE FALSE
    OBVIOUS
  <2>2. Consumed = Len(stream.units)
    BY <1>1, <2>1 DEF Progress
  <2>3. 1 \in 1 .. Len(Unread)
    BY <1>1, UnreadProperties, Now
  <2>4. Consumed + 1 \in DOMAIN stream.units
    BY <1>1, <2>3, UnreadComes
  <2>5. DOMAIN stream.units = 1 .. Len(stream.units) /\ Len(stream.units) \in Nat
    BY <1>1, Now, LenProperties
  <2> QED BY <2>2, <2>4, <2>5
<1>3. AtWork(Path)
  BY <1>1, <1>2, PathIsPathTo DEF Progress
<1>4. Path \in DOMAIN Coming /\ (Nth > Replies => stream.broken.at \notin Earlier(Coming, Path))
  BY <1>3 DEF AtWork
<1>5. Whole(Coming) /\ Offset(Path) \in Nat
  BY <1>1, <1>2, <1>4, ObjectComes
<1> QED BY <1>2, <1>3, <1>4, <1>5

(* The object at work is whole in the stream, or it breaks it.              *)
LEMMA WorkComes ==
    ASSUME ArrivalInv, err = "none", task # <<>>, Unread # <<>>
    PROVE  \/ IsObject(stream.units, Offset(Path), Coming[Path]) /\ (Nth > Replies => stream.broken.at # Path)
           \/ stream.bad /\ Len(got) = Replies /\ IsBroken(stream.units, Offset(Path))
<1>1. ReaderInv /\ GotInv
  BY DEF ArrivalInv
<1>2. HasMore /\ Path \in DOMAIN Coming /\ (Nth > Replies => stream.broken.at \notin Earlier(Coming, Path))
  BY MoreComes DEF AtWork
<1> QED BY <1>1, <1>2, ObjectComes, GotMeans

(* The type byte comes.                                                     *)
LEMMA ReadTypeArrives == ASSUME ArrivalInv, ReadType PROVE ArrivalInv'
<1> DEFINE o == Offset(Path)
           units == stream.units
<1>0. ReaderInv /\ GotInv /\ BufferInv /\ Progress /\ ReaderInv'
  BY ReadTypeStep DEF ArrivalInv, ReadType, Reading
<1>1. task # <<>> /\ Cur.type = "none" /\ err = "none" /\ pc = "reading" /\ Unread # <<>>
  BY DEF ReadType, Reading
<1>2. HasMore /\ AtWork(Path) /\ o \in Nat
  BY <1>1, MoreComes
<1>3. Consumed = o
  BY <1>1, <1>2 DEF AtWork
<1> HIDE DEF o
<1>4. Unread[1] = units[o + 1] /\ o + 1 \in DOMAIN units
  <2>1. 1 \in 1 .. Len(Unread)
    BY <1>0, <1>1, UnreadProperties, Now
  <2> HIDE DEF Consumed
  <2> QED BY <1>0, <1>3, <2>1, UnreadComes
<1>5. Comes("type") /\ Unread[1].type \in Types <=> HasType(units, o)
  BY <1>1, <1>4 DEF Comes, HasType
<1>6. CASE HasType(units, o)
  <2>1. /\ task' = [task EXCEPT ![Len(task)].type = Unread[1].type] /\ pos' = pos + 1
        /\ UNCHANGED <<stream, fed, buf, tasks, reply, err, pc, got, dry>>
    BY <1>5, <1>6 DEF ReadType
  <2>2. Len(task) \in 1 .. Len(task) /\ task \in [1 .. Len(task) -> Task] /\ task \in Seq(Task)
    BY <1>0, <1>1, Now, LenProperties DEF ReaderInv
  <2>3. /\ task' \in Seq(Task) /\ Len(task') = Len(task) /\ task'[Len(task)].type = units[o + 1].type
        /\ \A i \in 1 .. Len(task) : task'[i].idx = task[i].idx
    <3>1. [task[Len(task)] EXCEPT !.type = Unread[1].type] \in Task
      BY <1>5, <1>6, <2>2 DEF Task
    <3>2. task' = [task EXCEPT ![Len(task)] = [task[Len(task)] EXCEPT !.type = Unread[1].type]]
      BY <2>1
    <3> QED BY <1>4, <2>2, <3>1, <3>2, ExceptSeq DEF Task
  <2>4. Consumed' = Consumed + 1
    BY <1>0, <2>1, Now DEF Consumed
  <2>5. Cur'.type = units[o + 1].type /\ Cur'.type # "none" /\ task' # <<>>
    <3>1. units[o + 1].type \in Types
      BY <1>6 DEF HasType
    <3>2. "none" \notin Types
      BY DEF Types, LineTypes, BulkTypes, AggregateTypes, PairTypes
    <3>3. Cur'.type = units[o + 1].type
      BY <2>3 DEF Cur
    <3>4. task' # <<>>
      BY <2>2, <2>3
    <3> QED BY <3>1, <3>2, <3>3, <3>4
  <2>6. PathTo(task', Len(task')) = Path
    BY <2>2, <2>3, <1>0, Now DEF PathTo, Path
  <2>7. /\ Nth' = Nth /\ Replies' = Replies /\ HasMore' = HasMore /\ Coming' = Coming
        /\ \A p : Offset(p)' = Offset(p)
    BY <1>0, <2>1, GotSame
  <2>8. AtWork(PathTo(task, Len(task)))'
    <3> DEFINE p == Path
    <3>1. /\ p \in DOMAIN Coming /\ (Nth > Replies => stream.broken.at \notin Earlier(Coming, p))
          /\ DOMAIN reply = Earlier(Coming, p) /\ \A q \in DOMAIN reply : reply[q] = Coming[q]
      BY <1>2 DEF AtWork
    <3>2. Offset(p) = o
      BY DEF o
    <3> HIDE DEF p
    <3>3. stream' = stream /\ reply' = reply /\ Consumed' = Offset(p) + 1 /\ HasType(units, Offset(p))
          /\ Cur'.type # "none" /\ Cur'.type = units[Offset(p) + 1].type
      BY <1>3, <1>6, <2>1, <2>4, <2>5, <3>2
    <3> HIDE DEF Consumed
    <3>4. PathTo(task, Len(task))' = p
      BY <2>6 DEF p
    <3> QED BY <2>7, <3>1, <3>3, <3>4 DEF AtWork
  <2>9. Progress'
    BY <1>2, <2>5, <2>7, <2>8 DEF Progress
  <2> QED BY <1>0, <1>1, <2>1, <2>9, ReadingArrives
<1>7. CASE ~HasType(units, o)
  <2>1. ~IsObject(units, o, Coming[Path])
    BY <1>7 DEF IsObject, HasLine
  <2>2. stream.bad /\ Len(got) = Replies
    BY <1>1, <2>1, WorkComes DEF o
  <2>3. SetError("protocol")
    BY <1>5, <1>7 DEF ReadType
  <2> QED BY <2>2, <2>3, SetErrorArrives
<1> QED BY <1>6, <1>7

(* The line comes, and maybe the body.                                      *)
LEMMA LineComes ==
    ASSUME ArrivalInv, err = "none", task # <<>>, Cur.type # "none", Comes("line")
    PROVE  /\ HasMore /\ AtWork(Path) /\ Offset(Path) \in Nat /\ Consumed = Offset(Path) + 1
           /\ HasLine(stream.units, Offset(Path)) /\ Unread[1] = stream.units[Offset(Path) + 2]
           /\ Unread[1].n \in Int
           /\ stream.units[Offset(Path) + 1].type = Cur.type
           /\ Len(Unread) > 1 => Unread[2] = stream.units[Offset(Path) + 3] /\ Offset(Path) + 3 \in DOMAIN stream.units
<1> DEFINE o == Offset(Path)
           units == stream.units
<1>1. Unread # <<>> /\ Unread[1].u = "line" /\ ReaderInv /\ BufferInv
  BY DEF Comes, ArrivalInv
<1>2. HasMore /\ AtWork(Path) /\ o \in Nat
  BY <1>1, MoreComes
<1>3. Consumed = o + 1 /\ HasType(units, o) /\ units[Consumed].type = Cur.type
  BY <1>2 DEF AtWork
<1> HIDE DEF o, Consumed
<1>4. 1 \in 1 .. Len(Unread) /\ Len(Unread) \in Nat
  BY <1>1, UnreadProperties, UnreadComes, Now
<1>5. Consumed + 1 = o + 2 /\ Consumed + 2 = o + 3
  BY <1>2, <1>3
<1>6. Unread[1] = units[o + 2] /\ o + 2 \in DOMAIN units /\ Unread[1] \in Unit
  BY <1>1, <1>4, <1>5, UnreadComes
<1>7. Len(Unread) > 1 => Unread[2] = units[o + 3] /\ o + 3 \in DOMAIN units
  <2>1. SUFFICES ASSUME Len(Unread) > 1 PROVE Unread[2] = units[o + 3] /\ o + 3 \in DOMAIN units
    OBVIOUS
  <2>2. 2 \in 1 .. Len(Unread)
    BY <1>4, <2>1
  <2> QED BY <1>1, <1>5, <2>2, UnreadComes
<1>8. HasLine(units, o)
  BY <1>1, <1>3, <1>6 DEF HasLine
<1>9. Unread[1].n \in Int
  BY <1>6 DEF Unit
<1> QED BY <1>2, <1>3, <1>6, <1>7, <1>8, <1>9 DEF o

(* The object at work is put into the reply, and what it took is consumed.  *)
LEMMA Created ==
    ASSUME ArrivalInv, err = "none", task # <<>>, Cur.type # "none", HasMore, AtWork(Path),
           NEW object, Coming[Path] = object, UnitsOf(object) \in {2, 3}, Create(object.type, object.n),
           object = [type |-> object.type, n |-> object.n],
           UNCHANGED <<stream, fed, buf, got>>, NEW units \in Nat, units + 1 = UnitsOf(object), pos' = pos + units
    PROVE  /\ Consumed' = Start(stream, Nth) + Units(Coming, Earlier(Coming, Path) \cup {Path})
           /\ DOMAIN reply' = Earlier(Coming, Path) \cup {Path}
           /\ \A q \in DOMAIN reply' : reply'[q] = Coming[q]
           /\ reply' = [q \in DOMAIN reply' |-> reply'[q]]
<1>0. ReaderInv /\ GotInv
  BY DEF ArrivalInv
<1>1. Path \in DOMAIN Coming /\ DOMAIN reply = Earlier(Coming, Path) /\ (\A q \in DOMAIN reply : reply[q] = Coming[q])
      /\ Consumed = Offset(Path) + 1 /\ (Nth > Replies => stream.broken.at \notin Earlier(Coming, Path))
  BY DEF AtWork
<1>2. Whole(Coming) /\ Offset(Path) \in Nat
  BY <1>0, <1>1, ObjectComes
<1>3. DOMAIN reply' = DOMAIN reply \cup {Path} /\ (\A q \in DOMAIN reply : q # Path => reply'[q] = reply[q])
      /\ reply'[Path] = object
  BY CreateMeans
<1>4. reply' = [q \in DOMAIN reply' |-> reply'[q]]
  BY DEF Create
<1>5. Consumed' = Consumed + units
  BY <1>0, Now DEF Consumed
<1>6. /\ Units(Coming, Earlier(Coming, Path)) \in Nat
      /\ Units(Coming, Earlier(Coming, Path) \cup {Path}) = Units(Coming, Earlier(Coming, Path)) + UnitsOf(object)
  BY <1>1, <1>2, EarlierMeans
<1>7. Start(stream, Nth) \in Nat
  BY <1>0, GotMeans
<1>8. Consumed' = Start(stream, Nth) + Units(Coming, Earlier(Coming, Path) \cup {Path})
  <2> HIDE DEF Consumed
  <2> QED BY <1>1, <1>5, <1>6, <1>7 DEF Offset
<1>9. \A q \in DOMAIN reply' : reply'[q] = Coming[q]
  BY <1>1, <1>3
<1> QED BY <1>1, <1>3, <1>4, <1>8, <1>9

(* The next object comes after what was consumed.                           *)
LEMMA NextAtWork ==
    ASSUME ArrivalInv, err = "none", task # <<>>, HasMore, AtWork(Path), Nth > Replies => stream.broken.at # Path,
           UNCHANGED <<stream, fed, buf, got>>,
           Consumed' = Start(stream, Nth) + Units(Coming, Earlier(Coming, Path) \cup {Path}),
           DOMAIN reply' = Earlier(Coming, Path) \cup {Path}, \A q \in DOMAIN reply' : reply'[q] = Coming[q],
           task' # <<>>, Cur'.type = "none",
           NEW p \in DOMAIN Coming, p = PathTo(task', Len(task')),
           Earlier(Coming, p) = Earlier(Coming, Path) \cup {Path}
    PROVE  Progress'
<1>0. ReaderInv /\ GotInv
  BY DEF ArrivalInv
<1>1. /\ Nth' = Nth /\ Replies' = Replies /\ HasMore' = HasMore /\ Coming' = Coming
      /\ (\A q : Offset(q)' = Offset(q)) /\ stream' = stream
  BY <1>0, GotSame
<1>2. Nth > Replies => stream.broken.at \notin Earlier(Coming, p)
  BY DEF AtWork
<1>3. Consumed' = Offset(p)
  BY DEF Offset
<1> HIDE DEF Consumed
<1>4. DOMAIN reply' = Earlier(Coming, p)
  OBVIOUS
<1>5. AtWork(PathTo(task, Len(task)))'
  BY <1>1, <1>2, <1>3, <1>4 DEF AtWork
<1> QED BY <1>1, <1>5 DEF Progress

(* An object without elements is made, and the next one is gone to.         *)
LEMMA ItemArrives ==
    ASSUME ArrivalInv, err = "none", pc = "reading", task # <<>>, Cur.type # "none", HasMore, AtWork(Path),
           NEW type, NEW n, NEW units \in 1 .. 2, pos + units <= Len(buf), Item(type, n, units),
           Coming[Path] = [type |-> type, n |-> n], units + 1 = UnitsOf([type |-> type, n |-> n]),
           type \notin AggregateTypes \/ n <= 0, Nth > Replies => stream.broken.at # Path
    PROVE  ArrivalInv'
<1> DEFINE object == [type |-> type, n |-> n]
<1>0. ReaderInv /\ GotInv /\ ReaderInv'
  BY ItemStep DEF ArrivalInv
<1>1. ASSUME Create(type, n), task' = NextTask, pos' = pos + units,
             UNCHANGED <<stream, fed, buf, tasks, err, pc, got, dry>>
      PROVE  ArrivalInv'
  <2>1. object.type = type /\ object.n = n /\ object = [type |-> object.type, n |-> object.n]
    OBVIOUS
  <2>2. UnitsOf(object) \in {2, 3} /\ units \in Nat /\ Coming[Path] = object /\ units + 1 = UnitsOf(object)
    BY DEF UnitsOf
  <2> HIDE DEF object
  <2>3. UNCHANGED <<stream, fed, buf, got>>
    BY <1>1
  <2>4. Create(object.type, object.n)
    BY <1>1, <2>1
  <2>5. /\ Consumed' = Start(stream, Nth) + Units(Coming, Earlier(Coming, Path) \cup {Path})
        /\ DOMAIN reply' = Earlier(Coming, Path) \cup {Path}
        /\ \A q \in DOMAIN reply' : reply'[q] = Coming[q]
        /\ reply' = [q \in DOMAIN reply' |-> reply'[q]]
    BY <1>1, <2>1, <2>2, <2>3, <2>4, Created
  <2>6. Childless(Coming, Path)
    BY <2>1, <2>2 DEF Childless
  <2>7. CASE NextTask = <<>> /\ Nth <= Replies /\ Earlier(Coming, Path) \cup {Path} = DOMAIN Coming
    <3>1. task' = <<>> /\ stream' = stream /\ pc' = "reading"
      BY <1>1, <2>7
    <3>2. Coming = stream.replies[Nth] /\ Nth \in 1 .. Len(stream.replies) /\ stream \in Streams
      BY <1>0, <2>7, GotMeans DEF Coming, Replies
    <3>3. Whole(Coming) /\ stream.ends[Nth] = Start(stream, Nth) + Units(Coming, DOMAIN Coming)
      BY <3>2, ReplyMeans
    <3>4. Coming = [q \in DOMAIN Coming |-> Coming[q]]
      <4>1. Coming = [q \in DOMAIN Coming |-> [type |-> Coming[q].type, n |-> Coming[q].n]]
        BY <3>3 DEF Whole
      <4> HIDE DEF Coming
      <4> QED BY <4>1
    <3>5. reply' = Coming
      <4> HIDE DEF Coming
      <4>1. DOMAIN reply' = DOMAIN Coming
        BY <2>5, <2>7
      <4> QED BY <2>5, <3>4, <4>1
    <3>6. Nth' = Nth /\ Replies' = Replies
      BY <1>0, <2>3, GotSame
    <3>7. Consumed' = stream.ends[Nth]
      BY <2>5, <2>7, <3>3
    <3> HIDE DEF Consumed
    <3>8. Progress'
      BY <2>7, <3>1, <3>2, <3>5, <3>6, <3>7 DEF Progress
    <3> QED BY <1>0, <1>1, <3>8, ReadingArrives
  <2>8. CASE /\ NextTask \in Seq(Task) /\ NextTask # <<>> /\ NextTask[Len(NextTask)].type = "none"
             /\ PathTo(NextTask, Len(NextTask)) \in DOMAIN Coming
             /\ Earlier(Coming, PathTo(NextTask, Len(NextTask))) = Earlier(Coming, Path) \cup {Path}
    <3>1. task' # <<>> /\ Cur'.type = "none"
      BY <1>1, <2>8 DEF Cur
    <3>2. PathTo(task', Len(task')) = PathTo(NextTask, Len(NextTask))
      BY <1>1
    <3> HIDE DEF Consumed
    <3>3. Progress'
      BY <2>3, <2>5, <2>8, <3>1, <3>2, NextAtWork
    <3> QED BY <1>0, <1>1, <3>3, ReadingArrives
  <2> QED BY <1>0, <2>6, <2>7, <2>8, NextObject
<1>2. CASE SetError("oom")
  BY <1>2, SetErrorArrives
<1> QED BY <1>1, <1>2 DEF Item

(* An aggregate is made, and its first element is gone to.                  *)
LEMMA PushArrives ==
    ASSUME ArrivalInv, err = "none", pc = "reading", task # <<>>, Cur.type \in AggregateTypes, ~NeedsGrow,
           HasMore, AtWork(Path), pos < Len(buf), NEW elements \in Nat, elements > 0, PushTask(elements),
           Coming[Path] = [type |-> Cur.type, n |-> elements], Nth > Replies => stream.broken.at # Path
    PROVE  ArrivalInv'
<1> DEFINE object == [type |-> Cur.type, n |-> elements]
           n == Len(task)
           s == [task EXCEPT ![n].elements = elements]
           new == NewTask(0)
<1>0. ReaderInv /\ GotInv /\ ReaderInv'
  BY PushTaskStep DEF ArrivalInv
<1>1. ASSUME Create(Cur.type, elements), task' = Append(s, new), pos' = pos + 1,
             UNCHANGED <<stream, fed, buf, tasks, err, pc, got, dry>>
      PROVE  ArrivalInv'
  <2>1. Cur.type # "none" /\ Cur.type \notin BulkTypes
    BY DEF AggregateTypes, PairTypes, BulkTypes
  <2>2. object.type = Cur.type /\ object.n = elements /\ object = [type |-> object.type, n |-> object.n]
    OBVIOUS
  <2>3. UnitsOf(object) \in {2, 3} /\ 1 \in Nat /\ Coming[Path] = object /\ 1 + 1 = UnitsOf(object)
    BY <2>1 DEF UnitsOf
  <2> HIDE DEF object
  <2>4. UNCHANGED <<stream, fed, buf, got>> /\ Create(object.type, object.n)
    BY <1>1, <2>2
  <2>5. /\ Consumed' = Start(stream, Nth) + Units(Coming, Earlier(Coming, Path) \cup {Path})
        /\ DOMAIN reply' = Earlier(Coming, Path) \cup {Path}
        /\ \A q \in DOMAIN reply' : reply'[q] = Coming[q]
    BY <1>1, <2>1, <2>2, <2>3, <2>4, Created
  <2>6. n \in 1 .. Len(task) /\ task \in [1 .. Len(task) -> Task] /\ task \in Seq(Task)
    BY <1>0, Now, LenProperties DEF ReaderInv
  <2>7. s \in Seq(Task) /\ Len(s) = n /\ \A i \in 1 .. n : s[i].idx = task[i].idx
    <3>1. [task[n] EXCEPT !.elements = elements] \in Task
      <4>1. task[n] \in Task /\ elements \in Int
        BY <2>6
      <4> HIDE DEF n
      <4> QED BY <4>1 DEF Task
    <3>2. s = [task EXCEPT ![n] = [task[n] EXCEPT !.elements = elements]]
      OBVIOUS
    <3> QED BY <2>6, <3>1, <3>2, ExceptSeq DEF Task
  <2>8. new \in Task /\ new.type = "none" /\ new.idx = 0
    BY NewTaskType
  <2> HIDE DEF s, new
  <2>9. /\ task' \in Seq(Task) /\ Len(task') = n + 1 /\ task'[n + 1] = new
        /\ \A i \in 1 .. n : task'[i] = s[i]
    BY <1>1, <2>7, <2>8, AppendProperties
  <2>10. task' # <<>> /\ Cur'.type = "none"
    BY <2>6, <2>8, <2>9 DEF Cur
  <2> DEFINE p == Path
             next == Append(p, 0)
  <2>11. p \in DOMAIN Coming /\ Whole(Coming) /\ p \in Seq(Nat) /\ Len(p) = n - 1
         /\ \A i \in 1 .. n - 1 : p[i] = task[i + 1].idx
    <3>1. p \in DOMAIN Coming /\ (Nth > Replies => stream.broken.at \notin Earlier(Coming, p))
      BY DEF AtWork
    <3>2. Whole(Coming)
      BY <1>0, <3>1, ObjectComes
    <3>3. p \in Seq(Nat)
      BY <3>1, <3>2, WholeMeans
    <3>4. Len(p) = n - 1 /\ \A i \in 1 .. n - 1 : p[i] = task[i + 1].idx
      BY <2>6 DEF Path
    <3> QED BY <3>1, <3>2, <3>3, <3>4
  <2> HIDE DEF p
  <2>12. PathTo(task', Len(task')) = next
    <3>1. /\ next \in Seq(Nat) /\ Len(next) = n /\ next[n] = 0 /\ \A i \in 1 .. n - 1 : next[i] = p[i]
      <4>1. (n - 1) + 1 = n
        BY <2>6
      <4> QED BY <2>11, <4>1, AppendProperties
    <3> HIDE DEF next, n
    <3>2. next \in [1 .. n -> Nat]
      BY <3>1, LenProperties
    <3>3. ASSUME NEW i \in 1 .. n PROVE next[i] = task'[i + 1].idx
      <4>1. (i \in 1 .. n - 1 /\ i + 1 \in 1 .. n) \/ i = n
        BY <2>6
      <4>2. CASE i = n
        BY <2>8, <2>9, <3>1, <4>2
      <4>3. CASE i \in 1 .. n - 1 /\ i + 1 \in 1 .. n
        BY <2>7, <2>9, <2>11, <3>1, <4>3
      <4> QED BY <4>1, <4>2, <4>3
    <3>4. PathTo(task', Len(task')) = [i \in 1 .. n |-> task'[i + 1].idx]
      <4>1. Len(task') - 1 = n
        BY <2>6, <2>9
      <4> QED BY <4>1 DEF PathTo
    <3> QED BY <3>2, <3>3, <3>4
  <2>13. next \in DOMAIN Coming
    <3>1. Coming[p].type \in AggregateTypes /\ Coming[p].n = elements
      BY <2>2, <2>3 DEF p
    <3>2. 0 \in 0 .. Coming[p].n - 1 /\ Element(Coming, p, 0)
      BY <3>1 DEF Element
    <3> QED BY <2>11, <3>2, WholeMeans
  <2>14. Earlier(Coming, next) = Earlier(Coming, p) \cup {p}
    <3>1. \A q \in DOMAIN Coming : q \in Seq(Nat)
      BY <2>11, WholeMeans
    <3>2. \A q \in DOMAIN Coming : Before(q, next) <=> Before(q, p) \/ q = p
      BY <2>11, <3>1, FirstElementIsNext
    <3> QED BY <2>11, <3>2 DEF Earlier
  <2> HIDE DEF next, Consumed
  <2>15. Earlier(Coming, next) = Earlier(Coming, Path) \cup {Path}
    BY <2>14 DEF p
  <2>16. Progress'
    BY <2>4, <2>5, <2>10, <2>12, <2>13, <2>15, NextAtWork
  <2> QED BY <1>0, <1>1, <2>16, ReadingArrives
<1>2. CASE SetError("oom")
  BY <1>2, SetErrorArrives
<1> QED BY <1>1, <1>2 DEF PushTask

(* A type is of one kind.                                                   *)
LEMMA TypesDisjoint ==
    /\ \A type \in LineTypes : type \notin BulkTypes /\ type \notin AggregateTypes /\ type # "verb" /\ type # "none"
    /\ \A type \in BulkTypes : type \notin AggregateTypes /\ type \notin LineTypes /\ type # "none"
    /\ \A type \in AggregateTypes : type \notin LineTypes /\ type \notin BulkTypes /\ type # "verb" /\ type # "none"
    /\ "nil" \notin BulkTypes /\ "nil" \notin AggregateTypes
BY DEF LineTypes, BulkTypes, AggregateTypes, PairTypes

(* processLineItem makes the object that the server sent.                   *)
LEMMA ProcessLineItemArrives == ASSUME ArrivalInv, ProcessLineItem PROVE ArrivalInv'
<1> DEFINE o == Offset(Path)
           units == stream.units
           object == Coming[Path]
<1>1. /\ pc = "reading" /\ err = "none" /\ task # <<>> /\ Cur.type \in LineTypes /\ Cur.type # "none"
      /\ Comes("line") /\ Unread # <<>> /\ ReaderInv
  BY ReadingMeans, TypesKnown DEF ProcessLineItem, Comes, ArrivalInv
<1>2. /\ HasMore /\ AtWork(Path) /\ HasLine(units, o) /\ HasType(units, o) /\ Unread[1] = units[o + 2]
      /\ units[o + 1].type = Cur.type
  BY <1>1, LineComes DEF HasLine
<1>3. \/ IsObject(units, o, object) /\ (Nth > Replies => stream.broken.at # Path)
      \/ stream.bad /\ Len(got) = Replies /\ IsBroken(units, o)
  BY <1>1, WorkComes
<1>4. pos + 1 <= Len(buf)
  BY <1>1, UnreadProperties, Now
<1> HIDE DEF o, units, object
<1>5. CASE Unread[1].ok
  <2>1. ~IsBroken(units, o)
    <3>1. Cur.type \notin BulkTypes /\ Cur.type \notin AggregateTypes /\ Cur.type # "verb" /\ Cur.type \in LineTypes
      BY <1>1, TypesDisjoint
    <3> QED BY <1>2, <1>5, <3>1 DEF IsBroken
  <2>2. IsObject(units, o, object) /\ (Nth > Replies => stream.broken.at # Path)
    BY <1>3, <2>1
  <2>3. object = [type |-> Cur.type, n |-> Unread[1].n]
    <3>1. Cur.type \notin BulkTypes /\ Cur.type \notin AggregateTypes /\ Cur.type \in LineTypes
      BY <1>1, TypesDisjoint
    <3> QED BY <1>2, <2>2, <3>1 DEF IsObject
  <2>4. 1 + 1 = UnitsOf([type |-> Cur.type, n |-> Unread[1].n])
    BY <1>1, TypesDisjoint DEF UnitsOf
  <2>5. Item(Cur.type, Unread[1].n, 1)
    BY <1>5 DEF ProcessLineItem
  <2>6. 1 \in 1 .. 2 /\ Cur.type \notin AggregateTypes
    BY <1>1, TypesDisjoint
  <2> QED BY <1>1, <1>2, <1>4, <2>2, <2>3, <2>4, <2>5, <2>6, ItemArrives DEF object
<1>6. CASE ~Unread[1].ok
  <2>1. ~IsObject(units, o, object)
    BY <1>2, <1>6 DEF IsObject
  <2>2. SetError("protocol")
    BY <1>6 DEF ProcessLineItem
  <2> QED BY <1>3, <2>1, <2>2, SetErrorArrives
<1> QED BY <1>5, <1>6

(* processBulkItem makes the object that the server sent.                   *)
LEMMA ProcessBulkItemArrives == ASSUME ArrivalInv, ProcessBulkItem PROVE ArrivalInv'
<1> DEFINE o == Offset(Path)
           units == stream.units
           object == Coming[Path]
           n == Unread[1].n
<1>1. /\ pc = "reading" /\ err = "none" /\ task # <<>> /\ Cur.type \in BulkTypes /\ Cur.type # "none"
      /\ Comes("line") /\ Unread # <<>> /\ ReaderInv
  BY ReadingMeans, TypesKnown DEF ProcessBulkItem, Comes, ArrivalInv
<1>2. /\ HasMore /\ AtWork(Path) /\ HasLine(units, o) /\ HasType(units, o) /\ Unread[1] = units[o + 2]
      /\ units[o + 1].type = Cur.type /\ n \in Int
      /\ Len(Unread) > 1 => Unread[2] = units[o + 3] /\ o + 3 \in DOMAIN units
  BY <1>1, LineComes DEF HasLine
<1>3. \/ IsObject(units, o, object) /\ (Nth > Replies => stream.broken.at # Path)
      \/ stream.bad /\ Len(got) = Replies /\ IsBroken(units, o)
  BY <1>1, WorkComes
<1>4. pos + 1 <= Len(buf) /\ (Len(Unread) > 1 => pos + 2 <= Len(buf))
  BY <1>1, UnreadProperties, Now
<1>5. n = units[o + 2].n
  BY <1>2
<1> HIDE DEF o, units, object
<1>6. Cur.type \notin AggregateTypes /\ Cur.type \notin LineTypes
  BY <1>1, TypesDisjoint
<1>7. CASE ~Unread[1].ok \/ n < -1
  <2>1. ~IsObject(units, o, object)
    <3> HIDE DEF n
    <3> QED BY <1>2, <1>5, <1>6, <1>7 DEF IsObject
  <2>2. SetError("protocol")
    BY <1>7 DEF ProcessBulkItem
  <2> QED BY <1>3, <2>1, <2>2, SetErrorArrives
<1>8. CASE Unread[1].ok /\ n = -1
  <2>1. ~IsBroken(units, o)
    BY <1>2, <1>5, <1>6, <1>8 DEF IsBroken
  <2>2. IsObject(units, o, object) /\ (Nth > Replies => stream.broken.at # Path)
    BY <1>3, <2>1
  <2>3. object = [type |-> "nil", n |-> 0]
    BY <1>2, <1>5, <1>6, <1>8, <2>2 DEF IsObject
  <2>4. 1 + 1 = UnitsOf([type |-> "nil", n |-> 0])
    BY TypesDisjoint DEF UnitsOf
  <2>5. Item("nil", 0, 1)
    BY <1>8 DEF ProcessBulkItem
  <2>6. 1 \in 1 .. 2 /\ "nil" \notin AggregateTypes
    BY TypesDisjoint
  <2> QED BY <1>1, <1>2, <1>4, <2>2, <2>3, <2>4, <2>5, <2>6, ItemArrives DEF object
<1>9. CASE Unread[1].ok /\ n >= 0
  <2>1. /\ Len(Unread) > 1
        /\ IF Cur.type = "verb" /\ ~Unread[2].ok THEN SetError("protocol") ELSE Item(Cur.type, n, 2)
    BY <1>2, <1>9 DEF ProcessBulkItem
  <2>2. CASE Cur.type = "verb" /\ ~Unread[2].ok
    <3>1. ~IsObject(units, o, object)
      BY <1>2, <1>5, <1>6, <1>9, <2>1, <2>2 DEF IsObject
    <3> QED BY <1>3, <2>1, <2>2, <3>1, SetErrorArrives
  <2>3. CASE ~(Cur.type = "verb" /\ ~Unread[2].ok)
    <3>1. ~IsBroken(units, o)
      BY <1>2, <1>5, <1>6, <1>9, <2>1, <2>3 DEF IsBroken
    <3>2. IsObject(units, o, object) /\ (Nth > Replies => stream.broken.at # Path)
      BY <1>3, <3>1
    <3>3. object = [type |-> Cur.type, n |-> n]
      BY <1>2, <1>5, <1>6, <1>9, <3>2 DEF IsObject
    <3>4. 2 + 1 = UnitsOf([type |-> Cur.type, n |-> n])
      BY <1>1 DEF UnitsOf
    <3>5. 2 \in 1 .. 2 /\ pos + 2 <= Len(buf) /\ Item(Cur.type, n, 2)
      BY <1>4, <2>1, <2>3
    <3> HIDE DEF n
    <3> QED BY <1>1, <1>2, <1>6, <3>2, <3>3, <3>4, <3>5, ItemArrives DEF object
  <2> QED BY <2>2, <2>3
<1> HIDE DEF n
<1> QED BY <1>2, <1>7, <1>8, <1>9

(* processAggregateItem makes the object that the server sent.              *)
LEMMA ProcessAggregateItemArrives == ASSUME ArrivalInv, ProcessAggregateItem PROVE ArrivalInv'
<1> DEFINE o == Offset(Path)
           units == stream.units
           object == Coming[Path]
           n == Unread[1].n
<1>1. /\ pc = "reading" /\ err = "none" /\ task # <<>> /\ Cur.type \in AggregateTypes /\ Cur.type # "none"
      /\ Comes("line") /\ Unread # <<>> /\ ReaderInv /\ ~NeedsGrow
  BY ReadingMeans, TypesKnown DEF ProcessAggregateItem, Comes, ArrivalInv
<1>2. /\ HasMore /\ AtWork(Path) /\ HasLine(units, o) /\ HasType(units, o) /\ Unread[1] = units[o + 2]
      /\ units[o + 1].type = Cur.type /\ n \in Int
  BY <1>1, LineComes DEF HasLine
<1>3. \/ IsObject(units, o, object) /\ (Nth > Replies => stream.broken.at # Path)
      \/ stream.bad /\ Len(got) = Replies /\ IsBroken(units, o)
  BY <1>1, WorkComes
<1>4. pos + 1 <= Len(buf) /\ pos < Len(buf)
  BY <1>1, UnreadProperties, Now
<1>5. n = units[o + 2].n
  BY <1>2
<1> HIDE DEF o, units, object
<1>6. Cur.type \notin LineTypes /\ Cur.type \notin BulkTypes /\ Cur.type # "verb"
  BY <1>1, TypesDisjoint
<1>7. CASE ~Unread[1].ok \/ n < -1 \/ TooLong(n)
  <2>1. ~IsObject(units, o, object)
    <3>1. n # -1 \/ ~Unread[1].ok
      BY <1>2, <1>7, ReaderAssumption DEF TooLong
    <3>2. ~(n >= 0 /\ ~TooLong(n) /\ Unread[1].ok)
      BY <1>2, <1>7
    <3> HIDE DEF n
    <3> QED BY <1>2, <1>5, <1>6, <3>1, <3>2 DEF IsObject
  <2>2. SetError("protocol")
    BY <1>7 DEF ProcessAggregateItem, TooLong
  <2> QED BY <1>3, <2>1, <2>2, SetErrorArrives
<1>8. CASE Unread[1].ok /\ n = -1 /\ ~TooLong(n)
  <2>1. ~IsBroken(units, o)
    BY <1>2, <1>5, <1>6, <1>8 DEF IsBroken
  <2>2. IsObject(units, o, object) /\ (Nth > Replies => stream.broken.at # Path)
    BY <1>3, <2>1
  <2>3. object = [type |-> "nil", n |-> 0]
    BY <1>2, <1>5, <1>6, <1>8, <2>2 DEF IsObject
  <2>4. 1 + 1 = UnitsOf([type |-> "nil", n |-> 0])
    BY TypesDisjoint DEF UnitsOf
  <2>5. Item("nil", 0, 1)
    BY <1>8 DEF ProcessAggregateItem, TooLong
  <2>6. 1 \in 1 .. 2 /\ "nil" \notin AggregateTypes
    BY TypesDisjoint
  <2> QED BY <1>1, <1>2, <1>4, <2>2, <2>3, <2>4, <2>5, <2>6, ItemArrives DEF object
<1>9. CASE Unread[1].ok /\ n >= 0 /\ ~TooLong(n)
  <2>1. ~IsBroken(units, o)
    BY <1>2, <1>5, <1>6, <1>9 DEF IsBroken
  <2>2. IsObject(units, o, object) /\ (Nth > Replies => stream.broken.at # Path)
    BY <1>3, <2>1
  <2>3. object = [type |-> Cur.type, n |-> Doubled(Cur.type, n)]
    BY <1>2, <1>5, <1>6, <1>9, <2>2 DEF IsObject
  <2>4. CASE n = 0
    <3>1. Doubled(Cur.type, n) = 0
      BY <2>4 DEF Doubled
    <3>2. object = [type |-> Cur.type, n |-> 0]
      BY <2>3, <3>1
    <3>3. 1 + 1 = UnitsOf([type |-> Cur.type, n |-> 0])
      BY <1>6 DEF UnitsOf
    <3>4. Item(Cur.type, 0, 1)
      BY <1>9, <2>4 DEF ProcessAggregateItem, TooLong
    <3>5. 1 \in 1 .. 2 /\ (Cur.type \notin AggregateTypes \/ 0 <= 0)
      OBVIOUS
    <3> QED BY <1>1, <1>2, <1>4, <2>2, <3>2, <3>3, <3>4, <3>5, ItemArrives DEF object
  <2>5. CASE n # 0
    <3> DEFINE elements == Doubled(Cur.type, n)
    <3>1. n \in Int /\ n > 0
      BY <1>2, <1>9, <2>5
    <3>2. PushTask(elements)
      BY <1>9, <3>1 DEF ProcessAggregateItem, TooLong, Doubled
    <3>3. elements \in Nat /\ elements > 0
      <4> HIDE DEF n
      <4> QED BY <3>1 DEF Doubled
    <3> HIDE DEF n, elements
    <3>4. object = [type |-> Cur.type, n |-> elements]
      BY <2>3 DEF elements
    <3> QED BY <1>1, <1>2, <1>4, <2>2, <3>2, <3>3, <3>4, PushArrives DEF object
  <2> QED BY <2>4, <2>5
<1> HIDE DEF n
<1>10. n < -1 \/ n = -1 \/ n >= 0
  BY <1>2
<1> QED BY <1>7, <1>8, <1>9, <1>10

(* redisReaderGrow changes nothing else.                                    *)
LEMMA GrowArrives == ASSUME ArrivalInv, Grow PROVE ArrivalInv'
<1>0. ReaderInv /\ GotInv /\ ReaderInv' /\ err = "none" /\ pc = "reading" /\ Progress
  BY GrowStep DEF ArrivalInv, Grow, Reading
<1>1. ASSUME UNCHANGED <<stream, fed, buf, pos, task, reply, err, pc, got, dry>> PROVE ArrivalInv'
  <2>1. Consumed' = Consumed
    BY <1>1 DEF Consumed
  <2>2. Progress'
    BY <1>0, <1>1, <2>1, ProgressSame
  <2> QED BY <1>0, <1>1, <2>2, ReadingArrives
<1>2. CASE SetError("oom")
  BY <1>2, SetErrorArrives
<1> QED BY <1>1, <1>2 DEF Grow

(* The reader begins with the first reply.                                  *)
LEMMA ArrivalInit == ReaderInit => ArrivalInv
<1> SUFFICES ASSUME ReaderInit PROVE ArrivalInv
  OBVIOUS
<1>1. ReaderInv
  BY ReaderInitInv
<1>2. /\ stream \in Streams /\ fed = 0 /\ buf = <<>> /\ pos = 0 /\ task = <<>> /\ reply = NoReply
      /\ err = "none" /\ pc = "idle" /\ got = <<>> /\ dry = FALSE /\ Len(<<>>) = 0
  BY DEF ReaderInit
<1>3. Replies \in Nat
  BY <1>2, StreamMeans DEF Replies
<1>4. GotInv
  <2>1. <<>> \in Seq({stream.replies[i] : i \in 1 .. Replies})
    OBVIOUS
  <2> QED BY <1>2, <1>3, <2>1 DEF GotInv
<1>5. BufferInv /\ ErrInv /\ DryInv
  BY <1>2 DEF BufferInv, ErrInv, DryInv
<1>6. Progress
  <2>1. Nth = 1 /\ Consumed = 0
    <3>1. Len(got) = 0 /\ Len(buf) = 0
      BY <1>2
    <3>2. Nth = 0 + 1 /\ Consumed = 0 - 0 + 0
      BY <1>2, <3>1, Zenon DEF Nth, Consumed
    <3> QED BY <3>2
  <2>2. Start(stream, Nth) = 0
    BY <2>1 DEF Start
  <2> QED BY <1>2, <2>1, <2>2 DEF Progress
<1> QED BY <1>1, <1>4, <1>5, <1>6 DEF ArrivalInv

(* Every step of the reader keeps the reply at work in its place.           *)
LEMMA ArrivalStep ==
    ASSUME ArrivalInv, [ReaderNext]_readerVars
    PROVE  ArrivalInv'
<1>1. CASE UNCHANGED readerVars
  <2>1. ReaderInv' /\ GotInv /\ UNCHANGED readerVars
    BY <1>1, ReaderStep DEF ArrivalInv
  <2>2. UNCHANGED <<stream, fed, buf, pos, task, reply, err, pc, got, dry>>
    BY <1>1 DEF readerVars
  <2>3. GotInv'
    BY <2>1, <2>2, GotSame
  <2>4. Consumed' = Consumed
    BY <2>2 DEF Consumed
  <2>5. err = "none" => Progress'
    BY <2>1, <2>2, <2>4, ProgressSame DEF ArrivalInv
  <2>6. (err = "none" => BufferInv)'
    BY <2>2 DEF ArrivalInv, BufferInv
  <2>7. ErrInv' /\ DryInv'
    BY <2>2 DEF ArrivalInv, ErrInv, DryInv, Starved, Comes, Unread, Cur, Replies
  <2> QED BY <2>1, <2>2, <2>3, <2>5, <2>6, <2>7 DEF ArrivalInv
<1> QED BY <1>1, FeedArrives, GetReplyArrives, GetReplyReturnsArrives, ReadTypeArrives, ProcessLineItemArrives,
           ProcessBulkItemArrives, GrowArrives, ProcessAggregateItemArrives DEF ReaderNext

(* The reply at work is always in its place.                                *)
LEMMA ArrivalKept == ReaderSpec => []ArrivalInv
<1>1. ArrivalInv /\ [ReaderNext]_readerVars => ArrivalInv'
  BY ArrivalStep
<1> QED BY ArrivalInit, <1>1, PTL DEF ReaderSpec

(* For every stream of replies, whatever they nest, however it is cut in    *)
(* pieces and whatever memory is refused, redisReaderGetReply returns the   *)
(* replies that were sent, whole, in their order and once; and it reports a *)
(* protocol error only for a stream with a break, and behind all of the     *)
(* replies before it.                                                       *)
THEOREM RepliesArriveAsSent == ReaderSpec => []RepliesAsSent
<1>1. ArrivalInv => RepliesAsSent
  <2> SUFFICES ASSUME ArrivalInv PROVE RepliesAsSent
    OBVIOUS
  <2>1. ReaderInv /\ GotInv /\ ErrInv
    BY DEF ArrivalInv
  <2>2. DOMAIN got = 1 .. Len(got)
    BY <2>1, GotMeans
  <2> QED BY <2>1, <2>2 DEF GotInv, ErrInv, Replies, RepliesAsSent
<1> QED BY <1>1, ArrivalKept, PTL

(* What is missing to a reader that has nothing to return.                  *)
LEMMA StarvedMisses ==
    ASSUME ArrivalInv, err = "none", task # <<>>, Starved, HasMore
    PROVE  /\ fed < Len(stream.units)
           /\ Nth <= Replies => fed < stream.ends[Nth] /\ Start(stream, Nth) <= fed
<1> DEFINE o == Offset(Path)
           units == stream.units
           object == Coming[Path]
<1>1. ReaderInv /\ GotInv /\ BufferInv /\ Progress
  BY DEF ArrivalInv
<1>2. AtWork(Path)
  BY <1>1, PathIsPathTo DEF Progress
<1>3. Path \in DOMAIN Coming /\ (Nth > Replies => stream.broken.at \notin Earlier(Coming, Path))
  BY <1>2 DEF AtWork
<1>4. /\ Whole(Coming) /\ o \in Nat
      /\ \/ IsObject(units, o, object) /\ (Nth > Replies => stream.broken.at # Path)
         \/ Nth > Replies /\ IsBroken(units, o)
  BY <1>1, <1>3, ObjectComes
<1>5. Consumed = IF Cur.type = "none" THEN o ELSE o + 1
  BY <1>2 DEF AtWork
<1>6. Cur.type # "none" => HasType(units, o) /\ units[o + 1].type = Cur.type
  BY <1>2, <1>5 DEF AtWork
<1>7. DOMAIN units = 1 .. Len(units) /\ Len(units) \in Nat
  BY <1>1, Now, LenProperties
<1>8. Consumed + Len(Unread) = fed /\ Len(Unread) \in Nat /\ (Unread = <<>> => Len(Unread) = 0)
  BY <1>1, UnreadComes, EmptySeq
<1> DEFINE waits == Cur.type \in BulkTypes /\ Comes("line") /\ Unread[1].ok /\ Unread[1].n >= 0 /\ Len(Unread) = 1
<1>9. CASE waits
  <2>1. Cur.type \in BulkTypes /\ Cur.type # "none" /\ Cur.type \notin LineTypes /\ Cur.type \notin AggregateTypes
    BY <1>9, TypesDisjoint
  <2>2. HasLine(units, o) /\ Unread[1] = units[o + 2] /\ Unread[1].n \in Int
    BY <1>9, <2>1, LineComes
  <2>3. fed = o + 2
    <3>1. Consumed = o + 1 /\ Len(Unread) = 1
      BY <1>5, <1>9, <2>1
    <3> HIDE DEF o, Consumed
    <3> QED BY <1>4, <1>8, <3>1
  <2>4. units[o + 2].ok /\ units[o + 2].n >= 0 /\ units[o + 2].n \in Int /\ units[o + 1].type = Cur.type /\ HasType(units, o)
    BY <1>6, <1>9, <2>1, <2>2
  <2> HIDE DEF o, units, object, Consumed
  <2>5. o + 3 \in DOMAIN units
    <3>1. CASE IsObject(units, o, object)
      BY <2>1, <2>4, <3>1 DEF IsObject
    <3>2. CASE IsBroken(units, o)
      BY <2>1, <2>4, <3>2 DEF IsBroken
    <3> QED BY <1>4, <3>1, <3>2
  <2>6. fed < Len(units) /\ o <= fed
    BY <1>4, <1>7, <2>3, <2>5
  <2>7. IsObject(units, o, object) => UnitsOf(object) = 3
    <3>1. IsObject(units, o, object) => object = [type |-> Cur.type, n |-> units[o + 2].n]
      BY <2>1, <2>4 DEF IsObject
    <3> QED BY <2>1, <3>1 DEF UnitsOf
  <2>8. Nth <= Replies => fed < stream.ends[Nth] /\ Start(stream, Nth) <= fed
    <3> SUFFICES ASSUME Nth <= Replies PROVE fed < stream.ends[Nth] /\ Start(stream, Nth) <= fed
      OBVIOUS
    <3>1. UnitsOf(object) = 3
      BY <1>1, <1>4, <2>7, GotMeans
    <3>2. Coming = stream.replies[Nth] /\ Nth \in 1 .. Len(stream.replies) /\ stream \in Streams
      BY <1>1, GotMeans DEF Coming, Replies
    <3>3. stream.ends[Nth] = Start(stream, Nth) + Units(Coming, DOMAIN Coming)
      BY <3>2, ReplyMeans
    <3>4. Units(Coming, Earlier(Coming, Path)) + 3 <= Units(Coming, DOMAIN Coming) /\ Units(Coming, Earlier(Coming, Path)) \in Nat
      BY <1>3, <1>4, <3>1, EarlierMeans DEF object
    <3>5. o = Start(stream, Nth) + Units(Coming, Earlier(Coming, Path)) /\ Start(stream, Nth) \in Nat
      BY <1>1, GotMeans DEF o, Offset
    <3>6. Units(Coming, DOMAIN Coming) \in Nat
      BY <1>4, UnitsCounted
    <3> QED BY <2>3, <3>3, <3>4, <3>5, <3>6
  <2> QED BY <2>6, <2>8 DEF units
<1>10. CASE Unread = <<>>
  <2>1. fed = Consumed /\ (fed = o \/ fed = o + 1) /\ (fed = o + 1 => Cur.type # "none" \/ FALSE)
    <3>1. Len(Unread) = 0 /\ Consumed \in Nat
      BY <1>1, <1>8, <1>10, Now
    <3>2. Consumed = fed
      <4> HIDE DEF Consumed
      <4> QED BY <1>8, <3>1
    <3> HIDE DEF o, Consumed
    <3> QED BY <1>4, <1>5, <3>2
  <2> HIDE DEF o, units, object, Consumed
  <2>2. o + 2 \in DOMAIN units \/ (o + 1 \in DOMAIN units /\ ~HasType(units, o))
    BY <1>4 DEF IsObject, IsBroken, HasLine
  <2>3. fed < Len(units)
    <3>1. CASE o + 2 \in DOMAIN units
      BY <1>4, <1>7, <2>1, <3>1
    <3>2. CASE o + 1 \in DOMAIN units /\ ~HasType(units, o)
      <4>1. fed = o
        BY <1>6, <2>1, <3>2
      <4> QED BY <1>4, <1>7, <3>2, <4>1
    <3> QED BY <2>2, <3>1, <3>2
  <2>4. Nth <= Replies => fed < stream.ends[Nth] /\ Start(stream, Nth) <= fed
    <3> SUFFICES ASSUME Nth <= Replies PROVE fed < stream.ends[Nth] /\ Start(stream, Nth) <= fed
      OBVIOUS
    <3>1. UnitsOf(object) >= 2 /\ UnitsOf(object) \in Nat
      BY DEF UnitsOf
    <3>2. Coming = stream.replies[Nth] /\ Nth \in 1 .. Len(stream.replies) /\ stream \in Streams
      BY <1>1, GotMeans DEF Coming, Replies
    <3>3. stream.ends[Nth] = Start(stream, Nth) + Units(Coming, DOMAIN Coming)
      BY <3>2, ReplyMeans
    <3>4. Units(Coming, Earlier(Coming, Path)) + UnitsOf(object) <= Units(Coming, DOMAIN Coming)
          /\ Units(Coming, Earlier(Coming, Path)) \in Nat
      BY <1>3, <1>4, EarlierMeans DEF object
    <3>5. o = Start(stream, Nth) + Units(Coming, Earlier(Coming, Path)) /\ Start(stream, Nth) \in Nat
      BY <1>1, GotMeans DEF o, Offset
    <3>6. Units(Coming, DOMAIN Coming) \in Nat
      BY <1>4, UnitsCounted
    <3> QED BY <2>1, <3>1, <3>3, <3>4, <3>5, <3>6
  <2> QED BY <2>3, <2>4 DEF units
<1> QED BY <1>9, <1>10 DEF Starved

(* For the same streams: when redisReaderGetReply has nothing to return,    *)
(* every reply that came in full was returned, and a break that came in     *)
(* full was reported.                                                       *)
THEOREM NothingIsWithheld == ReaderSpec => []NothingWithheld
<1>1. ArrivalInv => NothingWithheld
  <2> SUFFICES ASSUME ArrivalInv, pc = "idle", dry, err = "none"
               PROVE  /\ Len(got) = Cardinality({i \in DOMAIN stream.ends : stream.ends[i] <= fed})
                      /\ (stream.bad => fed < Len(stream.units))
    BY DEF NothingWithheld
  <2>1. ReaderInv /\ GotInv /\ Progress /\ task # <<>> /\ Starved
    BY DEF ArrivalInv, DryInv
  <2>2. stream.bad => fed < Len(stream.units)
    BY <2>1, StarvedMisses DEF HasMore
  <2>3. /\ stream \in Streams /\ DOMAIN stream.ends = 1 .. Replies /\ Replies \in Nat
        /\ Len(got) \in Nat /\ Nth = Len(got) + 1 /\ Nth \in 1 .. Replies + 1
        /\ \A i \in 1 .. Replies : stream.ends[i] \in Nat
    BY <2>1, GotMeans, StreamMeans, ElementOfSeq DEF Replies, Nth
  <2>4. fed \in Nat /\ Start(stream, Nth) \in Nat
    BY <2>1, Now, GotMeans
  <2>5. Start(stream, Nth) <= fed
    <3>1. CASE Nth <= Replies
      BY <2>1, <3>1, StarvedMisses DEF HasMore
    <3>2. CASE ~(Nth <= Replies) /\ ~stream.bad
      <4>1. Consumed = Len(stream.units)
        BY <2>1, <3>2 DEF Progress, HasMore
      <4>2. Start(stream, Nth) = Len(stream.units)
        <5>1. Nth = Len(stream.replies) + 1
          BY <2>3, <3>2 DEF Replies
        <5> QED BY <2>3, <3>2, <5>1, BrokenMeans
      <4>3. Consumed <= fed
        BY <2>1, Now
      <4> HIDE DEF Consumed
      <4> QED BY <4>1, <4>2, <4>3
    <3>3. CASE ~(Nth <= Replies) /\ stream.bad
      <4>1. AtWork(Path)
        BY <2>1, <3>3, PathIsPathTo DEF Progress, HasMore
      <4>2. Path \in DOMAIN Coming /\ Whole(Coming)
        BY <2>1, <3>3, <4>1, ObjectComes DEF AtWork, HasMore
      <4>3. Units(Coming, Earlier(Coming, Path)) \in Nat
        BY <4>2, EarlierMeans
      <4>4. Start(stream, Nth) <= Consumed
        <5>1. Consumed = Offset(Path) \/ Consumed = Offset(Path) + 1
          BY <4>1 DEF AtWork
        <5> HIDE DEF Consumed
        <5> QED BY <2>4, <4>3, <5>1 DEF Offset
      <4>5. Consumed <= fed /\ Consumed \in Nat
        BY <2>1, <2>4, Now
      <4> HIDE DEF Consumed
      <4> QED BY <2>4, <4>4, <4>5
    <3> QED BY <3>1, <3>2, <3>3, <2>3
  <2>6. ASSUME NEW i \in 1 .. Replies PROVE stream.ends[i] <= fed <=> i <= Len(got)
    <3>1. CASE i <= Len(got)
      <4>1. Len(got) \in i .. Replies /\ Nth # 1 /\ Nth - 1 = Len(got)
        BY <2>3, <3>1
      <4>2. stream.ends[i] <= stream.ends[Len(got)]
        BY <2>3, <4>1, EndsIncrease DEF Replies
      <4>3. stream.ends[Len(got)] = Start(stream, Nth)
        BY <4>1 DEF Start
      <4>4. stream.ends[i] \in Nat
        BY <2>3
      <4> QED BY <2>4, <2>5, <3>1, <4>2, <4>3, <4>4
    <3>2. CASE ~(i <= Len(got))
      <4>1. i \in Nth .. Replies /\ Nth \in 1 .. Replies /\ Nth <= Replies
        BY <2>3, <3>2
      <4>2. stream.ends[Nth] <= stream.ends[i]
        BY <2>3, <4>1, EndsIncrease DEF Replies
      <4>3. fed < stream.ends[Nth]
        BY <2>1, <4>1, StarvedMisses DEF HasMore
      <4>4. stream.ends[i] \in Nat /\ stream.ends[Nth] \in Nat
        BY <2>3, <4>1
      <4> QED BY <2>4, <3>2, <4>2, <4>3, <4>4
    <3> QED BY <3>1, <3>2
  <2>7. {i \in DOMAIN stream.ends : stream.ends[i] <= fed} = 1 .. Len(got)
    BY <2>3, <2>6
  <2>8. Cardinality(1 .. Len(got)) = Len(got)
    <3>1. \A k \in Int : Cardinality(1 .. k) = IF 1 > k THEN 0 ELSE k - 1 + 1
      BY FS_Interval
    <3> QED BY <2>3, <3>1
  <2> QED BY <2>2, <2>7, <2>8
<1> QED BY <1>1, ArrivalKept, PTL
===============================================================================
