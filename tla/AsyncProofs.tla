---------------------------- MODULE AsyncProofs ----------------------------
(***************************************************************************)
(* Proofs about the asynchronous context, for any application, server and  *)
(* event loop: when it is torn down, that nothing is registered with the   *)
(* event library afterwards, and in which order commands are settled; then *)
(* that it finds what it looks for in the replies of the server, and so    *)
(* implements AsyncPromise, for the applications that Orderly describes.   *)
(*                                                                         *)
(* Why the second part holds is said by the conversation (Talk): there is  *)
(* a list of the confirmations still to come, the ledger, and every reply  *)
(* on its way and every command that is not sent has its place along it.   *)
(***************************************************************************)
EXTENDS AsyncProperties, FiniteSetTheorems, TLAPS

(* Where the library still uses the adapter when the function that runs, or *)
(* the callback that it called, is done.                                    *)
Working == {"read", "write", "process", "timeout"}
WorkingFrames == {"reply", "push", "connected", "refused", "timeout"}

(* A callback runs exactly while REDIS_IN_CALLBACK is set.                  *)
FrameInv ==
    /\ pc = "callback" <=> frame.at # "none"
    /\ pc = "callback" <=> "in_callback" \in flags

(* Once the adapter is cleaned up, or the context is being freed, no        *)
(* command is accepted.                                                     *)
EndInv ==
    /\ ~attached => events = {} /\ ~Accepting
    /\ pc \in Working \/ frame.at \in WorkingFrames => attached
    /\ pc = "free" \/ frame.at \in {"free", "gone"} => ~Accepting

(* The handler that called the connect callback goes on after it, and an    *)
(* error is set before the callback hears of it.                            *)
ConnectInv ==
    /\ frame.at = "connected" => handler \in {"read", "write"}
    /\ frame.at = "refused" => err = TRUE

ControlInv == FrameInv /\ EndInv /\ ConnectInv

control == <<flags, err, events, attached, pc, handler, frame>>

(* When redisAsyncConnect has returned.                                     *)
LEMMA InitControl == Init => ControlInv
BY DEF Init, ControlInv, FrameInv, EndInv, ConnectInv, NoFrame, Accepting, Working, WorkingFrames

(* What the server and the network do leaves the control alone.             *)
LEMMA ControlKept == ASSUME ControlInv, UNCHANGED control PROVE ControlInv'
BY DEF control, ControlInv, FrameInv, EndInv, ConnectInv, Accepting

-----------------------------------------------------------------------------
(* A callback is called.                                                    *)
LEMMA RunCallbackKeeps ==
    ASSUME ControlInv, NEW at \in Frames \ {"none"}, NEW id, NEW f, RunCallback(at, id, f),
           flags \cap {"disconnecting", "freeing"} \subseteq f,
           UNCHANGED <<events, attached>>,
           at \in WorkingFrames => attached,
           at \in {"free", "gone"} => ~Accepting,
           at = "connected" => handler' \in {"read", "write"},
           at = "refused" => err' = TRUE
    PROVE  ControlInv'
BY DEF RunCallback, ControlInv, FrameInv, EndInv, ConnectInv, Accepting, Frames, Working,
       WorkingFrames

(* ... or not, for a command that has none, and the function goes on.       *)
LEMMA ReplyCallbackKeeps ==
    ASSUME ControlInv, pc \in {"process", "timeout", "free"},
           NEW at \in {"reply", "timeout", "free"}, NEW id, NEW got, NEW f,
           RunReplyCallback(id, got, at, f), UNCHANGED <<err, events, attached, handler>>,
           at \in WorkingFrames => pc \in Working, at = "free" => pc = "free",
           flags \cap {"disconnecting", "freeing", "in_callback"} \subseteq f,
           "in_callback" \in f => "in_callback" \in flags
    PROVE  ControlInv'
<1>1. CASE HasCallback(id)
  <2>1. RunCallback(at, id, f)
    BY <1>1 DEF RunReplyCallback
  <2>2. at \in Frames \ {"none"}
    BY DEF Frames
  <2>3. (at \in WorkingFrames => attached) /\ (at = "free" => ~Accepting)
    BY DEF ControlInv, EndInv
  <2> QED
    BY <2>1, <2>2, <2>3, RunCallbackKeeps
<1>2. CASE ~HasCallback(id)
  <2>1. flags' = f /\ UNCHANGED <<pc, frame>>
    BY <1>2 DEF RunReplyCallback
  <2> QED
    BY <2>1 DEF ControlInv, FrameInv, EndInv, ConnectInv, Accepting
<1> QED
  BY <1>1, <1>2

(* __redisAsyncDisconnect is called for an error, or to end the connection. *)
LEMMA EnterDisconnectKeeps ==
    ASSUME ControlInv, NEW f, NEW e, EnterDisconnect(f, e), frame'.at = "none",
           "in_callback" \notin f,
           e = TRUE \/ f \cap {"disconnecting", "freeing"} # {},
           ~attached => f \cap {"disconnecting", "freeing"} # {}
    PROVE  ControlInv'
BY DEF EnterDisconnect, ControlInv, FrameInv, EndInv, ConnectInv, Accepting, Working,
       WorkingFrames

LEMMA AsyncDisconnectKeeps ==
    ASSUME ControlInv, NEW f, AsyncDisconnect(f), frame'.at = "none", "in_callback" \notin f
    PROVE  ControlInv'
<1> DEFINE g == (f \cup {"disconnecting"}) \ {"no_auto_free"}
<1>1. "disconnecting" \in g /\ "in_callback" \notin g
  OBVIOUS
<1> HIDE DEF g
<1>2. CASE EnterDisconnect(g, err)
  BY <1>1, <1>2, EnterDisconnectKeeps
<1>3. CASE flags' = g /\ pc' = "idle" /\ UNCHANGED <<err, attached, events>>
  BY <1>1, <1>3 DEF ControlInv, FrameInv, EndInv, ConnectInv, Accepting, Working, WorkingFrames
<1> QED
  BY <1>2, <1>3 DEF AsyncDisconnect, g

-----------------------------------------------------------------------------
(* The application.                                                         *)
LEMMA IssueKeeps ==
    ASSUME ControlInv, NEW command, NEW f, IssueCommand(command, f),
           flags \subseteq f, "in_callback" \in f => "in_callback" \in flags
    PROVE  ControlInv'
<1>1. attached /\ UNCHANGED <<attached, pc, handler, frame, err>> /\ flags' = f /\ Accepting
  BY DEF IssueCommand, loopVars, ControlInv, EndInv
<1> QED
  BY <1>1 DEF ControlInv, FrameInv, EndInv, ConnectInv, Accepting

LEMMA ApplicationKeeps ==
    ASSUME ControlInv, Application PROVE ControlInv'
<1>1. CASE Call
  BY <1>1, IssueKeeps DEF Call
<1>2. ASSUME NEW names \in Targets, Subscribe(names) PROVE ControlInv'
  BY <1>2, IssueKeeps DEF Subscribe
<1>3. ASSUME NEW names \in Targets, Unsubscribe(names) PROVE ControlInv'
  BY <1>3, IssueKeeps DEF Unsubscribe
<1>4. ASSUME NEW kind \in Kinds, UnsubscribeAll(kind) PROVE ControlInv'
  BY <1>4, IssueKeeps DEF UnsubscribeAll
<1>5. CASE Disconnect
  <2>1. CASE "in_callback" \in flags
    BY <1>5, <2>1 DEF Disconnect, ControlInv, FrameInv, EndInv, ConnectInv, Accepting
  <2>2. CASE "in_callback" \notin flags
    <3>1. frame' = frame /\ frame.at = "none"
      BY <1>5, <2>2 DEF Disconnect, AppRuns, ControlInv, FrameInv
    <3> QED
      BY <1>5, <2>2, <3>1, AsyncDisconnectKeeps DEF Disconnect
  <2> QED
    BY <2>1, <2>2
<1>6. CASE Free
  BY <1>6 DEF Free, AppRuns, ControlInv, FrameInv, EndInv, ConnectInv, Accepting, Working
<1> QED
  BY <1>1, <1>2, <1>3, <1>4, <1>5, <1>6 DEF Application

-----------------------------------------------------------------------------
(* redisProcessCallbacks.                                                   *)
LEMMA SeenFlagsType ==
    /\ flags \subseteq SeenFlags
    /\ SeenFlags \subseteq flags \cup {"supports_push"}
BY DEF SeenFlags

LEMMA ProcessKeeps ==
    ASSUME ControlInv, Process PROVE ControlInv'
<1>1. pc = "process" /\ attached /\ frame.at = "none" /\ "in_callback" \notin flags
  BY DEF Process, NoReply, SpontaneousPush, ReplyToCommand, SpontaneousError, ConfirmSubscribe,
         PubSubMessage, ConfirmUnsubscribe, ReplyWhileSubscribed, ForSubscription,
         ControlInv, FrameInv, EndInv, Working
<1> DEFINE Ended(f) == flags \cap {"disconnecting", "freeing", "in_callback"} \subseteq f
                       /\ f \subseteq flags \cup {"supports_push"}
<1>2. ASSUME NEW f, Ended(f), RunCallback("reply", 0, f) \/ RunCallback("push", 0, f),
             UNCHANGED <<err, events, attached, handler>>
      PROVE  ControlInv'
  BY <1>1, <1>2, RunCallbackKeeps DEF Frames, WorkingFrames
<1>3. ASSUME NEW f, Ended(f), flags' = f, UNCHANGED <<pc, frame, err, events, attached, handler>>
      PROVE  ControlInv'
  BY <1>1, <1>3 DEF ControlInv, FrameInv, EndInv, ConnectInv, Accepting
<1>4. ASSUME Abort, UNCHANGED <<err, events, attached, handler>> PROVE ControlInv'
  BY <1>1, <1>4 DEF Abort, ControlInv, FrameInv, EndInv, ConnectInv, Accepting, Working
<1>5. Ended(SeenFlags) /\ Ended(SeenFlags \ {"subscribed"})
  BY SeenFlagsType
<1>6. ASSUME NEW kinds, ForSubscription(kinds) PROVE UNCHANGED <<err, events, attached, handler>>
  BY <1>6 DEF ForSubscription
<1>7. CASE NoReply
  <2>1. CASE EnterDisconnect(flags, err) /\ "disconnecting" \in flags /\ UNCHANGED frame
    BY <1>1, <2>1, EnterDisconnectKeeps
  <2>2. CASE pc' = "idle" /\ UNCHANGED <<flags, err, attached, events, frame, handler>>
    BY <1>1, <2>2 DEF ControlInv, FrameInv, EndInv, ConnectInv, Accepting, Working
  <2> QED
    BY <1>7, <2>1, <2>2 DEF NoReply
<1>8. CASE SpontaneousPush
  BY <1>2, <1>5, <1>8 DEF SpontaneousPush
<1>9. CASE ReplyToCommand
  <2>1. PICK id, got : RunReplyCallback(id, got, "reply", SeenFlags)
    BY <1>9 DEF ReplyToCommand
  <2>2. UNCHANGED <<err, events, attached, handler>>
    BY <1>9 DEF ReplyToCommand
  <2> QED
    BY <1>1, <2>1, <2>2, SeenFlagsType, ReplyCallbackKeeps DEF Working
<1>10. CASE SpontaneousError
  BY <1>1, <1>10, EnterDisconnectKeeps DEF SpontaneousError
<1>11. CASE ConfirmSubscribe
  BY <1>2, <1>4, <1>5, <1>6, <1>11 DEF ConfirmSubscribe
<1>12. CASE PubSubMessage
  BY <1>2, <1>3, <1>4, <1>5, <1>6, <1>12 DEF PubSubMessage
<1>13. CASE ConfirmUnsubscribe
  <2>1. UNCHANGED <<err, events, attached, handler>>
    BY <1>6, <1>13 DEF ConfirmUnsubscribe
  <2>2. \/ Abort
        \/ \E f \in {SeenFlags, SeenFlags \ {"subscribed"}} :
              RunCallback("reply", 0, f) \/ (flags' = f /\ UNCHANGED <<pc, frame>>)
    BY <1>13 DEF ConfirmUnsubscribe
  <2> QED
    BY <1>2, <1>3, <1>4, <1>5, <2>1, <2>2
<1>14. CASE ReplyWhileSubscribed
  <2>1. UNCHANGED <<err, events, attached, handler>>
    BY <1>6, <1>14 DEF ReplyWhileSubscribed
  <2>2. Abort \/ \E id, got : RunReplyCallback(id, got, "reply", SeenFlags)
    BY <1>14 DEF ReplyWhileSubscribed
  <2> QED
    BY <1>1, <1>4, <2>1, <2>2, SeenFlagsType, ReplyCallbackKeeps DEF Working
<1> QED
  BY <1>7, <1>8, <1>9, <1>10, <1>11, <1>12, <1>13, <1>14 DEF Process

-----------------------------------------------------------------------------
(* A callback returns to the function that called it.                       *)
LEMMA ContinueKeeps ==
    ASSUME ControlInv, pc = "callback", NEW next, Continue(next), frame'.at = "none",
           UNCHANGED handler,
           next \in {"idle", "process", "read", "write", "timeout", "free", "freed"},
           next \in Working => attached,
           next = "free" => ~Accepting
    PROVE  ControlInv'
BY DEF Continue, Callee, ControlInv, FrameInv, EndInv, ConnectInv, Accepting, Working,
       WorkingFrames

LEMMA ReturnsKeeps ==
    ASSUME ControlInv, CallbackReturns PROVE ControlInv'
<1>1. pc = "callback" /\ frame'.at = "none" /\ UNCHANGED handler
  BY DEF CallbackReturns, ReplyCallbackReturns, PushCallbackReturns, ConnectCallbackReturns,
         RefusedCallbackReturns, TimeoutCallbackReturns, FreeCallbackReturns,
         DisconnectCallbackReturns, Returns, KeepData, NoFrame
<1>2. "in_callback" \notin Callee
  BY DEF Callee
<1>3. "freeing" \in flags => ~Accepting
  BY DEF Accepting
<1>4. CASE ReplyCallbackReturns
  <2>1. attached
    BY <1>4 DEF ReplyCallbackReturns, Returns, ControlInv, EndInv, WorkingFrames
  <2> QED
    BY <1>1, <1>3, <1>4, <2>1, ContinueKeeps DEF ReplyCallbackReturns
<1>5. CASE PushCallbackReturns
  <2>1. attached
    BY <1>5 DEF PushCallbackReturns, Returns, ControlInv, EndInv, WorkingFrames
  <2> QED
    BY <1>1, <1>5, <2>1, ContinueKeeps DEF PushCallbackReturns
<1>6. CASE ConnectCallbackReturns
  <2>1. attached /\ handler \in {"read", "write"}
    BY <1>6 DEF ConnectCallbackReturns, Returns, ControlInv, EndInv, ConnectInv, WorkingFrames
  <2> QED
    BY <1>1, <1>2, <1>3, <1>6, <2>1, ContinueKeeps, AsyncDisconnectKeeps
    DEF ConnectCallbackReturns
<1>7. CASE RefusedCallbackReturns
  <2>1. attached /\ err = TRUE
    BY <1>7 DEF RefusedCallbackReturns, Returns, ControlInv, EndInv, ConnectInv, WorkingFrames
  <2> QED
    BY <1>1, <1>2, <1>7, <2>1, ContinueKeeps, EnterDisconnectKeeps DEF RefusedCallbackReturns
<1>8. CASE TimeoutCallbackReturns
  <2>1. attached
    BY <1>8 DEF TimeoutCallbackReturns, Returns, ControlInv, EndInv, WorkingFrames
  <2> QED
    BY <1>1, <1>8, <2>1, ContinueKeeps DEF TimeoutCallbackReturns
<1>9. CASE FreeCallbackReturns
  <2>1. ~Accepting
    BY <1>9 DEF FreeCallbackReturns, Returns, ControlInv, EndInv
  <2> QED
    BY <1>1, <1>9, <2>1, ContinueKeeps DEF FreeCallbackReturns, Working
<1>10. CASE DisconnectCallbackReturns
  BY <1>1, <1>10, ContinueKeeps DEF DisconnectCallbackReturns, Working
<1> QED
  BY <1>4, <1>5, <1>6, <1>7, <1>8, <1>9, <1>10 DEF CallbackReturns

(* __redisAsyncFree.                                                        *)
LEMMA FreeStepKeeps ==
    ASSUME ControlInv, FreeStep PROVE ControlInv'
<1>1. pc = "free" /\ ~Accepting
  BY DEF FreeStep, FreeReplies, FreeSubscription, FinishFree, ControlInv, EndInv
<1>2. CASE FreeReplies
  <2>1. PICK id : RunReplyCallback(id, 0, "free", flags)
    BY <1>2 DEF FreeReplies
  <2> QED
    BY <1>1, <1>2, <2>1, ReplyCallbackKeeps DEF FreeReplies, WorkingFrames
<1>3. ASSUME NEW n \in Names, FreeSubscription(n) PROVE ControlInv'
  BY <1>1, <1>3, RunCallbackKeeps DEF FreeSubscription, Frames, WorkingFrames
<1>4. CASE FinishFree
  <2>1. attached' = FALSE /\ events' = {} /\ UNCHANGED <<err, handler>>
    BY <1>4 DEF FinishFree
  <2>2. CASE RunCallback("gone", 0, flags)
    BY <1>1, <2>1, <2>2 DEF RunCallback, ControlInv, FrameInv, EndInv, ConnectInv, Accepting,
                            Working, WorkingFrames
  <2>3. CASE pc' = "freed" /\ UNCHANGED <<flags, frame>>
    BY <1>1, <2>1, <2>3 DEF ControlInv, FrameInv, EndInv, ConnectInv, Accepting, Working,
                            WorkingFrames
  <2> QED
    BY <1>4, <2>2, <2>3 DEF FinishFree
<1> QED
  BY <1>2, <1>3, <1>4 DEF FreeStep

-----------------------------------------------------------------------------
(* The handlers of the event loop: it calls one for an event it watches.    *)
LEMMA LoopKeeps ==
    ASSUME ControlInv, Loop PROVE ControlInv'
<1>1. pc = "idle" /\ events # {} /\ UNCHANGED <<events, attached>>
  BY DEF Loop, HandleTimeout, HandleEvent, Ready
<1>2. attached /\ frame.at = "none" /\ "in_callback" \notin flags
  BY <1>1 DEF ControlInv, FrameInv, EndInv
<1>3. CASE HandleTimeout
  <2>1. err' = TRUE /\ handler' = "timeout"
    BY <1>3 DEF HandleTimeout
  <2>2. CASE pc' = "timeout" /\ UNCHANGED <<flags, frame>>
    BY <1>1, <1>2, <2>1, <2>2 DEF ControlInv, FrameInv, EndInv, ConnectInv, Accepting
  <2>3. CASE RunCallback("refused", 0, flags)
    BY <1>1, <1>2, <2>1, <2>3, RunCallbackKeeps DEF Frames
  <2> QED
    BY <1>3, <2>2, <2>3 DEF HandleTimeout
<1>4. ASSUME NEW what \in {"read", "write"}, HandleEvent(what) PROVE ControlInv'
  <2>1. handler' = what
    BY <1>4 DEF HandleEvent
  <2>2. CASE pc' = what /\ UNCHANGED <<flags, err, frame>>
    BY <1>1, <1>2, <2>1, <2>2 DEF ControlInv, FrameInv, EndInv, ConnectInv, Accepting
  <2>3. CASE err' = TRUE /\ RunCallback("refused", 0, flags)
    BY <1>1, <1>2, <2>1, <2>3, RunCallbackKeeps DEF Frames
  <2>4. CASE RunCallback("connected", 0, flags \cup {"connected"})
    <3>1. /\ flags \cap {"disconnecting", "freeing"} \subseteq flags \cup {"connected"}
          /\ "connected" \in Frames \ {"none"} /\ "connected" \notin {"free", "gone", "refused"}
      BY DEF Frames
    <3> QED
      BY <1>1, <1>2, <2>1, <2>4, <3>1, RunCallbackKeeps
  <2> QED
    BY <1>4, <2>2, <2>3, <2>4 DEF HandleEvent
<1> QED
  BY <1>3, <1>4 DEF Loop

LEMMA TransferKeeps ==
    ASSUME ControlInv, Transfer \/ TimeoutReplies \/ TimeoutEnds PROVE ControlInv'
<1>1. pc \in Working /\ attached /\ frame.at = "none" /\ "in_callback" \notin flags
  BY DEF Transfer, ReadFails, AsyncWrite, WriteFails, AsyncRead, TimeoutReplies, TimeoutEnds,
         ControlInv, FrameInv, EndInv, Working
<1>2. ASSUME NEW k \in 0 .. Len(stream), AsyncRead(k) PROVE ControlInv'
  <2>1. pc' = "process" /\ UNCHANGED <<flags, err, attached, handler, frame>>
    BY <1>2 DEF AsyncRead
  <2> QED
    BY <1>1, <2>1 DEF ControlInv, FrameInv, EndInv, ConnectInv, Accepting
<1>3. CASE AsyncWrite
  <2>1. pc' = "idle" /\ UNCHANGED <<flags, err, attached, handler, frame>>
    BY <1>3 DEF AsyncWrite
  <2> QED
    BY <1>1, <2>1 DEF ControlInv, FrameInv, EndInv, ConnectInv, Accepting, Working
<1>4. CASE ReadFails \/ WriteFails \/ TimeoutEnds
  BY <1>1, <1>4, EnterDisconnectKeeps DEF ReadFails, WriteFails, TimeoutEnds
<1>5. CASE TimeoutReplies
  <2>1. PICK id : RunReplyCallback(id, 0, "timeout", flags)
    BY <1>5 DEF TimeoutReplies
  <2>2. pc = "timeout" /\ UNCHANGED <<err, events, attached, handler>>
    BY <1>5 DEF TimeoutReplies
  <2> QED
    BY <1>1, <2>1, <2>2, ReplyCallbackKeeps
<1> QED
  BY <1>2, <1>3, <1>4, <1>5 DEF Transfer

LEMMA ServerKeeps ==
    ASSUME ControlInv, Server PROVE ControlInv'
<1>1. UNCHANGED control
  BY DEF Server, ServerSends, Establish, Refuse, Drop, SocketBecomes, loopVars, control
<1> QED
  BY <1>1, ControlKept

LEMMA AsyncStepKeeps ==
    ASSUME ControlInv, [Next]_vars PROVE ControlInv'
<1>1. CASE UNCHANGED vars
  BY <1>1, ControlKept DEF vars, loopVars, control
<1>2. CASE Application
  BY <1>2, ApplicationKeeps
<1>3. CASE Library
  BY <1>3, ProcessKeeps, ReturnsKeeps, FreeStepKeeps, TransferKeeps DEF Library
<1>4. CASE Loop
  BY <1>4, LoopKeeps
<1>5. CASE Server
  BY <1>5, ServerKeeps
<1> QED
  BY <1>1, <1>2, <1>3, <1>4, <1>5 DEF Next

LEMMA ControlHolds == Spec => []ControlInv
<1>1. ControlInv /\ [Next]_vars => ControlInv'
  BY AsyncStepKeeps
<1> QED
  BY InitControl, <1>1, PTL DEF Spec

-----------------------------------------------------------------------------
(* The context is torn down outside callbacks only, and nothing is issued   *)
(* while it is: the dictionaries do not change under the iteration of       *)
(* __redisAsyncFree, whatever the callbacks try.                            *)
THEOREM TornDownAlone == Spec => []TeardownAlone
<1>1. ControlInv => TeardownAlone
  BY DEF ControlInv, FrameInv, EndInv, TeardownAlone
<1> QED BY ControlHolds, <1>1, PTL

(* Nothing is registered with the event library after its data is gone.     *)
THEOREM NothingLate == Spec => []NothingRegisteredLate
<1>1. ControlInv => NothingRegisteredLate
  BY DEF ControlInv, EndInv, NothingRegisteredLate
<1> QED BY ControlHolds, <1>1, PTL

-----------------------------------------------------------------------------
(* The order in which commands are settled.  The numbers of the settled     *)
(* commands, of those that wait, and of those that wait for the subscribed  *)
(* mode to end are 1, 2, 3 ... when read one after the other, because       *)
(* subReplies is used only while the context is subscribed and handed over  *)
(* only when ac->replies is empty.  In monitor mode a command waits again   *)
(* after each reply.                                                        *)

IsSeq(s) == \E S : s \in Seq(S)

OrderInv ==
    /\ calls \in Nat /\ IsSeq(log) /\ replies \in Seq(Nat) /\ subReplies \in Seq(Nat)
    /\ calls = Len(log) + Len(replies) + Len(subReplies)
    /\ \A i \in 1 .. Len(log) : log[i].id = i
    /\ \A i \in 1 .. Len(replies) : replies[i] = Len(log) + i
    /\ \A i \in 1 .. Len(subReplies) : subReplies[i] = Len(log) + Len(replies) + i
    /\ "monitoring" \notin flags
    /\ "subscribed" \notin flags => subReplies = <<>>

(* The flags that matter here.                                              *)
ModeKept == /\ "monitoring" \in flags' => "monitoring" \in flags
            /\ "subscribed" \in flags => "subscribed" \in flags'

LEMMA AppendAny ==
    ASSUME NEW s, IsSeq(s), NEW e
    PROVE  /\ IsSeq(Append(s, e)) /\ Len(s) \in Nat /\ Len(Append(s, e)) = Len(s) + 1
           /\ \A i \in 1 .. Len(s) : Append(s, e)[i] = s[i]
           /\ Append(s, e)[Len(s) + 1] = e
<1>1. PICK S : s \in Seq(S)
  BY DEF IsSeq
<1>2. s \in Seq(S \cup {e})
  BY <1>1
<1>3. Append(s, e) \in Seq(S \cup {e})
  BY <1>2
<1>4. IsSeq(Append(s, e))
  BY <1>3 DEF IsSeq
<1> QED
  BY <1>2, <1>4

LEMMA OrderKept ==
    ASSUME OrderInv, UNCHANGED <<log, replies, subReplies, calls>>, ModeKept
    PROVE  OrderInv'
BY DEF OrderInv, ModeKept

(* The oldest command is settled, with whatever reply.                      *)
LEMMA SettleKeeps ==
    ASSUME OrderInv, replies # <<>>, replies' = Tail(replies), NEW got,
           log' = Append(log, [id |-> Head(replies), got |-> got]),
           UNCHANGED <<subReplies, calls>>, ModeKept
    PROVE  OrderInv'
<1>1. /\ Len(log) \in Nat /\ IsSeq(log') /\ Len(log') = Len(log) + 1
      /\ \A i \in 1 .. Len(log) : log'[i] = log[i]
      /\ log'[Len(log) + 1] = [id |-> Head(replies), got |-> got]
  BY AppendAny DEF OrderInv
<1>2. /\ Head(replies) = Len(log) + 1 /\ Len(replies') = Len(replies) - 1
      /\ replies' \in Seq(Nat) /\ \A i \in 1 .. Len(replies') : replies'[i] = replies[i + 1]
  BY DEF OrderInv
<1>3. \A i \in 1 .. Len(log') : log'[i].id = i
  BY <1>1, <1>2 DEF OrderInv
<1>4. \A i \in 1 .. Len(replies') : replies'[i] = Len(log') + i
  BY <1>1, <1>2 DEF OrderInv
<1>5. \A i \in 1 .. Len(subReplies') : subReplies'[i] = Len(log') + Len(replies') + i
  BY <1>1, <1>2 DEF OrderInv
<1> QED
  BY <1>1, <1>2, <1>3, <1>4, <1>5 DEF OrderInv, ModeKept

(* ... also when it waits in sub.replies.                                   *)
LEMMA SettleSubscribedKeeps ==
    ASSUME OrderInv, replies = <<>>, replies' = <<>>, subReplies # <<>>,
           subReplies' = Tail(subReplies), NEW got,
           log' = Append(log, [id |-> Head(subReplies), got |-> got]),
           UNCHANGED calls, ModeKept
    PROVE  OrderInv'
<1>1. /\ Len(log) \in Nat /\ IsSeq(log') /\ Len(log') = Len(log) + 1
      /\ \A i \in 1 .. Len(log) : log'[i] = log[i]
      /\ log'[Len(log) + 1] = [id |-> Head(subReplies), got |-> got]
  BY AppendAny DEF OrderInv
<1>2. /\ Head(subReplies) = Len(log) + 1 /\ Len(subReplies') = Len(subReplies) - 1
      /\ subReplies' \in Seq(Nat)
      /\ \A i \in 1 .. Len(subReplies') : subReplies'[i] = subReplies[i + 1]
  BY DEF OrderInv
<1>3. \A i \in 1 .. Len(log') : log'[i].id = i
  BY <1>1, <1>2 DEF OrderInv
<1>4. \A i \in 1 .. Len(subReplies') : subReplies'[i] = Len(log') + i
  BY <1>1, <1>2 DEF OrderInv
<1> QED
  BY <1>1, <1>2, <1>3, <1>4 DEF OrderInv, ModeKept

LEMMA InitOrder == Init => OrderInv
<1> SUFFICES ASSUME Init PROVE OrderInv
  OBVIOUS
<1>1. IsSeq(log)
  <2>1. <<>> \in Seq(Nat)
    OBVIOUS
  <2> QED
    BY <2>1 DEF Init, IsSeq
<1> QED
  BY <1>1 DEF Init, OrderInv

LEMMA AppendNumber ==
    ASSUME NEW s \in Seq(Nat), NEW n \in Nat
    PROVE  /\ Append(s, n) \in Seq(Nat) /\ Len(Append(s, n)) = Len(s) + 1
           /\ \A i \in 1 .. Len(s) : Append(s, n)[i] = s[i]
           /\ Append(s, n)[Len(s) + 1] = n
OBVIOUS

(* A command that is issued waits behind all others.                        *)
LEMMA CallOrder ==
    ASSUME "monitor" \notin Habits, OrderInv, Call PROVE OrderInv'
<1>1. /\ calls' = calls + 1
      /\ IF "subscribed" \in flags
         THEN subReplies' = Append(subReplies, calls') /\ UNCHANGED replies
         ELSE replies' = Append(replies, calls') /\ UNCHANGED subReplies
      /\ flags' = flags /\ UNCHANGED log
  BY DEF Call, IssueCommand
<1>2. /\ calls \in Nat /\ calls' \in Nat /\ Len(log) \in Nat /\ IsSeq(log)
      /\ replies \in Seq(Nat) /\ subReplies \in Seq(Nat)
      /\ Len(replies) \in Nat /\ Len(subReplies) \in Nat
      /\ calls' = Len(log) + Len(replies) + Len(subReplies) + 1
      /\ \A i \in 1 .. Len(replies) : replies[i] = Len(log) + i
      /\ \A i \in 1 .. Len(subReplies) : subReplies[i] = Len(log) + Len(replies) + i
  BY <1>1, AppendAny DEF OrderInv
<1>3. CASE "subscribed" \in flags
  <2>1. /\ subReplies' \in Seq(Nat) /\ Len(subReplies') = Len(subReplies) + 1
        /\ \A i \in 1 .. Len(subReplies) : subReplies'[i] = subReplies[i]
        /\ subReplies'[Len(subReplies) + 1] = calls'
    <3>1. subReplies' = Append(subReplies, calls')
      BY <1>1, <1>3
    <3> QED
      BY <1>2, <3>1, AppendNumber
  <2>2. ASSUME NEW i \in 1 .. Len(subReplies')
        PROVE  subReplies'[i] = Len(log) + Len(replies) + i
    <3>1. i \in 1 .. Len(subReplies) \/ i = Len(subReplies) + 1
      BY <1>2, <2>1
    <3>2. CASE i \in 1 .. Len(subReplies)
      BY <3>2, <1>2, <2>1
    <3>3. CASE i = Len(subReplies) + 1
      BY <3>3, <1>2, <2>1
    <3> QED
      BY <3>1, <3>2, <3>3
  <2>3. UNCHANGED <<log, replies, flags>> /\ calls' = Len(log) + Len(replies) + Len(subReplies')
    BY <1>1, <1>2, <1>3, <2>1
  <2> QED
    BY <1>2, <1>3, <2>1, <2>2, <2>3 DEF OrderInv
<1>4. CASE "subscribed" \notin flags
  <2>1. subReplies = <<>> /\ Len(subReplies) = 0
    BY <1>4 DEF OrderInv
  <2>2. /\ replies' \in Seq(Nat) /\ Len(replies') = Len(replies) + 1
        /\ \A i \in 1 .. Len(replies) : replies'[i] = replies[i]
        /\ replies'[Len(replies) + 1] = calls'
    <3>1. replies' = Append(replies, calls')
      BY <1>1, <1>4
    <3> QED
      BY <1>2, <3>1, AppendNumber
  <2>3. ASSUME NEW i \in 1 .. Len(replies') PROVE replies'[i] = Len(log) + i
    <3>1. i \in 1 .. Len(replies) \/ i = Len(replies) + 1
      BY <1>2, <2>2
    <3>2. CASE i \in 1 .. Len(replies)
      BY <3>2, <1>2, <2>2
    <3>3. CASE i = Len(replies) + 1
      <4>1. replies'[i] = calls'
        BY <3>3, <2>2
      <4>2. calls' = Len(log) + i
        BY <3>3, <1>2, <2>1
      <4> QED
        BY <4>1, <4>2
    <3> QED
      BY <3>1, <3>2, <3>3
  <2>4. UNCHANGED <<log, flags>> /\ subReplies' = <<>>
        /\ calls' = Len(log) + Len(replies') + Len(subReplies')
    BY <1>1, <1>2, <1>4, <2>1, <2>2
  <2> QED
    BY <1>2, <2>1, <2>2, <2>3, <2>4 DEF OrderInv
<1> QED
  BY <1>3, <1>4

LEMMA ApplicationOrder ==
    ASSUME "monitor" \notin Habits, OrderInv, Application PROVE OrderInv'
<1>1. CASE Call
  BY <1>1, CallOrder
<1>2. ASSUME NEW names \in Targets, Subscribe(names) \/ Unsubscribe(names) PROVE OrderInv'
  BY <1>2, OrderKept DEF Subscribe, Unsubscribe, IssueCommand, ModeKept
<1>3. ASSUME NEW kind \in Kinds, UnsubscribeAll(kind) PROVE OrderInv'
  BY <1>3, OrderKept DEF UnsubscribeAll, IssueCommand, ModeKept
<1>4. CASE Disconnect
  <2>1. ModeKept
    BY <1>4 DEF Disconnect, AsyncDisconnect, EnterDisconnect, ModeKept
  <2> QED
    BY <1>4, <2>1, OrderKept DEF Disconnect, queueVars, countVars
<1>5. CASE Free
  BY <1>5, OrderKept DEF Free, queueVars, countVars, ModeKept
<1> QED
  BY <1>1, <1>2, <1>3, <1>4, <1>5 DEF Application

(* redisProcessCallbacks.                                                   *)
LEMMA ReplyToCommandOrder ==
    ASSUME OrderInv, ReplyToCommand PROVE OrderInv'
<1>1. PICK got : RunReplyCallback(Head(replies), got, "reply", SeenFlags)
  BY DEF ReplyToCommand
<1>2. replies # <<>> /\ UNCHANGED <<subReplies, calls>> /\ replies' = Tail(replies)
  BY DEF ReplyToCommand, Repush, OrderInv, countVars
<1>3. Head(replies) # 0
  <2>1. Len(log) \in Nat /\ replies \in Seq(Nat) /\ replies[1] = Len(log) + 1
    BY <1>2, AppendAny DEF OrderInv
  <2> QED
    BY <2>1, <1>2
<1>4. log' = Append(log, [id |-> Head(replies), got |-> got])
  BY <1>1, <1>3 DEF RunReplyCallback
<1>5. ModeKept
  BY <1>1, SeenFlagsType DEF RunReplyCallback, RunCallback, ModeKept
<1> QED
  BY <1>2, <1>4, <1>5, SettleKeeps

LEMMA ReplyWhileSubscribedOrder ==
    ASSUME OrderInv, ReplyWhileSubscribed PROVE OrderInv'
<1> DEFINE mistaken == TakenForPushed(Head(reader))
           id == IF subReplies = <<>> \/ mistaken THEN 0 ELSE Head(subReplies)
<1>1. replies = <<>> /\ UNCHANGED calls
  BY DEF ReplyWhileSubscribed, ForSubscription, countVars
<1>2. \/ Abort
      \/ /\ subReplies' = IF id = 0 THEN subReplies ELSE Tail(subReplies)
         /\ RunReplyCallback(id, Head(reader).id, "reply", SeenFlags)
         /\ replies' = IF HasCallback(id) THEN <<>> ELSE Repush(<<>>, id)
  BY DEF ReplyWhileSubscribed
<1>3. CASE Abort
  BY <1>1, <1>3, OrderKept DEF Abort, queueVars, ModeKept
<1>4. CASE /\ subReplies' = IF id = 0 THEN subReplies ELSE Tail(subReplies)
           /\ RunReplyCallback(id, Head(reader).id, "reply", SeenFlags)
           /\ replies' = IF HasCallback(id) THEN <<>> ELSE Repush(<<>>, id)
  <2>1. ModeKept
    BY <1>4, SeenFlagsType DEF RunReplyCallback, RunCallback, ModeKept
  <2>2. replies' = <<>>
    BY <1>4 DEF Repush, OrderInv
  <2>3. CASE id = 0
    <3>1. UNCHANGED <<log, subReplies>>
      BY <1>4, <2>3 DEF RunReplyCallback
    <3> QED
      BY <1>1, <2>1, <2>2, <3>1, OrderKept
  <2>4. CASE id # 0
    <3>1. subReplies # <<>> /\ id = Head(subReplies)
      BY <2>4
    <3>2. subReplies' = Tail(subReplies)
          /\ log' = Append(log, [id |-> id, got |-> Head(reader).id])
      BY <1>4, <2>4 DEF RunReplyCallback
    <3> QED
      BY <1>1, <2>1, <2>2, <3>1, <3>2, SettleSubscribedKeeps
  <2> QED
    BY <2>3, <2>4
<1> QED
  BY <1>2, <1>3, <1>4

(* The last unsubscription hands over the commands that waited for it.      *)
LEMMA ConfirmUnsubscribeOrder ==
    ASSUME OrderInv, ConfirmUnsubscribe PROVE OrderInv'
<1>1. replies = <<>> /\ UNCHANGED calls
  BY DEF ConfirmUnsubscribe, ForSubscription, countVars
<1> DEFINE n == Head(reader).name
           known == n \in DOMAIN subs
           last == Head(reader).count = 0 /\ DOMAIN subs' = {} /\ pendingUnsubs' = 0
           f == IF last THEN SeenFlags \ {"subscribed"} ELSE SeenFlags
           q == IF last THEN subReplies ELSE <<>>
<1>2. \/ Abort
      \/ /\ subReplies' = IF last THEN <<>> ELSE subReplies
         /\ IF known THEN RunCallback("reply", 0, f) /\ replies' = q
            ELSE flags' = f /\ replies' = Repush(q, 0) /\ UNCHANGED <<pc, frame>>
         /\ UNCHANGED log
  BY DEF ConfirmUnsubscribe
<1>3. CASE Abort
  BY <1>1, <1>3, OrderKept DEF Abort, queueVars, ModeKept
<1> HIDE DEF n, known, last, f, q
<1>4. CASE ~Abort
  <2>1. Repush(q, 0) = q
    BY DEF Repush, OrderInv
  <2>2. /\ subReplies' = (IF last THEN <<>> ELSE subReplies) /\ replies' = q
        /\ flags' = f \/ flags' = f \cup {"in_callback"}
        /\ UNCHANGED log
    BY <1>2, <1>4, <2>1 DEF RunCallback
  <2>3. "monitoring" \notin flags' /\ (~last => ModeKept)
    BY <2>2, SeenFlagsType DEF f, ModeKept, OrderInv
  <2>4. CASE last
    <3>1. replies' = subReplies /\ subReplies' = <<>>
      BY <2>2, <2>4 DEF q
    <3>2. /\ calls' \in Nat /\ IsSeq(log') /\ Len(log) \in Nat /\ replies' \in Seq(Nat)
          /\ Len(replies) = 0 /\ Len(subReplies) \in Nat
          /\ calls' = Len(log) + Len(replies')
          /\ \A i \in 1 .. Len(replies') : replies'[i] = Len(log) + i
          /\ \A i \in 1 .. Len(log') : log'[i].id = i
      BY <1>1, <2>2, <3>1, AppendAny DEF OrderInv
    <3>3. /\ subReplies' \in Seq(Nat) /\ Len(subReplies') = 0
          /\ \A i \in 1 .. Len(subReplies') : FALSE
      BY <3>1
    <3>4. Len(replies') \in Nat /\ UNCHANGED log
      BY <2>2, <3>2
    <3>5. calls' = Len(log') + Len(replies') + Len(subReplies')
      BY <3>2, <3>3, <3>4
    <3> QED
      BY <2>3, <3>1, <3>2, <3>3, <3>4, <3>5 DEF OrderInv
  <2>5. CASE ~last
    BY <1>1, <2>2, <2>3, <2>5, OrderKept DEF q
  <2> QED
    BY <2>4, <2>5
<1> QED
  BY <1>3, <1>4

LEMMA ProcessOrder ==
    ASSUME OrderInv, Process PROVE OrderInv'
<1>1. CASE NoReply
  <2>1. ModeKept
    BY <1>1 DEF NoReply, EnterDisconnect, ModeKept
  <2> QED
    BY <1>1, <2>1, OrderKept DEF NoReply, queueVars, countVars
<1>2. CASE SpontaneousPush
  BY <1>2, SeenFlagsType, OrderKept
  DEF SpontaneousPush, RunCallback, queueVars, countVars, ModeKept
<1>3. CASE SpontaneousError
  <2>1. ModeKept
    BY <1>3 DEF SpontaneousError, EnterDisconnect, ModeKept
  <2> QED
    BY <1>3, <2>1, OrderKept DEF SpontaneousError, queueVars, countVars
<1>4. CASE ConfirmSubscribe
  <2>1. ModeKept /\ UNCHANGED <<log, replies, subReplies, calls>>
    BY <1>4, SeenFlagsType
    DEF ConfirmSubscribe, ForSubscription, RunCallback, Abort, queueVars, countVars, ModeKept
  <2> QED
    BY <2>1, OrderKept
<1>5. CASE PubSubMessage
  <2>1. Repush(<<>>, 0) = <<>> /\ replies = <<>>
    BY <1>5 DEF PubSubMessage, ForSubscription, Repush, OrderInv
  <2>2. ModeKept /\ UNCHANGED <<log, replies, subReplies, calls>>
    BY <1>5, <2>1, SeenFlagsType
    DEF PubSubMessage, ForSubscription, RunCallback, Abort, queueVars, countVars, ModeKept
  <2> QED
    BY <2>2, OrderKept
<1> QED
  BY <1>1, <1>2, <1>3, <1>4, <1>5, ReplyToCommandOrder, ConfirmUnsubscribeOrder,
     ReplyWhileSubscribedOrder DEF Process

LEMMA ReturnsOrder ==
    ASSUME OrderInv, CallbackReturns PROVE OrderInv'
<1>1. UNCHANGED <<log, subReplies, calls>>
  BY DEF CallbackReturns, ReplyCallbackReturns, PushCallbackReturns, ConnectCallbackReturns,
         RefusedCallbackReturns, TimeoutCallbackReturns, FreeCallbackReturns,
         DisconnectCallbackReturns, KeepData, countVars
<1>2. UNCHANGED replies
  BY DEF CallbackReturns, ReplyCallbackReturns, PushCallbackReturns, ConnectCallbackReturns,
         RefusedCallbackReturns, TimeoutCallbackReturns, FreeCallbackReturns,
         DisconnectCallbackReturns, Repush, OrderInv
<1>3. ModeKept
  BY DEF CallbackReturns, ReplyCallbackReturns, PushCallbackReturns, ConnectCallbackReturns,
         RefusedCallbackReturns, TimeoutCallbackReturns, FreeCallbackReturns,
         DisconnectCallbackReturns, Continue, Callee, AsyncDisconnect, EnterDisconnect, ModeKept
<1> QED
  BY <1>1, <1>2, <1>3, OrderKept

LEMMA FreeOrder ==
    ASSUME OrderInv, FreeStep PROVE OrderInv'
<1>1. CASE FreeReplies
  <2> DEFINE id == IF replies # <<>> THEN Head(replies) ELSE Head(subReplies)
  <2>1. /\ replies \o subReplies # <<>> /\ RunReplyCallback(id, 0, "free", flags)
        /\ replies' = IF replies # <<>> THEN Tail(replies) ELSE replies
        /\ subReplies' = IF replies # <<>> THEN subReplies ELSE Tail(subReplies)
        /\ UNCHANGED calls
    BY <1>1 DEF FreeReplies, countVars
  <2>2. Len(log) \in Nat /\ replies \in Seq(Nat) /\ subReplies \in Seq(Nat)
    BY AppendAny DEF OrderInv
  <2>3. CASE replies # <<>>
    <3>1. id = Head(replies) /\ Head(replies) = Len(log) + 1
      BY <2>2, <2>3 DEF OrderInv
    <3>2. log' = Append(log, [id |-> Head(replies), got |-> 0])
      BY <2>1, <2>2, <3>1 DEF RunReplyCallback
    <3>3. ModeKept
      BY <2>1 DEF RunReplyCallback, RunCallback, ModeKept
    <3> QED
      BY <2>1, <2>3, <3>2, <3>3, SettleKeeps
  <2>4. CASE replies = <<>>
    <3>1. subReplies # <<>>
      BY <2>1, <2>2, <2>4
    <3>2. id = Head(subReplies) /\ Head(subReplies) = Len(log) + 1
      BY <2>2, <2>4, <3>1 DEF OrderInv
    <3>3. log' = Append(log, [id |-> Head(subReplies), got |-> 0])
      BY <2>1, <2>2, <3>2 DEF RunReplyCallback
    <3>4. ModeKept
      BY <2>1 DEF RunReplyCallback, RunCallback, ModeKept
    <3> QED
      BY <2>1, <2>4, <3>1, <3>3, <3>4, SettleSubscribedKeeps
  <2> QED
    BY <2>3, <2>4
<1>2. ASSUME NEW n \in Names, FreeSubscription(n) PROVE OrderInv'
  BY <1>2, OrderKept DEF FreeSubscription, RunCallback, countVars, ModeKept
<1>3. CASE FinishFree
  <2>1. ModeKept
    BY <1>3 DEF FinishFree, RunCallback, ModeKept
  <2> QED
    BY <1>3, <2>1, OrderKept DEF FinishFree, queueVars, countVars
<1> QED
  BY <1>1, <1>2, <1>3 DEF FreeStep

LEMMA EventOrder ==
    ASSUME OrderInv, Transfer \/ TimeoutEnds \/ Loop \/ Server PROVE OrderInv'
<1>1. UNCHANGED <<log, replies, subReplies, calls>>
  BY DEF Transfer, ReadFails, AsyncWrite, WriteFails, AsyncRead, TimeoutEnds, Loop, HandleTimeout,
         HandleEvent, Server, ServerSends, Establish, Refuse, Drop, SocketBecomes, queueVars,
         countVars
<1>2. ModeKept
  <2>1. CASE Transfer \/ TimeoutEnds
    BY <2>1 DEF Transfer, ReadFails, AsyncWrite, WriteFails, AsyncRead, TimeoutEnds,
                EnterDisconnect, ModeKept
  <2>2. CASE Loop
    BY <2>2 DEF Loop, HandleTimeout, HandleEvent, RunCallback, ModeKept
  <2>3. CASE Server
    BY <2>3 DEF Server, ServerSends, Establish, Refuse, Drop, SocketBecomes, ModeKept
  <2> QED
    BY <2>1, <2>2, <2>3
<1> QED
  BY <1>1, <1>2, OrderKept

LEMMA TimeoutOrder ==
    ASSUME OrderInv, TimeoutReplies PROVE OrderInv'
<1>1. /\ replies # <<>> /\ replies' = Tail(replies) /\ UNCHANGED <<subReplies, calls>>
      /\ RunReplyCallback(Head(replies), 0, "timeout", flags)
  BY DEF TimeoutReplies, countVars
<1>2. Head(replies) # 0
  <2>1. Len(log) \in Nat /\ replies \in Seq(Nat) /\ replies[1] = Len(log) + 1
    BY <1>1, AppendAny DEF OrderInv
  <2> QED
    BY <1>1, <2>1
<1>3. log' = Append(log, [id |-> Head(replies), got |-> 0])
  BY <1>1, <1>2 DEF RunReplyCallback
<1>4. ModeKept
  BY <1>1 DEF RunReplyCallback, RunCallback, ModeKept
<1> QED
  BY <1>1, <1>3, <1>4, SettleKeeps

LEMMA OrderStep ==
    ASSUME "monitor" \notin Habits, OrderInv, [Next]_vars PROVE OrderInv'
<1>1. CASE UNCHANGED vars
  BY <1>1, OrderKept DEF vars, queueVars, countVars, ModeKept
<1> QED
  BY <1>1, ApplicationOrder, ProcessOrder, ReturnsOrder, FreeOrder, EventOrder, TimeoutOrder
  DEF Next, Library

(* Commands are settled, by a reply or by the NULL of a timeout or of the   *)
(* end of the context, in the order in which they were issued, each at most *)
(* once, also those that waited for the subscribed mode to end.             *)
THEOREM SettledInOrder ==
    "monitor" \notin Habits => (Spec => [](\A i \in 1 .. Len(log) : log[i].id = i))
<1> SUFFICES ASSUME "monitor" \notin Habits
             PROVE  Spec => [](\A i \in 1 .. Len(log) : log[i].id = i)
  OBVIOUS
<1>1. OrderInv /\ [Next]_vars => OrderInv'
  BY OrderStep
<1>2. OrderInv => \A i \in 1 .. Len(log) : log[i].id = i
  BY DEF OrderInv
<1> QED
  BY InitOrder, <1>1, <1>2, PTL DEF Spec

-----------------------------------------------------------------------------
(***************************************************************************)
(* THE LEDGER                                                              *)
(*                                                                         *)
(* What the client knows of its subscriptions is settled by the            *)
(* confirmations of subscriptions and the answers to unsubscriptions that  *)
(* will still reach it.  The ledger lists them, the oldest first, and      *)
(* says for every name and every moment what the counters of async.c       *)
(* (pending, unsubscribe_sent, pending_unsubs) must be for the rest of     *)
(* the list to find them as it expects.                                    *)
(***************************************************************************)

(* Induction from a number on.                                              *)
LEMMA UpTo ==
    ASSUME NEW T, NEW a \in Nat, a \in T, \A n \in Nat : n >= a /\ n \in T => n + 1 \in T
    PROVE  \A n \in Nat : n >= a => n \in T
<1> DEFINE R == {ss \in Nat \X Nat : ss[1] < ss[2]}
           U == {n \in Nat : n >= a /\ n \notin T}
<1>1. IsWellFoundedOn(R, Nat)
  BY NatLessThanWellFounded DEF OpToRel
<1>2. \A x, y \in Nat : <<y, x>> \in R <=> y < x
  OBVIOUS
<1>3. CASE U = {}
  BY <1>3
<1>4. CASE U # {}
  <2> HIDE DEF R
  <2>1. U \subseteq Nat
    OBVIOUS
  <2>2. PICK x \in U : \A y \in U : ~(<<y, x>> \in R)
    <3> HIDE DEF U
    <3> QED BY <1>1, <1>4, <2>1, WFMin
  <2>3. x \in Nat /\ x > a /\ x - 1 \in Nat /\ x - 1 >= a
    OBVIOUS
  <2>4. x - 1 \notin U
    <3>1. x - 1 < x /\ x \in Nat
      BY <2>3
    <3>2. <<x - 1, x>> \in R
      BY <1>2, <2>3, <3>1
    <3> HIDE DEF U
    <3> QED BY <2>2, <3>2
  <2>5. x - 1 \in T
    BY <2>3, <2>4
  <2>6. (x - 1) + 1 \in T
    BY <2>3, <2>5
  <2> QED BY <2>3, <2>6
<1> QED BY <1>3, <1>4

-----------------------------------------------------------------------------
(* The ledger: the confirmations of subscriptions and the answers to        *)
(* unsubscriptions that will reach the client, F, the oldest first, whether *)
(* the server has sent them or not.  V, W and G are what there is after p   *)
(* of them: the names the server has open, and the confirmations of each    *)
(* name and the ignored answers still to come.                              *)
AllNames == Names \cup {NoName}
Note == [op : {"subscribe", "unsubscribe"}, name : AllNames, skip : BOOLEAN]

LedgerType(F, V, W, G) ==
    /\ F \in Seq(Note) /\ V \in [0 .. Len(F) -> SUBSET Names]
    /\ W \in [0 .. Len(F) -> [AllNames -> Nat]] /\ G \in [0 .. Len(F) -> Nat]

LedgerStep(F, V, W, G, o, p) ==
    /\ V[p] = IF F[p].op = "subscribe" THEN V[o] \cup {F[p].name} ELSE V[o] \ {F[p].name}
    /\ \A n \in AllNames : W[o][n] = IF F[p].op = "subscribe" /\ F[p].name = n THEN W[p][n] + 1 ELSE W[p][n]
    /\ G[o] = IF F[p].skip THEN G[p] + 1 ELSE G[p]
    /\ F[p].op = "subscribe" => ~F[p].skip

LedgerSteps(F, V, W, G) == \A p \in 1 .. Len(F) : LedgerStep(F, V, W, G, p - 1, p)

(* The p-th is the answer that an entry for n waits for.                    *)
Ends(F, p, n) == F[p].op = "unsubscribe" /\ ~F[p].skip /\ F[p].name = n

LedgerClosed(S, pend, F, V, W, G) ==
    /\ IsFiniteSet(DOMAIN S) /\ DOMAIN S \subseteq Names
    /\ \A n \in DOMAIN S : S[n] \in Subscription
    /\ \A n \in AllNames : /\ W[0][n] = IF n \in DOMAIN S THEN S[n].pending ELSE 0
                           /\ W[Len(F)][n] = 0
    /\ G[0] = pend /\ G[Len(F)] = 0
    /\ \A p \in 0 .. Len(F) : V[p] \subseteq DOMAIN S
    /\ \A n \in DOMAIN S : n \in V[Len(F)] <=> ~S[n].sent

(* A marked entry has its answer to come, after all its confirmations; an   *)
(* ignored one comes when there is no entry, or not any more; and one that  *)
(* is not ignored finds its entry.                                          *)
LedgerMarks(S, F, W) ==
    /\ \A n \in DOMAIN S : S[n].sent => \E p \in 1 .. Len(F) : Ends(F, p, n) /\ W[p][n] = 0
    /\ \A p \in 1 .. Len(F) : F[p].skip =>
          /\ W[p][F[p].name] = 0
          /\ \/ F[p].name \notin DOMAIN S
             \/ \E q \in 1 .. p - 1 : Ends(F, q, F[p].name) /\ W[q][F[p].name] = 0
    /\ \A p \in 1 .. Len(F) : \A n \in AllNames : Ends(F, p, n) =>
          n \in DOMAIN S /\ \A q \in 1 .. p - 1 : Ends(F, q, n) => W[q][n] > W[p][n]

Ledger(S, pend, F, V, W, G) ==
    /\ LedgerType(F, V, W, G) /\ LedgerSteps(F, V, W, G)
    /\ LedgerClosed(S, pend, F, V, W, G) /\ LedgerMarks(S, F, W)

(* What the values of the ledger are.                                       *)
LEMMA LedgerTyped ==
    ASSUME NEW F, NEW V, NEW W, NEW G, LedgerType(F, V, W, G)
    PROVE  /\ Len(F) \in Nat /\ \A p \in 1 .. Len(F) : F[p] \in Note
           /\ \A p \in 0 .. Len(F) : /\ G[p] \in Nat /\ V[p] \subseteq Names
                                     /\ \A n \in AllNames : W[p][n] \in Nat
<1>1. Len(F) \in Nat /\ \A p \in 1 .. Len(F) : F[p] \in Note
  BY DEF LedgerType
<1>2. ASSUME NEW p \in 0 .. Len(F) PROVE G[p] \in Nat /\ V[p] \subseteq Names /\ W[p] \in [AllNames -> Nat]
  BY DEF LedgerType
<1>3. ASSUME NEW p \in 0 .. Len(F), NEW n \in AllNames PROVE W[p][n] \in Nat
  BY <1>2
<1> QED BY <1>1, <1>2, <1>3

(* What the entries of the client are.                                      *)
LEMMA LedgerEntries ==
    ASSUME NEW S, NEW pend, NEW F, NEW V, NEW W, NEW G, LedgerClosed(S, pend, F, V, W, G)
    PROVE  \A k \in DOMAIN S : k \in AllNames /\ S[k] \in Subscription /\ S[k].pending \in Nat /\ S[k].sent \in BOOLEAN
<1> SUFFICES ASSUME NEW k \in DOMAIN S
             PROVE  k \in AllNames /\ S[k] \in Subscription /\ S[k].pending \in Nat /\ S[k].sent \in BOOLEAN
  OBVIOUS
<1>1. k \in AllNames /\ S[k] \in Subscription
  BY DEF LedgerClosed, AllNames
<1> QED BY <1>1 DEF Subscription

(* A confirmation is taken from what an entry waits for.                    *)
Confirmed(S, n, S2) ==
    /\ DOMAIN S2 = DOMAIN S
    /\ \A k \in DOMAIN S : k # n => S2[k] = S[k]
    /\ S2[n] \in Subscription /\ S2[n].sent = S[n].sent /\ S2[n].pending = S[n].pending - 1

(* The update of redisProcessCallbacks for a confirmation.                  *)
LEMMA OneLess ==
    ASSUME NEW S, NEW n \in DOMAIN S, \A k \in DOMAIN S : S[k] \in Subscription, S[n].pending > 0,
           NEW S2, S2 = [S EXCEPT ![n].pending = @ - 1]
    PROVE  Confirmed(S, n, S2)
<1>1. DOMAIN S2 = DOMAIN S /\ \A k \in DOMAIN S : k # n => S2[k] = S[k]
  OBVIOUS
<1>2. S2[n] = [S[n] EXCEPT !.pending = @ - 1]
  OBVIOUS
<1>3. S[n] \in [pending : Nat, sent : BOOLEAN]
  BY DEF Subscription
<1>4. S2[n] \in [pending : Nat, sent : BOOLEAN] /\ S2[n].sent = S[n].sent /\ S2[n].pending = S[n].pending - 1
  <2> DEFINE r == S[n]
             s == S2[n]
  <2>1. r \in [pending : Nat, sent : BOOLEAN] /\ r.pending > 0 /\ s = [r EXCEPT !.pending = @ - 1]
    BY <1>2, <1>3
  <2> HIDE DEF r, s
  <2>2. s.pending = r.pending - 1 /\ s.sent = r.sent /\ s \in [pending : Nat, sent : BOOLEAN]
    BY <2>1
  <2> QED BY <2>2 DEF r, s
<1> QED BY <1>1, <1>4 DEF Subscription, Confirmed

(* The step after the q-th.                                                 *)
LEMMA LedgerNext ==
    ASSUME NEW F, NEW V, NEW W, NEW G, LedgerSteps(F, V, W, G), Len(F) \in Nat,
           NEW q \in 0 .. Len(F), q + 1 <= Len(F)
    PROVE  LedgerStep(F, V, W, G, q, q + 1)
<1> DEFINE r == q + 1
<1>1. r \in 1 .. Len(F) /\ r - 1 = q
  OBVIOUS
<1> SUFFICES LedgerStep(F, V, W, G, q, r)
  OBVIOUS
<1> HIDE DEF r
<1> QED BY <1>1 DEF LedgerSteps

(* What is still to come grows less, and a name is open later than it was   *)
(* not only if its confirmation comes in between.                           *)
LEMMA LedgerShrinks ==
    ASSUME NEW F, NEW V, NEW W, NEW G, LedgerType(F, V, W, G), LedgerSteps(F, V, W, G),
           NEW p \in 0 .. Len(F)
    PROVE  \A q \in p .. Len(F) :
               /\ G[q] <= G[p]
               /\ \A n \in AllNames : /\ W[q][n] <= W[p][n]
                                      /\ n \in V[q] /\ n \notin V[p] => W[q][n] < W[p][n]
<1> DEFINE Good(q) == /\ G[q] <= G[p]
                      /\ \A n \in AllNames : /\ W[q][n] <= W[p][n]
                                             /\ n \in V[q] /\ n \notin V[p] => W[q][n] < W[p][n]
           T == {q \in Nat : q \in p .. Len(F) => Good(q)}
<1>0. Len(F) \in Nat /\ p \in Nat
  BY DEF LedgerType
<1>1. p \in T
  <2>1. G[p] \in Nat /\ \A n \in AllNames : W[p][n] \in Nat
    BY DEF LedgerType
  <2> QED BY <1>0, <2>1
<1>2. ASSUME NEW q \in Nat, q >= p, q \in T PROVE q + 1 \in T
  <2> SUFFICES ASSUME q + 1 \in p .. Len(F) PROVE Good(q + 1)
    BY <1>2
  <2>1. q \in 0 .. Len(F) /\ q + 1 \in 1 .. Len(F) /\ (q + 1) - 1 = q
    BY <1>0, <1>2
  <2>2. Good(q)
    <3>1. q \in T => (q \in p .. Len(F) => Good(q))
      OBVIOUS
    <3>2. q \in p .. Len(F)
      BY <1>0, <1>2, <2>1
    <3> HIDE DEF T, Good
    <3> QED BY <1>2, <3>1, <3>2
  <2>3. LedgerStep(F, V, W, G, q, q + 1)
    <3>1. q \in 0 .. Len(F) /\ q + 1 <= Len(F)
      BY <1>0, <2>1
    <3> HIDE DEF T, Good
    <3> QED BY <1>0, <3>1, LedgerNext
  <2>4. /\ G[q] \in Nat /\ G[q + 1] \in Nat /\ G[p] \in Nat
        /\ \A n \in AllNames : W[q][n] \in Nat /\ W[q + 1][n] \in Nat /\ W[p][n] \in Nat
    <3>1. /\ q \in 0 .. Len(F) /\ q + 1 \in 0 .. Len(F)
          /\ \A r \in 0 .. Len(F) : G[r] \in Nat /\ \A n \in AllNames : W[r][n] \in Nat
      BY <1>0, <2>1, LedgerTyped
    <3> QED BY <3>1
  <2>5. G[q + 1] <= G[p]
    <3>1. G[q] <= G[p] /\ G[q + 1] <= G[q]
      BY <2>2, <2>3, <2>4 DEF LedgerStep
    <3> QED BY <2>4, <3>1
  <2>6. ASSUME NEW n \in AllNames
        PROVE  W[q + 1][n] <= W[p][n] /\ (n \in V[q + 1] /\ n \notin V[p] => W[q + 1][n] < W[p][n])
    <3>1. /\ W[q][n] \in Nat /\ W[q + 1][n] \in Nat /\ W[p][n] \in Nat /\ W[q][n] <= W[p][n]
          /\ n \in V[q] /\ n \notin V[p] => W[q][n] < W[p][n]
      BY <2>2, <2>4
    <3>2. CASE F[q + 1].op = "subscribe" /\ F[q + 1].name = n
      <4>1. W[q][n] = W[q + 1][n] + 1
        BY <2>3, <3>2 DEF LedgerStep
      <4> QED BY <3>1, <4>1
    <3>3. CASE ~(F[q + 1].op = "subscribe" /\ F[q + 1].name = n)
      <4>1. W[q][n] = W[q + 1][n] /\ (n \in V[q + 1] => n \in V[q])
        BY <2>3, <3>3 DEF LedgerStep
      <4> QED BY <3>1, <4>1
    <3> QED BY <3>2, <3>3
  <2> QED BY <2>5, <2>6
<1> HIDE DEF T
<1>3. \A q \in Nat : q >= p => q \in T
  BY <1>0, <1>1, <1>2, UpTo
<1> QED BY <1>0, <1>3 DEF T

(* What the oldest finds: a confirmation its entry, the answer to an        *)
(* unsubscription the entry unless it is to be ignored.                     *)
LEMMA LedgerHead ==
    ASSUME NEW S, NEW pend, NEW F, NEW V, NEW W, NEW G, Ledger(S, pend, F, V, W, G), F # <<>>
    PROVE  /\ 1 \in 1 .. Len(F) /\ F[1] \in Note /\ LedgerStep(F, V, W, G, 0, 1)
           /\ F[1].op = "subscribe" => F[1].name \in DOMAIN S /\ S[F[1].name].pending > 0 /\ ~F[1].skip
           /\ F[1].op = "unsubscribe" /\ ~F[1].skip =>
                 F[1].name \in DOMAIN S /\ W[1][F[1].name] = S[F[1].name].pending
           /\ F[1].skip => F[1].name \notin DOMAIN S /\ pend > 0 /\ F[1].op = "unsubscribe"
<1>1. Len(F) \in Nat /\ 1 \in 1 .. Len(F) /\ 0 \in 0 .. Len(F)
  BY DEF Ledger, LedgerType
<1>2. F[1] \in Note /\ G[0] \in Nat /\ G[1] \in Nat /\ \A n \in AllNames : W[0][n] \in Nat /\ W[1][n] \in Nat
  BY <1>1, LedgerTyped DEF Ledger
<1>3. LedgerStep(F, V, W, G, 0, 1)
  <2>1. LedgerStep(F, V, W, G, 1 - 1, 1)
    BY <1>1 DEF Ledger, LedgerSteps
  <2> QED BY <2>1
<1>4. F[1].name \in AllNames /\ F[1].op \in {"subscribe", "unsubscribe"}
  BY <1>2 DEF Note
<1>5. W[0][F[1].name] = IF F[1].name \in DOMAIN S THEN S[F[1].name].pending ELSE 0
  BY <1>4 DEF Ledger, LedgerClosed
<1>6. CASE F[1].op = "subscribe"
  <2>1. W[0][F[1].name] = W[1][F[1].name] + 1 /\ ~F[1].skip
    BY <1>3, <1>4, <1>6 DEF LedgerStep
  <2>2. W[0][F[1].name] > 0
    BY <1>2, <1>4, <2>1
  <2> QED BY <1>1, <1>2, <1>3, <1>5, <1>6, <2>1, <2>2
<1>7. CASE F[1].op = "unsubscribe"
  <2>1. W[0][F[1].name] = W[1][F[1].name]
    BY <1>3, <1>4, <1>7 DEF LedgerStep
  <2>2. CASE ~F[1].skip
    <3>1. F[1].name \in DOMAIN S
      BY <1>1, <1>4, <1>7, <2>2 DEF Ledger, LedgerMarks, Ends
    <3> QED BY <1>1, <1>2, <1>3, <1>5, <1>7, <2>1, <2>2, <3>1
  <2>3. CASE F[1].skip
    <3>1. F[1].name \notin DOMAIN S
      BY <1>1, <2>3 DEF Ledger, LedgerMarks
    <3>2. G[0] = G[1] + 1 /\ G[0] = pend
      BY <1>3, <2>3 DEF LedgerStep, Ledger, LedgerClosed
    <3> QED BY <1>1, <1>2, <1>3, <1>7, <2>3, <3>1, <3>2
  <2> QED BY <2>2, <2>3
<1> QED BY <1>4, <1>6, <1>7

Shifted(f, n) == [p \in 0 .. n |-> f[p + 1]]

(* The oldest is gone.                                                      *)
LEMMA LedgerTail ==
    ASSUME NEW F, NEW V, NEW W, NEW G, LedgerType(F, V, W, G), LedgerSteps(F, V, W, G), F # <<>>
    PROVE  LET F2 == Tail(F)
               V2 == Shifted(V, Len(F) - 1)
               W2 == Shifted(W, Len(F) - 1)
               G2 == Shifted(G, Len(F) - 1)
           IN /\ LedgerType(F2, V2, W2, G2) /\ LedgerSteps(F2, V2, W2, G2)
              /\ Len(F2) = Len(F) - 1 /\ Len(F2) \in Nat
              /\ \A p \in 1 .. Len(F2) : F2[p] = F[p + 1]
              /\ \A p \in 0 .. Len(F2) : V2[p] = V[p + 1] /\ W2[p] = W[p + 1] /\ G2[p] = G[p + 1]
<1> DEFINE F2 == Tail(F)
           V2 == Shifted(V, Len(F) - 1)
           W2 == Shifted(W, Len(F) - 1)
           G2 == Shifted(G, Len(F) - 1)
<1>0. /\ F2 = Tail(F) /\ V2 = Shifted(V, Len(F) - 1) /\ W2 = Shifted(W, Len(F) - 1)
      /\ G2 = Shifted(G, Len(F) - 1)
  OBVIOUS
<1> HIDE DEF F2, V2, W2, G2
<1>1. Len(F) \in Nat /\ F \in Seq(Note) /\ Len(F) >= 1
  BY DEF LedgerType
<1>2. /\ F2 \in Seq(Note) /\ Len(F2) = Len(F) - 1 /\ Len(F2) \in Nat
      /\ \A p \in 1 .. Len(F2) : F2[p] = F[p + 1]
  BY <1>0, <1>1
<1>3. \A p \in 0 .. Len(F2) : p + 1 \in 0 .. Len(F)
  BY <1>1, <1>2
<1>4. \A p \in 0 .. Len(F2) : V2[p] = V[p + 1] /\ W2[p] = W[p + 1] /\ G2[p] = G[p + 1]
  BY <1>0, <1>2 DEF Shifted
<1>5. LedgerType(F2, V2, W2, G2)
  <2>1. \A p \in 0 .. Len(F) : V[p] \in SUBSET Names /\ W[p] \in [AllNames -> Nat] /\ G[p] \in Nat
    BY DEF LedgerType
  <2>2. \A p \in 0 .. Len(F2) : V2[p] \in SUBSET Names /\ W2[p] \in [AllNames -> Nat] /\ G2[p] \in Nat
    BY <1>3, <1>4, <2>1
  <2>3. /\ V2 = [p \in 0 .. Len(F2) |-> V2[p]] /\ W2 = [p \in 0 .. Len(F2) |-> W2[p]]
        /\ G2 = [p \in 0 .. Len(F2) |-> G2[p]]
    BY <1>0, <1>2 DEF Shifted
  <2> QED BY <1>2, <2>2, <2>3 DEF LedgerType
<1>6. LedgerSteps(F2, V2, W2, G2)
  <2> SUFFICES ASSUME NEW p \in 1 .. Len(F2) PROVE LedgerStep(F2, V2, W2, G2, p - 1, p)
    BY DEF LedgerSteps
  <2>1. p \in 0 .. Len(F) /\ p + 1 <= Len(F) /\ p - 1 \in 0 .. Len(F2) /\ p \in 0 .. Len(F2) /\ (p - 1) + 1 = p
    BY <1>1, <1>2
  <2>2. LedgerStep(F, V, W, G, p, p + 1)
    BY <1>1, <2>1, LedgerNext
  <2>3. /\ F2[p] = F[p + 1] /\ V2[p] = V[p + 1] /\ W2[p] = W[p + 1] /\ G2[p] = G[p + 1]
        /\ V2[p - 1] = V[p] /\ W2[p - 1] = W[p] /\ G2[p - 1] = G[p]
    BY <1>2, <1>4, <2>1
  <2> QED BY <2>2, <2>3 DEF LedgerStep
<1> QED BY <1>2, <1>4, <1>5, <1>6 DEF F2, V2, W2, G2

(* The client takes note of the oldest.                                     *)
Noted(S, pend, h, S2, pend2) ==
    /\ h.op = "subscribe" => Confirmed(S, h.name, S2) /\ pend2 = pend
    /\ h.skip => S2 = S /\ pend2 = pend - 1
    /\ h.op = "unsubscribe" /\ ~h.skip =>
          /\ pend2 = pend
          /\ S2 = IF S[h.name].pending = 0 THEN [k \in DOMAIN S \ {h.name} |-> S[k]] ELSE S

(* When the client has taken note of the oldest, the rest is the ledger.    *)
LEMMA LedgerTakes ==
    ASSUME NEW S, NEW pend, NEW F, NEW V, NEW W, NEW G, Ledger(S, pend, F, V, W, G), F # <<>>,
           NEW S2, NEW pend2, Noted(S, pend, F[1], S2, pend2),
           NEW F2, NEW V2, NEW W2, NEW G2, F2 = Tail(F),
           V2 = Shifted(V, Len(F) - 1), W2 = Shifted(W, Len(F) - 1), G2 = Shifted(G, Len(F) - 1)
    PROVE  Ledger(S2, pend2, F2, V2, W2, G2)
<1> DEFINE n == F[1].name
<1>1. /\ LedgerType(F2, V2, W2, G2) /\ LedgerSteps(F2, V2, W2, G2)
      /\ Len(F2) = Len(F) - 1 /\ Len(F2) \in Nat
      /\ \A p \in 1 .. Len(F2) : F2[p] = F[p + 1]
      /\ \A p \in 0 .. Len(F2) : V2[p] = V[p + 1] /\ W2[p] = W[p + 1] /\ G2[p] = G[p + 1]
  <2>1. LedgerType(F, V, W, G) /\ LedgerSteps(F, V, W, G)
    BY DEF Ledger
  <2> QED BY <2>1, LedgerTail
<1>2. /\ 1 \in 1 .. Len(F) /\ n \in AllNames /\ F[1].op \in {"subscribe", "unsubscribe"} /\ F[1].skip \in BOOLEAN
      /\ LedgerStep(F, V, W, G, 0, 1)
      /\ F[1].op = "subscribe" => n \in DOMAIN S /\ S[n].pending > 0 /\ ~F[1].skip
      /\ F[1].op = "unsubscribe" /\ ~F[1].skip => n \in DOMAIN S /\ W[1][n] = S[n].pending
      /\ F[1].skip => n \notin DOMAIN S /\ pend > 0 /\ F[1].op = "unsubscribe"
  BY LedgerHead DEF Note
<1>3. /\ Len(F) \in Nat /\ \A p \in 0 .. Len(F) : G[p] \in Nat /\ \A k \in AllNames : W[p][k] \in Nat
      /\ \A p \in 1 .. Len(F) : F[p] \in Note
  BY LedgerTyped DEF Ledger
<1>4. \A k \in DOMAIN S : k \in AllNames /\ S[k] \in Subscription /\ S[k].pending \in Nat /\ S[k].sent \in BOOLEAN
  BY LedgerEntries DEF Ledger
<1> DEFINE gone == F[1].op = "unsubscribe" /\ ~F[1].skip /\ S[n].pending = 0
<1> HIDE DEF n, gone
<1>5. /\ DOMAIN S2 = IF gone THEN DOMAIN S \ {n} ELSE DOMAIN S
      /\ \A k \in DOMAIN S2 : S2[k].sent = S[k].sent /\ S2[k] \in Subscription
      /\ \A k \in AllNames : W[1][k] = IF k \in DOMAIN S2 THEN S2[k].pending ELSE 0
      /\ pend2 = G[1]
  <2>0. G[0] = pend /\ \A k \in AllNames : W[0][k] = IF k \in DOMAIN S THEN S[k].pending ELSE 0
    BY DEF Ledger, LedgerClosed
  <2>1. CASE F[1].op = "subscribe"
    <3>1. Confirmed(S, n, S2) /\ pend2 = pend /\ ~gone
      BY <2>1 DEF Noted, n, gone
    <3>2. n \in DOMAIN S /\ S[n].pending > 0
      BY <1>2, <2>1
    <3>3. DOMAIN S2 = DOMAIN S /\ \A k \in DOMAIN S : k # n => S2[k] = S[k]
      BY <3>1 DEF Confirmed
    <3>4. S2[n] \in Subscription /\ S2[n].sent = S[n].sent /\ S2[n].pending = S[n].pending - 1
      BY <3>1 DEF Confirmed
    <3>5. \A k \in AllNames : W[0][k] = IF k = n THEN W[1][k] + 1 ELSE W[1][k]
      BY <1>2, <2>1 DEF LedgerStep, n
    <3>6. W[1][n] = S2[n].pending /\ n \in DOMAIN S
      BY <1>2, <1>3, <1>4, <2>0, <2>1, <3>4, <3>5
    <3>7. \A k \in AllNames : k # n => W[1][k] = W[0][k]
      BY <3>5
    <3>8. pend2 = G[1]
      BY <1>2, <2>0, <2>1, <3>1 DEF LedgerStep
    <3> QED BY <1>4, <2>0, <3>1, <3>2, <3>3, <3>4, <3>6, <3>7, <3>8
  <2>2. CASE F[1].skip
    <3>1. S2 = S /\ pend2 = pend - 1 /\ ~gone
      BY <1>2, <2>2 DEF Noted, n, gone
    <3>2. G[0] = G[1] + 1 /\ \A k \in AllNames : W[0][k] = W[1][k]
      BY <1>2, <2>2 DEF LedgerStep
    <3>3. pend2 = G[1]
      BY <1>2, <1>3, <2>0, <3>1, <3>2
    <3> QED BY <1>4, <2>0, <3>1, <3>2, <3>3
  <2>3. CASE F[1].op = "unsubscribe" /\ ~F[1].skip
    <3>1. pend2 = pend /\ S2 = IF S[n].pending = 0 THEN [k \in DOMAIN S \ {n} |-> S[k]] ELSE S
      BY <2>3 DEF Noted, n
    <3>2. G[0] = G[1] /\ \A k \in AllNames : W[0][k] = W[1][k]
      BY <1>2, <2>3 DEF LedgerStep
    <3>3. n \in DOMAIN S
      BY <1>2, <2>3
    <3>4. CASE gone
      <4>1. S2 = [k \in DOMAIN S \ {n} |-> S[k]]
        BY <3>1, <3>4 DEF gone
      <4>2. W[1][n] = 0
        BY <1>2, <2>3, <3>4 DEF gone
      <4> QED BY <1>4, <2>0, <3>1, <3>2, <3>4, <4>1, <4>2
    <3>5. CASE ~gone
      <4>1. S2 = S
        BY <2>3, <3>1, <3>5 DEF gone
      <4> QED BY <1>4, <2>0, <3>1, <3>2, <3>5, <4>1
    <3> QED BY <3>4, <3>5
  <2> QED BY <1>2, <2>1, <2>2, <2>3
(* Nothing that counts is lost with the oldest.                             *)
<1>6. \A k \in DOMAIN S2 : ~(Ends(F, 1, k) /\ W[1][k] = 0)
  <2> SUFFICES ASSUME NEW k \in DOMAIN S2, Ends(F, 1, k), W[1][k] = 0 PROVE FALSE
    OBVIOUS
  <2>1. k = n /\ F[1].op = "unsubscribe" /\ ~F[1].skip
    BY DEF Ends, n
  <2>2. S[n].pending = 0
    BY <1>2, <2>1
  <2> QED BY <1>5, <2>1, <2>2 DEF gone
<1>7. gone => \A p \in 1 .. Len(F) : n \notin V[p] /\ (p # 1 => ~Ends(F, p, n))
  <2> SUFFICES ASSUME gone, NEW p \in 1 .. Len(F) PROVE n \notin V[p] /\ (p # 1 => ~Ends(F, p, n))
    OBVIOUS
  <2>1. n \notin V[1] /\ W[1][n] = 0 /\ Ends(F, 1, n)
    BY <1>2 DEF gone, LedgerStep, n, Ends
  <2>2. n \in V[p] => W[p][n] < W[1][n]
    <3>1. 1 \in 0 .. Len(F) /\ p \in 1 .. Len(F)
      BY <1>2, <1>3
    <3>2. n \in V[p] /\ n \notin V[1] => W[p][n] < W[1][n]
      BY <1>2, <3>1, LedgerShrinks DEF Ledger
    <3> QED BY <2>1, <3>2
  <2>3. W[p][n] \in Nat
    BY <1>2, <1>3
  <2>4. p # 1 /\ Ends(F, p, n) => W[1][n] > W[p][n]
    <3> SUFFICES ASSUME p # 1, Ends(F, p, n) PROVE W[1][n] > W[p][n]
      OBVIOUS
    <3>1. \A q \in 1 .. p - 1 : Ends(F, q, n) => W[q][n] > W[p][n]
      BY <1>2 DEF Ledger, LedgerMarks
    <3>2. 1 \in 1 .. p - 1
      BY <1>3
    <3> QED BY <2>1, <3>1, <3>2
  <2> QED BY <2>1, <2>2, <2>3, <2>4
<1>8. LedgerClosed(S2, pend2, F2, V2, W2, G2)
  <2>1. IsFiniteSet(DOMAIN S2) /\ DOMAIN S2 \subseteq DOMAIN S /\ DOMAIN S \subseteq Names
    <3>1. IsFiniteSet(DOMAIN S) /\ DOMAIN S \subseteq Names /\ DOMAIN S2 \subseteq DOMAIN S
      BY <1>5 DEF Ledger, LedgerClosed
    <3> QED BY <3>1, FS_Subset
  <2>2. 0 \in 0 .. Len(F2) /\ Len(F2) \in 0 .. Len(F2) /\ Len(F2) + 1 = Len(F)
    BY <1>1, <1>3
  <2>3. /\ W2[0] = W[1] /\ W2[Len(F2)] = W[Len(F)] /\ G2[0] = G[1] /\ G2[Len(F2)] = G[Len(F)]
        /\ V2[Len(F2)] = V[Len(F)]
    BY <1>1, <2>2
  <2>4. G[Len(F)] = 0 /\ \A k \in AllNames : W[Len(F)][k] = 0
    BY DEF Ledger, LedgerClosed
  <2>5. ASSUME NEW p \in 0 .. Len(F2) PROVE V2[p] \subseteq DOMAIN S2
    <3>1. p + 1 \in 1 .. Len(F) /\ p + 1 \in 0 .. Len(F) /\ V2[p] = V[p + 1]
      BY <1>1, <1>3
    <3>2. V[p + 1] \subseteq DOMAIN S
      BY <3>1 DEF Ledger, LedgerClosed
    <3> QED BY <1>5, <1>7, <3>1, <3>2
  <2>6. \A k \in DOMAIN S2 : k \in V2[Len(F2)] <=> ~S2[k].sent
    BY <1>5, <2>1, <2>3 DEF Ledger, LedgerClosed
  <2> QED BY <1>5, <2>1, <2>3, <2>4, <2>5, <2>6 DEF LedgerClosed
<1>9. LedgerMarks(S2, F2, W2)
  <2>0. /\ \A p \in 1 .. Len(F2) : p + 1 \in 1 .. Len(F) /\ p \in 0 .. Len(F2) /\ W2[p] = W[p + 1]
        /\ \A p \in 1 .. Len(F2), k \in AllNames : Ends(F2, p, k) <=> Ends(F, p + 1, k)
    BY <1>1, <1>3 DEF Ends
  <2>1. ASSUME NEW p \in 2 .. Len(F), NEW k PROVE \E q \in 1 .. Len(F2) : q + 1 = p
    <3>1. p - 1 \in 1 .. Len(F2) /\ (p - 1) + 1 = p
      BY <1>1, <1>3
    <3> QED BY <3>1
  <2>2. ASSUME NEW k \in DOMAIN S2, S2[k].sent
        PROVE  \E p \in 1 .. Len(F2) : Ends(F2, p, k) /\ W2[p][k] = 0
    <3>0. k \in DOMAIN S /\ S[k].sent /\ k \in AllNames
      BY <1>4, <1>5, <2>2
    <3>1. PICK p \in 1 .. Len(F) : Ends(F, p, k) /\ W[p][k] = 0
      BY <3>0 DEF Ledger, LedgerMarks
    <3>2. p # 1
      BY <1>6, <3>1
    <3>3. p \in 2 .. Len(F)
      BY <1>3, <3>2
    <3>4. PICK q \in 1 .. Len(F2) : q + 1 = p
      BY <2>1, <3>3
    <3> QED BY <2>0, <3>0, <3>1, <3>4
  <2>3. ASSUME NEW p \in 1 .. Len(F2), F2[p].skip
        PROVE  /\ W2[p][F2[p].name] = 0
               /\ \/ F2[p].name \notin DOMAIN S2
                  \/ \E q \in 1 .. p - 1 : Ends(F2, q, F2[p].name) /\ W2[q][F2[p].name] = 0
    <3> DEFINE k == F[p + 1].name
    <3>1. F2[p].name = k /\ p + 1 \in 1 .. Len(F) /\ F[p + 1].skip /\ W2[p][k] = W[p + 1][k] /\ k \in AllNames
      BY <1>1, <1>3, <2>0, <2>3 DEF Note
    <3>2. W[p + 1][k] = 0 /\ (k \notin DOMAIN S \/ \E q \in 1 .. (p + 1) - 1 : Ends(F, q, k) /\ W[q][k] = 0)
      BY <3>1 DEF Ledger, LedgerMarks
    <3> HIDE DEF k
    <3>3. CASE k \notin DOMAIN S2
      BY <3>1, <3>2, <3>3
    <3>4. CASE k \in DOMAIN S2
      <4>1. PICK q \in 1 .. (p + 1) - 1 : Ends(F, q, k) /\ W[q][k] = 0
        BY <1>5, <3>2, <3>4
      <4>2. q # 1
        BY <1>6, <3>4, <4>1
      <4>3. q - 1 \in 1 .. p - 1 /\ q - 1 \in 1 .. Len(F2) /\ (q - 1) + 1 = q
        BY <1>1, <4>2
      <4>4. Ends(F2, q - 1, k) /\ W2[q - 1][k] = 0
        BY <2>0, <3>1, <4>1, <4>3
      <4> QED BY <3>1, <3>2, <4>3, <4>4
    <3> QED BY <3>3, <3>4
  <2>4. ASSUME NEW p \in 1 .. Len(F2), NEW k \in AllNames, Ends(F2, p, k)
        PROVE  k \in DOMAIN S2 /\ \A q \in 1 .. p - 1 : Ends(F2, q, k) => W2[q][k] > W2[p][k]
    <3>1. p + 1 \in 1 .. Len(F) /\ Ends(F, p + 1, k) /\ W2[p] = W[p + 1]
      BY <2>0, <2>4
    <3>2. k \in DOMAIN S /\ \A q \in 1 .. (p + 1) - 1 : Ends(F, q, k) => W[q][k] > W[p + 1][k]
      BY <3>1 DEF Ledger, LedgerMarks
    <3>3. k \in DOMAIN S2
      <4>1. gone => k # n
        BY <1>1, <1>7, <3>1
      <4> QED BY <1>5, <3>2, <4>1
    <3>4. ASSUME NEW q \in 1 .. p - 1, Ends(F2, q, k) PROVE W2[q][k] > W2[p][k]
      <4>1. q \in 1 .. Len(F2) /\ q + 1 \in 1 .. (p + 1) - 1
        BY <1>1
      <4>2. Ends(F, q + 1, k) /\ W2[q] = W[q + 1]
        BY <2>0, <3>4, <4>1
      <4> QED BY <3>1, <3>2, <4>1, <4>2
    <3> QED BY <3>3, <3>4
  <2> QED BY <2>2, <2>3, <2>4 DEF LedgerMarks
<1> QED BY <1>1, <1>8, <1>9 DEF Ledger

-----------------------------------------------------------------------------
(***************************************************************************)
(* UNSUBSCRIPTIONS IN THE LEDGER                                           *)
(*                                                                         *)
(* What UNSUBSCRIBE appends to the ledger: one answer per name, to be      *)
(* ignored where no entry can be marked.                                   *)
(***************************************************************************)

Open(S, n) == n \in DOMAIN S /\ ~S[n].sent

(* Two sequences in a row.                                                  *)
LEMMA Concatenated ==
    ASSUME NEW T, NEW s \in Seq(T), NEW t \in Seq(T)
    PROVE  /\ s \o t \in Seq(T) /\ Len(s \o t) = Len(s) + Len(t)
           /\ Len(s) \in Nat /\ Len(t) \in Nat
           /\ \A i \in 1 .. Len(s) : (s \o t)[i] = s[i]
           /\ \A i \in 1 .. Len(t) : (s \o t)[Len(s) + i] = t[i]
<1>1. s \o t \in Seq(T) /\ Len(s \o t) = Len(s) + Len(t) /\ Len(s) \in Nat /\ Len(t) \in Nat
  OBVIOUS
<1>2. \A i \in 1 .. Len(s) : (s \o t)[i] = s[i]
  OBVIOUS
<1>3. ASSUME NEW i \in 1 .. Len(t) PROVE (s \o t)[Len(s) + i] = t[i]
  OBVIOUS
<1> QED BY <1>1, <1>2, <1>3

(* A function from 1 .. k is a sequence.                                    *)
LEMMA SequenceOf ==
    ASSUME NEW T, NEW k \in Nat, NEW s \in [1 .. k -> T]
    PROVE  s \in Seq(T) /\ Len(s) = k
OBVIOUS

(* What is appended to the ledger has numbers of its own.                   *)
LEMMA Positions ==
    ASSUME NEW L \in Nat, NEW k \in Nat, NEW p \in 0 .. L + k, p > L
    PROVE  \E x \in 1 .. k : p = L + x
<1>1. p - L \in 1 .. k /\ p = L + (p - L)
  OBVIOUS
<1> QED BY <1>1

(* The first x names of a list.                                             *)
First(names, x) == {names[y] : y \in 1 .. x}

(* They are one more at a time.                                             *)
LEMMA FirstNames ==
    ASSUME NEW names
    PROVE  /\ First(names, 0) = {}
           /\ \A x \in Nat : x > 0 => First(names, x) = First(names, x - 1) \cup {names[x]}
           /\ \A x \in Nat : \A n : n \in First(names, x) <=> \E y \in 1 .. x : names[y] = n
<1>1. First(names, 0) = {}
  BY DEF First
<1>2. ASSUME NEW x \in Nat, x > 0 PROVE First(names, x) = First(names, x - 1) \cup {names[x]}
  <2>1. \A y : y \in 1 .. x <=> (y \in 1 .. x - 1 \/ y = x)
    BY <1>2
  <2> QED BY <2>1 DEF First
<1>3. ASSUME NEW x \in Nat, NEW n PROVE n \in First(names, x) <=> \E y \in 1 .. x : names[y] = n
  BY DEF First
<1> QED BY <1>1, <1>2, <1>3

(* The answers to an unsubscription are awaited.                            *)
Asked(S, names) == [x \in 1 .. Len(names) |->
                       [op |-> "unsubscribe", name |-> names[x], skip |-> ~Open(S, names[x])]]

Marked(S, names, S2) ==
    /\ DOMAIN S2 = DOMAIN S
    /\ \A n \in DOMAIN S : /\ S2[n] \in Subscription /\ S2[n].pending = S[n].pending
                           /\ S2[n].sent = (S[n].sent \/ n \in Range(names))

Distinct(names) == \A x, y \in 1 .. Len(names) : names[x] = names[y] => x = y

Ignored(S, pend, names, ig) ==
    /\ ig[0] = pend /\ \A x \in 0 .. Len(names) : ig[x] \in Nat /\ ig[x] <= ig[Len(names)]
    /\ \A x \in 1 .. Len(names) : ig[x] = IF Open(S, names[x]) THEN ig[x - 1] ELSE ig[x - 1] + 1

(* An UNSUBSCRIBE, of names or of all, leaves a ledger with its answers at  *)
(* the end: each finds the entry it is for, or is one of those to be        *)
(* ignored.                                                                 *)
LEMMA LedgerAsks ==
    ASSUME NEW S, NEW pend, NEW F, NEW V, NEW W, NEW G, Ledger(S, pend, F, V, W, G),
           NEW names \in Seq(AllNames), Distinct(names),
           NEW ig, Ignored(S, pend, names, ig), NEW S2, Marked(S, names, S2)
    PROVE  \E V2, W2, G2 : /\ Ledger(S2, ig[Len(names)], F \o Asked(S, names), V2, W2, G2)
                           /\ \A p \in 0 .. Len(F) : V2[p] = V[p]
<1> DEFINE L == Len(F)
           k == Len(names)
           A == Asked(S, names)
           F2 == F \o A
           V2 == [p \in 0 .. L + k |-> IF p <= L THEN V[p] ELSE V[L] \ First(names, p - L)]
           W2 == [p \in 0 .. L + k |-> IF p <= L THEN W[p] ELSE [n \in AllNames |-> 0]]
           G2 == [p \in 0 .. L + k |-> IF p <= L THEN G[p] + (ig[k] - pend) ELSE ig[k] - ig[p - L]]
<1>0. LedgerType(F, V, W, G) /\ LedgerSteps(F, V, W, G) /\ LedgerClosed(S, pend, F, V, W, G) /\ LedgerMarks(S, F, W)
  BY DEF Ledger
<1>1. /\ L \in Nat /\ k \in Nat /\ F \in Seq(Note) /\ L = Len(F) /\ k = Len(names)
      /\ \A p \in 0 .. L : G[p] \in Nat /\ V[p] \subseteq Names /\ W[p] \in [AllNames -> Nat]
      /\ \A p \in 0 .. L : \A n \in AllNames : W[p][n] \in Nat
  BY <1>0, LedgerTyped DEF LedgerType
<1>a. L = Len(F) /\ k = Len(names)
  OBVIOUS
<1> HIDE DEF L, k
<1>2. /\ A \in Seq(Note) /\ Len(A) = k
      /\ \A x \in 1 .. k : /\ A[x].op = "unsubscribe" /\ A[x].name = names[x] /\ names[x] \in AllNames
                           /\ A[x].skip = ~Open(S, names[x]) /\ A[x].skip \in BOOLEAN
  <2>1. A = [x \in 1 .. k |-> [op |-> "unsubscribe", name |-> names[x], skip |-> ~Open(S, names[x])]]
    BY <1>1 DEF Asked
  <2>2. \A x \in 1 .. k : Open(S, names[x]) \in BOOLEAN /\ names[x] \in AllNames
    <3>1. \A n : Open(S, n) \in BOOLEAN
      BY DEF Open
    <3>2. \A x \in 1 .. k : names[x] \in AllNames
      BY <1>a
    <3> QED BY <3>1, <3>2
  <2>4. \A x \in 1 .. k : (~Open(S, names[x])) \in BOOLEAN
    BY <2>2
  <2>3. \A x \in 1 .. k : [op |-> "unsubscribe", name |-> names[x], skip |-> ~Open(S, names[x])] \in Note
    BY <2>2 DEF Note
  <2> HIDE DEF A
  <2>5. A \in [1 .. k -> Note]
    BY <2>1, <2>3
  <2>6. A \in Seq(Note) /\ Len(A) = k
    BY <1>1, <2>5, SequenceOf
  <2> QED BY <2>1, <2>2, <2>4, <2>6
<1>3. /\ F2 \in Seq(Note) /\ Len(F2) = L + k
      /\ \A p \in 1 .. L : F2[p] = F[p]
      /\ \A x \in 1 .. k : F2[L + x] = A[x]
  <2>1. F \in Seq(Note) /\ A \in Seq(Note) /\ Len(A) = k /\ L = Len(F)
    BY <1>1, <1>2
  <2>2. F2 = F \o A
    OBVIOUS
  <2> HIDE DEF A, F2
  <2> QED BY <2>1, <2>2, Concatenated
<1>4. /\ \A p \in 0 .. L : V2[p] = V[p] /\ W2[p] = W[p] /\ G2[p] = G[p] + (ig[k] - pend)
      /\ \A x \in 1 .. k : /\ V2[L + x] = V[L] \ First(names, x)
                           /\ W2[L + x] = [n \in AllNames |-> 0] /\ G2[L + x] = ig[k] - ig[x]
  <2>1. \A p \in 0 .. L : V2[p] = V[p] /\ W2[p] = W[p] /\ G2[p] = G[p] + (ig[k] - pend)
    BY <1>1
  <2>2. ASSUME NEW x \in 1 .. k
        PROVE  /\ V2[L + x] = V[L] \ First(names, x)
               /\ W2[L + x] = [n \in AllNames |-> 0] /\ G2[L + x] = ig[k] - ig[x]
    <3>1. L + x \in 0 .. L + k /\ ~(L + x <= L) /\ (L + x) - L = x
      BY <1>1
    <3> QED BY <3>1
  <2> QED BY <2>1, <2>2
<1>5. /\ ig[0] = pend /\ ig[k] \in Nat /\ pend \in Nat /\ ig[k] >= pend
      /\ \A x \in 0 .. k : ig[x] \in Nat /\ ig[x] <= ig[k]
      /\ \A x \in 1 .. k : ig[x] = IF Open(S, names[x]) THEN ig[x - 1] ELSE ig[x - 1] + 1
  <2>1. 0 \in 0 .. k /\ k \in 0 .. k
    BY <1>1
  <2> QED BY <1>1, <2>1 DEF Ignored
<1>6. /\ G[0] = pend /\ G[L] = 0 /\ \A n \in AllNames : W[L][n] = 0
      /\ \A n \in DOMAIN S : n \in V[L] <=> ~S[n].sent
      /\ V[L] \subseteq DOMAIN S /\ DOMAIN S \subseteq Names /\ Names \subseteq AllNames
  BY <1>0, <1>1 DEF LedgerClosed, AllNames
<1>7. LedgerType(F2, V2, W2, G2)
  <2>1. ASSUME NEW p \in 0 .. L + k
        PROVE  V2[p] \in SUBSET Names /\ W2[p] \in [AllNames -> Nat] /\ G2[p] \in Nat
    <3>1. CASE p <= L
      <4>1. p \in 0 .. L
        BY <1>1, <3>1
      <4>2. G[p] + (ig[k] - pend) \in Nat
        BY <1>1, <1>5, <4>1
      <4> HIDE DEF V2, W2, G2
      <4> QED BY <1>1, <1>4, <4>1, <4>2
    <3>2. CASE p > L
      <4>1. PICK x \in 1 .. k : p = L + x
        BY <1>1, <3>2, Positions
      <4>2. x \in 0 .. k /\ ig[k] - ig[x] \in Nat /\ V[L] \subseteq Names
        BY <1>1, <1>5, <4>1
      <4>3. [n \in AllNames |-> 0] \in [AllNames -> Nat]
        OBVIOUS
      <4> HIDE DEF V2, W2, G2
      <4> QED BY <1>4, <4>1, <4>2, <4>3
    <3> QED BY <1>1, <3>1, <3>2
  <2>2. /\ V2 = [p \in 0 .. L + k |-> V2[p]] /\ W2 = [p \in 0 .. L + k |-> W2[p]]
        /\ G2 = [p \in 0 .. L + k |-> G2[p]]
    OBVIOUS
  <2> HIDE DEF V2, W2, G2, F2
  <2> QED BY <1>3, <2>1, <2>2 DEF LedgerType
<1> HIDE DEF V2, W2, G2, F2, A
<1>8. LedgerSteps(F2, V2, W2, G2)
  <2> SUFFICES ASSUME NEW p \in 1 .. L + k PROVE LedgerStep(F2, V2, W2, G2, p - 1, p)
    BY <1>3 DEF LedgerSteps
  <2>1. CASE p <= L
    <3>1. p \in 1 .. L /\ p - 1 \in 0 .. L /\ p \in 0 .. L
      BY <1>1, <2>1
    <3>2. LedgerStep(F, V, W, G, p - 1, p)
      BY <1>a, <1>0, <3>1 DEF LedgerSteps
    <3>3. F2[p] = F[p] /\ V2[p] = V[p] /\ V2[p - 1] = V[p - 1] /\ W2[p] = W[p] /\ W2[p - 1] = W[p - 1]
          /\ G2[p] = G[p] + (ig[k] - pend) /\ G2[p - 1] = G[p - 1] + (ig[k] - pend)
      BY <1>3, <1>4, <3>1
    <3>4. G[p] \in Nat /\ G[p - 1] \in Nat
      BY <1>1, <3>1
    <3>5. G2[p - 1] = IF F2[p].skip THEN G2[p] + 1 ELSE G2[p]
      <4>1. G[p - 1] = IF F[p].skip THEN G[p] + 1 ELSE G[p]
        BY <3>2 DEF LedgerStep
      <4>2. ig[k] - pend \in Nat
        BY <1>5
      <4> QED BY <3>3, <3>4, <4>1, <4>2
    <3> QED BY <3>2, <3>3, <3>5 DEF LedgerStep
  <2>2. CASE p > L
    <3>1. p \in 0 .. L + k
      BY <1>1
    <3>2. PICK x \in 1 .. k : p = L + x
      BY <1>1, <2>2, <3>1, Positions
    <3>3. /\ F2[p].op = "unsubscribe" /\ F2[p].name = names[x] /\ F2[p].skip = ~Open(S, names[x])
          /\ F2[p].skip \in BOOLEAN
          /\ V2[p] = V[L] \ First(names, x) /\ W2[p] = [n \in AllNames |-> 0] /\ G2[p] = ig[k] - ig[x]
      BY <1>2, <1>3, <1>4, <3>2
    <3>4. /\ V2[p - 1] = V[L] \ First(names, x - 1) /\ \A n \in AllNames : W2[p - 1][n] = 0
          /\ G2[p - 1] = ig[k] - ig[x - 1]
      <4>1. CASE x = 1
        <5>1. p - 1 = L /\ L \in 0 .. L
          BY <1>1, <3>2, <4>1
        <5>2. V2[p - 1] = V[L] /\ W2[p - 1] = W[L] /\ G2[p - 1] = G[L] + (ig[k] - pend) /\ ig[x - 1] = pend
          BY <1>4, <1>5, <4>1, <5>1
        <5>3. First(names, x - 1) = {}
          BY <4>1, FirstNames
        <5>4. G2[p - 1] = ig[k] - ig[x - 1]
          BY <1>1, <1>5, <1>6, <5>1, <5>2
        <5> QED BY <1>6, <5>2, <5>3, <5>4
      <4>2. CASE x # 1
        <5>1. x - 1 \in 1 .. k /\ p - 1 = L + (x - 1)
          BY <1>1, <3>2, <4>2
        <5>2. /\ V2[L + (x - 1)] = V[L] \ First(names, x - 1)
              /\ W2[L + (x - 1)] = [n \in AllNames |-> 0] /\ G2[L + (x - 1)] = ig[k] - ig[x - 1]
          BY <1>4, <5>1
        <5> QED BY <5>1, <5>2
      <4> QED BY <4>1, <4>2
    <3>5. V2[p] = V2[p - 1] \ {names[x]}
      <4>1. First(names, x) = First(names, x - 1) \cup {names[x]}
        <5>1. x \in Nat /\ x > 0
          BY <1>1
        <5> QED BY <5>1, FirstNames
      <4> QED BY <3>3, <3>4, <4>1
    <3>6. G2[p - 1] = IF F2[p].skip THEN G2[p] + 1 ELSE G2[p]
      <4>1. x \in 0 .. k /\ x - 1 \in 0 .. k
        BY <1>1
      <4>2. ig[x] \in Nat /\ ig[x - 1] \in Nat /\ ig[x] = IF F2[p].skip THEN ig[x - 1] + 1 ELSE ig[x - 1]
        BY <1>5, <3>3, <4>1
      <4> QED BY <1>5, <3>3, <3>4, <4>2
    <3>7. \A n \in AllNames : W2[p - 1][n] = W2[p][n]
      BY <3>3, <3>4
    <3> QED BY <3>3, <3>5, <3>6, <3>7 DEF LedgerStep
  <2> QED BY <1>1, <2>1, <2>2
<1>9. Range(names) = First(names, k)
  BY DEF Range, First, k
<1>10. /\ DOMAIN S2 = DOMAIN S
       /\ \A n \in DOMAIN S : /\ S2[n] \in Subscription /\ S2[n].pending = S[n].pending
                              /\ S2[n].sent = (S[n].sent \/ \E y \in 1 .. k : names[y] = n)
  <2>1. \A n : n \in Range(names) <=> \E y \in 1 .. k : names[y] = n
    BY <1>1, <1>9, FirstNames
  <2> QED BY <2>1 DEF Marked
<1>11. LedgerClosed(S2, ig[k], F2, V2, W2, G2)
  <2>1. 0 \in 0 .. L
    BY <1>1
  <2>2. G2[0] = ig[k] /\ W2[0] = W[0]
    BY <1>4, <1>5, <1>6, <2>1
  <2>3. G2[L + k] = 0 /\ (\A n \in AllNames : W2[L + k][n] = 0) /\ V2[L + k] = V[L] \ First(names, k)
    <3>1. CASE k = 0
      <4>1. L + k = L /\ L \in 0 .. L /\ ig[k] = pend /\ First(names, k) = {}
        BY <1>1, <1>5, <3>1, FirstNames
      <4>2. V2[L] = V[L] /\ W2[L] = W[L] /\ G2[L] = G[L] + (ig[k] - pend)
        BY <1>4, <4>1
      <4> QED BY <1>5, <1>6, <4>1, <4>2
    <3>2. CASE k # 0
      <4>1. k \in 1 .. k
        BY <1>1, <3>2
      <4>2. V2[L + k] = V[L] \ First(names, k) /\ W2[L + k] = [n \in AllNames |-> 0] /\ G2[L + k] = ig[k] - ig[k]
        BY <1>4, <4>1
      <4> QED BY <1>5, <4>2
    <3> QED BY <3>1, <3>2
  <2>4. ASSUME NEW p \in 0 .. L + k PROVE V2[p] \subseteq DOMAIN S
    <3>1. CASE p <= L
      <4>1. p \in 0 .. L
        BY <1>1, <3>1
      <4> QED BY <1>a, <1>0, <1>4, <4>1 DEF LedgerClosed
    <3>2. CASE p > L
      <4>1. PICK x \in 1 .. k : p = L + x
        BY <1>1, <3>2, Positions
      <4> QED BY <1>4, <1>6, <4>1
    <3> QED BY <1>1, <3>1, <3>2
  <2>5. \A n \in DOMAIN S : n \in V2[L + k] <=> ~S2[n].sent
    <3>1. \A n : n \in First(names, k) <=> \E y \in 1 .. k : names[y] = n
      BY <1>a, <1>1, FirstNames
    <3> SUFFICES ASSUME NEW n \in DOMAIN S PROVE n \in V2[L + k] <=> ~S2[n].sent
      OBVIOUS
    <3>2. S2[n].sent = (S[n].sent \/ \E y \in 1 .. k : names[y] = n) /\ (n \in V[L] <=> ~S[n].sent)
      BY <1>6, <1>10
    <3> QED BY <2>3, <3>1, <3>2
  <2>6. IsFiniteSet(DOMAIN S) /\ \A n \in AllNames : W[0][n] = IF n \in DOMAIN S THEN S[n].pending ELSE 0
    BY <1>0 DEF LedgerClosed
  <2> QED BY <1>3, <1>6, <1>10, <2>2, <2>3, <2>4, <2>5, <2>6 DEF LedgerClosed
<1>12. LedgerMarks(S2, F2, W2)
  <2>1. ASSUME NEW p \in 1 .. L, NEW n
        PROVE  p \in 1 .. L + k /\ F2[p] = F[p] /\ W2[p] = W[p] /\ (Ends(F2, p, n) <=> Ends(F, p, n))
    <3>1. p \in 1 .. L + k /\ p \in 0 .. L
      BY <1>1
    <3>2. F2[p] = F[p] /\ W2[p] = W[p]
      BY <1>3, <1>4, <3>1
    <3> QED BY <3>1, <3>2 DEF Ends
  <2>2. ASSUME NEW x \in 1 .. k
        PROVE  /\ L + x \in 1 .. L + k /\ F2[L + x].skip = ~Open(S, names[x]) /\ F2[L + x].name = names[x]
               /\ \A n : Ends(F2, L + x, n) <=> (names[x] = n /\ Open(S, n))
               /\ \A n \in AllNames : W2[L + x][n] = 0
    <3>1. L + x \in 1 .. L + k
      BY <1>1
    <3>2. /\ F2[L + x].op = "unsubscribe" /\ F2[L + x].name = names[x] /\ F2[L + x].skip = ~Open(S, names[x])
      BY <1>2, <1>3
    <3>3. Open(S, names[x]) \in BOOLEAN
      BY DEF Open
    <3>4. \A n \in AllNames : W2[L + x][n] = 0
      BY <1>4
    <3> QED BY <3>1, <3>2, <3>3, <3>4 DEF Ends
  <2>3. ASSUME NEW n \in DOMAIN S2, S2[n].sent
        PROVE  \E p \in 1 .. L + k : Ends(F2, p, n) /\ W2[p][n] = 0
    <3>0. n \in DOMAIN S /\ n \in AllNames
      BY <1>6, <1>10
    <3>1. CASE S[n].sent
      <4>1. PICK p \in 1 .. L : Ends(F, p, n) /\ W[p][n] = 0
        BY <1>a, <1>0, <3>0, <3>1 DEF LedgerMarks
      <4> QED BY <2>1, <4>1
    <3>2. CASE ~S[n].sent
      <4>1. PICK y \in 1 .. k : names[y] = n
        BY <1>10, <2>3, <3>0, <3>2
      <4>2. Open(S, n)
        BY <3>0, <3>2 DEF Open
      <4>3. L + y \in 1 .. L + k /\ Ends(F2, L + y, n) /\ W2[L + y][n] = 0
        BY <2>2, <3>0, <4>1, <4>2
      <4> QED BY <4>3
    <3> QED BY <3>1, <3>2
  <2>4. ASSUME NEW p \in 1 .. L + k, F2[p].skip
        PROVE  /\ W2[p][F2[p].name] = 0
               /\ \/ F2[p].name \notin DOMAIN S
                  \/ \E q \in 1 .. p - 1 : Ends(F2, q, F2[p].name) /\ W2[q][F2[p].name] = 0
    <3>1. CASE p <= L
      <4>1. p \in 1 .. L
        BY <1>1, <3>1
      <4>2. F2[p] = F[p] /\ W2[p] = W[p] /\ F[p].skip
        BY <2>1, <2>4, <4>1
      <4>3. /\ W[p][F[p].name] = 0
            /\ \/ F[p].name \notin DOMAIN S
               \/ \E q \in 1 .. p - 1 : Ends(F, q, F[p].name) /\ W[q][F[p].name] = 0
        BY <1>a, <1>0, <4>1, <4>2 DEF LedgerMarks
      <4>4. \A q \in 1 .. p - 1 : q \in 1 .. L
        BY <1>1, <4>1
      <4> QED BY <2>1, <4>2, <4>3, <4>4
    <3>2. CASE p > L
      <4>0. p \in 0 .. L + k
        BY <1>1
      <4>1. PICK x \in 1 .. k : p = L + x
        BY <1>1, <3>2, <4>0, Positions
      <4>2. W2[p][names[x]] = 0 /\ F2[p].name = names[x] /\ ~Open(S, names[x])
        BY <1>2, <2>2, <2>4, <4>1
      <4>3. CASE names[x] \in DOMAIN S
        <5>1. PICK q \in 1 .. L : Ends(F, q, names[x]) /\ W[q][names[x]] = 0
          BY <1>a, <1>0, <4>2, <4>3 DEF LedgerMarks, Open
        <5>2. q \in 1 .. p - 1
          BY <1>1, <4>1
        <5> QED BY <2>1, <4>2, <5>1, <5>2
      <4> QED BY <4>2, <4>3
    <3> QED BY <1>1, <3>1, <3>2
  <2>5. ASSUME NEW p \in 1 .. L + k, NEW n \in AllNames, Ends(F2, p, n)
        PROVE  n \in DOMAIN S /\ \A q \in 1 .. p - 1 : Ends(F2, q, n) => W2[q][n] > W2[p][n]
    <3>1. CASE p <= L
      <4>1. p \in 1 .. L
        BY <1>1, <3>1
      <4>2. W2[p] = W[p] /\ Ends(F, p, n)
        BY <2>1, <2>5, <4>1
      <4>3. n \in DOMAIN S /\ \A q \in 1 .. p - 1 : Ends(F, q, n) => W[q][n] > W[p][n]
        BY <1>a, <1>0, <4>1, <4>2 DEF LedgerMarks
      <4>4. \A q \in 1 .. p - 1 : q \in 1 .. L
        BY <1>1, <4>1
      <4> QED BY <2>1, <4>2, <4>3, <4>4
    <3>2. CASE p > L
      <4>0. p \in 0 .. L + k
        BY <1>1
      <4>1. PICK x \in 1 .. k : p = L + x
        BY <1>1, <3>2, <4>0, Positions
      <4>2. names[x] = n /\ n \in DOMAIN S /\ ~S[n].sent /\ W2[p][n] = 0
        BY <2>2, <2>5, <4>1 DEF Open
      <4>3. ASSUME NEW q \in 1 .. p - 1, Ends(F2, q, n) PROVE W2[q][n] > W2[p][n]
        <5>1. CASE q <= L
          <6>1. q \in 1 .. L /\ q \in 0 .. L /\ L \in q .. L
            BY <1>1, <5>1
          <6>2. Ends(F, q, n) /\ W2[q] = W[q]
            BY <2>1, <4>3, <6>1
          <6>3. LedgerStep(F, V, W, G, q - 1, q)
            BY <1>a, <1>0, <6>1 DEF LedgerSteps
          <6>4. n \notin V[q] /\ n \in V[L]
            BY <1>6, <4>2, <6>2, <6>3 DEF LedgerStep, Ends
          <6>5. W[L][n] < W[q][n]
            BY <1>a, <1>0, <6>1, <6>4, LedgerShrinks
          <6> QED BY <1>1, <1>6, <4>2, <6>1, <6>2, <6>5
        <5>2. CASE q > L
          <6>0. q \in 0 .. L + k
            BY <1>1
          <6>1. PICK y \in 1 .. k : q = L + y
            BY <1>1, <5>2, <6>0, Positions
          <6>2. names[y] = n
            BY <2>2, <4>3, <6>1
          <6>3. y = x
            BY <1>a, <4>2, <6>2 DEF Distinct
          <6> QED BY <1>1, <4>1, <6>1, <6>3
        <5> QED BY <1>1, <5>1, <5>2
      <4> QED BY <4>2, <4>3
    <3> QED BY <1>1, <3>1, <3>2
  <2> QED BY <1>3, <1>10, <2>3, <2>4, <2>5 DEF LedgerMarks
<1>13. Ledger(S2, ig[k], F2, V2, W2, G2)
  BY <1>7, <1>8, <1>11, <1>12 DEF Ledger
<1> QED BY <1>4, <1>13 DEF F2, A, L, k

-----------------------------------------------------------------------------
(***************************************************************************)
(* SUBSCRIPTIONS IN THE LEDGER                                             *)
(*                                                                         *)
(* What SUBSCRIBE appends to the ledger: one confirmation per name.        *)
(***************************************************************************)

(* The confirmations of a subscription are awaited.                         *)
Expected(names) == [x \in 1 .. Len(names) |->
                       [op |-> "subscribe", name |-> names[x], skip |-> FALSE]]

Renewed(S, names, S2) ==
    /\ DOMAIN S2 = DOMAIN S \cup Range(names)
    /\ \A n \in DOMAIN S2 :
          IF n \in Range(names)
          THEN S2[n] = [pending |-> (IF n \in DOMAIN S THEN S[n].pending ELSE 0) + 1, sent |-> FALSE]
          ELSE S2[n] = S[n]

Rest(names, x, n) == IF n \in Range(names) /\ n \notin First(names, x) THEN 1 ELSE 0

(* A sequence has finitely many values.                                     *)
LEMMA RangeFinite ==
    ASSUME NEW T, NEW names \in Seq(T) PROVE IsFiniteSet(Range(names))
<1>1. IsFiniteSet(1 .. Len(names))
  BY FS_Interval
<1>2. names \in Surjection(1 .. Len(names), Range(names))
  <2>1. names = [i \in 1 .. Len(names) |-> names[i]] /\ DOMAIN names = 1 .. Len(names)
    OBVIOUS
  <2>2. names \in [1 .. Len(names) -> Range(names)]
    BY <2>1 DEF Range
  <2>3. \A t \in Range(names) : \E i \in 1 .. Len(names) : names[i] = t
    BY <2>1 DEF Range
  <2> QED BY <2>2, <2>3 DEF Surjection
<1> QED BY <1>1, <1>2, FS_Surjection

(* A SUBSCRIBE leaves a ledger with its confirmations at the end, if no     *)
(* ignored answer is awaited that could be taken for theirs.                *)
LEMMA LedgerOpens ==
    ASSUME NEW S, NEW F, NEW V, NEW W, NEW G, Ledger(S, 0, F, V, W, G),
           NEW names \in Seq(Names), Distinct(names), NEW S2, Renewed(S, names, S2)
    PROVE  \E V2, W2, G2 : /\ Ledger(S2, 0, F \o Expected(names), V2, W2, G2)
                           /\ \A p \in 0 .. Len(F) : V2[p] = V[p]
<1> DEFINE L == Len(F)
           k == Len(names)
           A == Expected(names)
           F2 == F \o A
           V2 == [p \in 0 .. L + k |-> IF p <= L THEN V[p] ELSE V[L] \cup First(names, p - L)]
           W2 == [p \in 0 .. L + k |-> IF p <= L THEN [n \in AllNames |-> W[p][n] + Rest(names, 0, n)]
                                       ELSE [n \in AllNames |-> Rest(names, p - L, n)]]
           G2 == [p \in 0 .. L + k |-> 0]
<1>0. LedgerType(F, V, W, G) /\ LedgerSteps(F, V, W, G) /\ LedgerClosed(S, 0, F, V, W, G) /\ LedgerMarks(S, F, W)
  BY DEF Ledger
<1>1. /\ L \in Nat /\ k \in Nat /\ F \in Seq(Note)
      /\ \A p \in 0 .. L : G[p] \in Nat /\ V[p] \subseteq Names
      /\ \A p \in 0 .. L : \A n \in AllNames : W[p][n] \in Nat
  BY <1>0, LedgerTyped DEF LedgerType
<1>a. L = Len(F) /\ k = Len(names)
  OBVIOUS
<1>b. /\ \A x \in 1 .. k : names[x] \in Names
      /\ Names \subseteq AllNames
      /\ \A x \in Nat, n \in AllNames : Rest(names, x, n) \in {0, 1} /\ Rest(names, x, n) \in Nat
      /\ \A n : Rest(names, 0, n) \in Nat
  BY DEF AllNames, Rest
<1>c. /\ \A n : n \in Range(names) <=> \E y \in 1 .. k : names[y] = n
      /\ \A x \in 0 .. k : \A n : n \in First(names, x) <=> \E y \in 1 .. x : names[y] = n
  <2>1. DOMAIN names = 1 .. k
    OBVIOUS
  <2> HIDE DEF k
  <2> QED BY <1>1, <2>1, FirstNames DEF Range
<1> HIDE DEF L, k
<1>2. /\ A \in Seq(Note) /\ Len(A) = k
      /\ \A x \in 1 .. k : A[x].op = "subscribe" /\ A[x].name = names[x] /\ A[x].skip = FALSE
  <2>1. A = [x \in 1 .. k |-> [op |-> "subscribe", name |-> names[x], skip |-> FALSE]]
    BY <1>a DEF Expected
  <2>2. \A x \in 1 .. k : [op |-> "subscribe", name |-> names[x], skip |-> FALSE] \in Note
    BY <1>b DEF Note
  <2> HIDE DEF A
  <2>3. A \in [1 .. k -> Note]
    BY <2>1, <2>2
  <2>4. A \in Seq(Note) /\ Len(A) = k
    BY <1>1, <2>3, SequenceOf
  <2> QED BY <2>1, <2>4
<1>3. /\ F2 \in Seq(Note) /\ Len(F2) = L + k
      /\ \A p \in 1 .. L : F2[p] = F[p]
      /\ \A x \in 1 .. k : F2[L + x] = A[x]
  <2>1. F \in Seq(Note) /\ A \in Seq(Note) /\ Len(A) = k /\ L = Len(F)
    BY <1>1, <1>2, <1>a
  <2>2. F2 = F \o A
    OBVIOUS
  <2> HIDE DEF A, F2
  <2> QED BY <2>1, <2>2, Concatenated
<1>4. /\ \A p \in 0 .. L : V2[p] = V[p] /\ W2[p] = [n \in AllNames |-> W[p][n] + Rest(names, 0, n)]
      /\ \A x \in 1 .. k : /\ V2[L + x] = V[L] \cup First(names, x)
                           /\ W2[L + x] = [n \in AllNames |-> Rest(names, x, n)]
      /\ \A p \in 0 .. L + k : G2[p] = 0
  <2>1. \A p \in 0 .. L : V2[p] = V[p] /\ W2[p] = [n \in AllNames |-> W[p][n] + Rest(names, 0, n)]
    BY <1>1
  <2>2. ASSUME NEW x \in 1 .. k
        PROVE  /\ V2[L + x] = V[L] \cup First(names, x)
               /\ W2[L + x] = [n \in AllNames |-> Rest(names, x, n)]
    <3>1. L + x \in 0 .. L + k /\ ~(L + x <= L) /\ (L + x) - L = x
      BY <1>1
    <3> QED BY <3>1
  <2> QED BY <2>1, <2>2
<1>5. \A p \in 0 .. L : G[p] = 0
  <2>0. 0 \in 0 .. L /\ G[0] = 0
    BY <1>0, <1>1 DEF LedgerClosed
  <2>1. \A q \in 0 .. L : G[q] <= G[0]
    BY <1>0, <1>a, <2>0, LedgerShrinks
  <2> QED BY <1>1, <2>0, <2>1
<1>6. /\ \A n \in AllNames : W[L][n] = 0
      /\ \A n \in DOMAIN S : n \in V[L] <=> ~S[n].sent
      /\ \A p \in 0 .. L : V[p] \subseteq DOMAIN S
      /\ V[L] \subseteq DOMAIN S /\ DOMAIN S \subseteq Names
      /\ \A n \in DOMAIN S : S[n] \in Subscription /\ S[n].pending \in Nat
  <2>1. L \in 0 .. L
    BY <1>1
  <2>2. \A n \in DOMAIN S : S[n].pending \in Nat
    BY <1>0, LedgerEntries
  <2> QED BY <1>0, <1>a, <2>1, <2>2 DEF LedgerClosed
(* No answer is ignored.                                                    *)
<1>d. \A p \in 1 .. L : ~F[p].skip
  <2> SUFFICES ASSUME NEW p \in 1 .. L, F[p].skip PROVE FALSE
    OBVIOUS
  <2>1. LedgerStep(F, V, W, G, p - 1, p)
    BY <1>0, <1>a DEF LedgerSteps
  <2>2. p \in 0 .. L /\ p - 1 \in 0 .. L
    BY <1>1
  <2> QED BY <1>5, <2>1, <2>2 DEF LedgerStep
<1>7. LedgerType(F2, V2, W2, G2)
  <2>1. ASSUME NEW p \in 0 .. L + k
        PROVE  V2[p] \in SUBSET Names /\ W2[p] \in [AllNames -> Nat] /\ G2[p] \in Nat
    <3>1. CASE p <= L
      <4>1. p \in 0 .. L
        BY <1>1, <3>1
      <4>2. ASSUME NEW n \in AllNames PROVE W[p][n] + Rest(names, 0, n) \in Nat
        <5>1. W[p][n] \in Nat /\ Rest(names, 0, n) \in Nat
          BY <1>1, <1>b, <4>1
        <5> QED BY <5>1
      <4>3. [n \in AllNames |-> W[p][n] + Rest(names, 0, n)] \in [AllNames -> Nat]
        BY <4>2
      <4> HIDE DEF V2, W2, G2
      <4>4. V2[p] \in SUBSET Names
        BY <1>1, <1>4, <4>1
      <4>5. W2[p] \in [AllNames -> Nat]
        BY <1>4, <4>1, <4>3
      <4>6. G2[p] \in Nat
        BY <1>4
      <4> QED BY <4>4, <4>5, <4>6
    <3>2. CASE p > L
      <4>1. PICK x \in 1 .. k : p = L + x
        BY <1>1, <3>2, Positions
      <4>2. x \in Nat /\ x \in 0 .. k /\ V[L] \subseteq Names
        BY <1>1, <4>1
      <4>3. [n \in AllNames |-> Rest(names, x, n)] \in [AllNames -> Nat]
        BY <1>b, <4>2
      <4>4. First(names, x) \subseteq Names
        <5>1. \A y \in 1 .. x : names[y] \in Names
          BY <1>1, <1>b, <4>1
        <5> QED BY <1>c, <4>2, <5>1
      <4> HIDE DEF V2, W2, G2
      <4>5. V2[p] = V[L] \cup First(names, x) /\ W2[p] = [n \in AllNames |-> Rest(names, x, n)] /\ G2[p] = 0
        BY <1>4, <4>1
      <4> QED BY <4>2, <4>3, <4>4, <4>5
    <3> QED BY <1>1, <3>1, <3>2
  <2>2. /\ V2 = [p \in 0 .. L + k |-> V2[p]] /\ W2 = [p \in 0 .. L + k |-> W2[p]]
        /\ G2 = [p \in 0 .. L + k |-> G2[p]]
    OBVIOUS
  <2> HIDE DEF V2, W2, G2, F2
  <2> QED BY <1>3, <2>1, <2>2 DEF LedgerType
<1> HIDE DEF V2, W2, G2, F2, A
<1>8. LedgerSteps(F2, V2, W2, G2)
  <2> SUFFICES ASSUME NEW p \in 1 .. L + k PROVE LedgerStep(F2, V2, W2, G2, p - 1, p)
    BY <1>3 DEF LedgerSteps
  <2>0. p \in 0 .. L + k /\ p - 1 \in 0 .. L + k
    BY <1>1
  <2>1. CASE p <= L
    <3>1. p \in 1 .. L /\ p - 1 \in 0 .. L /\ p \in 0 .. L
      BY <1>1, <2>1
    <3>2. LedgerStep(F, V, W, G, p - 1, p)
      BY <1>0, <1>a, <3>1 DEF LedgerSteps
    <3>3. F2[p] = F[p] /\ V2[p] = V[p] /\ V2[p - 1] = V[p - 1]
          /\ W2[p] = [n \in AllNames |-> W[p][n] + Rest(names, 0, n)]
          /\ W2[p - 1] = [n \in AllNames |-> W[p - 1][n] + Rest(names, 0, n)]
          /\ G2[p] = 0 /\ G2[p - 1] = 0 /\ ~F[p].skip
      BY <1>3, <1>4, <1>d, <2>0, <3>1
    <3>4. ASSUME NEW n \in AllNames
          PROVE  W2[p - 1][n] = IF F2[p].op = "subscribe" /\ F2[p].name = n THEN W2[p][n] + 1 ELSE W2[p][n]
      <4>1. W[p - 1][n] = IF F[p].op = "subscribe" /\ F[p].name = n THEN W[p][n] + 1 ELSE W[p][n]
        BY <3>2 DEF LedgerStep
      <4>2. W[p][n] \in Nat /\ W[p - 1][n] \in Nat /\ Rest(names, 0, n) \in Nat
        BY <1>1, <1>b, <3>1
      <4>3. W2[p][n] = W[p][n] + Rest(names, 0, n) /\ W2[p - 1][n] = W[p - 1][n] + Rest(names, 0, n)
        BY <3>3
      <4> QED BY <3>3, <4>1, <4>2, <4>3
    <3> QED BY <3>2, <3>3, <3>4 DEF LedgerStep
  <2>2. CASE p > L
    <3>1. PICK x \in 1 .. k : p = L + x
      BY <1>1, <2>0, <2>2, Positions
    <3>2. x \in Nat /\ x > 0 /\ x - 1 \in Nat /\ x \in 0 .. k /\ x - 1 \in 0 .. k
      BY <1>1
    <3>3. /\ F2[p].op = "subscribe" /\ F2[p].name = names[x] /\ F2[p].skip = FALSE
          /\ V2[p] = V[L] \cup First(names, x) /\ W2[p] = [n \in AllNames |-> Rest(names, x, n)]
          /\ G2[p] = 0 /\ G2[p - 1] = 0
      BY <1>2, <1>3, <1>4, <2>0, <3>1
    <3>4. /\ V2[p - 1] = V[L] \cup First(names, x - 1)
          /\ \A n \in AllNames : W2[p - 1][n] = Rest(names, x - 1, n)
      <4>1. CASE x = 1
        <5>1. p - 1 = L /\ L \in 0 .. L
          BY <1>1, <3>1, <4>1
        <5>2. V2[p - 1] = V[L] /\ W2[p - 1] = [n \in AllNames |-> W[L][n] + Rest(names, 0, n)]
          BY <1>4, <5>1
        <5>3. First(names, x - 1) = {}
          BY <4>1, FirstNames
        <5>4. ASSUME NEW n \in AllNames PROVE W2[p - 1][n] = Rest(names, x - 1, n)
          <6>1. W2[p - 1][n] = W[L][n] + Rest(names, 0, n) /\ W[L][n] = 0 /\ Rest(names, 0, n) \in Nat /\ x - 1 = 0
            BY <1>6, <1>b, <4>1, <5>2
          <6> QED BY <6>1
        <5> QED BY <5>2, <5>3, <5>4
      <4>2. CASE x # 1
        <5>1. x - 1 \in 1 .. k /\ p - 1 = L + (x - 1)
          BY <1>1, <3>1, <4>2
        <5>2. /\ V2[L + (x - 1)] = V[L] \cup First(names, x - 1)
              /\ W2[L + (x - 1)] = [n \in AllNames |-> Rest(names, x - 1, n)]
          BY <1>4, <5>1
        <5> QED BY <5>1, <5>2
      <4> QED BY <4>1, <4>2
    <3>5. First(names, x) = First(names, x - 1) \cup {names[x]}
      BY <3>2, FirstNames
    <3>6. names[x] \notin First(names, x - 1) /\ names[x] \in Range(names)
      <4>1. ASSUME NEW y \in 1 .. x - 1 PROVE names[y] # names[x]
        <5>1. y \in 1 .. k /\ y # x
          BY <1>1
        <5> QED BY <1>a, <5>1 DEF Distinct
      <4> QED BY <1>c, <3>2, <4>1
    <3>7. ASSUME NEW n \in AllNames
          PROVE  W2[p - 1][n] = IF F2[p].op = "subscribe" /\ F2[p].name = n THEN W2[p][n] + 1 ELSE W2[p][n]
      <4>1. Rest(names, x - 1, n) = IF names[x] = n THEN Rest(names, x, n) + 1 ELSE Rest(names, x, n)
        BY <3>5, <3>6 DEF Rest
      <4> QED BY <3>3, <3>4, <4>1
    <3>8. V2[p] = V2[p - 1] \cup {names[x]}
      BY <3>3, <3>4, <3>5
    <3> QED BY <3>3, <3>7, <3>8 DEF LedgerStep
  <2> QED BY <1>1, <2>1, <2>2
<1>9. /\ DOMAIN S2 = DOMAIN S \cup Range(names)
      /\ \A n \in Range(names) : /\ ~S2[n].sent /\ S2[n] \in Subscription
                                 /\ S2[n].pending = (IF n \in DOMAIN S THEN S[n].pending ELSE 0) + 1
      /\ \A n \in DOMAIN S : n \notin Range(names) => S2[n] = S[n]
  <2>1. ASSUME NEW n \in Range(names)
        PROVE  /\ ~S2[n].sent /\ S2[n] \in Subscription
               /\ S2[n].pending = (IF n \in DOMAIN S THEN S[n].pending ELSE 0) + 1
    <3>1. S2[n] = [pending |-> (IF n \in DOMAIN S THEN S[n].pending ELSE 0) + 1, sent |-> FALSE]
      BY DEF Renewed
    <3>2. (IF n \in DOMAIN S THEN S[n].pending ELSE 0) + 1 \in Nat
      BY <1>6
    <3> QED BY <3>1, <3>2 DEF Subscription
  <2> QED BY <2>1 DEF Renewed
<1>10. Range(names) \subseteq Names /\ IsFiniteSet(Range(names))
  <2>1. IsFiniteSet(Range(names))
    BY RangeFinite
  <2> QED BY <1>b, <1>c, <2>1
<1>11. LedgerClosed(S2, 0, F2, V2, W2, G2)
  <2>1. 0 \in 0 .. L /\ L + k \in 0 .. L + k /\ 0 \in 0 .. L + k
    BY <1>1
  <2>2. IsFiniteSet(DOMAIN S) /\ \A n \in AllNames : W[0][n] = IF n \in DOMAIN S THEN S[n].pending ELSE 0
    BY <1>0 DEF LedgerClosed
  <2>3. IsFiniteSet(DOMAIN S2) /\ DOMAIN S2 \subseteq Names
    <3>1. IsFiniteSet(DOMAIN S \cup Range(names))
      BY <1>10, <2>2, FS_Union
    <3> QED BY <1>6, <1>9, <1>10, <3>1
  <2>4. ASSUME NEW n \in AllNames PROVE W2[0][n] = IF n \in DOMAIN S2 THEN S2[n].pending ELSE 0
    <3>1. W2[0][n] = W[0][n] + Rest(names, 0, n) /\ W[0][n] \in Nat
      BY <1>1, <1>4, <2>1
    <3>2. Rest(names, 0, n) = IF n \in Range(names) THEN 1 ELSE 0
      BY FirstNames DEF Rest
    <3>3. CASE n \in Range(names)
      BY <1>9, <2>2, <3>1, <3>2, <3>3
    <3>4. CASE n \notin Range(names)
      BY <1>9, <2>2, <3>1, <3>2, <3>4
    <3> QED BY <3>3, <3>4
  <2>5. V2[L + k] = V[L] \cup Range(names) /\ \A n \in AllNames : W2[L + k][n] = 0
    <3>0. k \in 0 .. k /\ First(names, k) = Range(names)
      <4>1. k \in 0 .. k
        BY <1>1
      <4> QED BY <1>c, <4>1
    <3>1. CASE k = 0
      <4>1. L + k = L /\ L \in 0 .. L /\ Range(names) = {}
        BY <1>1, <3>0, <3>1, FirstNames
      <4>2. V2[L] = V[L] /\ W2[L] = [n \in AllNames |-> W[L][n] + Rest(names, 0, n)]
        BY <1>4, <4>1
      <4>3. \A n \in AllNames : Rest(names, 0, n) = 0
        BY <4>1 DEF Rest
      <4> QED BY <1>6, <4>1, <4>2, <4>3
    <3>2. CASE k # 0
      <4>1. k \in 1 .. k
        BY <1>1, <3>2
      <4>2. V2[L + k] = V[L] \cup First(names, k) /\ W2[L + k] = [n \in AllNames |-> Rest(names, k, n)]
        BY <1>4, <4>1
      <4>3. \A n \in AllNames : Rest(names, k, n) = 0
        BY <3>0 DEF Rest
      <4> QED BY <3>0, <4>2, <4>3
    <3> QED BY <3>1, <3>2
  <2>6. ASSUME NEW p \in 0 .. L + k PROVE V2[p] \subseteq DOMAIN S2
    <3>1. CASE p <= L
      <4>1. p \in 0 .. L
        BY <1>1, <3>1
      <4> QED BY <1>4, <1>6, <1>9, <4>1
    <3>2. CASE p > L
      <4>1. PICK x \in 1 .. k : p = L + x
        BY <1>1, <3>2, Positions
      <4>2. First(names, x) \subseteq Range(names)
        <5>1. x \in 0 .. k /\ \A y \in 1 .. x : y \in 1 .. k
          BY <1>1
        <5> QED BY <1>c, <5>1
      <4> QED BY <1>4, <1>6, <1>9, <4>1, <4>2
    <3> QED BY <1>1, <3>1, <3>2
  <2>7. \A n \in DOMAIN S2 : (n \in V2[L + k] <=> ~S2[n].sent) /\ S2[n] \in Subscription
    BY <1>6, <1>9, <2>5
  <2> QED BY <1>3, <1>4, <2>1, <2>3, <2>4, <2>5, <2>6, <2>7 DEF LedgerClosed
<1>12. LedgerMarks(S2, F2, W2)
  <2>1. ASSUME NEW p \in 1 .. L, NEW n \in AllNames
        PROVE  /\ p \in 1 .. L + k /\ F2[p] = F[p] /\ W2[p][n] = W[p][n] + Rest(names, 0, n)
               /\ (Ends(F2, p, n) <=> Ends(F, p, n)) /\ W[p][n] \in Nat /\ Rest(names, 0, n) \in Nat
    <3>1. p \in 1 .. L + k /\ p \in 0 .. L
      BY <1>1
    <3>4. F2[p] = F[p] /\ W2[p] = [j \in AllNames |-> W[p][j] + Rest(names, 0, j)]
      BY <1>3, <1>4, <3>1
    <3>2. F2[p] = F[p] /\ W2[p][n] = W[p][n] + Rest(names, 0, n)
      BY <3>4
    <3>3. W[p][n] \in Nat /\ Rest(names, 0, n) \in Nat
      BY <1>1, <1>b, <3>1
    <3> QED BY <3>1, <3>2, <3>3 DEF Ends
  <2>2. ASSUME NEW p \in 1 .. L + k, p > L PROVE F2[p].op = "subscribe" /\ ~F2[p].skip
    <3>0. p \in 0 .. L + k
      BY <1>1
    <3>1. PICK x \in 1 .. k : p = L + x
      BY <1>1, <2>2, <3>0, Positions
    <3> QED BY <1>2, <1>3, <3>1
  <2>3. ASSUME NEW n \in DOMAIN S2, S2[n].sent
        PROVE  \E p \in 1 .. L + k : Ends(F2, p, n) /\ W2[p][n] = 0
    <3>1. n \in DOMAIN S /\ S[n].sent /\ n \notin Range(names) /\ n \in AllNames
      BY <1>6, <1>9, <1>b, <2>3
    <3>2. PICK p \in 1 .. L : Ends(F, p, n) /\ W[p][n] = 0
      BY <1>0, <1>a, <3>1 DEF LedgerMarks
    <3>3. Rest(names, 0, n) = 0
      BY <3>1 DEF Rest
    <3> QED BY <2>1, <3>1, <3>2, <3>3
  <2>4. \A p \in 1 .. L + k : ~F2[p].skip
    <3> SUFFICES ASSUME NEW p \in 1 .. L + k PROVE ~F2[p].skip
      OBVIOUS
    <3>1. CASE p <= L
      <4>1. p \in 1 .. L
        BY <1>1, <3>1
      <4> QED BY <1>3, <1>d, <4>1
    <3> QED BY <1>1, <2>2, <3>1
  <2>5. ASSUME NEW p \in 1 .. L + k, NEW n \in AllNames, Ends(F2, p, n)
        PROVE  n \in DOMAIN S2 /\ \A q \in 1 .. p - 1 : Ends(F2, q, n) => W2[q][n] > W2[p][n]
    <3>1. p <= L
      <4>1. F2[p].op = "unsubscribe"
        BY <2>5 DEF Ends
      <4> QED BY <1>1, <2>2, <4>1
    <3>2. p \in 1 .. L
      BY <1>1, <3>1
    <3>3. Ends(F, p, n) /\ W2[p][n] = W[p][n] + Rest(names, 0, n) /\ W[p][n] \in Nat /\ Rest(names, 0, n) \in Nat
      BY <2>1, <2>5, <3>2
    <3>4. n \in DOMAIN S /\ \A q \in 1 .. p - 1 : Ends(F, q, n) => W[q][n] > W[p][n]
      BY <1>0, <1>a, <3>2, <3>3 DEF LedgerMarks
    <3>5. ASSUME NEW q \in 1 .. p - 1, Ends(F2, q, n) PROVE W2[q][n] > W2[p][n]
      <4>1. q \in 1 .. L
        BY <1>1, <3>2
      <4>2. Ends(F, q, n) /\ W2[q][n] = W[q][n] + Rest(names, 0, n) /\ W[q][n] \in Nat
        BY <2>1, <3>5, <4>1
      <4>3. W[q][n] > W[p][n]
        BY <3>4, <4>2
      <4> QED BY <3>3, <4>2, <4>3
    <3> QED BY <1>9, <3>4, <3>5
  <2> QED BY <1>3, <2>3, <2>4, <2>5 DEF LedgerMarks
<1>13. Ledger(S2, 0, F2, V2, W2, G2)
  BY <1>7, <1>8, <1>11, <1>12 DEF Ledger
<1> QED BY <1>4, <1>13 DEF F2, A, L, k

-----------------------------------------------------------------------------
(***************************************************************************)
(* THE LOOPS OVER THE NAMES                                                *)
(*                                                                         *)
(* The loops of __redisAsyncCommand over the names of a command, and what  *)
(* they leave in the dictionaries.                                         *)
(***************************************************************************)

(* A function that is defined step by step exists.                          *)
StepsTo(X, N, g) == \A x \in X, i \in 1 .. N : g[<<x, i>>] \in X
StepsOf(f, X, N, first, g) ==
    f \in [0 .. N -> X] /\ f[0] = first /\ \A i \in 1 .. N : f[i] = g[<<f[i - 1], i>>]

(* It does, by recursion on its argument.                                   *)
LEMMA StepsExist ==
    ASSUME NEW N \in Nat, NEW X, NEW first \in X, NEW g, StepsTo(X, N, g)
    PROVE  \E f : StepsOf(f, X, N, first, g)
<1> DEFINE Good(n, f) == f \in [0 .. n -> X] /\ f[0] = first /\ \A i \in 1 .. n : f[i] = g[<<f[i - 1], i>>]
           T == {n \in Nat : n <= N => \E f : Good(n, f)}
<1>1. 0 \in T
  <2>1. Good(0, [i \in 0 .. 0 |-> first])
    OBVIOUS
  <2> HIDE DEF Good
  <2> QED BY <2>1
<1>2. ASSUME NEW n \in Nat, n \in T PROVE n + 1 \in T
  <2> SUFFICES ASSUME n + 1 <= N PROVE \E f : Good(n + 1, f)
    BY <1>2
  <2>1. PICK f : Good(n, f)
    <3> HIDE DEF Good
    <3> QED BY <1>2
  <2> DEFINE h == [i \in 0 .. n + 1 |-> IF i <= n THEN f[i] ELSE g[<<f[n], n + 1>>]]
  <2>2. f[n] \in X /\ n + 1 \in 1 .. N
    BY <2>1
  <2>3. g[<<f[n], n + 1>>] \in X
    BY <2>2 DEF StepsTo
  <2>4. h \in [0 .. n + 1 -> X] /\ h[0] = first
    BY <2>1, <2>3
  <2>5. ASSUME NEW i \in 1 .. n + 1 PROVE h[i] = g[<<h[i - 1], i>>]
    <3>1. CASE i <= n
      <4>1. i \in 1 .. n /\ i \in 0 .. n + 1 /\ i - 1 \in 0 .. n + 1 /\ i - 1 <= n
        BY <3>1
      <4>2. h[i] = f[i] /\ h[i - 1] = f[i - 1]
        BY <4>1
      <4> QED BY <2>1, <4>1, <4>2
    <3>2. CASE i = n + 1
      <4>1. h[n + 1] = g[<<f[n], n + 1>>] /\ h[n] = f[n] /\ (n + 1) - 1 = n
        OBVIOUS
      <4> QED BY <3>2, <4>1
    <3> QED BY <3>1, <3>2
  <2>6. Good(n + 1, h)
    BY <2>4, <2>5
  <2> QED BY <2>6
<1> HIDE DEF T
<1>3. \A n \in Nat : n >= 0 => n \in T
  BY <1>1, <1>2, UpTo
<1>4. N \in T
  BY <1>3
<1>5. PICK f : Good(N, f)
  <2> HIDE DEF Good
  <2> QED BY <1>4 DEF T
<1> QED BY <1>5 DEF StepsOf

(* The loop over the names of an UNSUBSCRIBE, pass by pass.                 *)
LEMMA UnsubscribedSteps ==
    ASSUME NEW names, Len(names) \in Nat, NEW D, subs \in [D -> Subscription], pendingUnsubs \in Nat
    PROVE  \E step :
              /\ step[0] = [subs |-> subs, ignore |-> pendingUnsubs]
              /\ \A i \in 1 .. Len(names) :
                    step[i] = IF names[i] \in DOMAIN subs /\ ~step[i - 1].subs[names[i]].sent
                              THEN [step[i - 1] EXCEPT !.subs[names[i]].sent = TRUE]
                              ELSE [step[i - 1] EXCEPT !.ignore = @ + 1]
              /\ Unsubscribed(names) = step[Len(names)]
<1> DEFINE X == [subs : [D -> Subscription], ignore : Nat]
           N == Len(names)
           Do(x, n) == IF n \in DOMAIN subs /\ ~x.subs[n].sent
                       THEN [x EXCEPT !.subs[n].sent = TRUE] ELSE [x EXCEPT !.ignore = @ + 1]
           g == [p \in X \X (1 .. N) |-> Do(p[1], names[p[2]])]
           Body(f) == [i \in 0 .. N |-> IF i = 0 THEN [subs |-> subs, ignore |-> pendingUnsubs]
                                        ELSE Do(f[i - 1], names[i])]
<1>1. ASSUME NEW x \in X, NEW n PROVE Do(x, n) \in X
  <2>1. CASE n \in DOMAIN subs /\ ~x.subs[n].sent
    <3>1. x.subs \in [D -> Subscription] /\ n \in D
      BY <2>1
    <3>2. [x.subs[n] EXCEPT !.sent = TRUE] \in Subscription
      BY <3>1 DEF Subscription
    <3>3. Do(x, n) = [x EXCEPT !.subs = [x.subs EXCEPT ![n] = [x.subs[n] EXCEPT !.sent = TRUE]]]
      BY <2>1
    <3>4. [x.subs EXCEPT ![n] = [x.subs[n] EXCEPT !.sent = TRUE]] \in [D -> Subscription]
      BY <3>1, <3>2
    <3> QED BY <3>3, <3>4
  <2>2. CASE ~(n \in DOMAIN subs /\ ~x.subs[n].sent)
    BY <2>2
  <2> QED BY <2>1, <2>2
<1>2. [subs |-> subs, ignore |-> pendingUnsubs] \in X
  OBVIOUS
<1>3. \A x \in X, i \in 1 .. N : g[<<x, i>>] \in X /\ g[<<x, i>>] = Do(x, names[i])
  <2> SUFFICES ASSUME NEW x \in X, NEW i \in 1 .. N
               PROVE  g[<<x, i>>] \in X /\ g[<<x, i>>] = Do(x, names[i])
    OBVIOUS
  <2>1. Do(x, names[i]) \in X
    BY <1>1
  <2> HIDE DEF Do, X, N
  <2> QED BY <2>1
<1>4. \E f : f = Body(f)
  <2> DEFINE first == [subs |-> subs, ignore |-> pendingUnsubs]
  <2>0. N \in Nat /\ first \in X /\ StepsTo(X, N, g)
    BY <1>2, <1>3 DEF StepsTo
  <2> HIDE DEF Do, X, g, N, first
  <2>4. PICK f : StepsOf(f, X, N, first, g)
    BY <2>0, StepsExist
  <2>1. /\ f \in [0 .. N -> X] /\ f[0] = first
        /\ \A i \in 1 .. N : f[i] = g[<<f[i - 1], i>>]
    BY <2>4 DEF StepsOf
  <2>2. \A i \in 0 .. N : f[i] = IF i = 0 THEN [subs |-> subs, ignore |-> pendingUnsubs]
                                 ELSE Do(f[i - 1], names[i])
    <3> SUFFICES ASSUME NEW i \in 1 .. N PROVE f[i] = Do(f[i - 1], names[i])
      BY <2>0, <2>1 DEF first
    <3>1. i - 1 \in 0 .. N /\ f[i - 1] \in X
      BY <2>0, <2>1
    <3> QED BY <1>3, <2>1, <3>1
  <2>3. f = Body(f)
    <3>1. f = [i \in 0 .. N |-> f[i]]
      BY <2>1
    <3> QED BY <2>2, <3>1
  <2> QED BY <2>3
<1> DEFINE step == CHOOSE f : f = Body(f)
<1>5. step = Body(step)
  <2> HIDE DEF Body
  <2> QED BY <1>4
<1>6. Unsubscribed(names) = step[N]
  BY DEF Unsubscribed
<1>7. step[0] = [subs |-> subs, ignore |-> pendingUnsubs]
  <2> HIDE DEF step
  <2> QED BY <1>5
<1>8. \A i \in 1 .. N : step[i] = Do(step[i - 1], names[i])
  <2> HIDE DEF step, Do
  <2> QED BY <1>5
<1> QED BY <1>6, <1>7, <1>8

(* Each name that is subscribed to is marked, the others are counted.       *)
LEMMA UnsubscribedMarks ==
    ASSUME NEW T, NEW names \in Seq(T), Distinct(names), NEW D, subs \in [D -> Subscription],
           pendingUnsubs \in Nat
    PROVE  \E ig : /\ Ignored(subs, pendingUnsubs, names, ig)
                   /\ Unsubscribed(names).ignore = ig[Len(names)]
                   /\ Marked(subs, names, Unsubscribed(names).subs)
                   /\ Unsubscribed(names).subs \in [D -> Subscription]
<1> DEFINE N == Len(names)
<1>0. N \in Nat
  OBVIOUS
<1>1. PICK step :
          /\ step[0] = [subs |-> subs, ignore |-> pendingUnsubs]
          /\ \A i \in 1 .. Len(names) :
                step[i] = IF names[i] \in DOMAIN subs /\ ~step[i - 1].subs[names[i]].sent
                          THEN [step[i - 1] EXCEPT !.subs[names[i]].sent = TRUE]
                          ELSE [step[i - 1] EXCEPT !.ignore = @ + 1]
          /\ Unsubscribed(names) = step[Len(names)]
  BY <1>0, UnsubscribedSteps
<1>2. /\ step[0] = [subs |-> subs, ignore |-> pendingUnsubs]
      /\ \A i \in 1 .. N :
            step[i] = IF names[i] \in DOMAIN subs /\ ~step[i - 1].subs[names[i]].sent
                      THEN [step[i - 1] EXCEPT !.subs[names[i]].sent = TRUE]
                      ELSE [step[i - 1] EXCEPT !.ignore = @ + 1]
      /\ Unsubscribed(names) = step[N] /\ N = Len(names) /\ D = DOMAIN subs
  BY <1>1
<1> HIDE DEF N
<1> DEFINE Good(i) ==
        /\ step[i] \in [subs : [D -> Subscription], ignore : Nat]
        /\ \A n \in D : /\ step[i].subs[n].pending = subs[n].pending
                        /\ step[i].subs[n].sent <=> (subs[n].sent \/ n \in First(names, i))
        /\ step[i].ignore >= pendingUnsubs
           Steps(i) == step[i].ignore = IF Open(subs, names[i]) THEN step[i - 1].ignore ELSE step[i - 1].ignore + 1
<1>3. Good(0)
  BY <1>2, FirstNames
<1>4. ASSUME NEW i \in 1 .. N, Good(i - 1) PROVE Good(i) /\ Steps(i)
  <2> DEFINE n == names[i]
             o == step[i - 1]
  <2>1. i \in Nat /\ i > 0 /\ First(names, i) = First(names, i - 1) \cup {n}
    BY <1>0, FirstNames
  <2>2. n \notin First(names, i - 1)
    <3>1. \A y \in 1 .. i - 1 : names[y] # n
      <4>1. \A y \in 1 .. i - 1 : y \in 1 .. N /\ y # i
        BY <1>0
      <4> QED BY <1>2, <4>1 DEF Distinct
    <3>2. i - 1 \in Nat
      BY <1>0
    <3> QED BY <3>1, <3>2, FirstNames
  <2>3. /\ o \in [subs : [D -> Subscription], ignore : Nat]
        /\ o.subs \in [D -> Subscription] /\ o.ignore \in Nat /\ o.ignore >= pendingUnsubs
        /\ \A k \in D : /\ o.subs[k].pending = subs[k].pending
                        /\ o.subs[k].sent <=> (subs[k].sent \/ k \in First(names, i - 1))
    BY <1>4
  <2>4. Open(subs, n) <=> (n \in D /\ ~o.subs[n].sent)
    BY <1>2, <2>2, <2>3 DEF Open
  <2>5. step[i] = IF n \in D /\ ~o.subs[n].sent
                  THEN [o EXCEPT !.subs[n].sent = TRUE] ELSE [o EXCEPT !.ignore = @ + 1]
    BY <1>2
  <2> HIDE DEF o, n
  <2>6. CASE n \in D /\ ~o.subs[n].sent
    <3>1. step[i] = [o EXCEPT !.subs = [o.subs EXCEPT ![n] = [o.subs[n] EXCEPT !.sent = TRUE]]]
      BY <2>5, <2>6
    <3> DEFINE e == [o.subs[n] EXCEPT !.sent = TRUE]
               s == [o.subs EXCEPT ![n] = e]
    <3>2. o.subs[n] \in Subscription /\ e \in Subscription /\ e.pending = o.subs[n].pending /\ e.sent = TRUE
      <4> DEFINE r == o.subs[n]
      <4>1. r \in Subscription /\ e = [r EXCEPT !.sent = TRUE]
        BY <2>3, <2>6
      <4> HIDE DEF e, r
      <4>2. e \in Subscription /\ e.pending = r.pending /\ e.sent = TRUE
        BY <4>1 DEF Subscription
      <4> QED BY <4>1, <4>2 DEF r
    <3> HIDE DEF e
    <3>3. s \in [D -> Subscription] /\ s[n] = e /\ \A k \in D : k # n => s[k] = o.subs[k]
      BY <2>3, <2>6, <3>2
    <3>4. step[i] = [o EXCEPT !.subs = s]
      BY <3>1 DEF e
    <3> HIDE DEF s
    <3>5. step[i] \in [subs : [D -> Subscription], ignore : Nat] /\ step[i].subs = s /\ step[i].ignore = o.ignore
      BY <2>3, <3>3, <3>4
    <3>6. ASSUME NEW k \in D
          PROVE  s[k].pending = subs[k].pending /\ (s[k].sent <=> (subs[k].sent \/ k \in First(names, i)))
      <4>1. CASE k = n
        BY <2>1, <2>3, <3>2, <3>3, <4>1
      <4>2. CASE k # n
        <5>1. s[k] = o.subs[k] /\ (k \in First(names, i) <=> k \in First(names, i - 1))
          BY <2>1, <3>3, <4>2
        <5> QED BY <2>3, <5>1
      <4> QED BY <4>1, <4>2
    <3> QED BY <2>3, <2>4, <2>6, <3>5, <3>6 DEF n, o
  <2>7. CASE ~(n \in D /\ ~o.subs[n].sent)
    <3>1. step[i] = [o EXCEPT !.ignore = @ + 1]
      BY <2>5, <2>7
    <3>2. step[i] \in [subs : [D -> Subscription], ignore : Nat] /\ step[i].subs = o.subs
          /\ step[i].ignore = o.ignore + 1
      BY <2>3, <3>1
    <3>3. \A k \in D : o.subs[k].sent <=> (subs[k].sent \/ k \in First(names, i))
      <4> SUFFICES ASSUME NEW k \in D PROVE o.subs[k].sent <=> (subs[k].sent \/ k \in First(names, i))
        OBVIOUS
      <4>1. CASE k = n
        BY <2>1, <2>2, <2>3, <2>7, <4>1
      <4>2. CASE k # n
        BY <2>1, <2>3, <4>2
      <4> QED BY <4>1, <4>2
    <3> QED BY <2>3, <2>4, <2>7, <3>2, <3>3 DEF n, o
  <2> QED BY <2>6, <2>7
<1>5. \A i \in 0 .. N : Good(i)
  <2> DEFINE Reached == {i \in Nat : i <= N => Good(i)}
  <2>1. 0 \in Reached
    <3> HIDE DEF Good
    <3> QED BY <1>3
  <2>2. ASSUME NEW i \in Nat, i \in Reached PROVE i + 1 \in Reached
    <3> SUFFICES ASSUME i + 1 <= N PROVE Good(i + 1)
      BY DEF Reached
    <3>1. Good(i)
      <4> HIDE DEF Good
      <4> QED BY <1>0, <2>2
    <3>2. i + 1 \in 1 .. N /\ (i + 1) - 1 = i
      BY <1>0
    <3> HIDE DEF Good, Reached
    <3> QED BY <1>4, <3>1, <3>2
  <2> HIDE DEF Reached
  <2>3. \A i \in Nat : i >= 0 => i \in Reached
    BY <2>1, <2>2, UpTo
  <2> HIDE DEF Good
  <2> QED BY <1>0, <2>3 DEF Reached
<1>6. \A i \in 1 .. N : Steps(i)
  <2> SUFFICES ASSUME NEW i \in 1 .. N PROVE Steps(i)
    OBVIOUS
  <2>1. i - 1 \in 0 .. N
    BY <1>0
  <2> HIDE DEF Good, Steps
  <2> QED BY <1>4, <1>5, <2>1
<1> DEFINE ig == [i \in 0 .. N |-> step[i].ignore]
<1>7. /\ ig[0] = pendingUnsubs /\ ig[N] = Unsubscribed(names).ignore
      /\ \A i \in 0 .. N : ig[i] \in Nat /\ ig[i] = step[i].ignore
      /\ \A i \in 1 .. N : ig[i] = IF Open(subs, names[i]) THEN ig[i - 1] ELSE ig[i - 1] + 1
  <2>1. 0 \in 0 .. N /\ N \in 0 .. N
    BY <1>0
  <2>2. \A i \in 0 .. N : step[i].ignore \in Nat
    BY <1>5
  <2>3. \A i \in 1 .. N : i \in 0 .. N /\ i - 1 \in 0 .. N
    BY <1>0
  <2> HIDE DEF Good
  <2> QED BY <1>2, <1>6, <2>1, <2>2, <2>3
<1> HIDE DEF ig
<1>8. \A i \in 0 .. N : ig[i] <= ig[N]
  <2> SUFFICES ASSUME NEW i \in 0 .. N PROVE ig[i] <= ig[N]
    OBVIOUS
  <2> DEFINE Reached == {j \in Nat : j <= N => ig[i] <= ig[j]}
  <2>1. i \in Reached
    BY <1>0, <1>7
  <2>2. ASSUME NEW j \in Nat, j >= i, j \in Reached PROVE j + 1 \in Reached
    <3> SUFFICES ASSUME j + 1 <= N PROVE ig[i] <= ig[j + 1]
      BY DEF Reached
    <3>1. j \in 0 .. N /\ j + 1 \in 1 .. N /\ (j + 1) - 1 = j /\ j + 1 \in 0 .. N
      BY <1>0
    <3>2. ig[i] <= ig[j]
      BY <2>2, <3>1
    <3>3. ig[j] \in Nat /\ ig[i] \in Nat /\ ig[j + 1] \in Nat /\ ig[j] <= ig[j + 1]
      BY <1>7, <3>1
    <3> QED BY <3>2, <3>3
  <2> HIDE DEF Reached
  <2>3. \A j \in Nat : j >= i => j \in Reached
    BY <1>0, <2>1, <2>2, UpTo
  <2> QED BY <1>0, <2>3 DEF Reached
<1>9. Ignored(subs, pendingUnsubs, names, ig)
  BY <1>2, <1>7, <1>8 DEF Ignored
<1>10. Good(N)
  <2>1. N \in 0 .. N
    BY <1>0
  <2> HIDE DEF Good
  <2> QED BY <1>5, <2>1
<1>11. Marked(subs, names, Unsubscribed(names).subs) /\ Unsubscribed(names).subs \in [D -> Subscription]
  <2>1. step[N].subs \in [D -> Subscription] /\ D = DOMAIN subs
    BY <1>2, <1>10
  <2>2. \A n : n \in First(names, N) <=> n \in Range(names)
    <3>1. DOMAIN names = 1 .. N
      BY <1>2
    <3> QED BY <3>1 DEF First, Range
  <2>3. \A n \in D : /\ step[N].subs[n] \in Subscription /\ step[N].subs[n].pending = subs[n].pending
                     /\ step[N].subs[n].sent = (subs[n].sent \/ n \in Range(names))
    <3> SUFFICES ASSUME NEW n \in D
                 PROVE  /\ step[N].subs[n] \in Subscription /\ step[N].subs[n].pending = subs[n].pending
                        /\ step[N].subs[n].sent = (subs[n].sent \/ n \in Range(names))
      OBVIOUS
    <3>1. step[N].subs[n] \in Subscription /\ step[N].subs[n].sent \in BOOLEAN
      BY <2>1 DEF Subscription
    <3>2. step[N].subs[n].sent <=> (subs[n].sent \/ n \in Range(names))
      BY <1>10, <2>2
    <3> QED BY <1>10, <3>1, <3>2
  <2> QED BY <1>2, <2>1, <2>3 DEF Marked
<1> QED BY <1>2, <1>7, <1>9, <1>11

(* Every name has a fresh entry, with one confirmation more to come.        *)
LEMMA SubscribedSteps ==
    ASSUME NEW names \in Seq(Names), NEW D \in SUBSET Names, subs \in [D -> Subscription]
    PROVE  \E step :
              /\ step[0] = [subs |-> subs, pending |-> 1]
              /\ \A i \in 1 .. Len(names) :
                    LET n == names[i]
                        due == IF n \in DOMAIN step[i - 1].subs
                               THEN step[i - 1].subs[n].pending + 1 ELSE step[i - 1].pending
                    IN step[i] = [subs |-> Replaced(step[i - 1].subs, n, [pending |-> due, sent |-> FALSE]),
                                  pending |-> due]
              /\ Subscribed(names) = step[Len(names)].subs
<1> DEFINE Maps == UNION {[E -> Subscription] : E \in SUBSET Names}
           X == [subs : Maps, pending : Nat]
           N == Len(names)
           Due(x, n) == IF n \in DOMAIN x.subs THEN x.subs[n].pending + 1 ELSE x.pending
           Do(x, n) == [subs |-> Replaced(x.subs, n, [pending |-> Due(x, n), sent |-> FALSE]),
                        pending |-> Due(x, n)]
           g == [p \in X \X (1 .. N) |-> Do(p[1], names[p[2]])]
           first == [subs |-> subs, pending |-> 1]
           Body(f) == [i \in 0 .. N |-> IF i = 0 THEN [subs |-> subs, pending |-> 1]
                                        ELSE LET n == names[i]
                                                 due == IF n \in DOMAIN f[i - 1].subs
                                                        THEN f[i - 1].subs[n].pending + 1
                                                        ELSE f[i - 1].pending
                                             IN [subs |-> Replaced(f[i - 1].subs, n, [pending |-> due, sent |-> FALSE]),
                                                 pending |-> due]]
<1>1. ASSUME NEW x \in X, NEW n \in Names PROVE Do(x, n) \in X
  <2>1. PICK E \in SUBSET Names : x.subs \in [E -> Subscription]
    OBVIOUS
  <2>2. Due(x, n) \in Nat
    BY <2>1 DEF Subscription
  <2> DEFINE e == [pending |-> Due(x, n), sent |-> FALSE]
             s == Replaced(x.subs, n, e)
  <2>3. e \in Subscription
    <3> HIDE DEF Due
    <3> QED BY <2>2 DEF Subscription
  <2> HIDE DEF e
  <2>4. s = [k \in E \cup {n} |-> IF k = n THEN e ELSE x.subs[k]]
    BY <2>1 DEF Replaced
  <2>5. s \in [E \cup {n} -> Subscription] /\ E \cup {n} \in SUBSET Names
    BY <2>1, <2>3, <2>4
  <2>6. s \in Maps
    BY <2>5
  <2> HIDE DEF s, Maps, Due
  <2>7. Do(x, n) = [subs |-> s, pending |-> Due(x, n)]
    BY DEF s, e
  <2> QED BY <2>2, <2>6, <2>7
<1>2. first \in X
  <2>1. subs \in Maps
    OBVIOUS
  <2> HIDE DEF Maps
  <2> QED BY <2>1
<1>3. \A x \in X, i \in 1 .. N : g[<<x, i>>] \in X /\ g[<<x, i>>] = Do(x, names[i])
  <2> SUFFICES ASSUME NEW x \in X, NEW i \in 1 .. N
               PROVE  g[<<x, i>>] \in X /\ g[<<x, i>>] = Do(x, names[i])
    OBVIOUS
  <2>1. names[i] \in Names
    OBVIOUS
  <2>2. Do(x, names[i]) \in X
    <3> HIDE DEF X, Do
    <3> QED BY <1>1, <2>1
  <2> HIDE DEF Do, X, N
  <2> QED BY <2>2
<1>4. \E f : f = Body(f)
  <2>a. N \in Nat
    OBVIOUS
  <2> HIDE DEF Do, X, g, N, first
  <2>0. N \in Nat /\ StepsTo(X, N, g)
    BY <1>3, <2>a DEF StepsTo
  <2>1. PICK f : StepsOf(f, X, N, first, g)
    BY <1>2, <2>0, StepsExist
  <2>2. /\ f \in [0 .. N -> X] /\ f[0] = first
        /\ \A i \in 1 .. N : f[i] = g[<<f[i - 1], i>>]
    BY <2>1 DEF StepsOf
  <2>3. \A i \in 0 .. N : f[i] = IF i = 0 THEN first ELSE Do(f[i - 1], names[i])
    <3> SUFFICES ASSUME NEW i \in 1 .. N PROVE f[i] = Do(f[i - 1], names[i])
      BY <2>0, <2>2
    <3>1. i - 1 \in 0 .. N /\ f[i - 1] \in X
      BY <2>0, <2>2
    <3> QED BY <1>3, <2>2, <3>1
  <2>4. f = [i \in 0 .. N |-> IF i = 0 THEN first ELSE Do(f[i - 1], names[i])]
    <3>1. f = [i \in 0 .. N |-> f[i]]
      BY <2>2
    <3> QED BY <2>3, <3>1
  <2>5. f = Body(f)
    BY <2>4 DEF Do, first
  <2> QED BY <2>5
<1> DEFINE step == CHOOSE f : f = Body(f)
<1>5. step = Body(step)
  <2> HIDE DEF Body
  <2> QED BY <1>4
<1>6. Subscribed(names) = step[N].subs
  BY DEF Subscribed
<1> HIDE DEF step
<1>7. step[0] = [subs |-> subs, pending |-> 1]
  BY <1>5
<1>8. \A i \in 1 .. N : step[i] = Do(step[i - 1], names[i])
  <2> SUFFICES ASSUME NEW i \in 1 .. N PROVE step[i] = Do(step[i - 1], names[i])
    OBVIOUS
  <2>1. i \in 0 .. N /\ i # 0
    OBVIOUS
  <2>2. Body(step)[i] = Do(step[i - 1], names[i])
    <3> HIDE DEF N, X, Maps, g
    <3> QED BY <2>1
  <2> HIDE DEF Body, Do
  <2> QED BY <1>5, <2>2
<1> HIDE DEF Maps, X, g, Body
<1> QED BY <1>6, <1>7, <1>8

(* So every entry waits for one confirmation more: if there are several     *)
(* names this needs that none had an entry, for the count is carried from   *)
(* one name to the next.                                                    *)
LEMMA SubscribedRenews ==
    ASSUME NEW names \in Seq(Names), Distinct(names), subs \in [DOMAIN subs -> Subscription],
           DOMAIN subs \subseteq Names,
           Len(names) = 1 \/ Range(names) \cap DOMAIN subs = {}
    PROVE  /\ Renewed(subs, names, Subscribed(names))
           /\ Subscribed(names) \in [DOMAIN subs \cup Range(names) -> Subscription]
<1> DEFINE N == Len(names)
           D == DOMAIN subs
<1>0. N \in Nat /\ (N = 1 \/ Range(names) \cap D = {}) /\ subs \in [D -> Subscription] /\ N = Len(names)
  OBVIOUS
<1>1. PICK step :
          /\ step[0] = [subs |-> subs, pending |-> 1]
          /\ \A i \in 1 .. Len(names) :
                LET n == names[i]
                    due == IF n \in DOMAIN step[i - 1].subs
                           THEN step[i - 1].subs[n].pending + 1 ELSE step[i - 1].pending
                IN step[i] = [subs |-> Replaced(step[i - 1].subs, n, [pending |-> due, sent |-> FALSE]),
                              pending |-> due]
          /\ Subscribed(names) = step[Len(names)].subs
  <2>1. D \in SUBSET Names
    OBVIOUS
  <2> QED BY <1>0, <2>1, SubscribedSteps
<1>2. \A n : n \in Range(names) <=> \E y \in 1 .. N : names[y] = n
  <2>1. DOMAIN names = 1 .. N
    OBVIOUS
  <2> QED BY <2>1 DEF Range
<1> HIDE DEF N, D
<1> DEFINE Old(n) == IF n \in D THEN subs[n].pending ELSE 0
           Fresh(n) == [pending |-> Old(n) + 1, sent |-> FALSE]
           Good(i) ==
        /\ step[i].subs \in [D \cup First(names, i) -> Subscription]
        /\ \A n \in D \cup First(names, i) :
              step[i].subs[n] = IF n \in First(names, i) THEN Fresh(n) ELSE subs[n]
        /\ i = 0 \/ Range(names) \cap D = {} => step[i].pending = 1
<1>3. Good(0)
  BY <1>0, <1>1, FirstNames
<1>4. ASSUME NEW i \in 1 .. N, Good(i - 1) PROVE Good(i)
  <2> DEFINE n == names[i]
             o == step[i - 1]
             due == IF n \in DOMAIN o.subs THEN o.subs[n].pending + 1 ELSE o.pending
             E == D \cup First(names, i - 1)
  <2>1. i \in Nat /\ i > 0 /\ First(names, i) = First(names, i - 1) \cup {n}
    BY <1>0, FirstNames
  <2>2. n \notin First(names, i - 1) /\ n \in Range(names)
    <3>1. \A y \in 1 .. i - 1 : names[y] # n
      <4>1. \A y \in 1 .. i - 1 : y \in 1 .. N /\ y # i
        BY <1>0
      <4> QED BY <1>0, <4>1 DEF Distinct
    <3>2. i - 1 \in Nat
      BY <1>0
    <3> QED BY <1>2, <3>1, <3>2, FirstNames
  <2>3. /\ o.subs \in [E -> Subscription] /\ DOMAIN o.subs = E
        /\ \A k \in E : o.subs[k] = IF k \in First(names, i - 1) THEN Fresh(k) ELSE subs[k]
        /\ i - 1 = 0 \/ Range(names) \cap D = {} => o.pending = 1
    <3>1. /\ o.subs \in [E -> Subscription]
          /\ \A k \in E : o.subs[k] = IF k \in First(names, i - 1) THEN Fresh(k) ELSE subs[k]
          /\ i - 1 = 0 \/ Range(names) \cap D = {} => o.pending = 1
      BY <1>4
    <3> QED BY <3>1
  <2>4. step[i].subs = Replaced(o.subs, n, [pending |-> due, sent |-> FALSE]) /\ step[i].pending = due
    <3>1. step[i] = [subs |-> Replaced(o.subs, n, [pending |-> due, sent |-> FALSE]), pending |-> due]
      BY <1>0, <1>1
    <3> HIDE DEF o, n, due
    <3> QED BY <3>1
  <2>5. due = Old(n) + 1
    <3>1. CASE n \in D
      <4>1. n \in E /\ o.subs[n] = subs[n]
        BY <2>2, <2>3, <3>1
      <4> QED BY <2>3, <3>1, <4>1
    <3>2. CASE n \notin D
      <4>1. n \notin E
        BY <2>2, <3>2
      <4>2. o.pending = 1
        <5>1. N = 1 => i - 1 = 0
          BY <1>0
        <5> QED BY <1>0, <2>3, <5>1
      <4> QED BY <2>3, <3>2, <4>1, <4>2
    <3> QED BY <3>1, <3>2
  <2>6. Fresh(n) \in Subscription
    <3>1. Old(n) + 1 \in Nat
      BY <1>0 DEF Subscription
    <3> HIDE DEF Old
    <3> QED BY <3>1 DEF Subscription
  <2> HIDE DEF o, due, E, Old
  <2>7. step[i].subs = [k \in E \cup {n} |-> IF k = n THEN Fresh(n) ELSE o.subs[k]]
    BY <2>3, <2>4, <2>5 DEF Replaced
  <2> HIDE DEF Fresh
  <2>8. E \cup {n} = D \cup First(names, i)
    BY <2>1 DEF E
  <2>9. step[i].subs \in [D \cup First(names, i) -> Subscription]
    BY <2>3, <2>6, <2>7, <2>8
  <2>10. ASSUME NEW k \in D \cup First(names, i)
         PROVE  step[i].subs[k] = IF k \in First(names, i) THEN Fresh(k) ELSE subs[k]
    <3>1. CASE k = n
      <4>1. k \in First(names, i) /\ k \in E \cup {n}
        BY <2>1, <3>1
      <4> QED BY <2>7, <3>1, <4>1
    <3>2. CASE k # n
      <4>1. k \in E /\ (k \in First(names, i) <=> k \in First(names, i - 1))
        BY <2>1, <2>8, <3>2
      <4>2. step[i].subs[k] = o.subs[k]
        BY <2>7, <3>2, <4>1
      <4> QED BY <2>3, <4>1, <4>2
    <3> QED BY <3>1, <3>2
  <2>11. Range(names) \cap D = {} => step[i].pending = 1
    BY <2>2, <2>4, <2>5 DEF Old
  <2> QED BY <2>1, <2>9, <2>10, <2>11
<1>5. \A i \in 0 .. N : Good(i)
  <2> DEFINE T == {i \in Nat : i <= N => Good(i)}
  <2>1. 0 \in T
    <3> HIDE DEF Good
    <3> QED BY <1>3
  <2>2. ASSUME NEW i \in Nat, i \in T PROVE i + 1 \in T
    <3> SUFFICES ASSUME i + 1 <= N PROVE Good(i + 1)
      BY DEF T
    <3>1. Good(i)
      <4> HIDE DEF Good
      <4> QED BY <1>0, <2>2
    <3>2. i + 1 \in 1 .. N /\ (i + 1) - 1 = i
      BY <1>0
    <3> HIDE DEF Good, T
    <3> QED BY <1>4, <3>1, <3>2
  <2> HIDE DEF T
  <2>3. \A i \in Nat : i >= 0 => i \in T
    BY <2>1, <2>2, UpTo
  <2> HIDE DEF Good
  <2> QED BY <1>0, <2>3 DEF T
<1>6. Good(N)
  <2>1. N \in 0 .. N
    BY <1>0
  <2> HIDE DEF Good
  <2> QED BY <1>5, <2>1
<1>7. First(names, N) = Range(names)
  <2>1. \A n : n \in First(names, N) <=> \E y \in 1 .. N : names[y] = n
    BY <1>0, FirstNames
  <2> QED BY <1>2, <2>1
<1>8. Subscribed(names) = step[N].subs
  BY <1>0, <1>1
<1> DEFINE S2 == Subscribed(names)
<1>9. /\ S2 \in [D \cup Range(names) -> Subscription]
      /\ \A n \in D \cup Range(names) : S2[n] = IF n \in Range(names) THEN Fresh(n) ELSE subs[n]
  BY <1>6, <1>7, <1>8
<1> HIDE DEF S2, Good
<1>10. Renewed(subs, names, S2)
  BY <1>9 DEF Renewed, D
<1> QED BY <1>9, <1>10 DEF S2, D

-----------------------------------------------------------------------------
(***************************************************************************)
(* WHAT IS HEARD                                                           *)
(*                                                                         *)
(* The replies on their way to the client, and how far along the ledger    *)
(* and the commands with a reply each of them is.                          *)
(***************************************************************************)

(* What the client has not processed yet, Q, and the ledger: m counts the   *)
(* entries of the ledger, e the commands with a reply, that are settled     *)
(* with the first i replies.  Nothing is known of what comes after an error *)
(* that no command waits for: the connection ends there.                    *)
IsNote(r) == r.kind \in {"subscribe", "unsubscribe"}
Denial(r) == r.kind = "error" /\ r.id = 0
IsAnswer(r) == r.kind \in {"reply", "array", "error"} /\ ~Denial(r)
Aside(r) == IsNote(r) \/ r.kind = "message" \/ Denial(r)
Clean(Q, i) == \A j \in 1 .. i : ~Denial(Q[j])

Hears(r, F, V, top, o, p, d, x) ==
    /\ IsNote(r) => /\ p = o + 1 /\ F[p].op = r.kind /\ F[p].name = r.name
                    /\ r.kind = "unsubscribe" /\ V[p] = {} => r.count = 0
    /\ ~IsNote(r) => p = o
    /\ r.kind = "message" => r.name \in V[p]
    /\ Denial(r) => p < Len(F)
    /\ IsAnswer(r) => x = d + 1 /\ r.id = x
    /\ ~IsAnswer(r) => x = d
    /\ Aside(r) => top <= x

Rising(n, m, k) ==
    /\ \A i \in 0 .. n : m[i] \in 0 .. k
    /\ \A i, j \in 0 .. n : i <= j => m[i] <= m[j]

HeardBy(Q, F, V, top, last, m, e) ==
    /\ Rising(Len(Q), m, Len(F)) /\ Rising(Len(Q), e, last)
    /\ \A i \in 1 .. Len(Q) : Clean(Q, i - 1) => Hears(Q[i], F, V, top, m[i - 1], m[i], e[i - 1], e[i])

(* What is written but not sent yet.                                        *)
IsCall(c) == c.op \in {"call", "monitor"}

Sends(c, F, V, top, o, p, d, x) ==
    /\ IsCall(c) => p = o /\ x = d + 1 /\ c.id = x
    /\ ~IsCall(c) =>
          /\ Len(AnsweredNames(c, V[o])) \in Nat \ {0} /\ p = o + Len(AnsweredNames(c, V[o]))
          /\ \A y \in 1 .. Len(AnsweredNames(c, V[o])) :
                /\ F[o + y].op = (IF c.op = "subscribe" THEN "subscribe" ELSE "unsubscribe")
                /\ F[o + y].name = AnsweredNames(c, V[o])[y]
          /\ x = d /\ top <= x

SentBy(O, F, V, top, last, b, a) ==
    /\ Rising(Len(O), b, Len(F)) /\ b[Len(O)] = Len(F)
    /\ Rising(Len(O), a, last) /\ a[Len(O)] = last
    /\ \A i \in 1 .. Len(O) : Sends(O[i], F, V, top, b[i - 1], b[i], a[i - 1], a[i])

(* More is to come.                                                         *)
Extends(F, V, F2, V2) ==
    /\ Len(F) \in Nat /\ Len(F2) \in Nat /\ Len(F) <= Len(F2)
    /\ \A p \in 1 .. Len(F) : F2[p] = F[p]
    /\ \A p \in 0 .. Len(F) : V2[p] = V[p]

(* What was heard is still in place when commands are issued.               *)
LEMMA HeardMore ==
    ASSUME NEW Q, Len(Q) \in Nat, NEW F, NEW V, NEW top, NEW last \in Nat, NEW m, NEW e,
           HeardBy(Q, F, V, top, last, m, e),
           NEW F2, NEW V2, Extends(F, V, F2, V2), NEW last2 \in Nat, last <= last2,
           NEW top2, \A i \in 1 .. Len(Q) : Clean(Q, i - 1) /\ Aside(Q[i]) => top2 <= e[i]
    PROVE  HeardBy(Q, F2, V2, top2, last2, m, e)
<1>1. Rising(Len(Q), m, Len(F2)) /\ Rising(Len(Q), e, last2)
  BY DEF HeardBy, Rising, Extends
<1>2. ASSUME NEW i \in 1 .. Len(Q), Clean(Q, i - 1)
      PROVE  Hears(Q[i], F2, V2, top2, m[i - 1], m[i], e[i - 1], e[i])
  <2>1. Hears(Q[i], F, V, top, m[i - 1], m[i], e[i - 1], e[i])
    BY <1>2 DEF HeardBy
  <2>2. i - 1 \in 0 .. Len(Q) /\ i \in 0 .. Len(Q)
    OBVIOUS
  <2>3. m[i - 1] \in 0 .. Len(F) /\ m[i] \in 0 .. Len(F)
    BY <2>2 DEF HeardBy, Rising
  <2>4. V2[m[i]] = V[m[i]]
    BY <2>3 DEF Extends
  <2>5. IsNote(Q[i]) => F2[m[i]] = F[m[i]]
    <3> SUFFICES ASSUME IsNote(Q[i]) PROVE F2[m[i]] = F[m[i]]
      OBVIOUS
    <3>1. m[i] = m[i - 1] + 1
      BY <2>1 DEF Hears
    <3>2. m[i] \in 1 .. Len(F)
      BY <2>3, <3>1 DEF Extends
    <3> QED BY <3>2 DEF Extends
  <2>6. m[i] < Len(F) => m[i] < Len(F2)
    BY <2>3 DEF Extends
  <2>7. Aside(Q[i]) => top2 <= e[i]
    BY <1>2
  <2> QED BY <2>1, <2>4, <2>5, <2>6, <2>7 DEF Hears
<1> QED BY <1>1, <1>2 DEF HeardBy

(* The first reply is taken, and with it d entries of the ledger.           *)
LEMMA HeardTail ==
    ASSUME NEW Q, NEW Q2, Len(Q) \in Nat \ {0}, Len(Q2) = Len(Q) - 1,
           \A i \in 1 .. Len(Q2) : Q2[i] = Q[i + 1],
           NEW F, NEW V, NEW top, NEW last \in Nat, NEW m, NEW e,
           HeardBy(Q, F, V, top, last, m, e), ~Denial(Q[1]),
           NEW d \in {0, 1}, m[1] >= d,
           NEW F2, NEW V2, Len(F) \in Nat, Len(F2) \in Nat, Len(F2) = Len(F) - d,
           \A p \in 1 .. Len(F2) : F2[p] = F[p + d], \A p \in 0 .. Len(F2) : V2[p] = V[p + d],
           NEW m2, m2 = [i \in 0 .. Len(Q2) |-> m[i + 1] - d],
           NEW e2, e2 = [i \in 0 .. Len(Q2) |-> e[i + 1]]
    PROVE  HeardBy(Q2, F2, V2, top, last, m2, e2)
<1> DEFINE n == Len(Q2)
<1>0. n \in Nat /\ Len(Q) = n + 1
  OBVIOUS
<1>1. /\ \A i \in 0 .. n + 1 : m[i] \in 0 .. Len(F) /\ e[i] \in 0 .. last
      /\ \A i, j \in 0 .. n + 1 : i <= j => m[i] <= m[j] /\ e[i] <= e[j]
  BY <1>0 DEF HeardBy, Rising
<1>2. \A i \in 0 .. n : m2[i] = m[i + 1] - d /\ e2[i] = e[i + 1] /\ i + 1 \in 0 .. n + 1 /\ m[i + 1] >= d
  <2> SUFFICES ASSUME NEW i \in 0 .. n
               PROVE  m2[i] = m[i + 1] - d /\ e2[i] = e[i + 1] /\ i + 1 \in 0 .. n + 1 /\ m[i + 1] >= d
    OBVIOUS
  <2>1. i + 1 \in 0 .. n + 1 /\ 1 \in 0 .. n + 1 /\ 1 <= i + 1
    BY <1>0
  <2>2. m[1] <= m[i + 1] /\ m[1] \in Nat /\ m[i + 1] \in Nat
    BY <1>1, <2>1
  <2> QED BY <2>1, <2>2
<1> HIDE DEF n
<1>3. Rising(n, m2, Len(F2))
  <2>1. ASSUME NEW i \in 0 .. n PROVE m2[i] \in 0 .. Len(F2)
    <3>1. m[i + 1] \in 0 .. Len(F) /\ m2[i] = m[i + 1] - d /\ m[i + 1] >= d
      BY <1>1, <1>2
    <3> QED BY <3>1
  <2>2. ASSUME NEW i \in 0 .. n, NEW j \in 0 .. n, i <= j PROVE m2[i] <= m2[j]
    <3>1. i + 1 \in 0 .. n + 1 /\ j + 1 \in 0 .. n + 1 /\ i + 1 <= j + 1
      BY <1>0, <2>2
    <3>2. m[i + 1] <= m[j + 1] /\ m[i + 1] \in Nat /\ m[j + 1] \in Nat
      BY <1>1, <3>1
    <3>3. m2[i] = m[i + 1] - d /\ m2[j] = m[j + 1] - d
      BY <1>2
    <3> QED BY <3>2, <3>3
  <2> QED BY <2>1, <2>2 DEF Rising
<1>4. Rising(n, e2, last)
  <2>1. ASSUME NEW i \in 0 .. n PROVE e2[i] \in 0 .. last
    BY <1>1, <1>2
  <2>2. ASSUME NEW i \in 0 .. n, NEW j \in 0 .. n, i <= j PROVE e2[i] <= e2[j]
    <3>1. i + 1 \in 0 .. n + 1 /\ j + 1 \in 0 .. n + 1 /\ i + 1 <= j + 1
      BY <1>0, <2>2
    <3> QED BY <1>1, <1>2, <3>1
  <2> QED BY <2>1, <2>2 DEF Rising
<1>5. ASSUME NEW i \in 1 .. n, Clean(Q2, i - 1)
      PROVE  Hears(Q2[i], F2, V2, top, m2[i - 1], m2[i], e2[i - 1], e2[i])
  <2>1. i - 1 \in 0 .. n /\ i \in 0 .. n /\ i + 1 \in 1 .. Len(Q) /\ (i + 1) - 1 = i /\ (i - 1) + 1 = i
    BY <1>0
  <2>2. Clean(Q, (i + 1) - 1)
    <3> SUFFICES ASSUME NEW j \in 1 .. i PROVE ~Denial(Q[j])
      BY <2>1 DEF Clean
    <3>1. CASE j = 1
      BY <3>1
    <3>2. CASE j # 1
      <4>1. j - 1 \in 1 .. i - 1 /\ j - 1 \in 1 .. n /\ (j - 1) + 1 = j
        BY <1>0, <3>2
      <4>2. Q2[j - 1] = Q[(j - 1) + 1]
        BY <4>1 DEF n
      <4> QED BY <1>5, <4>1, <4>2 DEF Clean
    <3> QED BY <3>1, <3>2
  <2>3. Hears(Q[i + 1], F, V, top, m[(i + 1) - 1], m[i + 1], e[(i + 1) - 1], e[i + 1])
    BY <2>1, <2>2 DEF HeardBy
  <2>4. Hears(Q[i + 1], F, V, top, m[i], m[i + 1], e[i], e[i + 1])
    BY <2>1, <2>3
  <2>5. Q2[i] = Q[i + 1] /\ m2[i] = m[i + 1] - d /\ e2[i] = e[i + 1] /\ m[i + 1] >= d
    BY <1>2, <2>1 DEF n
  <2>6. m2[i - 1] = m[i] - d /\ e2[i - 1] = e[i]
    BY <1>2, <2>1
  <2> DEFINE x == m[i]
             y == m[i + 1]
             x2 == m2[i - 1]
             y2 == m2[i]
  <2>7. x \in 0 .. Len(F) /\ y \in 0 .. Len(F) /\ y2 \in 0 .. Len(F2) /\ x2 \in 0 .. Len(F2)
    <3>1. i \in 0 .. n + 1 /\ i + 1 \in 0 .. n + 1
      BY <1>0
    <3> QED BY <1>1, <1>3, <2>1, <3>1 DEF Rising
  <2>a. x2 = x - d /\ y2 = y - d
    BY <2>5, <2>6
  <2> HIDE DEF x, y, x2, y2
  <2>8. y2 + d = y /\ x2 + d = x
    BY <2>7, <2>a
  <2>9. V2[y2] = V[y]
    BY <2>7, <2>8
  <2>10. y = x + 1 => y2 = x2 + 1 /\ F2[y2] = F[y]
    <3> SUFFICES ASSUME y = x + 1 PROVE y2 = x2 + 1 /\ F2[y2] = F[y]
      OBVIOUS
    <3>1. y2 = x2 + 1
      BY <2>7, <2>8
    <3>2. y2 \in 1 .. Len(F2)
      BY <2>7, <3>1
    <3> QED BY <2>8, <3>1, <3>2
  <2>11. y = x => y2 = x2
    BY <2>7, <2>8
  <2>12. y < Len(F) => y2 < Len(F2)
    BY <2>7, <2>8
  <2>13. Hears(Q[i + 1], F, V, top, x, y, e[i], e[i + 1])
    BY <2>4 DEF x, y
  <2>14. Hears(Q[i + 1], F2, V2, top, x2, y2, e[i], e[i + 1])
    BY <2>9, <2>10, <2>11, <2>12, <2>13 DEF Hears
  <2> QED BY <2>5, <2>6, <2>14 DEF x2, y2
<1> QED BY <1>3, <1>4, <1>5 DEF HeardBy, n

(* A part is lost at the end.                                               *)
LEMMA HeardPrefix ==
    ASSUME NEW Q, NEW Q2, Len(Q) \in Nat, Len(Q2) \in Nat, Len(Q2) <= Len(Q),
           \A i \in 1 .. Len(Q2) : Q2[i] = Q[i],
           NEW F, NEW V, NEW top, NEW last, NEW m, NEW e, HeardBy(Q, F, V, top, last, m, e)
    PROVE  HeardBy(Q2, F, V, top, last, m, e)
<1>1. Rising(Len(Q2), m, Len(F)) /\ Rising(Len(Q2), e, last)
  <2>1. \A i \in 0 .. Len(Q2) : i \in 0 .. Len(Q)
    OBVIOUS
  <2> QED BY <2>1 DEF HeardBy, Rising
<1>2. ASSUME NEW i \in 1 .. Len(Q2), Clean(Q2, i - 1)
      PROVE  Hears(Q2[i], F, V, top, m[i - 1], m[i], e[i - 1], e[i])
  <2>1. i \in 1 .. Len(Q) /\ \A j \in 1 .. i - 1 : j \in 1 .. Len(Q2)
    OBVIOUS
  <2>2. Clean(Q, i - 1) /\ Q2[i] = Q[i]
    BY <1>2, <2>1 DEF Clean
  <2> QED BY <2>1, <2>2 DEF HeardBy
<1> QED BY <1>1, <1>2 DEF HeardBy

(* Two rising counts, the one going on where the other ends.                *)
LEMMA Joined ==
    ASSUME NEW n \in Nat, NEW k \in Nat, NEW b \in Nat, NEW m, NEW mm, NEW m2,
           Rising(n, m, b), Rising(k, mm, b), mm[0] = m[n],
           \A i \in 0 .. n : m2[i] = m[i], \A i \in 0 .. k : m2[n + i] = mm[i]
    PROVE  Rising(n + k, m2, b)
<1>1. n \in 0 .. n /\ 0 \in 0 .. k
  OBVIOUS
<1>2. ASSUME NEW i \in 0 .. n PROVE m2[i] = m[i] /\ m[i] \in 0 .. b /\ m[i] <= m[n]
  BY <1>1 DEF Rising
<1>3. ASSUME NEW x \in 0 .. k PROVE m2[n + x] = mm[x] /\ mm[x] \in 0 .. b /\ m[n] <= mm[x]
  <2>1. mm[0] <= mm[x]
    BY <1>1 DEF Rising
  <2> QED BY <2>1 DEF Rising
<1>4. ASSUME NEW i \in 0 .. n + k, ~(i \in 0 .. n) PROVE \E x \in 0 .. k : i = n + x
  <2>1. i - n \in 0 .. k /\ i = n + (i - n)
    BY <1>4
  <2> QED BY <2>1
<1>5. ASSUME NEW i \in 0 .. n + k PROVE m2[i] \in 0 .. b
  <2>1. CASE i \in 0 .. n
    BY <1>2, <2>1
  <2>2. ASSUME NEW x \in 0 .. k, i = n + x PROVE m2[i] \in 0 .. b
    BY <1>3, <2>2
  <2> QED BY <1>4, <2>1, <2>2
<1>6. ASSUME NEW i \in 0 .. n + k, NEW j \in 0 .. n + k, i <= j PROVE m2[i] <= m2[j]
  <2>0. m2[i] \in Nat /\ m2[j] \in Nat /\ m[n] \in Nat
    <3>1. m2[i] \in 0 .. b /\ m2[j] \in 0 .. b /\ m[n] \in 0 .. b
      BY <1>1, <1>2, <1>5
    <3> QED BY <3>1
  <2>1. CASE i \in 0 .. n /\ j \in 0 .. n
    <3>1. m[i] <= m[j]
      BY <1>6, <2>1 DEF Rising
    <3> QED BY <2>1, <3>1
  <2>2. ASSUME NEW x \in 0 .. k, j = n + x, i \in 0 .. n PROVE m2[i] <= m2[j]
    <3>1. m2[i] <= m[n]
      BY <1>2, <2>2
    <3>2. m[n] <= m2[j]
      BY <1>3, <2>2
    <3> QED BY <2>0, <3>1, <3>2
  <2>3. ASSUME NEW x \in 0 .. k, i = n + x, NEW y \in 0 .. k, j = n + y PROVE m2[i] <= m2[j]
    <3>1. x <= y
      BY <1>6, <2>3
    <3>2. mm[x] <= mm[y]
      BY <3>1 DEF Rising
    <3>3. m2[i] = mm[x] /\ m2[j] = mm[y]
      BY <1>3, <2>3
    <3> QED BY <3>2, <3>3
  <2>4. ASSUME NEW x \in 0 .. k, i = n + x, j \in 0 .. n PROVE m2[i] <= m2[j]
    <3>1. i = j
      BY <1>6, <2>4
    <3> QED BY <2>0, <3>1
  <2>5. i \in 0 .. n \/ \E x \in 0 .. k : i = n + x
    BY <1>4
  <2>6. j \in 0 .. n \/ \E x \in 0 .. k : j = n + x
    BY <1>4
  <2> QED BY <2>1, <2>2, <2>3, <2>4, <2>5, <2>6
<1> QED BY <1>5, <1>6 DEF Rising

(* More is sent.                                                            *)
LEMMA HeardAppend ==
    ASSUME NEW Q, NEW A, NEW Q2, Len(Q) \in Nat, Len(A) \in Nat, Len(Q2) = Len(Q) + Len(A),
           \A i \in 1 .. Len(Q) : Q2[i] = Q[i], \A i \in 1 .. Len(A) : Q2[Len(Q) + i] = A[i],
           NEW F, NEW V, NEW top, NEW last \in Nat, NEW m, NEW e, Len(F) \in Nat,
           HeardBy(Q, F, V, top, last, m, e),
           NEW mm, NEW ee, mm[0] = m[Len(Q)], ee[0] = e[Len(Q)],
           Rising(Len(A), mm, Len(F)), Rising(Len(A), ee, last),
           \A i \in 1 .. Len(A) : Clean(Q, Len(Q)) /\ Clean(A, i - 1) =>
               Hears(A[i], F, V, top, mm[i - 1], mm[i], ee[i - 1], ee[i]),
           NEW m2, m2 = [i \in 0 .. Len(Q2) |-> IF i <= Len(Q) THEN m[i] ELSE mm[i - Len(Q)]],
           NEW e2, e2 = [i \in 0 .. Len(Q2) |-> IF i <= Len(Q) THEN e[i] ELSE ee[i - Len(Q)]]
    PROVE  HeardBy(Q2, F, V, top, last, m2, e2)
<1> DEFINE n == Len(Q)
           k == Len(A)
<1>0. n \in Nat /\ k \in Nat /\ Len(Q2) = n + k /\ n \in 0 .. n /\ 0 \in 0 .. k
  OBVIOUS
<1>1. /\ \A i \in 0 .. n : m2[i] = m[i] /\ e2[i] = e[i]
      /\ \A i \in 0 .. k : m2[n + i] = mm[i] /\ e2[n + i] = ee[i]
  <2>1. ASSUME NEW i \in 0 .. n PROVE m2[i] = m[i] /\ e2[i] = e[i]
    <3>1. i \in 0 .. Len(Q2) /\ i <= n
      BY <1>0
    <3> QED BY <3>1
  <2>2. ASSUME NEW i \in 0 .. k PROVE m2[n + i] = mm[i] /\ e2[n + i] = ee[i]
    <3>1. CASE i = 0
      BY <1>0, <2>1, <3>1
    <3>2. CASE i # 0
      <4>1. n + i \in 0 .. Len(Q2) /\ ~(n + i <= n) /\ (n + i) - n = i
        BY <1>0, <3>2
      <4> QED BY <4>1
    <3> QED BY <3>1, <3>2
  <2> QED BY <2>1, <2>2
<1>2. Rising(n + k, m2, Len(F)) /\ Rising(n + k, e2, last)
  <2>1. Rising(n, m, Len(F)) /\ Rising(n, e, last) /\ Rising(k, mm, Len(F)) /\ Rising(k, ee, last)
        /\ mm[0] = m[n] /\ ee[0] = e[n]
    BY DEF HeardBy
  <2> HIDE DEF n, k
  <2>2. Rising(n + k, m2, Len(F))
    <3>1. (\A i \in 0 .. n : m2[i] = m[i]) /\ (\A i \in 0 .. k : m2[n + i] = mm[i])
      BY <1>1
    <3>2. n \in Nat /\ k \in Nat /\ Len(F) \in Nat
      BY <1>0
    <3> DEFINE b == Len(F)
    <3>3. Rising(n, m, b) /\ Rising(k, mm, b) /\ mm[0] = m[n] /\ b \in Nat
      BY <2>1
    <3> HIDE DEF b
    <3>4. Rising(n + k, m2, b)
      BY <3>1, <3>2, <3>3, Joined
    <3> QED BY <3>4 DEF b
  <2>3. Rising(n + k, e2, last)
    <3>1. (\A i \in 0 .. n : e2[i] = e[i]) /\ (\A i \in 0 .. k : e2[n + i] = ee[i])
      BY <1>1
    <3>2. n \in Nat /\ k \in Nat /\ last \in Nat
      BY <1>0
    <3> QED BY <2>1, <3>1, <3>2, Joined
  <2> QED BY <2>2, <2>3
<1> HIDE DEF n, k
<1>6. ASSUME NEW i \in 1 .. n + k, Clean(Q2, i - 1)
      PROVE  Hears(Q2[i], F, V, top, m2[i - 1], m2[i], e2[i - 1], e2[i])
  <2>1. CASE i <= n
    <3>1. i \in 1 .. n /\ i \in 0 .. n /\ i - 1 \in 0 .. n /\ \A j \in 1 .. i - 1 : j \in 1 .. n
      BY <1>0, <2>1
    <3>2. Clean(Q, i - 1) /\ Q2[i] = Q[i]
      BY <1>6, <3>1 DEF Clean, n
    <3>3. Hears(Q[i], F, V, top, m[i - 1], m[i], e[i - 1], e[i])
      BY <3>1, <3>2 DEF HeardBy, n
    <3> QED BY <1>1, <3>1, <3>2, <3>3
  <2>2. CASE i > n
    <3>1. i \in 0 .. n + k
      BY <1>0
    <3>2. PICK x \in 1 .. k : i = n + x
      BY <1>0, <2>2, <3>1, Positions
    <3>3. x \in 0 .. k /\ x - 1 \in 0 .. k /\ i - 1 = n + (x - 1)
      BY <1>0, <3>2
    <3>4. Clean(Q, n)
      <4>1. \A j \in 1 .. n : j \in 1 .. i - 1
        BY <1>0, <3>2
      <4> QED BY <1>6, <4>1 DEF Clean, n
    <3>5. Clean(A, x - 1)
      <4> SUFFICES ASSUME NEW j \in 1 .. x - 1 PROVE ~Denial(A[j])
        BY DEF Clean
      <4>1. n + j \in 1 .. i - 1 /\ j \in 1 .. k
        BY <1>0, <3>2
      <4>2. Q2[n + j] = A[j]
        BY <4>1 DEF n, k
      <4> QED BY <1>6, <4>1, <4>2 DEF Clean
    <3>6. Hears(A[x], F, V, top, mm[x - 1], mm[x], ee[x - 1], ee[x])
      BY <3>4, <3>5 DEF n, k
    <3>7. Q2[i] = A[x]
      <4>1. Q2[n + x] = A[x]
        BY <3>2 DEF n, k
      <4> QED BY <3>2, <4>1
    <3>8. m2[i] = mm[x] /\ e2[i] = ee[x] /\ m2[i - 1] = mm[x - 1] /\ e2[i - 1] = ee[x - 1]
      BY <1>1, <3>2, <3>3
    <3> QED BY <3>6, <3>7, <3>8
  <2> QED BY <1>0, <2>1, <2>2
<1> QED BY <1>0, <1>2, <1>6 DEF HeardBy

-----------------------------------------------------------------------------
(***************************************************************************)
(* WHAT IS TO BE SENT                                                      *)
(*                                                                         *)
(* The commands in the output buffer, and how far along the ledger and     *)
(* the commands with a reply the answers to each of them will be.          *)
(***************************************************************************)

(* A rising count, position by position.                                    *)
LEMMA RisingOne ==
    ASSUME NEW n, NEW m, NEW k, Rising(n, m, k), n \in Nat, k \in Nat
    PROVE  /\ \A i \in 0 .. n : m[i] \in Nat /\ m[i] <= k /\ m[0] <= m[i] /\ m[i] <= m[n]
           /\ \A i \in 1 .. n : m[i - 1] <= m[i] /\ m[i - 1] \in Nat /\ m[i] \in Nat /\ m[i] <= k
           /\ \A i \in 1 .. n : m[1] <= m[i]
<1>1. ASSUME NEW i \in 0 .. n PROVE m[i] \in Nat /\ m[i] <= k /\ m[0] <= m[i] /\ m[i] <= m[n]
  <2>1. 0 \in 0 .. n /\ n \in 0 .. n /\ 0 <= i /\ i <= n
    OBVIOUS
  <2>2. m[i] \in 0 .. k
    BY DEF Rising
  <2>3. m[0] <= m[i] /\ m[i] <= m[n]
    BY <2>1 DEF Rising
  <2> QED BY <2>2, <2>3
<1>2. ASSUME NEW i \in 1 .. n PROVE m[i - 1] <= m[i] /\ m[1] <= m[i] /\ i - 1 \in 0 .. n /\ i \in 0 .. n
  <2>1. i - 1 \in 0 .. n /\ i \in 0 .. n /\ 1 \in 0 .. n /\ 1 <= i /\ i - 1 <= i
    OBVIOUS
  <2> QED BY <2>1 DEF Rising
<1> QED BY <1>1, <1>2

(* A command is issued.                                                     *)
LEMMA SentAppend ==
    ASSUME NEW T, NEW O \in Seq(T), NEW c \in T, NEW F, NEW V, NEW top, NEW last \in Nat, NEW b, NEW a,
           SentBy(O, F, V, top, last, b, a),
           NEW F2, NEW V2, Extends(F, V, F2, V2), NEW last2 \in Nat, last <= last2,
           NEW top2, \A i \in 1 .. Len(O) : ~IsCall(O[i]) => top2 <= a[i],
           Sends(c, F2, V2, top2, Len(F), Len(F2), last, last2)
    PROVE  \E b2, a2 : /\ SentBy(Append(O, c), F2, V2, top2, last2, b2, a2)
                       /\ b2[0] = b[0] /\ a2[0] = a[0]
<1> DEFINE n == Len(O)
           O2 == Append(O, c)
           b2 == [i \in 0 .. n + 1 |-> IF i <= n THEN b[i] ELSE Len(F2)]
           a2 == [i \in 0 .. n + 1 |-> IF i <= n THEN a[i] ELSE last2]
<1>1. /\ n \in Nat /\ Len(O2) = n + 1 /\ \A i \in 1 .. n : O2[i] = O[i]
      /\ O2[n + 1] = c
  OBVIOUS
<1>2. /\ \A i \in 0 .. n : b2[i] = b[i] /\ a2[i] = a[i]
      /\ b2[n + 1] = Len(F2) /\ a2[n + 1] = last2
  <2>1. ASSUME NEW i \in 0 .. n PROVE i \in 0 .. n + 1 /\ i <= n
    BY <1>1
  <2>2. n + 1 \in 0 .. n + 1 /\ ~(n + 1 <= n)
    BY <1>1
  <2>3. \A i \in 0 .. n : b2[i] = b[i] /\ a2[i] = a[i]
    BY <2>1
  <2> QED BY <2>2, <2>3
<1>3. Len(F) \in Nat /\ Len(F2) \in Nat /\ Len(F) <= Len(F2)
  BY DEF Extends
<1>a. /\ Rising(n, b, Len(F)) /\ b[n] = Len(F) /\ Rising(n, a, last) /\ a[n] = last
      /\ \A i \in 1 .. n : Sends(O[i], F, V, top, b[i - 1], b[i], a[i - 1], a[i])
  BY DEF SentBy
<1>b. \A i \in 1 .. n : ~IsCall(O[i]) => top2 <= a[i]
  OBVIOUS
<1> HIDE DEF n, O2, b2, a2
<1>4. Rising(n + 1, b2, Len(F2))
  <2> DEFINE k == Len(F2)
  <2>1. Rising(n, b, k) /\ k \in Nat
    BY <1>3, <1>a DEF Rising
  <2> DEFINE mm == [i \in 0 .. 1 |-> IF i = 0 THEN b[n] ELSE k]
  <2>2. b[n] \in Nat /\ b[n] <= k
    BY <1>1, <1>3, <1>a
  <2> HIDE DEF k
  <2>3. mm[0] = b[n] /\ mm[1] = k
    OBVIOUS
  <2>4. Rising(1, mm, k)
    <3> HIDE DEF mm
    <3>1. \A i \in 0 .. 1 : i = 0 \/ i = 1
      OBVIOUS
    <3> QED BY <2>1, <2>2, <2>3, <3>1 DEF Rising
  <2>5. \A i \in 0 .. n : b2[i] = b[i]
    BY <1>2
  <2>6. \A i \in 0 .. 1 : b2[n + i] = mm[i]
    <3> HIDE DEF mm
    <3>1. b2[n + 0] = mm[0] /\ b2[n + 1] = mm[1]
      BY <1>1, <1>2, <2>3 DEF k
    <3>2. \A i \in 0 .. 1 : i = 0 \/ i = 1
      OBVIOUS
    <3> QED BY <3>1, <3>2
  <2> HIDE DEF mm
  <2>7. Rising(n + 1, b2, k)
    BY <1>1, <2>1, <2>3, <2>4, <2>5, <2>6, Joined
  <2> QED BY <2>7 DEF k
<1>5. Rising(n + 1, a2, last2)
  <2>1. Rising(n, a, last2)
    BY <1>a DEF Rising
  <2> DEFINE mm == [i \in 0 .. 1 |-> IF i = 0 THEN a[n] ELSE last2]
  <2>2. a[n] \in Nat /\ a[n] <= last2
    BY <1>a
  <2>3. mm[0] = a[n] /\ mm[1] = last2
    OBVIOUS
  <2>4. Rising(1, mm, last2)
    <3> HIDE DEF mm
    <3>1. \A i \in 0 .. 1 : i = 0 \/ i = 1
      OBVIOUS
    <3> QED BY <2>1, <2>2, <2>3, <3>1 DEF Rising
  <2>5. \A i \in 0 .. n : a2[i] = a[i]
    BY <1>2
  <2>6. \A i \in 0 .. 1 : a2[n + i] = mm[i]
    <3> HIDE DEF mm
    <3>1. a2[n + 0] = mm[0] /\ a2[n + 1] = mm[1]
      BY <1>1, <1>2, <2>3
    <3>2. \A i \in 0 .. 1 : i = 0 \/ i = 1
      OBVIOUS
    <3> QED BY <3>1, <3>2
  <2> HIDE DEF mm
  <2> QED BY <1>1, <2>1, <2>3, <2>4, <2>5, <2>6, Joined
<1>6. ASSUME NEW i \in 1 .. n + 1
      PROVE  Sends(O2[i], F2, V2, top2, b2[i - 1], b2[i], a2[i - 1], a2[i])
  <2>1. CASE i = n + 1
    <3>1. i - 1 = n /\ n \in 0 .. n
      BY <1>1, <2>1
    <3> QED BY <1>1, <1>2, <1>a, <2>1, <3>1
  <2>2. CASE i # n + 1
    <3>1. i \in 1 .. n /\ i - 1 \in 0 .. n /\ i \in 0 .. n
      BY <1>1, <2>2
    <3> DEFINE o == b[i - 1]
               p == b[i]
               ci == O[i]
    <3>2. o \in 0 .. Len(F) /\ p \in 0 .. Len(F)
      BY <1>a, <3>1 DEF Rising
    <3>3. Sends(ci, F, V, top, o, p, a[i - 1], a[i])
      BY <1>a, <3>1
    <3>4. ~IsCall(ci) => top2 <= a[i]
      BY <1>b, <3>1
    <3>a. /\ O2[i] = ci /\ b2[i - 1] = o /\ b2[i] = p /\ a2[i - 1] = a[i - 1] /\ a2[i] = a[i]
      BY <1>1, <1>2, <3>1
    <3> HIDE DEF o, p, ci
    <3>5. V2[o] = V[o]
      BY <3>2 DEF Extends
    <3>6. ASSUME ~IsCall(ci), NEW y \in 1 .. Len(AnsweredNames(ci, V[o]))
          PROVE  F2[o + y] = F[o + y]
      <4>1. p = o + Len(AnsweredNames(ci, V[o]))
        BY <3>3, <3>6 DEF Sends
      <4> QED BY <1>3, <3>2, <4>1 DEF Extends
    <3>7. Sends(ci, F2, V2, top2, o, p, a[i - 1], a[i])
      BY <3>3, <3>4, <3>5, <3>6 DEF Sends
    <3> QED BY <3>7, <3>a
  <2> QED BY <2>1, <2>2
<1>7. SentBy(O2, F2, V2, top2, last2, b2, a2)
  BY <1>1, <1>2, <1>4, <1>5, <1>6 DEF SentBy
<1>8. b2[0] = b[0] /\ a2[0] = a[0]
  BY <1>1, <1>2
<1> QED BY <1>7, <1>8 DEF O2

(* The commands are still in place when the start of the subscribed mode is *)
(* forgotten.                                                               *)
LEMMA SentMore ==
    ASSUME NEW O, NEW F, NEW V, NEW top, NEW last, NEW b, NEW a, SentBy(O, F, V, top, last, b, a),
           NEW top2, \A i \in 1 .. Len(O) : ~IsCall(O[i]) => top2 <= a[i]
    PROVE  SentBy(O, F, V, top2, last, b, a)
BY DEF SentBy, Sends

(* The first command is sent.                                               *)
LEMMA SentTail ==
    ASSUME NEW T, NEW O \in Seq(T), O # <<>>, NEW F, NEW V, NEW top, NEW last \in Nat, NEW b, NEW a,
           SentBy(O, F, V, top, last, b, a), Len(F) \in Nat
    PROVE  \E b2, a2 : SentBy(Tail(O), F, V, top, last, b2, a2) /\ b2[0] = b[1] /\ a2[0] = a[1]
<1> DEFINE n == Len(O) - 1
           O2 == Tail(O)
           b2 == [i \in 0 .. n |-> b[i + 1]]
           a2 == [i \in 0 .. n |-> a[i + 1]]
<1>1. n \in Nat /\ Len(O) = n + 1 /\ Len(O2) = n /\ \A i \in 1 .. n : O2[i] = O[i + 1]
  OBVIOUS
<1>2. \A i \in 0 .. n : b2[i] = b[i + 1] /\ a2[i] = a[i + 1] /\ i + 1 \in 0 .. n + 1
  BY <1>1
<1>3. /\ Rising(n + 1, b, Len(F)) /\ b[n + 1] = Len(F) /\ Rising(n + 1, a, last) /\ a[n + 1] = last
      /\ \A i \in 1 .. n + 1 : Sends(O[i], F, V, top, b[i - 1], b[i], a[i - 1], a[i])
  BY <1>1 DEF SentBy
<1> HIDE DEF n, O2, b2, a2
<1>4. Rising(n, b2, Len(F)) /\ Rising(n, a2, last)
  <2>1. ASSUME NEW i \in 0 .. n PROVE b2[i] \in 0 .. Len(F) /\ a2[i] \in 0 .. last
    BY <1>2, <1>3 DEF Rising
  <2>2. ASSUME NEW i \in 0 .. n, NEW j \in 0 .. n, i <= j PROVE b2[i] <= b2[j] /\ a2[i] <= a2[j]
    <3>1. i + 1 \in 0 .. n + 1 /\ j + 1 \in 0 .. n + 1 /\ i + 1 <= j + 1
      BY <1>1, <2>2
    <3> QED BY <1>2, <1>3, <3>1 DEF Rising
  <2> QED BY <2>1, <2>2 DEF Rising
<1>5. ASSUME NEW i \in 1 .. n PROVE Sends(O2[i], F, V, top, b2[i - 1], b2[i], a2[i - 1], a2[i])
  <2>1. i + 1 \in 1 .. n + 1 /\ (i + 1) - 1 = i /\ (i - 1) + 1 = i /\ i - 1 \in 0 .. n /\ i \in 0 .. n
    BY <1>1
  <2>2. Sends(O[i + 1], F, V, top, b[(i + 1) - 1], b[i + 1], a[(i + 1) - 1], a[i + 1])
    BY <1>3, <2>1
  <2>3. b2[i - 1] = b[i] /\ a2[i - 1] = a[i] /\ b2[i] = b[i + 1] /\ a2[i] = a[i + 1] /\ O2[i] = O[i + 1]
    BY <1>1, <1>2, <2>1
  <2> QED BY <2>1, <2>2, <2>3
<1>6. b2[n] = Len(F) /\ a2[n] = last /\ b2[0] = b[1] /\ a2[0] = a[1]
  BY <1>1, <1>2, <1>3
<1>7. SentBy(O2, F, V, top, last, b2, a2)
  BY <1>1, <1>4, <1>5, <1>6 DEF SentBy
<1> QED BY <1>6, <1>7 DEF O2

(* The oldest of the ledger is gone, and was not to be sent.                *)
LEMMA SendShifts ==
    ASSUME NEW c, NEW F, NEW V, NEW top, NEW d, NEW x, NEW o2 \in Nat, NEW p2 \in Nat,
           Sends(c, F, V, top, o2 + 1, p2 + 1, d, x),
           NEW F2, NEW V2, NEW L \in Nat, o2 <= L, p2 <= L,
           \A p \in 1 .. L : F2[p] = F[p + 1], V2[o2] = V[o2 + 1]
    PROVE  Sends(c, F2, V2, top, o2, p2, d, x)
<1>1. CASE IsCall(c)
  <2>1. p2 + 1 = o2 + 1 /\ x = d + 1 /\ c.id = x
    BY <1>1 DEF Sends
  <2>2. p2 = o2
    BY <2>1
  <2> QED BY <1>1, <2>1, <2>2 DEF Sends
<1>2. CASE ~IsCall(c)
  <2> DEFINE names == AnsweredNames(c, V[o2 + 1])
             k == Len(names)
             op == IF c.op = "subscribe" THEN "subscribe" ELSE "unsubscribe"
  <2>1. /\ k \in Nat \ {0} /\ p2 + 1 = (o2 + 1) + k /\ x = d /\ top <= x
        /\ \A y \in 1 .. k : F[(o2 + 1) + y].op = op /\ F[(o2 + 1) + y].name = names[y]
    BY <1>2 DEF Sends
  <2> HIDE DEF k, names, op
  <2>2. p2 = o2 + k /\ k \in Nat
    BY <2>1
  <2>3. ASSUME NEW y \in 1 .. k PROVE F2[o2 + y].op = op /\ F2[o2 + y].name = names[y]
    <3>1. o2 + y \in 1 .. L /\ (o2 + y) + 1 = (o2 + 1) + y
      BY <2>2
    <3>2. F2[o2 + y] = F[(o2 + 1) + y]
      BY <3>1
    <3> QED BY <2>1, <3>2
  <2> QED BY <1>2, <2>1, <2>2, <2>3 DEF Sends, k, names, op
<1> QED BY <1>1, <1>2

FirstGone(F, V, F2, V2) ==
    /\ Len(F) \in Nat /\ Len(F2) \in Nat /\ Len(F2) = Len(F) - 1
    /\ \A p \in 1 .. Len(F2) : F2[p] = F[p + 1]
    /\ \A p \in 0 .. Len(F2) : V2[p] = V[p + 1]
Lowered(n, b, b2) == \A i \in 0 .. n : b2[i] = b[i] - 1

(* None of the commands that are to be sent loses its place.                *)
LEMMA SentShifts ==
    ASSUME NEW O, Len(O) \in Nat, NEW F, NEW V, NEW top, NEW last \in Nat, NEW b, NEW a,
           SentBy(O, F, V, top, last, b, a), b[0] >= 1,
           NEW F2, NEW V2, FirstGone(F, V, F2, V2), NEW b2, Lowered(Len(O), b, b2)
    PROVE  SentBy(O, F2, V2, top, last, b2, a)
<1> DEFINE n == Len(O)
           l == Len(F)
           L == Len(F2)
<1>1. n \in Nat /\ n \in 0 .. n /\ 0 \in 0 .. n /\ l \in Nat /\ L \in Nat /\ L = l - 1
  BY DEF FirstGone
<1>2. /\ Rising(n, b, l) /\ b[n] = l /\ Rising(n, a, last) /\ a[n] = last
      /\ \A i \in 1 .. n : Sends(O[i], F, V, top, b[i - 1], b[i], a[i - 1], a[i])
  BY DEF SentBy
<1>3. \A i \in 0 .. n : b2[i] = b[i] - 1
  BY DEF Lowered
<1>d. (\A p \in 1 .. L : F2[p] = F[p + 1]) /\ (\A p \in 0 .. L : V2[p] = V[p + 1])
  BY DEF FirstGone
<1> HIDE DEF n, l, L
<1>4. ASSUME NEW i \in 0 .. n PROVE b2[i] + 1 = b[i] /\ b2[i] \in Nat /\ b2[i] <= L
  <2>1. b[i] \in Nat /\ b[i] <= l /\ b[0] <= b[i]
    BY <1>1, <1>2, RisingOne
  <2>2. b[0] \in Nat
    BY <1>1, <1>2, RisingOne
  <2>3. b2[i] = b[i] - 1
    BY <1>3
  <2> QED BY <1>1, <2>1, <2>2, <2>3
<1>5. Rising(n, b2, L) /\ b2[n] = L
  <2>1. ASSUME NEW i \in 0 .. n, NEW j \in 0 .. n, i <= j PROVE b2[i] <= b2[j]
    <3>1. b[i] <= b[j]
      BY <1>2, <2>1 DEF Rising
    <3>2. b2[i] + 1 = b[i] /\ b2[i] \in Nat
      BY <1>4
    <3>3. b2[j] + 1 = b[j] /\ b2[j] \in Nat
      BY <1>4
    <3> QED BY <3>1, <3>2, <3>3
  <2>2. b2[n] = L
    BY <1>1, <1>2, <1>3
  <2>3. \A i \in 0 .. n : b2[i] \in 0 .. L
    BY <1>1, <1>4
  <2> QED BY <2>1, <2>2, <2>3 DEF Rising
<1>6. ASSUME NEW i \in 1 .. n PROVE Sends(O[i], F2, V2, top, b2[i - 1], b2[i], a[i - 1], a[i])
  <2>1. i - 1 \in 0 .. n /\ i \in 0 .. n
    BY <1>1
  <2> DEFINE o2 == b2[i - 1]
             p2 == b2[i]
  <2>2. o2 + 1 = b[i - 1] /\ o2 \in Nat /\ o2 <= L
    BY <1>4, <2>1
  <2>3. p2 + 1 = b[i] /\ p2 \in Nat /\ p2 <= L
    BY <1>4, <2>1
  <2>4. Sends(O[i], F, V, top, b[i - 1], b[i], a[i - 1], a[i])
    BY <1>2
  <2>5. Sends(O[i], F, V, top, o2 + 1, p2 + 1, a[i - 1], a[i])
    BY <2>2, <2>3, <2>4
  <2> DEFINE c == O[i]
             d == a[i - 1]
             x == a[i]
  <2>a. Sends(c, F, V, top, o2 + 1, p2 + 1, d, x)
    BY <2>5
  <2> HIDE DEF o2, p2, c, d, x
  <2>6. V2[o2] = V[o2 + 1]
    BY <1>1, <1>d, <2>2
  <2>b. \A p \in 1 .. L : F2[p] = F[p + 1]
    BY <1>d
  <2>c. L \in Nat /\ o2 \in Nat /\ p2 \in Nat /\ o2 <= L /\ p2 <= L
    BY <1>1, <2>2, <2>3
  <2>7. Sends(c, F2, V2, top, o2, p2, d, x)
    BY <2>a, <2>b, <2>c, <2>6, SendShifts
  <2> QED BY <2>7 DEF o2, p2, c, d, x
<1> QED BY <1>2, <1>5, <1>6 DEF SentBy, n, L

-----------------------------------------------------------------------------
(***************************************************************************)
(* THE ANSWERS OF THE SERVER                                               *)
(*                                                                         *)
(* Each command is answered with what the ledger foresaw when it was       *)
(* issued.                                                                 *)
(***************************************************************************)

(* A set as a list.                                                         *)
LEMMA Listed ==
    ASSUME NEW S, IsFiniteSet(S)
    PROVE  /\ SetToSeq(S) \in Seq(S) /\ Len(SetToSeq(S)) = Cardinality(S) /\ Cardinality(S) \in Nat
           /\ Distinct(SetToSeq(S)) /\ Range(SetToSeq(S)) = S
<1> DEFINE N == Cardinality(S)
           s == SetToSeq(S)
<1>1. N \in Nat /\ ExistsBijection(1 .. N, S)
  BY FS_CardinalityType
<1> HIDE DEF N
<1>2. PICK g : g \in Bijection(1 .. N, S)
  BY <1>1 DEF ExistsBijection
<1>3. g \in [1 .. N -> S] /\ IsInjective(g)
  BY <1>2 DEF Bijection, Injection
<1>4. s \in [1 .. N -> S] /\ IsInjective(s)
  BY <1>3 DEF SetToSeq, N
<1> HIDE DEF s
<1>5. s \in Seq(S) /\ Len(s) = N /\ DOMAIN s = 1 .. N
  BY <1>1, <1>4, SequenceOf
<1>6. Distinct(s)
  BY <1>4, <1>5 DEF IsInjective, Distinct
<1>7. IsFiniteSet(1 .. N) /\ Cardinality(1 .. N) = N
  BY <1>1, FS_Interval
<1>8. s \in Injection(1 .. N, S)
  BY <1>4 DEF Injection
<1>9. s \in Surjection(1 .. N, S)
  BY <1>7, <1>8, FS_Injection DEF N
<1>10. Range(s) = S
  BY <1>4, <1>5, <1>9 DEF Surjection, Range
<1> QED BY <1>1, <1>5, <1>6, <1>10 DEF N, s

(* The names that are answered for.                                         *)
LEMMA AnsweredIs ==
    ASSUME NEW c, NEW open
    PROVE  /\ c.op # "unsubscribe_all" => AnsweredNames(c, open) = c.names
           /\ c.op = "unsubscribe_all" /\ open \cap c.kind = {} => AnsweredNames(c, open) = <<NoName>>
           /\ c.op = "unsubscribe_all" /\ open \cap c.kind # {} =>
                 AnsweredNames(c, open) = SetToSeq(open \cap c.kind)
BY DEF AnsweredNames

(* What a command carries.                                                  *)
LEMMA CommandIs ==
    ASSUME NEW c \in Command
    PROVE  /\ c.op \in {"call", "monitor", "subscribe", "unsubscribe", "unsubscribe_all"}
           /\ c.op \in {"call", "monitor"} => c.id \in Ids
           /\ c.op \in {"subscribe", "unsubscribe"} => c.names \in Seq(Names)
           /\ c.op = "unsubscribe_all" => c.kind \in Kinds
BY DEF Command

(* The names that are answered for, and none, are what the ledger holds.    *)
LEMMA AnsweredTyped ==
    ASSUME NEW c \in Command, ~IsCall(c), NEW open \in SUBSET Names, IsFiniteSet(open)
    PROVE  AnsweredNames(c, open) \in Seq(AllNames)
<1>1. CASE c.op # "unsubscribe_all"
  <2>1. c.names \in Seq(Names)
    BY <1>1, CommandIs DEF IsCall
  <2>2. c.names \in Seq(AllNames)
    BY <2>1 DEF AllNames
  <2>3. AnsweredNames(c, open) = c.names
    BY <1>1, AnsweredIs
  <2> QED BY <2>2, <2>3
<1>2. CASE c.op = "unsubscribe_all" /\ open \cap c.kind = {}
  <2>1. AnsweredNames(c, open) = <<NoName>>
    BY <1>2, AnsweredIs
  <2> QED BY <2>1 DEF AllNames
<1>3. CASE c.op = "unsubscribe_all" /\ open \cap c.kind # {}
  <2> DEFINE K == open \cap c.kind
  <2>1. IsFiniteSet(K) /\ K \subseteq AllNames
    BY FS_Subset DEF AllNames
  <2>2. SetToSeq(K) \in Seq(K)
    BY <2>1, Listed
  <2>3. AnsweredNames(c, open) = SetToSeq(K)
    BY <1>3, AnsweredIs
  <2> QED BY <2>1, <2>2, <2>3
<1> QED BY <1>1, <1>2, <1>3

(* What the server has open while it answers.                               *)
AnswersFor(F, o, k, op, names) ==
    \A y \in 1 .. k : F[o + y].op = op /\ F[o + y].name = names[y]
OpenAfter(open, op, some) == IF op = "subscribe" THEN open \cup some ELSE open \ some
OpenDuring(V, o, k, op, names) == \A x \in 0 .. k : V[o + x] = OpenAfter(V[o], op, First(names, x))
Within(o, k, n) == o \in Nat /\ k \in Nat /\ n \in Nat /\ o + k <= n

(* While a command is answered the server opens, or closes, its names one   *)
(* by one.                                                                  *)
LEMMA AnswersOpen ==
    ASSUME NEW F, NEW V, NEW W, NEW G, LedgerSteps(F, V, W, G),
           NEW names, NEW k, NEW o, NEW n, n = Len(F), Within(o, k, n),
           NEW op \in {"subscribe", "unsubscribe"}, AnswersFor(F, o, k, op, names)
    PROVE  OpenDuring(V, o, k, op, names)
<1> USE DEF OpenAfter, AnswersFor, Within
<1>0. o \in Nat /\ k \in Nat /\ Len(F) \in Nat /\ o + k <= Len(F)
  OBVIOUS
<1> DEFINE Good(x) == V[o + x] = IF op = "subscribe" THEN V[o] \cup First(names, x)
                                 ELSE V[o] \ First(names, x)
           T == {x \in Nat : x <= k => Good(x)}
<1>1. 0 \in T
  <2>1. o + 0 = o /\ First(names, 0) = {}
    BY FirstNames
  <2> QED BY <2>1
<1>2. ASSUME NEW x \in Nat, x >= 0 /\ x \in T PROVE x + 1 \in T
  <2> SUFFICES ASSUME x + 1 <= k PROVE Good(x + 1)
    BY <1>2
  <2>1. Good(x) /\ x + 1 \in 1 .. k
    BY <1>2
  <2> DEFINE q == o + x
  <2>2. q \in 0 .. Len(F) /\ q + 1 <= Len(F) /\ q + 1 = o + (x + 1)
    OBVIOUS
  <2> HIDE DEF q
  <2>3. LedgerStep(F, V, W, G, q, q + 1)
    BY <2>2, LedgerNext
  <2>4. F[q + 1].op = op /\ F[q + 1].name = names[x + 1]
    BY <2>1, <2>2
  <2>5. V[q + 1] = IF op = "subscribe" THEN V[q] \cup {names[x + 1]} ELSE V[q] \ {names[x + 1]}
    BY <2>3, <2>4 DEF LedgerStep
  <2>6. First(names, x + 1) = First(names, x) \cup {names[x + 1]}
    <3>1. x + 1 \in Nat /\ x + 1 > 0 /\ (x + 1) - 1 = x
      OBVIOUS
    <3> QED BY <3>1, FirstNames
  <2>7. V[q] = IF op = "subscribe" THEN V[o] \cup First(names, x) ELSE V[o] \ First(names, x)
    BY <2>1 DEF q
  <2>8. V[q + 1] = IF op = "subscribe" THEN V[o] \cup First(names, x + 1) ELSE V[o] \ First(names, x + 1)
    BY <2>5, <2>6, <2>7
  <2> QED BY <2>2, <2>8
<1> HIDE DEF T
<1>3. \A x \in Nat : x >= 0 => x \in T
  BY <1>1, <1>2, UpTo
<1> SUFFICES ASSUME NEW x \in 0 .. k PROVE Good(x)
  BY DEF OpenDuring
<1>4. x \in T /\ x <= k
  BY <1>3
<1> HIDE DEF Good
<1> QED BY <1>4 DEF T

(* Two ways to take the first names.                                        *)
LEMMA PrefixNames ==
    ASSUME NEW T, NEW names \in Seq(T), NEW i \in 0 .. Len(names)
    PROVE  Range(SubSeq(names, 1, i)) = First(names, i)
<1> DEFINE s == SubSeq(names, 1, i)
<1>1. s \in Seq(T) /\ Len(s) = i /\ i \in Nat /\ \A j \in 1 .. i : s[j] = names[j]
  OBVIOUS
<1>2. DOMAIN s = 1 .. i
  BY <1>1
<1> HIDE DEF s
<1>3. Range(s) = First(names, i)
  BY <1>1, <1>2 DEF Range, First
<1> QED BY <1>3 DEF s

(* What the server may answer.                                              *)
Confirms(answer, c) ==
    LET names == AnsweredNames(c, served)
        op == IF c.op = "subscribe" THEN "subscribe" ELSE "unsubscribe"
    IN answer = [i \in 1 .. Len(names) |->
                    [kind |-> op, name |-> names[i],
                     count |-> Cardinality(IF op = "subscribe" THEN served \cup Range(SubSeq(names, 1, i))
                                           ELSE served \ Range(SubSeq(names, 1, i)))]]

(* A call is answered with its reply or its error; a subscription may be    *)
(* denied; everything else is confirmed name by name.                       *)
LEMMA AnswerIs ==
    ASSUME NEW c \in Command, NEW answer \in Answers(c), "arrays" \notin Habits
    PROVE  /\ IsCall(c) => \E kind \in {"reply", "error"} : answer = <<[kind |-> kind, id |-> c.id]>>
           /\ ~IsCall(c) => \/ c.op = "subscribe" /\ answer = <<[kind |-> "error", id |-> 0]>>
                            \/ Confirms(answer, c)
<1> DEFINE names == AnsweredNames(c, served)
<1>1. CASE IsCall(c)
  <2>1. Answers(c) = {<<[kind |-> k, id |-> c.id]>> :
                        k \in {"reply"} \cup (IF "deny" \in Faults THEN {"error"} ELSE {})
                             \cup (IF "arrays" \in Habits /\ (Resp3 \/ served = {}) THEN {"array"} ELSE {})}
    BY <1>1 DEF Answers, IsCall
  <2> QED BY <1>1, <2>1
<1>2. CASE c.op = "subscribe"
  <2>1. Answers(c) = {[i \in 1 .. Len(names) |->
                          [kind |-> "subscribe", name |-> names[i],
                           count |-> Cardinality(served \cup Range(SubSeq(names, 1, i)))]]}
                     \cup (IF "deny" \in Faults THEN {<<[kind |-> "error", id |-> 0]>>} ELSE {})
    BY <1>2 DEF Answers
  <2>2. \/ answer = <<[kind |-> "error", id |-> 0]>>
        \/ answer = [i \in 1 .. Len(names) |->
                          [kind |-> "subscribe", name |-> names[i],
                           count |-> Cardinality(served \cup Range(SubSeq(names, 1, i)))]]
    BY <2>1
  <2> HIDE DEF names
  <2>3. CASE answer = [i \in 1 .. Len(names) |->
                          [kind |-> "subscribe", name |-> names[i],
                           count |-> Cardinality(served \cup Range(SubSeq(names, 1, i)))]]
    BY <1>2, <2>3 DEF Confirms, names, IsCall
  <2> QED BY <1>2, <2>2, <2>3 DEF IsCall
<1>3. CASE c.op \in {"unsubscribe", "unsubscribe_all"}
  <2>1. Answers(c) = {[i \in 1 .. Len(names) |->
                          [kind |-> "unsubscribe", name |-> names[i],
                           count |-> Cardinality(served \ Range(SubSeq(names, 1, i)))]]}
    BY <1>3 DEF Answers
  <2>2. answer = [i \in 1 .. Len(names) |->
                          [kind |-> "unsubscribe", name |-> names[i],
                           count |-> Cardinality(served \ Range(SubSeq(names, 1, i)))]]
    BY <2>1
  <2> HIDE DEF names
  <2> QED BY <1>3, <2>2 DEF Confirms, names, IsCall
<1> QED BY <1>1, <1>2, <1>3, CommandIs DEF IsCall

(* What the server answers fits the ledger.                                 *)
Answered(A, F, V, top, last, o, p, d, x, mm, ee) ==
    /\ Len(A) \in Nat /\ DOMAIN A = 1 .. Len(A)
    /\ mm[0] = o /\ ee[0] = d /\ Rising(Len(A), mm, Len(F)) /\ Rising(Len(A), ee, last)
    /\ \A i \in 1 .. Len(A) : Clean(A, i - 1) => Hears(A[i], F, V, top, mm[i - 1], mm[i], ee[i - 1], ee[i])
    /\ Clean(A, Len(A)) => mm[Len(A)] = p /\ ee[Len(A)] = x /\ NamesServed(A) = V[p]

(* The answer to a call fits.                                               *)
LEMMA CallAnswered ==
    ASSUME NEW F, Len(F) \in Nat, NEW V, NEW top, NEW last \in Nat,
           NEW o \in 0 .. Len(F), NEW p, NEW d \in 0 .. last, NEW x \in 0 .. last,
           NEW c, Sends(c, F, V, top, o, p, d, x), IsCall(c), served = V[o],
           NEW kind \in {"reply", "error"}, NEW A, A = <<[kind |-> kind, id |-> c.id]>>
    PROVE  \E mm, ee : Answered(A, F, V, top, last, o, p, d, x, mm, ee)
<1> DEFINE mm == [i \in 0 .. 1 |-> o]
           ee == [i \in 0 .. 1 |-> IF i = 0 THEN d ELSE x]
<1>1. /\ Len(A) = 1 /\ DOMAIN A = 1 .. 1 /\ A[1] = [kind |-> kind, id |-> c.id]
      /\ mm[0] = o /\ mm[1] = o /\ ee[0] = d /\ ee[1] = x
  OBVIOUS
<1>2. p = o /\ x = d + 1 /\ c.id = x
  BY DEF Sends
<1> HIDE DEF mm, ee
<1>3. \A i \in 0 .. 1 : i = 0 \/ i = 1
  OBVIOUS
<1>4. Rising(1, mm, Len(F)) /\ Rising(1, ee, last)
  BY <1>1, <1>2, <1>3 DEF Rising
<1>5. A[1].kind = kind /\ A[1].id = x /\ x # 0
  BY <1>1, <1>2
<1>6. Hears(A[1], F, V, top, o, o, d, x)
  BY <1>2, <1>5 DEF Hears, IsNote, IsAnswer, Denial, Aside
<1>7. \A i \in 1 .. 1 : Hears(A[i], F, V, top, mm[i - 1], mm[i], ee[i - 1], ee[i])
  <2>1. \A i \in 1 .. 1 : i = 1 /\ i - 1 = 0
    OBVIOUS
  <2> QED BY <1>1, <1>6, <2>1
<1>8. NamesServed(A) = V[p]
  <2>1. \A j \in DOMAIN A : A[j].kind = kind
    BY <1>1, <1>5
  <2> QED BY <1>2, <2>1 DEF NamesServed
<1> QED BY <1>1, <1>2, <1>4, <1>7, <1>8 DEF Answered

(* So does an error for a SUBSCRIBE, after which nothing is known.          *)
LEMMA DenialAnswered ==
    ASSUME NEW F, Len(F) \in Nat, NEW V, NEW top, NEW last \in Nat,
           NEW o \in 0 .. Len(F), NEW p \in 0 .. Len(F), NEW d \in 0 .. last, NEW x \in 0 .. last,
           NEW c, Sends(c, F, V, top, o, p, d, x), ~IsCall(c),
           NEW A, A = <<[kind |-> "error", id |-> 0]>>
    PROVE  \E mm, ee : Answered(A, F, V, top, last, o, p, d, x, mm, ee)
<1> DEFINE mm == [i \in 0 .. 1 |-> o]
           ee == [i \in 0 .. 1 |-> d]
<1>1. /\ Len(A) = 1 /\ DOMAIN A = 1 .. 1 /\ A[1] = [kind |-> "error", id |-> 0]
      /\ mm[0] = o /\ mm[1] = o /\ ee[0] = d /\ ee[1] = d
  OBVIOUS
<1>2. x = d /\ top <= x /\ o < Len(F)
  <2> DEFINE k == Len(AnsweredNames(c, V[o]))
  <2>1. x = d /\ top <= x /\ k \in Nat \ {0} /\ p = o + k
    BY DEF Sends
  <2> HIDE DEF k
  <2> QED BY <2>1
<1> HIDE DEF mm, ee
<1>3. \A i \in 0 .. 1 : i = 0 \/ i = 1
  OBVIOUS
<1>4. Rising(1, mm, Len(F)) /\ Rising(1, ee, last)
  BY <1>1, <1>3 DEF Rising
<1>5. A[1].kind = "error" /\ A[1].id = 0
  BY <1>1
<1>6. Hears(A[1], F, V, top, o, o, d, d)
  BY <1>2, <1>5 DEF Hears, IsNote, IsAnswer, Denial, Aside
<1>7. \A i \in 1 .. 1 : Hears(A[i], F, V, top, mm[i - 1], mm[i], ee[i - 1], ee[i])
  <2>1. \A i \in 1 .. 1 : i = 1 /\ i - 1 = 0
    OBVIOUS
  <2> QED BY <1>1, <1>6, <2>1
<1>8. ~Clean(A, Len(A))
  BY <1>1, <1>5 DEF Clean, Denial
<1> QED BY <1>1, <1>4, <1>7, <1>8 DEF Answered

(* So do the confirmations, one entry of the ledger each.                   *)
LEMMA NotesAnswered ==
    ASSUME NEW F, Len(F) \in Nat, NEW V, NEW W, NEW G, LedgerSteps(F, V, W, G),
           NEW top, NEW last \in Nat,
           NEW o \in 0 .. Len(F), NEW p \in 0 .. Len(F), NEW d \in 0 .. last, NEW x \in 0 .. last,
           NEW c, Sends(c, F, V, top, o, p, d, x), ~IsCall(c),
           served = V[o], NEW T, AnsweredNames(c, served) \in Seq(T),
           NEW A, Confirms(A, c)
    PROVE  \E mm, ee : Answered(A, F, V, top, last, o, p, d, x, mm, ee)
<1> DEFINE names == AnsweredNames(c, served)
           k == Len(names)
           op == IF c.op = "subscribe" THEN "subscribe" ELSE "unsubscribe"
           Sum(i) == IF op = "subscribe" THEN served \cup Range(SubSeq(names, 1, i))
                     ELSE served \ Range(SubSeq(names, 1, i))
           mm == [i \in 0 .. k |-> o + i]
           ee == [i \in 0 .. k |-> d]
<1>1. /\ k \in Nat \ {0} /\ p = o + k /\ x = d /\ top <= x
      /\ \A y \in 1 .. k : F[o + y].op = op /\ F[o + y].name = names[y]
  BY DEF Sends
<1>2. /\ A = [i \in 1 .. k |-> A[i]] /\ DOMAIN A = 1 .. k
      /\ \A i \in 1 .. k : A[i] = [kind |-> op, name |-> names[i], count |-> Cardinality(Sum(i))]
  BY DEF Confirms
<1>a. names \in Seq(T) /\ k = Len(names) /\ op \in {"subscribe", "unsubscribe"}
  OBVIOUS
<1>b. o \in Nat /\ p \in Nat /\ p <= Len(F)
  OBVIOUS
<1>3. /\ \A i \in 0 .. k : mm[i] = o + i /\ ee[i] = d
      /\ \A i, j \in 0 .. k : o + i <= o + j <=> i <= j
  BY <1>1
<1> HIDE DEF names, k, op, mm, ee
<1>4. Len(A) = k /\ k \in Nat
  <2>1. A \in [1 .. k -> {A[i] : i \in 1 .. k}]
    BY <1>2
  <2> QED BY <1>1, <2>1, SequenceOf
<1>5. \A i \in 0 .. k : V[o + i] = OpenAfter(served, op, First(names, i))
  <2>1. \A i \in 0 .. k : V[o + i] = OpenAfter(V[o], op, First(names, i))
    <3> DEFINE n == Len(F)
    <3>1. Within(o, k, n)
      BY <1>1, <1>b DEF Within
    <3>a. n = Len(F)
      OBVIOUS
    <3> HIDE DEF n
    <3>2. AnswersFor(F, o, k, op, names)
      BY <1>1 DEF AnswersFor
    <3>3. op \in {"subscribe", "unsubscribe"} /\ LedgerSteps(F, V, W, G)
      BY <1>a
    <3>4. OpenDuring(V, o, k, op, names)
      BY <3>1, <3>a, <3>2, <3>3, AnswersOpen
    <3> QED BY <3>4 DEF OpenDuring
  <2> QED BY <2>1
<1>6. \A i \in 0 .. k : Sum(i) = V[o + i]
  <2> SUFFICES ASSUME NEW i \in 0 .. k PROVE Sum(i) = V[o + i]
    OBVIOUS
  <2>1. Range(SubSeq(names, 1, i)) = First(names, i)
    BY <1>a, PrefixNames
  <2> QED BY <1>5, <2>1 DEF OpenAfter
<1> HIDE DEF Sum
<1>7. Rising(k, mm, Len(F)) /\ Rising(k, ee, last)
  <2>1. ASSUME NEW i \in 0 .. k PROVE mm[i] \in 0 .. Len(F) /\ ee[i] \in 0 .. last
    <3>1. o + i \in 0 .. Len(F)
      BY <1>1, <1>b
    <3> QED BY <1>3, <3>1
  <2>2. ASSUME NEW i \in 0 .. k, NEW j \in 0 .. k, i <= j PROVE mm[i] <= mm[j] /\ ee[i] <= ee[j]
    BY <1>3, <2>2
  <2> QED BY <2>1, <2>2 DEF Rising
<1>8. ASSUME NEW i \in 1 .. k PROVE Hears(A[i], F, V, top, mm[i - 1], mm[i], ee[i - 1], ee[i])
  <2>1. /\ i \in 0 .. k /\ i - 1 \in 0 .. k /\ o + i = (o + (i - 1)) + 1
    BY <1>4, <1>b
  <2>2. A[i].kind = op /\ A[i].name = names[i] /\ A[i].count = Cardinality(V[o + i])
    BY <1>2, <1>6, <2>1
  <2>3. V[o + i] = {} => A[i].count = 0
    BY <2>2, FS_EmptySet
  <2> DEFINE q == o + (i - 1)
  <2>4. mm[i - 1] = q /\ mm[i] = q + 1 /\ ee[i - 1] = d /\ ee[i] = d /\ q + 1 = o + i
    BY <1>3, <2>1
  <2> HIDE DEF q
  <2>5. F[q + 1].op = op /\ F[q + 1].name = names[i]
    BY <1>1, <2>4
  <2>6. Hears(A[i], F, V, top, q, q + 1, d, d)
    <3>1. IsNote(A[i]) /\ ~Denial(A[i]) /\ ~IsAnswer(A[i]) /\ A[i].kind # "message"
      BY <1>a, <2>2 DEF IsNote, Denial, IsAnswer
    <3>2. V[q + 1] = {} => A[i].count = 0
      BY <2>3, <2>4
    <3> QED BY <1>1, <2>2, <2>5, <3>1, <3>2 DEF Hears
  <2> QED BY <2>4, <2>6
<1>9. mm[0] = o /\ ee[0] = d /\ mm[k] = p /\ ee[k] = x
  <2>1. 0 \in 0 .. k /\ k \in 0 .. k /\ o + 0 = o
    BY <1>4, <1>b
  <2> QED BY <1>1, <1>3, <2>1
<1>10. NamesServed(A) = V[p]
  <2> DEFINE Named(kind) == {A[i].name : i \in {j \in DOMAIN A : A[j].kind = kind}}
  <2>1. NamesServed(A) = (served \cup Named("subscribe")) \ Named("unsubscribe")
    BY DEF NamesServed
  <2>2. \A i \in 1 .. k : A[i].kind = op /\ A[i].name = names[i]
    BY <1>2
  <2>3. Named(op) = First(names, k)
    BY <1>2, <2>2 DEF First
  <2>4. \A kind : kind # op => Named(kind) = {}
    BY <1>2, <2>2
  <2> HIDE DEF Named
  <2>5. k \in 0 .. k /\ o + k = p
    BY <1>1
  <2>6. V[p] = IF op = "subscribe" THEN served \cup First(names, k) ELSE served \ First(names, k)
    BY <1>5, <2>5 DEF OpenAfter
  <2>7. CASE op = "subscribe"
    BY <2>1, <2>3, <2>4, <2>6, <2>7
  <2>8. CASE op = "unsubscribe"
    BY <2>1, <2>3, <2>4, <2>6, <2>8
  <2> QED BY <1>a, <2>7, <2>8
<1> QED BY <1>2, <1>4, <1>7, <1>8, <1>9, <1>10 DEF Answered

-----------------------------------------------------------------------------
(***************************************************************************)
(* THE CONVERSATION                                                        *)
(*                                                                         *)
(* The ledger, what is heard and what is to be sent, together; and that    *)
(* all answers of the server fit.                                          *)
(***************************************************************************)

(* Whatever the server answers fits the ledger.                             *)
LEMMA AnswerFits ==
    ASSUME NEW F, Len(F) \in Nat, NEW V, NEW W, NEW G, LedgerSteps(F, V, W, G),
           NEW top, NEW last \in Nat,
           NEW o \in 0 .. Len(F), NEW p \in 0 .. Len(F), NEW d \in 0 .. last, NEW x \in 0 .. last,
           NEW c \in Command, Sends(c, F, V, top, o, p, d, x),
           served = V[o], served \in SUBSET Names, IsFiniteSet(served),
           NEW A \in Answers(c), "arrays" \notin Habits
    PROVE  \E mm, ee : Answered(A, F, V, top, last, o, p, d, x, mm, ee)
<1>1. CASE IsCall(c)
  <2>1. PICK kind \in {"reply", "error"} : A = <<[kind |-> kind, id |-> c.id]>>
    BY <1>1, AnswerIs
  <2> QED BY <1>1, <2>1, CallAnswered
<1>2. CASE ~IsCall(c) /\ A = <<[kind |-> "error", id |-> 0]>>
  BY <1>2, DenialAnswered
<1>3. CASE ~IsCall(c) /\ Confirms(A, c)
  <2>1. AnsweredNames(c, served) \in Seq(AllNames)
    BY <1>3, AnsweredTyped
  <2> QED BY <1>3, <2>1, NotesAnswered
<1> QED BY <1>1, <1>2, <1>3, AnswerIs

(* The replies have their types, and the server knows names only.           *)
PlainReply == {r \in Reply : r.kind # "array"}

(* Its replies have their type, and the names it has open are names.        *)
LEMMA AnswerTyped ==
    ASSUME NEW c \in Command, served \in SUBSET Names, IsFiniteSet(served),
           NEW A \in Answers(c), "arrays" \notin Habits
    PROVE  A \in Seq(PlainReply) /\ NamesServed(A) \in SUBSET Names /\ IsFiniteSet(NamesServed(A))
<1> DEFINE Named(kind) == {A[i].name : i \in {j \in DOMAIN A : A[j].kind = kind}}
<1>0. NamesServed(A) = (served \cup Named("subscribe")) \ Named("unsubscribe")
  BY DEF NamesServed
<1> HIDE DEF Named
<1>1. ASSUME NEW id \in 0 .. MaxReplied, NEW kind \in {"reply", "error"}, A = <<[kind |-> kind, id |-> id]>>
      PROVE  A \in Seq(PlainReply) /\ Named("subscribe") = {}
  <2> DEFINE r == [kind |-> kind, id |-> id]
  <2>0. r \in PlainReply
    BY DEF Reply, PlainReply
  <2>a. A = <<r>>
    BY <1>1
  <2>1. A \in Seq(PlainReply)
    <3> HIDE DEF r
    <3> QED BY <2>0, <2>a
  <2>2. DOMAIN A = 1 .. 1 /\ A[1].kind = kind
    BY <1>1
  <2>3. \A j \in DOMAIN A : A[j].kind # "subscribe"
    BY <2>2
  <2> QED BY <2>1, <2>3 DEF Named
<1>2. CASE IsCall(c)
  <2>1. PICK kind \in {"reply", "error"} : A = <<[kind |-> kind, id |-> c.id]>>
    BY <1>2, AnswerIs
  <2>2. c.id \in 0 .. MaxReplied
    <3>1. c.id \in Ids
      BY <1>2, CommandIs DEF IsCall
    <3> QED BY <3>1 DEF Ids
  <2>3. A \in Seq(PlainReply) /\ Named("subscribe") = {}
    BY <1>1, <2>1, <2>2
  <2>4. NamesServed(A) \subseteq served
    BY <1>0, <2>3
  <2> QED BY <2>3, <2>4, FS_Subset
<1>3. CASE A = <<[kind |-> "error", id |-> 0]>>
  <2>1. 0 \in 0 .. MaxReplied
    BY AsyncAssumption
  <2>2. A \in Seq(PlainReply) /\ Named("subscribe") = {}
    BY <1>1, <1>3, <2>1
  <2>4. NamesServed(A) \subseteq served
    BY <1>0, <2>2
  <2> QED BY <2>2, <2>4, FS_Subset
<1>4. CASE ~IsCall(c) /\ Confirms(A, c)
  <2> DEFINE names == AnsweredNames(c, served)
             k == Len(names)
             op == IF c.op = "subscribe" THEN "subscribe" ELSE "unsubscribe"
             Sum(i) == IF op = "subscribe" THEN served \cup Range(SubSeq(names, 1, i))
                       ELSE served \ Range(SubSeq(names, 1, i))
  <2>1. names \in Seq(AllNames) /\ k \in Nat /\ op \in {"subscribe", "unsubscribe"} /\ k = Len(names)
    BY <1>4, AnsweredTyped
  <2>2. /\ DOMAIN A = 1 .. k /\ A = [i \in 1 .. k |-> A[i]]
        /\ \A i \in 1 .. k : A[i] = [kind |-> op, name |-> names[i], count |-> Cardinality(Sum(i))]
    BY <1>4 DEF Confirms
  <2>3. op = "subscribe" => names \in Seq(Names)
    BY CommandIs, AnsweredIs
  <2> HIDE DEF names, k, op
  <2>4. ASSUME NEW i \in 1 .. k PROVE Cardinality(Sum(i)) \in Nat
    <3> DEFINE s == SubSeq(names, 1, i)
    <3>1. s \in Seq(AllNames)
      BY <2>1
    <3> HIDE DEF s
    <3>2. IsFiniteSet(Range(s))
      BY <3>1, RangeFinite
    <3>3. IsFiniteSet(served \cup Range(s)) /\ IsFiniteSet(served \ Range(s))
      BY <3>2, FS_Union, FS_Difference
    <3>4. Cardinality(served \cup Range(s)) \in Nat /\ Cardinality(served \ Range(s)) \in Nat
      BY <3>3, FS_CardinalityType
    <3> QED BY <3>4 DEF s
  <2> HIDE DEF Sum
  <2>5. \A i \in 1 .. k : A[i] \in PlainReply
    <3> SUFFICES ASSUME NEW i \in 1 .. k PROVE A[i] \in PlainReply
      OBVIOUS
    <3>1. names[i] \in Names \cup {NoName}
      BY <2>1 DEF AllNames
    <3>2. [kind |-> op, name |-> names[i], count |-> Cardinality(Sum(i))]
             \in [kind : {"subscribe", "unsubscribe"}, name : Names \cup {NoName}, count : Nat]
      BY <2>1, <2>4, <3>1
    <3> QED BY <2>1, <2>2, <3>2 DEF Reply, PlainReply
  <2>6. A \in Seq(PlainReply)
    <3>1. A \in [1 .. k -> PlainReply]
      BY <2>2, <2>5
    <3> QED BY <2>1, <3>1, SequenceOf
  <2>7. \A i \in 1 .. k : A[i].kind = op /\ A[i].name = names[i]
    BY <2>2
  <2>8. Named("subscribe") = IF op = "subscribe" THEN Range(names) ELSE {}
    <3>1. DOMAIN names = 1 .. k
      BY <2>1
    <3>2. CASE op = "subscribe"
      BY <2>2, <2>7, <3>1, <3>2 DEF Named, Range
    <3>3. CASE op # "subscribe"
      BY <2>2, <2>7, <3>3 DEF Named
    <3> QED BY <3>2, <3>3
  <2>9. IsFiniteSet(Named("subscribe")) /\ Named("subscribe") \subseteq Names
    <3>1. CASE op = "subscribe"
      <4>1. IsFiniteSet(Range(names))
        BY <2>1, RangeFinite
      <4>2. Range(names) \subseteq Names
        BY <2>3, <3>1 DEF Range
      <4> QED BY <2>8, <3>1, <4>1, <4>2
    <3>2. CASE op # "subscribe"
      BY <2>8, <3>2, FS_EmptySet
    <3> QED BY <3>1, <3>2
  <2>10. IsFiniteSet(served \cup Named("subscribe"))
    BY <2>9, FS_Union
  <2>11. IsFiniteSet(NamesServed(A))
    BY <1>0, <2>10, FS_Difference
  <2> QED BY <1>0, <2>6, <2>9, <2>11
<1> QED BY <1>2, <1>3, <1>4, AnswerIs

-----------------------------------------------------------------------------
(* The conversation: what the client knows (S, pend and its mode), what it  *)
(* has not processed (Q), the commands that are settled (done), were issued *)
(* before it subscribed (top) or at all (last), what it has not written     *)
(* (O), and, while nothing got lost (up), what the server has open.         *)
Asks(O, F, V, top, last, o, d, open) ==
    \E b, a : /\ SentBy(O, F, V, top, last, b, a)
              /\ b[0] = o /\ a[0] = d /\ open = V[o] /\ (open # {} => top <= d)

Thread(S, pend, mode, Q, done, top, last, O, up, open, F, V, W, G, m, e) ==
    /\ Ledger(S, pend, F, V, W, G)
    /\ mode <=> F # <<>> \/ DOMAIN S # {}
    /\ HeardBy(Q, F, V, top, last, m, e) /\ m[0] = 0 /\ e[0] = done
    /\ up /\ Clean(Q, Len(Q)) => Asks(O, F, V, top, last, m[Len(Q)], e[Len(Q)], open)

Talk(S, pend, mode, Q, done, top, last, O, up, open) ==
    \E F, V, W, G, m, e : Thread(S, pend, mode, Q, done, top, last, O, up, open, F, V, W, G, m, e)

(* What the ledger says of the names that are open at each moment.          *)
LEMMA LedgerIs ==
    ASSUME NEW S, NEW pend, NEW F, NEW V, NEW W, NEW G, Ledger(S, pend, F, V, W, G)
    PROVE  /\ F \in Seq(Note) /\ Len(F) \in Nat /\ LedgerSteps(F, V, W, G)
           /\ \A p \in 0 .. Len(F) : V[p] \subseteq DOMAIN S /\ V[p] \subseteq Names /\ IsFiniteSet(V[p])
           /\ pend \in Nat /\ IsFiniteSet(DOMAIN S) /\ DOMAIN S \subseteq Names
           /\ V[Len(F)] = {n \in DOMAIN S : ~S[n].sent}
<1>1. LedgerType(F, V, W, G) /\ LedgerSteps(F, V, W, G) /\ LedgerClosed(S, pend, F, V, W, G)
  BY DEF Ledger
<1>2. F \in Seq(Note) /\ Len(F) \in Nat /\ 0 \in 0 .. Len(F) /\ Len(F) \in 0 .. Len(F)
  BY <1>1 DEF LedgerType
<1>3. IsFiniteSet(DOMAIN S) /\ DOMAIN S \subseteq Names /\ G[0] = pend
  BY <1>1 DEF LedgerClosed
<1>4. \A p \in 0 .. Len(F) : V[p] \subseteq DOMAIN S
  BY <1>1 DEF LedgerClosed
<1>5. pend \in Nat
  BY <1>1, <1>2, <1>3 DEF LedgerType
<1>6. \A p \in 0 .. Len(F) : IsFiniteSet(V[p])
  BY <1>3, <1>4, FS_Subset
<1>7. V[Len(F)] = {n \in DOMAIN S : ~S[n].sent}
  <2>1. \A n \in DOMAIN S : n \in V[Len(F)] <=> ~S[n].sent
    BY <1>1 DEF LedgerClosed
  <2> QED BY <1>2, <1>4, <2>1
<1> QED BY <1>1, <1>2, <1>3, <1>4, <1>5, <1>6, <1>7

(* While the client is not subscribed there is nothing beside commands with *)
(* a reply.                                                                 *)
LEMMA NothingAside ==
    ASSUME NEW S, DOMAIN S = {}, NEW pend, NEW F, NEW V, NEW W, NEW G, Ledger(S, pend, F, V, W, G), F = <<>>,
           NEW Q, Len(Q) \in Nat, NEW top, NEW last, NEW m, NEW e, HeardBy(Q, F, V, top, last, m, e),
           NEW i \in 1 .. Len(Q), Clean(Q, i - 1)
    PROVE  ~Aside(Q[i])
<1>1. Hears(Q[i], F, V, top, m[i - 1], m[i], e[i - 1], e[i])
  BY DEF HeardBy
<1>2. Len(F) = 0 /\ i \in 0 .. Len(Q) /\ i - 1 \in 0 .. Len(Q)
  OBVIOUS
<1>3. m[i] \in 0 .. 0 /\ m[i - 1] \in 0 .. 0
  BY <1>2 DEF HeardBy, Rising
<1>4. m[i] = 0 /\ m[i - 1] = 0
  BY <1>3
<1>5. V[0] = {}
  BY <1>2, LedgerIs
<1> HIDE DEF Ledger
<1> QED BY <1>1, <1>2, <1>4, <1>5 DEF Hears, Aside

(* ... and every command that is to be sent is one.                         *)
LEMMA CallsOnly ==
    ASSUME NEW F, Len(F) = 0, NEW O, Len(O) \in Nat, NEW V, NEW top, NEW last \in Nat, NEW b, NEW a,
           SentBy(O, F, V, top, last, b, a), NEW i \in 1 .. Len(O)
    PROVE  IsCall(O[i])
<1>1. Sends(O[i], F, V, top, b[i - 1], b[i], a[i - 1], a[i])
  BY DEF SentBy
<1>2. i \in 0 .. Len(O) /\ i - 1 \in 0 .. Len(O)
  OBVIOUS
<1>3. b[i] \in 0 .. 0 /\ b[i - 1] \in 0 .. 0
  BY <1>2 DEF SentBy, Rising
<1>4. b[i] = 0 /\ b[i - 1] = 0
  BY <1>3
<1>5. SUFFICES ASSUME ~IsCall(O[i]) PROVE FALSE
  OBVIOUS
<1>6. Len(AnsweredNames(O[i], V[0])) \in Nat \ {0} /\ 0 = 0 + Len(AnsweredNames(O[i], V[0]))
  BY <1>1, <1>4, <1>5 DEF Sends
<1> QED BY <1>6

-----------------------------------------------------------------------------
(***************************************************************************)
(* THE CONVERSATION STARTS, AND COMMANDS JOIN IT                           *)
(*                                                                         *)
(* A command only appends: to what is to be sent, and to the ledger or to  *)
(* the commands with a reply.                                              *)
(***************************************************************************)

(* Before anything was said.                                                *)
LEMMA TalkStarts == \A open : open = {} => Talk(<<>>, 0, FALSE, <<>>, 0, 0, 0, <<>>, TRUE, open)
<1> SUFFICES ASSUME NEW open, open = {} PROVE Talk(<<>>, 0, FALSE, <<>>, 0, 0, 0, <<>>, TRUE, open)
  OBVIOUS
<1> DEFINE F == <<>>
           V == [p \in 0 .. 0 |-> {}]
           W == [p \in 0 .. 0 |-> [n \in AllNames |-> 0]]
           G == [p \in 0 .. 0 |-> 0]
<1>1. F \in Seq(Note) /\ Len(F) = 0 /\ F = <<>>
  OBVIOUS
<1>2. DOMAIN <<>> = {} /\ IsFiniteSet({})
  BY FS_EmptySet
<1> DEFINE S == <<>>
<1>3. DOMAIN S = {}
  OBVIOUS
<1> HIDE DEF S
<1>4. \A p \in 0 .. 0 : p = 0 /\ V[p] = {} /\ G[p] = 0 /\ W[p] \in [AllNames -> Nat] /\ \A n \in AllNames : W[p][n] = 0
  OBVIOUS
<1>5. LedgerType(F, V, W, G)
  <2>1. V \in [0 .. 0 -> SUBSET Names] /\ W \in [0 .. 0 -> [AllNames -> Nat]] /\ G \in [0 .. 0 -> Nat]
    OBVIOUS
  <2> HIDE DEF F, V, W, G
  <2> QED BY <1>1, <2>1 DEF LedgerType
<1> HIDE DEF F, V, W, G
<1>6. LedgerSteps(F, V, W, G)
  BY <1>1 DEF LedgerSteps
<1>7. LedgerClosed(S, 0, F, V, W, G)
  <2>1. 0 \in 0 .. 0
    OBVIOUS
  <2> QED BY <1>1, <1>2, <1>3, <1>4, <2>1 DEF LedgerClosed
<1>8. LedgerMarks(S, F, W)
  BY <1>1, <1>3 DEF LedgerMarks
<1>9. Ledger(S, 0, F, V, W, G)
  BY <1>5, <1>6, <1>7, <1>8 DEF Ledger
<1> DEFINE Q == <<>>
           z == [i \in 0 .. 0 |-> 0]
<1>10. Len(Q) = 0 /\ z[0] = 0
  OBVIOUS
<1> HIDE DEF Q, z
<1>11. Rising(0, z, 0)
  <2>1. \A i \in 0 .. 0 : i = 0
    OBVIOUS
  <2> QED BY <1>10, <2>1 DEF Rising
<1>12. HeardBy(Q, F, V, 0, 0, z, z)
  BY <1>1, <1>10, <1>11 DEF HeardBy
<1>13. SentBy(Q, F, V, 0, 0, z, z)
  BY <1>1, <1>10, <1>11 DEF SentBy
<1>14. V[0] = {}
  BY <1>4
<1>15. Asks(Q, F, V, 0, 0, 0, 0, open)
  BY <1>10, <1>13, <1>14 DEF Asks
<1>16. Thread(S, 0, FALSE, Q, 0, 0, 0, Q, TRUE, open, F, V, W, G, z, z)
  BY <1>1, <1>3, <1>9, <1>10, <1>12, <1>15 DEF Thread
<1> QED BY <1>16 DEF Talk, S, Q

(* A command with a reply is issued.                                        *)
LEMMA TalkCalls ==
    ASSUME NEW S, NEW pend, NEW mode, NEW Q, Len(Q) \in Nat, NEW done, NEW top, NEW last \in Nat,
           NEW T, NEW O \in Seq(T), NEW up, NEW open,
           Talk(S, pend, mode, Q, done, top, last, O, up, open),
           NEW c \in T, IsCall(c), c.id = last + 1, NEW top2, mode => top2 = top, mode \in BOOLEAN
    PROVE  Talk(S, pend, mode, Q, done, top2, last + 1, Append(O, c), up, open)
<1>1. PICK F, V, W, G, m, e : Thread(S, pend, mode, Q, done, top, last, O, up, open, F, V, W, G, m, e)
  BY DEF Talk
<1>2. /\ Ledger(S, pend, F, V, W, G) /\ (mode <=> F # <<>> \/ DOMAIN S # {})
      /\ HeardBy(Q, F, V, top, last, m, e) /\ m[0] = 0 /\ e[0] = done
      /\ up /\ Clean(Q, Len(Q)) => Asks(O, F, V, top, last, m[Len(Q)], e[Len(Q)], open)
  BY <1>1 DEF Thread
<1>3. Len(F) \in Nat /\ Extends(F, V, F, V) /\ last + 1 \in Nat /\ last <= last + 1
  BY <1>2, LedgerIs DEF Extends
<1>4. ASSUME NEW i \in 1 .. Len(Q), Clean(Q, i - 1), Aside(Q[i]) PROVE top2 <= e[i]
  <2>1. ASSUME ~mode PROVE FALSE
    <3>1. F = <<>> /\ DOMAIN S = {}
      BY <1>2, <2>1
    <3> QED BY <1>2, <1>4, <3>1, NothingAside
  <2>2. Hears(Q[i], F, V, top, m[i - 1], m[i], e[i - 1], e[i])
    BY <1>2, <1>4 DEF HeardBy
  <2> QED BY <1>4, <2>1, <2>2 DEF Hears
<1>5. HeardBy(Q, F, V, top2, last + 1, m, e)
  BY <1>2, <1>3, <1>4, HeardMore
<1>6. ASSUME up /\ Clean(Q, Len(Q))
      PROVE  Asks(Append(O, c), F, V, top2, last + 1, m[Len(Q)], e[Len(Q)], open)
  <2> DEFINE o == m[Len(Q)]
             d == e[Len(Q)]
  <2>1. Asks(O, F, V, top, last, o, d, open)
    BY <1>2, <1>6
  <2> HIDE DEF o, d
  <2>2. PICK b, a : /\ SentBy(O, F, V, top, last, b, a)
                    /\ b[0] = o /\ a[0] = d /\ open = V[o] /\ (open # {} => top <= d)
    BY <2>1 DEF Asks
  <2>3. ASSUME NEW i \in 1 .. Len(O), ~IsCall(O[i]) PROVE top2 <= a[i]
    <3>1. mode
      <4>1. CASE Len(F) = 0
        <5>1. Len(O) \in Nat
          OBVIOUS
        <5> QED BY <2>2, <2>3, <4>1, <5>1, CallsOnly
      <4>2. CASE Len(F) # 0
        BY <1>2, <4>2
      <4> QED BY <4>1, <4>2
    <3>2. Sends(O[i], F, V, top, b[i - 1], b[i], a[i - 1], a[i])
      BY <2>2 DEF SentBy
    <3> QED BY <2>3, <3>1, <3>2 DEF Sends
  <2>4. Sends(c, F, V, top2, Len(F), Len(F), last, last + 1)
    BY DEF Sends
  <2>5. PICK b2, a2 : /\ SentBy(Append(O, c), F, V, top2, last + 1, b2, a2)
                      /\ b2[0] = b[0] /\ a2[0] = a[0]
    BY <1>3, <2>2, <2>3, <2>4, SentAppend
  <2>6. open # {} => top2 <= d
    <3> SUFFICES ASSUME open # {} PROVE top2 <= d
      OBVIOUS
    <3>1. o \in 0 .. Len(F)
      <4>1. 0 \in 0 .. Len(O)
        OBVIOUS
      <4> QED BY <2>2, <4>1 DEF SentBy, Rising
    <3>2. DOMAIN S # {}
      <4>1. V[o] \subseteq DOMAIN S
        BY <1>2, <3>1, LedgerIs
      <4> QED BY <2>2, <4>1
    <3> QED BY <1>2, <2>2, <3>2
  <2>7. Asks(Append(O, c), F, V, top2, last + 1, o, d, open)
    BY <2>2, <2>5, <2>6 DEF Asks
  <2> QED BY <2>7 DEF o, d
<1>7. Thread(S, pend, mode, Q, done, top2, last + 1, Append(O, c), up, open, F, V, W, G, m, e)
  BY <1>2, <1>5, <1>6 DEF Thread
<1> QED BY <1>7 DEF Talk

(* A command is issued whose answers the client takes note of.              *)
NotesFor(F, F2, c, names) ==
    /\ Len(names) \in Nat \ {0} /\ Len(F2) = Len(F) + Len(names)
    /\ \A y \in 1 .. Len(names) :
          /\ F2[Len(F) + y].op = (IF c.op = "subscribe" THEN "subscribe" ELSE "unsubscribe")
          /\ F2[Len(F) + y].name = names[y]

Grows(S, pend, S2, pend2, c) ==
    \A F, V, W, G : Ledger(S, pend, F, V, W, G) =>
        \E F2, V2, W2, G2 : /\ Ledger(S2, pend2, F2, V2, W2, G2) /\ Extends(F, V, F2, V2)
                            /\ NotesFor(F, F2, c, AnsweredNames(c, V[Len(F)]))

(* The commands that append to the ledger keep the conversation, and it is  *)
(* one about subscriptions from then on.                                    *)
LEMMA TalkGrows ==
    ASSUME NEW S, NEW pend, NEW mode, NEW Q, Len(Q) \in Nat, NEW done, NEW top, NEW last \in Nat,
           NEW T, NEW O \in Seq(T), NEW up, NEW open,
           Talk(S, pend, mode, Q, done, top, last, O, up, open),
           NEW c \in T, ~IsCall(c), top <= last, NEW S2, NEW pend2, Grows(S, pend, S2, pend2, c)
    PROVE  Talk(S2, pend2, TRUE, Q, done, top, last, Append(O, c), up, open)
<1>1. PICK F, V, W, G, m, e : Thread(S, pend, mode, Q, done, top, last, O, up, open, F, V, W, G, m, e)
  BY DEF Talk
<1>2. /\ Ledger(S, pend, F, V, W, G)
      /\ HeardBy(Q, F, V, top, last, m, e) /\ m[0] = 0 /\ e[0] = done
      /\ up /\ Clean(Q, Len(Q)) => Asks(O, F, V, top, last, m[Len(Q)], e[Len(Q)], open)
  BY <1>1 DEF Thread
<1> DEFINE names == AnsweredNames(c, V[Len(F)])
           k == Len(names)
           op == IF c.op = "subscribe" THEN "subscribe" ELSE "unsubscribe"
<1>3. PICK F2, V2, W2, G2 :
          /\ Ledger(S2, pend2, F2, V2, W2, G2) /\ Extends(F, V, F2, V2)
          /\ k \in Nat \ {0} /\ Len(F2) = Len(F) + k
          /\ \A y \in 1 .. k : F2[Len(F) + y].op = op /\ F2[Len(F) + y].name = names[y]
  BY <1>2 DEF Grows, NotesFor
<1>4. Len(F) \in Nat /\ Len(F2) \in Nat /\ F2 # <<>> /\ V2[Len(F)] = V[Len(F)]
  <2>1. Len(F) \in Nat
    BY <1>2, LedgerIs
  <2>2. Len(F2) \in Nat /\ F2 \in Seq(Note)
    BY <1>3, LedgerIs
  <2>3. Len(F) \in 0 .. Len(F) /\ Len(F2) # 0
    <3> HIDE DEF k
    <3> QED BY <1>3, <2>1
  <2> QED BY <1>3, <2>1, <2>2, <2>3 DEF Extends
<1>5. HeardBy(Q, F2, V2, top, last, m, e)
  <2>1. ASSUME NEW i \in 1 .. Len(Q), Clean(Q, i - 1), Aside(Q[i]) PROVE top <= e[i]
    <3>1. Hears(Q[i], F, V, top, m[i - 1], m[i], e[i - 1], e[i])
      BY <1>2, <2>1 DEF HeardBy
    <3> QED BY <2>1, <3>1 DEF Hears
  <2>2. last <= last
    OBVIOUS
  <2> QED BY <1>2, <1>3, <2>1, <2>2, HeardMore
<1>6. Sends(c, F2, V2, top, Len(F), Len(F2), last, last)
  BY <1>3, <1>4 DEF Sends
<1>7. ASSUME up /\ Clean(Q, Len(Q))
      PROVE  Asks(Append(O, c), F2, V2, top, last, m[Len(Q)], e[Len(Q)], open)
  <2> DEFINE o == m[Len(Q)]
             d == e[Len(Q)]
  <2>1. Asks(O, F, V, top, last, o, d, open)
    BY <1>2, <1>7
  <2>a. o \in 0 .. Len(F)
    <3>1. Len(Q) \in 0 .. Len(Q)
      OBVIOUS
    <3> QED BY <1>2, <3>1 DEF HeardBy, Rising
  <2> HIDE DEF o, d, names, k, op
  <2>2. PICK b, a : /\ SentBy(O, F, V, top, last, b, a)
                    /\ b[0] = o /\ a[0] = d /\ open = V[o] /\ (open # {} => top <= d)
    BY <2>1 DEF Asks
  <2>3. ASSUME NEW i \in 1 .. Len(O), ~IsCall(O[i]) PROVE top <= a[i]
    <3>1. Sends(O[i], F, V, top, b[i - 1], b[i], a[i - 1], a[i])
      BY <2>2 DEF SentBy
    <3> QED BY <2>3, <3>1 DEF Sends
  <2>4. last <= last
    OBVIOUS
  <2>5. PICK b2, a2 : /\ SentBy(Append(O, c), F2, V2, top, last, b2, a2)
                      /\ b2[0] = b[0] /\ a2[0] = a[0]
    BY <1>3, <1>6, <2>2, <2>3, <2>4, SentAppend
  <2>6. V2[o] = V[o]
    BY <1>3, <2>a DEF Extends
  <2>7. Asks(Append(O, c), F2, V2, top, last, o, d, open)
    BY <2>2, <2>5, <2>6 DEF Asks
  <2> QED BY <2>7 DEF o, d
<1>8. Thread(S2, pend2, TRUE, Q, done, top, last, Append(O, c), up, open, F2, V2, W2, G2, m, e)
  BY <1>2, <1>3, <1>4, <1>5, <1>7 DEF Thread
<1> QED BY <1>8 DEF Talk

(* What is appended follows what there was.                                 *)
LEMMA NotesAdded ==
    ASSUME NEW F \in Seq(Note), NEW T, NEW names \in Seq(T), names # <<>>,
           NEW A \in [1 .. Len(names) -> Note], NEW c,
           \A y \in 1 .. Len(names) :
               /\ A[y].op = (IF c.op = "subscribe" THEN "subscribe" ELSE "unsubscribe")
               /\ A[y].name = names[y],
           NEW V, NEW V2, \A p \in 0 .. Len(F) : V2[p] = V[p]
    PROVE  Extends(F, V, F \o A, V2) /\ NotesFor(F, F \o A, c, names)
<1> DEFINE k == Len(names)
           L == Len(F)
           op == IF c.op = "subscribe" THEN "subscribe" ELSE "unsubscribe"
           F2 == F \o A
<1>1. k \in Nat \ {0} /\ L \in Nat
  OBVIOUS
<1>2. A \in [1 .. k -> Note] /\ \A y \in 1 .. k : A[y].op = op /\ A[y].name = names[y]
  OBVIOUS
<1>3. \A p \in 0 .. L : V2[p] = V[p]
  OBVIOUS
<1>4. L = Len(F)
  OBVIOUS
<1> HIDE DEF k, op, L
<1>5. A \in Seq(Note) /\ Len(A) = k
  BY <1>1, <1>2, SequenceOf
<1>6. /\ Len(F2) = Len(F) + Len(A)
      /\ \A i \in 1 .. Len(F) : F2[i] = F[i]
      /\ \A i \in 1 .. Len(A) : F2[Len(F) + i] = A[i]
  <2>1. A \in Seq(Note) /\ F \in Seq(Note)
    BY <1>5
  <2> QED BY ONLY <2>1, Concatenated DEF F2
<1> HIDE DEF F2
<1>7. /\ Len(F2) = L + k
      /\ \A i \in 1 .. L : F2[i] = F[i]
      /\ \A i \in 1 .. k : F2[L + i] = A[i]
  BY <1>4, <1>5, <1>6
<1>8. Len(F2) \in Nat /\ L <= Len(F2)
  BY <1>1, <1>7
<1>9. Extends(F, V, F2, V2)
  BY <1>1, <1>3, <1>4, <1>7, <1>8 DEF Extends
<1>10. \A y \in 1 .. k : F2[L + y].op = op /\ F2[L + y].name = names[y]
  BY <1>2, <1>7
<1>11. NotesFor(F, F2, c, names)
  BY <1>1, <1>4, <1>7, <1>10 DEF NotesFor, k, op
<1> QED BY <1>9, <1>11 DEF F2

(* The entries of a SUBSCRIBE.                                              *)
LEMMA ExpectedNotes ==
    ASSUME NEW names \in Seq(Names)
    PROVE  /\ Expected(names) \in [1 .. Len(names) -> Note]
           /\ \A y \in 1 .. Len(names) :
                 Expected(names)[y].op = "subscribe" /\ Expected(names)[y].name = names[y]
<1>1. \A y \in 1 .. Len(names) : names[y] \in AllNames
  BY DEF AllNames
<1> QED BY <1>1 DEF Expected, Note

(* The entries of an UNSUBSCRIBE.                                           *)
LEMMA AskedNotes ==
    ASSUME NEW S, NEW names \in Seq(AllNames)
    PROVE  /\ Asked(S, names) \in [1 .. Len(names) -> Note]
           /\ \A y \in 1 .. Len(names) :
                 Asked(S, names)[y].op = "unsubscribe" /\ Asked(S, names)[y].name = names[y]
<1>1. \A n : (~Open(S, n)) \in BOOLEAN
  OBVIOUS
<1>2. \A y \in 1 .. Len(names) : names[y] \in AllNames
  OBVIOUS
<1>3. \A y \in 1 .. Len(names) :
         [op |-> "unsubscribe", name |-> names[y], skip |-> ~Open(S, names[y])] \in Note
  BY <1>1, <1>2 DEF Note
<1> DEFINE k == Len(names)
           e(y) == [op |-> "unsubscribe", name |-> names[y], skip |-> ~Open(S, names[y])]
<1>4. \A y \in 1 .. k : e(y) \in Note /\ e(y).op = "unsubscribe" /\ e(y).name = names[y]
  BY <1>3
<1>5. Asked(S, names) = [y \in 1 .. k |-> e(y)]
  BY DEF Asked
<1> HIDE DEF e, k
<1>6. /\ Asked(S, names) \in [1 .. k -> Note]
      /\ \A y \in 1 .. k : Asked(S, names)[y].op = "unsubscribe" /\ Asked(S, names)[y].name = names[y]
  BY <1>4, <1>5
<1> QED BY <1>6 DEF k

(* A SUBSCRIBE appends to the ledger, when no ignored answer is awaited.    *)
LEMMA SubscribeGrows ==
    ASSUME NEW S, NEW names \in Seq(Names), names # <<>>, Distinct(names), NEW S2, Renewed(S, names, S2),
           NEW c, c.op = "subscribe", c.names = names
    PROVE  Grows(S, 0, S2, 0, c)
<1> SUFFICES ASSUME NEW F, NEW V, NEW W, NEW G, Ledger(S, 0, F, V, W, G)
             PROVE  \E F2, V2, W2, G2 : /\ Ledger(S2, 0, F2, V2, W2, G2) /\ Extends(F, V, F2, V2)
                                        /\ NotesFor(F, F2, c, AnsweredNames(c, V[Len(F)]))
  BY DEF Grows
<1>1. PICK V2, W2, G2 : /\ Ledger(S2, 0, F \o Expected(names), V2, W2, G2)
                        /\ \A p \in 0 .. Len(F) : V2[p] = V[p]
  BY LedgerOpens
<1>2. F \in Seq(Note)
  BY LedgerIs
<1>3. AnsweredNames(c, V[Len(F)]) = names
  BY AnsweredIs
<1> DEFINE A == Expected(names)
<1>4. /\ A \in [1 .. Len(names) -> Note]
      /\ \A y \in 1 .. Len(names) : /\ A[y].op = (IF c.op = "subscribe" THEN "subscribe" ELSE "unsubscribe")
                                    /\ A[y].name = names[y]
  BY ExpectedNotes
<1> HIDE DEF A
<1>5. Extends(F, V, F \o A, V2) /\ NotesFor(F, F \o A, c, names)
  BY <1>1, <1>2, <1>4, NotesAdded
<1> QED BY <1>1, <1>3, <1>5 DEF A

(* An UNSUBSCRIBE appends to the ledger, and its answers will be for the    *)
(* names the client expects.                                                *)
LEMMA UnsubscribeGrows ==
    ASSUME NEW S, NEW pend, NEW names \in Seq(AllNames), names # <<>>, Distinct(names),
           NEW ig, Ignored(S, pend, names, ig), NEW S2, Marked(S, names, S2),
           NEW c, c.op # "subscribe",
           \A open : open = {n \in DOMAIN S : ~S[n].sent} => AnsweredNames(c, open) = names
    PROVE  Grows(S, pend, S2, ig[Len(names)], c)
<1> SUFFICES ASSUME NEW F, NEW V, NEW W, NEW G, Ledger(S, pend, F, V, W, G)
             PROVE  \E F2, V2, W2, G2 :
                        /\ Ledger(S2, ig[Len(names)], F2, V2, W2, G2) /\ Extends(F, V, F2, V2)
                        /\ NotesFor(F, F2, c, AnsweredNames(c, V[Len(F)]))
  BY DEF Grows
<1>1. PICK V2, W2, G2 : /\ Ledger(S2, ig[Len(names)], F \o Asked(S, names), V2, W2, G2)
                        /\ \A p \in 0 .. Len(F) : V2[p] = V[p]
  BY LedgerAsks
<1>2. F \in Seq(Note)
  BY LedgerIs
<1>3. AnsweredNames(c, V[Len(F)]) = names
  BY LedgerIs
<1> DEFINE A == Asked(S, names)
<1>4. /\ A \in [1 .. Len(names) -> Note]
      /\ \A y \in 1 .. Len(names) : /\ A[y].op = (IF c.op = "subscribe" THEN "subscribe" ELSE "unsubscribe")
                                    /\ A[y].name = names[y]
  BY AskedNotes
<1> HIDE DEF A
<1>5. Extends(F, V, F \o A, V2) /\ NotesFor(F, F \o A, c, names)
  BY <1>1, <1>2, <1>4, NotesAdded
<1> QED BY <1>1, <1>3, <1>5 DEF A

-----------------------------------------------------------------------------
(***************************************************************************)
(* THE SERVER TALKS                                                        *)
(*                                                                         *)
(* It answers the next command, it sends a message, or the connection is   *)
(* lost.                                                                   *)
(***************************************************************************)

Followed(Q, A, Q2) ==
    /\ Len(Q) \in Nat /\ Len(A) \in Nat /\ Len(Q2) = Len(Q) + Len(A)
    /\ \A i \in 1 .. Len(Q) : Q2[i] = Q[i]
    /\ \A i \in 1 .. Len(A) : Q2[Len(Q) + i] = A[i]

(* Something is sent.                                                       *)
LEMMA TalkSends ==
    ASSUME NEW S, NEW pend, NEW mode, NEW Q, NEW done, NEW top, NEW last \in Nat,
           NEW O, NEW open, NEW F, NEW V, NEW W, NEW G, NEW m, NEW e,
           Thread(S, pend, mode, Q, done, top, last, O, TRUE, open, F, V, W, G, m, e),
           NEW A, NEW Q2, Followed(Q, A, Q2),
           NEW mm, NEW ee, mm[0] = m[Len(Q)], ee[0] = e[Len(Q)],
           Rising(Len(A), mm, Len(F)), Rising(Len(A), ee, last),
           \A i \in 1 .. Len(A) : Clean(Q, Len(Q)) /\ Clean(A, i - 1) =>
               Hears(A[i], F, V, top, mm[i - 1], mm[i], ee[i - 1], ee[i]),
           NEW O2, NEW open2,
           Clean(Q, Len(Q)) /\ Clean(A, Len(A)) =>
               Asks(O2, F, V, top, last, mm[Len(A)], ee[Len(A)], open2)
    PROVE  Talk(S, pend, mode, Q2, done, top, last, O2, TRUE, open2)
<1> DEFINE m2 == [i \in 0 .. Len(Q2) |-> IF i <= Len(Q) THEN m[i] ELSE mm[i - Len(Q)]]
           e2 == [i \in 0 .. Len(Q2) |-> IF i <= Len(Q) THEN e[i] ELSE ee[i - Len(Q)]]
<1>1. /\ Ledger(S, pend, F, V, W, G) /\ (mode <=> F # <<>> \/ DOMAIN S # {})
      /\ HeardBy(Q, F, V, top, last, m, e) /\ m[0] = 0 /\ e[0] = done
  BY DEF Thread
<1>2. Len(F) \in Nat
  BY <1>1, LedgerIs
<1>3. /\ Len(Q) \in Nat /\ Len(A) \in Nat /\ Len(Q2) = Len(Q) + Len(A) /\ Len(Q2) \in Nat
      /\ \A i \in 1 .. Len(Q) : Q2[i] = Q[i]
      /\ \A i \in 1 .. Len(A) : Q2[Len(Q) + i] = A[i]
  BY DEF Followed
<1>4. m2[0] = m[0] /\ e2[0] = e[0]
  BY <1>3
<1>5. m2[Len(Q2)] = mm[Len(A)] /\ e2[Len(Q2)] = ee[Len(A)]
  <2>1. CASE Len(A) = 0
    BY <1>3, <2>1
  <2>2. CASE Len(A) # 0
    BY <1>3, <2>2
  <2> QED BY <2>1, <2>2
<1>6. m2 = [i \in 0 .. Len(Q2) |-> IF i <= Len(Q) THEN m[i] ELSE mm[i - Len(Q)]]
  OBVIOUS
<1>7. e2 = [i \in 0 .. Len(Q2) |-> IF i <= Len(Q) THEN e[i] ELSE ee[i - Len(Q)]]
  OBVIOUS
<1> HIDE DEF m2, e2
<1>8. HeardBy(Q2, F, V, top, last, m2, e2)
  BY <1>1, <1>2, <1>3, <1>6, <1>7, HeardAppend
<1>9. Clean(Q2, Len(Q2)) => Clean(Q, Len(Q)) /\ Clean(A, Len(A))
  <2> SUFFICES ASSUME Clean(Q2, Len(Q2)) PROVE Clean(Q, Len(Q)) /\ Clean(A, Len(A))
    OBVIOUS
  <2>1. ASSUME NEW j \in 1 .. Len(Q) PROVE ~Denial(Q[j])
    <3>1. j \in 1 .. Len(Q2) /\ Q2[j] = Q[j]
      BY <1>3
    <3> QED BY <3>1 DEF Clean
  <2>2. ASSUME NEW j \in 1 .. Len(A) PROVE ~Denial(A[j])
    <3>1. Len(Q) + j \in 1 .. Len(Q2) /\ Q2[Len(Q) + j] = A[j]
      BY <1>3
    <3> QED BY <3>1 DEF Clean
  <2> QED BY <2>1, <2>2 DEF Clean
<1>10. Clean(Q2, Len(Q2)) => Asks(O2, F, V, top, last, m2[Len(Q2)], e2[Len(Q2)], open2)
  BY <1>5, <1>9
<1>11. Thread(S, pend, mode, Q2, done, top, last, O2, TRUE, open2, F, V, W, G, m2, e2)
  BY <1>1, <1>4, <1>8, <1>10 DEF Thread
<1> QED BY <1>11 DEF Talk

(* Once nothing is known any more, anything may follow.                     *)
LEMMA TalkUnclean ==
    ASSUME NEW S, NEW pend, NEW mode, NEW Q, NEW done, NEW top, NEW last \in Nat,
           NEW O, NEW open, Talk(S, pend, mode, Q, done, top, last, O, TRUE, open),
           NEW A, NEW Q2, Followed(Q, A, Q2), ~Clean(Q, Len(Q)), NEW O2, NEW open2
    PROVE  Talk(S, pend, mode, Q2, done, top, last, O2, TRUE, open2)
<1>1. PICK F, V, W, G, m, e : Thread(S, pend, mode, Q, done, top, last, O, TRUE, open, F, V, W, G, m, e)
  BY DEF Talk
<1> DEFINE mm == [i \in 0 .. Len(A) |-> m[Len(Q)]]
           ee == [i \in 0 .. Len(A) |-> e[Len(Q)]]
<1>2. Len(A) \in Nat /\ Len(Q) \in Nat
  BY DEF Followed
<1>3. \A i \in 0 .. Len(A) : mm[i] = m[Len(Q)] /\ ee[i] = e[Len(Q)]
  OBVIOUS
<1>4. Len(Q) \in 0 .. Len(Q) /\ 0 \in 0 .. Len(A)
  BY <1>2
<1>5. m[Len(Q)] \in 0 .. Len(F) /\ e[Len(Q)] \in 0 .. last
  BY <1>1, <1>4 DEF Thread, HeardBy, Rising
<1> HIDE DEF mm, ee
<1>6. Rising(Len(A), mm, Len(F)) /\ Rising(Len(A), ee, last)
  <2>1. \A i, j \in 0 .. Len(A) : mm[i] <= mm[j] /\ ee[i] <= ee[j]
    <3>1. \A x \in 0 .. Len(F) : x <= x
      OBVIOUS
    <3>2. \A x \in 0 .. last : x <= x
      OBVIOUS
    <3> QED BY <1>3, <1>5, <3>1, <3>2
  <2> QED BY <1>3, <1>5, <2>1 DEF Rising
<1>7. mm[0] = m[Len(Q)] /\ ee[0] = e[Len(Q)]
  BY <1>3, <1>4
<1> QED BY <1>1, <1>6, <1>7, TalkSends

(* A command is written, the server answers.                                *)
LEMMA TalkWrites ==
    ASSUME NEW S, NEW pend, NEW mode, NEW Q, NEW done, NEW top \in Nat, NEW last \in Nat,
           NEW O \in Seq(Command), O # <<>>,
           Talk(S, pend, mode, Q, done, top, last, O, TRUE, served),
           served \in SUBSET Names, IsFiniteSet(served), "arrays" \notin Habits,
           NEW A \in Answers(Head(O)), NEW Q2, Followed(Q, A, Q2)
    PROVE  Talk(S, pend, mode, Q2, done, top, last, Tail(O), TRUE, NamesServed(A))
<1>1. CASE ~Clean(Q, Len(Q))
  BY <1>1, TalkUnclean
<1>2. CASE Clean(Q, Len(Q))
  <2>1. PICK F, V, W, G, m, e :
            Thread(S, pend, mode, Q, done, top, last, O, TRUE, served, F, V, W, G, m, e)
    BY DEF Talk
  <2>2. Ledger(S, pend, F, V, W, G) /\ Asks(O, F, V, top, last, m[Len(Q)], e[Len(Q)], served)
    BY <1>2, <2>1 DEF Thread
  <2>3. PICK b, a : /\ SentBy(O, F, V, top, last, b, a)
                    /\ b[0] = m[Len(Q)] /\ a[0] = e[Len(Q)] /\ served = V[b[0]]
                    /\ (served # {} => top <= a[0])
    BY <2>2 DEF Asks
  <2> DEFINE c == Head(O)
  <2>4. Len(F) \in Nat /\ LedgerSteps(F, V, W, G)
    BY <2>2, LedgerIs
  <2>5. Len(O) \in Nat /\ 1 \in 1 .. Len(O) /\ O[1] = c /\ c \in Command
    OBVIOUS
  <2>6. Sends(c, F, V, top, b[0], b[1], a[0], a[1])
    <3>1. Sends(O[1], F, V, top, b[1 - 1], b[1], a[1 - 1], a[1])
      BY <2>3, <2>5 DEF SentBy
    <3>2. 1 - 1 = 0
      OBVIOUS
    <3> QED BY <2>5, <3>1, <3>2
  <2> HIDE DEF c
  <2>7. /\ b[0] \in 0 .. Len(F) /\ b[1] \in 0 .. Len(F)
        /\ a[0] \in 0 .. last /\ a[1] \in 0 .. last /\ a[0] <= a[1]
    <3>1. 0 \in 0 .. Len(O) /\ 1 \in 0 .. Len(O) /\ 0 <= 1
      BY <2>5
    <3> QED BY <2>3, <3>1 DEF SentBy, Rising
  <2>8. A \in Answers(c)
    BY DEF c
  <2>9. PICK mm, ee : Answered(A, F, V, top, last, b[0], b[1], a[0], a[1], mm, ee)
    BY <2>3, <2>4, <2>5, <2>6, <2>7, <2>8, AnswerFits
  <2>10. PICK b2, a2 : SentBy(Tail(O), F, V, top, last, b2, a2) /\ b2[0] = b[1] /\ a2[0] = a[1]
    BY <2>3, <2>4, SentTail
  <2>11. /\ mm[0] = m[Len(Q)] /\ ee[0] = e[Len(Q)]
         /\ Rising(Len(A), mm, Len(F)) /\ Rising(Len(A), ee, last)
    BY <2>3, <2>9 DEF Answered
  <2>12. \A i \in 1 .. Len(A) : Clean(Q, Len(Q)) /\ Clean(A, i - 1) =>
               Hears(A[i], F, V, top, mm[i - 1], mm[i], ee[i - 1], ee[i])
    BY <2>9 DEF Answered
  <2>13. ASSUME Clean(A, Len(A))
         PROVE  Asks(Tail(O), F, V, top, last, mm[Len(A)], ee[Len(A)], NamesServed(A))
    <3>1. mm[Len(A)] = b[1] /\ ee[Len(A)] = a[1] /\ NamesServed(A) = V[b[1]]
      BY <2>9, <2>13 DEF Answered
    <3>2. V[b[1]] # {} => top <= a[1]
      <4>1. CASE IsCall(c)
        <5>1. b[1] = b[0] /\ a[1] = a[0] + 1
          BY <2>6, <4>1 DEF Sends
        <5>2. ASSUME served # {} PROVE top <= a[1]
          <6>1. top <= a[0]
            BY <2>3, <5>2
          <6> QED BY <2>7, <5>1, <6>1
        <5> QED BY <2>3, <5>1, <5>2
      <4>2. CASE ~IsCall(c)
        BY <2>6, <4>2 DEF Sends
      <4> QED BY <4>1, <4>2
    <3> QED BY <2>10, <3>1, <3>2 DEF Asks
  <2> QED BY <2>1, <2>11, <2>12, <2>13, TalkSends
<1> QED BY <1>1, <1>2

(* The server sends a message, or pushes something else.                    *)
LEMMA TalkPushes ==
    ASSUME NEW S, NEW pend, NEW mode, NEW Q, NEW done, NEW top, NEW last \in Nat,
           NEW O, NEW open, Talk(S, pend, mode, Q, done, top, last, O, TRUE, open),
           NEW A, Len(A) = 1, A[1].kind \in {"message", "push"}, A[1].kind = "message" => A[1].name \in open,
           NEW Q2, Followed(Q, A, Q2)
    PROVE  Talk(S, pend, mode, Q2, done, top, last, O, TRUE, open)
<1> DEFINE r == A[1]
<1> HIDE DEF r
<1>0. r.kind \in {"message", "push"} /\ (r.kind = "message" => r.name \in open) /\ A[1] = r
  BY DEF r
<1>1. CASE ~Clean(Q, Len(Q))
  BY <1>1, TalkUnclean
<1>2. CASE Clean(Q, Len(Q))
  <2>1. PICK F, V, W, G, m, e :
            Thread(S, pend, mode, Q, done, top, last, O, TRUE, open, F, V, W, G, m, e)
    BY DEF Talk
  <2> DEFINE o == m[Len(Q)]
             d == e[Len(Q)]
             mm == [i \in 0 .. 1 |-> o]
             ee == [i \in 0 .. 1 |-> d]
  <2>2. Asks(O, F, V, top, last, o, d, open)
    BY <1>2, <2>1 DEF Thread
  <2>3. open = V[o] /\ (open # {} => top <= d)
    BY <2>2 DEF Asks
  <2>4. Len(Q) \in Nat /\ Len(Q) \in 0 .. Len(Q)
    BY DEF Followed
  <2>5. o \in 0 .. Len(F) /\ d \in 0 .. last
    BY <2>1, <2>4 DEF Thread, HeardBy, Rising
  <2> HIDE DEF o, d
  <2>6. \A i \in 1 .. 1 : i = 1 /\ i - 1 = 0
    OBVIOUS
  <2>7. mm[0] = o /\ mm[1] = o /\ ee[0] = d /\ ee[1] = d
    OBVIOUS
  <2>8. Rising(1, mm, Len(F)) /\ Rising(1, ee, last)
    <3>1. \A i \in 0 .. 1 : mm[i] = o /\ ee[i] = d
      OBVIOUS
    <3>2. o <= o /\ d <= d
      BY <2>5
    <3> HIDE DEF mm, ee
    <3>3. \A i \in 0 .. 1 : mm[i] \in 0 .. Len(F) /\ ee[i] \in 0 .. last
      BY <2>5, <3>1
    <3>4. \A i, j \in 0 .. 1 : mm[i] <= mm[j] /\ ee[i] <= ee[j]
      BY <3>1, <3>2
    <3> QED BY <3>3, <3>4 DEF Rising
  <2> HIDE DEF mm, ee
  <2>9. Hears(r, F, V, top, o, o, d, d)
    BY <1>0, <2>3 DEF Hears, IsNote, IsAnswer, Denial, Aside
  <2>10. \A i \in 1 .. Len(A) : Hears(A[i], F, V, top, mm[i - 1], mm[i], ee[i - 1], ee[i])
    BY <1>0, <2>6, <2>7, <2>9
  <2>11. Asks(O, F, V, top, last, mm[Len(A)], ee[Len(A)], open)
    BY <2>2, <2>6, <2>7
  <2>13. Rising(Len(A), mm, Len(F)) /\ Rising(Len(A), ee, last)
    BY <2>6, <2>8
  <2>14. mm[0] = m[Len(Q)] /\ ee[0] = e[Len(Q)]
    BY <2>7 DEF o, d
  <2> QED BY <2>1, <2>10, <2>11, <2>13, <2>14, TalkSends
<1> QED BY <1>1, <1>2

(* The connection is lost, and with it what was on its way.                 *)
LEMMA TalkDrops ==
    ASSUME NEW S, NEW pend, NEW mode, NEW Q, NEW done, NEW top, NEW last, NEW O, NEW up, NEW open,
           Talk(S, pend, mode, Q, done, top, last, O, up, open),
           NEW Q2, Len(Q) \in Nat, Len(Q2) \in Nat, Len(Q2) <= Len(Q), \A i \in 1 .. Len(Q2) : Q2[i] = Q[i],
           NEW O2, NEW open2
    PROVE  Talk(S, pend, mode, Q2, done, top, last, O2, FALSE, open2)
<1>1. PICK F, V, W, G, m, e : Thread(S, pend, mode, Q, done, top, last, O, up, open, F, V, W, G, m, e)
  BY DEF Talk
<1>2. HeardBy(Q2, F, V, top, last, m, e)
  BY <1>1, HeardPrefix DEF Thread
<1>3. Thread(S, pend, mode, Q2, done, top, last, O2, FALSE, open2, F, V, W, G, m, e)
  BY <1>1, <1>2 DEF Thread
<1> QED BY <1>3 DEF Talk

-----------------------------------------------------------------------------
(***************************************************************************)
(* THE CLIENT HEARS                                                        *)
(*                                                                         *)
(* What the first reply tells, and what remains of the conversation        *)
(* without it.                                                             *)
(***************************************************************************)

(* A sequence without its head.                                             *)
LEMMA TailIs ==
    ASSUME NEW T, NEW Q \in Seq(T), Q # <<>>
    PROVE  /\ Len(Q) \in Nat \ {0} /\ Len(Tail(Q)) = Len(Q) - 1 /\ Tail(Q) \in Seq(T) /\ Head(Q) = Q[1]
           /\ \A i \in 1 .. Len(Tail(Q)) : Tail(Q)[i] = Q[i + 1]
OBVIOUS

(* The first reply is at hand: nothing is lost yet.                         *)
LEMMA HeadHeard ==
    ASSUME NEW S, NEW pend, NEW mode, NEW Q, Len(Q) \in Nat \ {0}, NEW done, NEW top, NEW last \in Nat,
           NEW O, NEW up, NEW open, NEW F, NEW V, NEW W, NEW G, NEW m, NEW e,
           Thread(S, pend, mode, Q, done, top, last, O, up, open, F, V, W, G, m, e)
    PROVE  /\ Hears(Q[1], F, V, top, 0, m[1], done, e[1])
           /\ m[1] \in 0 .. Len(F) /\ e[1] \in 0 .. last /\ done \in 0 .. last /\ done <= e[1]
           /\ 1 \in 0 .. Len(Q) /\ Len(Q) \in 0 .. Len(Q) /\ Len(F) \in Nat
<1>1. 1 \in 1 .. Len(Q) /\ 1 \in 0 .. Len(Q) /\ 0 \in 0 .. Len(Q) /\ 1 - 1 = 0 /\ 0 <= 1 /\ Len(Q) \in 0 .. Len(Q)
  OBVIOUS
<1>2. HeardBy(Q, F, V, top, last, m, e) /\ m[0] = 0 /\ e[0] = done /\ Ledger(S, pend, F, V, W, G)
  BY DEF Thread
<1>3. Clean(Q, 1 - 1)
  BY DEF Clean
<1>4. Hears(Q[1], F, V, top, m[1 - 1], m[1], e[1 - 1], e[1])
  BY <1>1, <1>2, <1>3 DEF HeardBy
<1>5. m[1] \in 0 .. Len(F) /\ e[1] \in 0 .. last /\ e[0] \in 0 .. last /\ e[0] <= e[1]
  BY <1>1, <1>2 DEF HeardBy, Rising
<1> QED BY <1>1, <1>2, <1>4, <1>5, LedgerIs

(* No error that ends the conversation comes first.                         *)
LEMMA CleanTail ==
    ASSUME NEW T, NEW Q \in Seq(T), Q # <<>>, ~Denial(Q[1]), Clean(Tail(Q), Len(Tail(Q)))
    PROVE  Clean(Q, Len(Q))
<1> SUFFICES ASSUME NEW j \in 1 .. Len(Q) PROVE ~Denial(Q[j])
  BY DEF Clean
<1>1. CASE j = 1
  BY <1>1
<1>2. CASE j # 1
  <2>1. j - 1 \in 1 .. Len(Tail(Q)) /\ Tail(Q)[j - 1] = Q[j]
    BY <1>2, TailIs
  <2> QED BY <2>1 DEF Clean
<1> QED BY <1>1, <1>2

(* The commands issued before the client subscribed are settled, or are the *)
(* same.                                                                    *)
LEMMA RestHeard ==
    ASSUME NEW T, NEW Q \in Seq(T), Q # <<>>, NEW Q2, Q2 = Tail(Q),
           NEW F, NEW V, NEW top \in Nat, NEW last \in Nat, NEW m, NEW e,
           HeardBy(Q2, F, V, top, last, m, e), Len(F) \in Nat,
           NEW top2 \in Nat, top2 = top \/ top2 <= e[0]
    PROVE  HeardBy(Q2, F, V, top2, last, m, e)
<1>1. CASE top2 = top
  BY <1>1
<1>2. CASE top2 <= e[0]
  <2>1. Len(Q2) \in Nat
    BY TailIs
  <2>2. ASSUME NEW i \in 1 .. Len(Q2) PROVE top2 <= e[i]
    <3>1. Rising(Len(Q2), e, last) /\ i \in 0 .. Len(Q2)
      BY <2>1 DEF HeardBy
    <3>2. e[i] \in Nat /\ e[0] <= e[i] /\ e[0] \in Nat
      <4>1. 0 \in 0 .. Len(Q2)
        BY <2>1
      <4>2. e[0] \in 0 .. last
        BY <3>1, <4>1 DEF Rising
      <4> QED BY <2>1, <3>1, <4>2, RisingOne
    <3> QED BY <1>2, <3>2
  <2>3. Extends(F, V, F, V) /\ last <= last
    BY DEF Extends
  <2> QED BY <2>1, <2>2, <2>3, HeardMore
<1> QED BY <1>1, <1>2

(* What is to be sent is still in place, too.                               *)
LEMMA AsksStill ==
    ASSUME NEW O, Len(O) \in Nat, NEW F, NEW V, NEW top, NEW last \in Nat, NEW o, NEW d, NEW open,
           Asks(O, F, V, top, last, o, d, open),
           NEW top2 \in Nat, NEW done \in Nat, d \in Nat, done <= d, top2 = top \/ top2 <= done
    PROVE  Asks(O, F, V, top2, last, o, d, open)
<1>1. CASE top2 = top
  BY <1>1
<1>2. CASE top2 <= done
  <2>1. PICK b, a : /\ SentBy(O, F, V, top, last, b, a)
                    /\ b[0] = o /\ a[0] = d /\ open = V[o] /\ (open # {} => top <= d)
    BY DEF Asks
  <2>2. top2 <= d
    BY <1>2
  <2>3. ASSUME NEW i \in 1 .. Len(O) PROVE top2 <= a[i]
    <3>1. Rising(Len(O), a, last) /\ i \in 0 .. Len(O)
      BY <2>1 DEF SentBy
    <3>2. a[i] \in Nat /\ a[0] <= a[i]
      BY <3>1, RisingOne
    <3> QED BY <2>1, <2>2, <3>2
  <2>4. SentBy(O, F, V, top2, last, b, a)
    BY <2>1, <2>3, SentMore
  <2> QED BY <2>1, <2>2, <2>4 DEF Asks
<1> QED BY <1>1, <1>2

(* An answer or a push is taken, or a message.                              *)
LEMMA TalkTakes ==
    ASSUME NEW S, NEW pend, NEW mode, NEW T, NEW Q \in Seq(T), Q # <<>>, NEW done,
           NEW top \in Nat, NEW last \in Nat, NEW O, Len(O) \in Nat, NEW up, NEW open,
           Talk(S, pend, mode, Q, done, top, last, O, up, open),
           ~IsNote(Q[1]), ~Denial(Q[1]),
           NEW done2, done2 = IF IsAnswer(Q[1]) THEN done + 1 ELSE done,
           NEW top2 \in Nat, top2 = top \/ top2 <= done2
    PROVE  Talk(S, pend, mode, Tail(Q), done2, top2, last, O, up, open)
<1>1. PICK F, V, W, G, m, e : Thread(S, pend, mode, Q, done, top, last, O, up, open, F, V, W, G, m, e)
  BY DEF Talk
<1>2. /\ Ledger(S, pend, F, V, W, G) /\ (mode <=> F # <<>> \/ DOMAIN S # {})
      /\ HeardBy(Q, F, V, top, last, m, e) /\ m[0] = 0 /\ e[0] = done
      /\ up /\ Clean(Q, Len(Q)) => Asks(O, F, V, top, last, m[Len(Q)], e[Len(Q)], open)
  BY <1>1 DEF Thread
<1>0. PICK z \in {0, 1} : z = 0
  OBVIOUS
<1> DEFINE Q2 == Tail(Q)
           m2 == [i \in 0 .. Len(Q2) |-> m[i + 1] - z]
           e2 == [i \in 0 .. Len(Q2) |-> e[i + 1]]
<1>3. /\ Len(Q) \in Nat \ {0} /\ Len(Q2) = Len(Q) - 1 /\ \A i \in 1 .. Len(Q2) : Q2[i] = Q[i + 1]
      /\ Len(Q2) \in Nat
  BY TailIs
<1>4. /\ Hears(Q[1], F, V, top, 0, m[1], done, e[1])
      /\ m[1] \in 0 .. Len(F) /\ e[1] \in 0 .. last /\ done \in 0 .. last /\ done <= e[1]
      /\ 1 \in 0 .. Len(Q) /\ Len(Q) \in 0 .. Len(Q) /\ Len(F) \in Nat
  BY <1>1, <1>3, HeadHeard
<1>5. m[1] = 0 /\ e[1] = done2
  BY <1>4 DEF Hears
<1>6. e[Len(Q)] \in 0 .. last /\ m[Len(Q)] \in 0 .. Len(F) /\ e[1] <= e[Len(Q)]
  <2>1. 1 <= Len(Q)
    BY <1>3
  <2> QED BY <1>2, <1>4, <2>1 DEF HeardBy, Rising
<1>7. m2[0] = 0 /\ e2[0] = done2 /\ m2[Len(Q2)] = m[Len(Q)] /\ e2[Len(Q2)] = e[Len(Q)]
  <2>1. 0 \in 0 .. Len(Q2) /\ Len(Q2) \in 0 .. Len(Q2) /\ 0 + 1 = 1 /\ Len(Q2) + 1 = Len(Q)
    BY <1>3
  <2>2. m2[0] = m[1] - z /\ m2[Len(Q2)] = m[Len(Q)] - z /\ e2[0] = e[1] /\ e2[Len(Q2)] = e[Len(Q)]
    BY <2>1
  <2> HIDE DEF m2, e2
  <2> QED BY <1>0, <1>5, <1>6, <2>2
<1>8. m2 = [i \in 0 .. Len(Q2) |-> m[i + 1] - z] /\ e2 = [i \in 0 .. Len(Q2) |-> e[i + 1]]
  OBVIOUS
<1>9. Q2 = Tail(Q)
  OBVIOUS
<1> HIDE DEF m2, e2, Q2
<1>10. HeardBy(Q2, F, V, top, last, m2, e2)
  <2>1. m[1] >= z /\ Len(F) = Len(F) - z
    BY <1>0, <1>4, <1>5
  <2>2. \A p \in 1 .. Len(F) : F[p] = F[p + z]
    BY <1>0, <1>4
  <2>3. \A p \in 0 .. Len(F) : V[p] = V[p + z]
    BY <1>0, <1>4
  <2>4. HeardBy(Q, F, V, top, last, m, e) /\ Len(F) \in Nat
    BY <1>2, <1>4
  <2> QED BY <1>3, <1>8, <2>1, <2>2, <2>3, <2>4, HeardTail
<1>11. top2 = top \/ top2 <= e2[0]
  BY <1>7
<1>12. HeardBy(Q2, F, V, top2, last, m2, e2)
  BY <1>4, <1>9, <1>10, <1>11, RestHeard
<1>13. ASSUME up /\ Clean(Q2, Len(Q2))
       PROVE  Asks(O, F, V, top2, last, m2[Len(Q2)], e2[Len(Q2)], open)
  <2>1. Clean(Q, Len(Q))
    BY <1>9, <1>13, CleanTail
  <2>2. Asks(O, F, V, top, last, m[Len(Q)], e[Len(Q)], open)
    BY <1>2, <1>13, <2>1
  <2>3. done2 \in Nat /\ e[Len(Q)] \in Nat /\ done2 <= e[Len(Q)]
    BY <1>4, <1>5, <1>6
  <2> QED BY <1>7, <2>2, <2>3, AsksStill
<1>14. Thread(S, pend, mode, Q2, done2, top2, last, O, up, open, F, V, W, G, m2, e2)
  BY <1>2, <1>7, <1>12, <1>13 DEF Thread
<1> QED BY <1>14 DEF Talk, Q2

(* What the first reply tells.                                              *)
LEMMA TalkTells ==
    ASSUME NEW S, NEW pend, NEW mode, NEW T, NEW Q \in Seq(T), Q # <<>>, NEW done,
           NEW top, NEW last \in Nat, NEW O, NEW up, NEW open,
           Talk(S, pend, mode, Q, done, top, last, O, up, open)
    PROVE  /\ done \in 0 .. last
           /\ IsAnswer(Q[1]) => Q[1].id = done + 1 /\ done + 1 <= last
           /\ Aside(Q[1]) => top <= done /\ mode
           /\ Q[1].kind = "message" => Q[1].name \in DOMAIN S
           /\ Q[1].kind = "subscribe" => Q[1].name \in DOMAIN S /\ S[Q[1].name].pending > 0
           /\ Q[1].kind = "unsubscribe" /\ Q[1].name \notin DOMAIN S => pend > 0
<1>1. PICK F, V, W, G, m, e : Thread(S, pend, mode, Q, done, top, last, O, up, open, F, V, W, G, m, e)
  BY DEF Talk
<1>2. Ledger(S, pend, F, V, W, G) /\ (mode <=> F # <<>> \/ DOMAIN S # {}) /\ HeardBy(Q, F, V, top, last, m, e)
  BY <1>1 DEF Thread
<1>3. Len(Q) \in Nat \ {0}
  BY TailIs
<1>4. /\ Hears(Q[1], F, V, top, 0, m[1], done, e[1])
      /\ m[1] \in 0 .. Len(F) /\ e[1] \in 0 .. last /\ done \in 0 .. last /\ Len(F) \in Nat
  BY <1>1, <1>3, HeadHeard
<1>5. IsAnswer(Q[1]) => Q[1].id = done + 1 /\ done + 1 <= last
  BY <1>4 DEF Hears
<1>6. Aside(Q[1]) => top <= done /\ mode
  <2> SUFFICES ASSUME Aside(Q[1]) PROVE top <= done /\ mode
    OBVIOUS
  <2>1. ~IsAnswer(Q[1])
    BY DEF Aside, IsAnswer, IsNote
  <2>2. top <= done
    BY <1>4, <2>1 DEF Hears
  <2>3. ASSUME ~mode PROVE FALSE
    <3>1. F = <<>> /\ DOMAIN S = {}
      BY <1>2, <2>3
    <3>2. 1 \in 1 .. Len(Q) /\ Len(Q) \in Nat /\ Clean(Q, 1 - 1)
      BY <1>3 DEF Clean
    <3> QED BY <1>2, <3>1, <3>2, NothingAside
  <2> QED BY <2>2, <2>3
<1>7. Q[1].kind = "message" => Q[1].name \in DOMAIN S
  <2> SUFFICES ASSUME Q[1].kind = "message" PROVE Q[1].name \in DOMAIN S
    OBVIOUS
  <2>1. Q[1].name \in V[0]
    BY <1>4 DEF Hears, IsNote
  <2>2. 0 \in 0 .. Len(F)
    BY <1>4
  <2> QED BY <1>2, <2>1, <2>2, LedgerIs
<1>8. IsNote(Q[1]) => F # <<>> /\ F[1].op = Q[1].kind /\ F[1].name = Q[1].name
  <2> SUFFICES ASSUME IsNote(Q[1]) PROVE F # <<>> /\ F[1].op = Q[1].kind /\ F[1].name = Q[1].name
    OBVIOUS
  <2>1. m[1] = 0 + 1 /\ F[0 + 1].op = Q[1].kind /\ F[0 + 1].name = Q[1].name
    BY <1>4 DEF Hears
  <2>2. 0 + 1 = 1 /\ Len(F) # 0
    BY <1>4, <2>1
  <2> QED BY <2>1, <2>2
<1>9. Q[1].kind = "subscribe" => Q[1].name \in DOMAIN S /\ S[Q[1].name].pending > 0
  BY <1>2, <1>8, LedgerHead DEF IsNote
<1>10. Q[1].kind = "unsubscribe" /\ Q[1].name \notin DOMAIN S => pend > 0
  <2> SUFFICES ASSUME Q[1].kind = "unsubscribe", Q[1].name \notin DOMAIN S PROVE pend > 0
    OBVIOUS
  <2>1. F # <<>> /\ F[1].op = "unsubscribe" /\ F[1].name \notin DOMAIN S
    BY <1>8 DEF IsNote
  <2>2. F[1].skip
    BY <1>2, <2>1, LedgerHead
  <2> QED BY <1>2, <2>1, <2>2, LedgerHead
<1> QED BY <1>4, <1>5, <1>6, <1>7, <1>9, <1>10

-----------------------------------------------------------------------------
(***************************************************************************)
(* THE CLIENT TAKES NOTE                                                   *)
(*                                                                         *)
(* The confirmations and the answers that are entries of the ledger, and   *)
(* the end of the subscribed mode.                                         *)
(***************************************************************************)

(* The client takes note of a confirmation, or of the answer to an          *)
(* unsubscription.                                                          *)
TakesNote(S, pend, r, S2, pend2) ==
    /\ r.kind = "subscribe" => Confirmed(S, r.name, S2) /\ pend2 = pend
    /\ r.kind = "unsubscribe" /\ r.name \notin DOMAIN S => S2 = S /\ pend2 = pend - 1
    /\ r.kind = "unsubscribe" /\ r.name \in DOMAIN S =>
          /\ pend2 = pend
          /\ S2 = IF S[r.name].pending = 0 THEN [k \in DOMAIN S \ {r.name} |-> S[k]] ELSE S

(* What the code does with the reply is what the oldest entry of the ledger *)
(* asks for.                                                                *)
LEMMA NoteTaken ==
    ASSUME NEW S, NEW pend, NEW F, NEW V, NEW W, NEW G, Ledger(S, pend, F, V, W, G), F # <<>>,
           NEW r, IsNote(r), F[1].op = r.kind, F[1].name = r.name,
           NEW S2, NEW pend2, TakesNote(S, pend, r, S2, pend2)
    PROVE  Noted(S, pend, F[1], S2, pend2)
<1>1. /\ F[1].op = "subscribe" => ~F[1].skip
      /\ F[1].op = "unsubscribe" /\ ~F[1].skip => F[1].name \in DOMAIN S
      /\ F[1].skip => F[1].name \notin DOMAIN S /\ F[1].op = "unsubscribe"
  BY LedgerHead
<1>2. CASE r.kind = "subscribe"
  <2>1. F[1].op = "subscribe" /\ ~F[1].skip /\ F[1].op # "unsubscribe"
    BY <1>1, <1>2
  <2> QED BY <1>2, <2>1 DEF TakesNote, Noted
<1>3. CASE r.kind = "unsubscribe" /\ r.name \notin DOMAIN S
  <2>1. F[1].op # "subscribe" /\ F[1].skip
    BY <1>1, <1>3
  <2> QED BY <1>3, <2>1 DEF TakesNote, Noted
<1>4. CASE r.kind = "unsubscribe" /\ r.name \in DOMAIN S
  <2>1. F[1].op # "subscribe" /\ ~F[1].skip
    BY <1>1, <1>4
  <2>2. /\ pend2 = pend
        /\ S2 = IF S[r.name].pending = 0 THEN [k \in DOMAIN S \ {r.name} |-> S[k]] ELSE S
    BY <1>4 DEF TakesNote
  <2> QED BY <2>1, <2>2 DEF Noted
<1> QED BY <1>2, <1>3, <1>4 DEF IsNote

(* The last answer ends the subscribed mode, no other does.                 *)
LEMMA ModeEnds ==
    ASSUME NEW S, NEW pend, NEW F, NEW V, NEW W, NEW G, Ledger(S, pend, F, V, W, G),
           NEW r, r.kind = "unsubscribe", V[0] = {} => r.count = 0
    PROVE  (r.count = 0 /\ DOMAIN S = {} /\ pend = 0) <=> (F = <<>> /\ DOMAIN S = {})
<1>1. Len(F) \in Nat /\ 0 \in 0 .. Len(F) /\ V[0] \subseteq DOMAIN S
  BY LedgerIs
<1>2. ASSUME F = <<>>, DOMAIN S = {} PROVE r.count = 0 /\ pend = 0
  <2>1. Len(F) = 0
    BY <1>2
  <2>2. pend = 0
    BY <2>1 DEF Ledger, LedgerClosed
  <2> QED BY <1>1, <1>2, <2>2
<1>3. ASSUME F # <<>>, DOMAIN S = {}, pend = 0 PROVE FALSE
  <2>1. /\ F[1] \in Note
        /\ F[1].op = "subscribe" => F[1].name \in DOMAIN S
        /\ F[1].op = "unsubscribe" /\ ~F[1].skip => F[1].name \in DOMAIN S
        /\ F[1].skip => pend > 0
    BY <1>3, LedgerHead
  <2>2. F[1].op \in {"subscribe", "unsubscribe"}
    BY <2>1 DEF Note
  <2> QED BY <1>3, <2>1, <2>2
<1> QED BY <1>2, <1>3

(* What is to be sent moves up with the ledger.                             *)
LEMMA AsksShifts ==
    ASSUME NEW O, Len(O) \in Nat, NEW F, NEW V, NEW top, NEW last \in Nat, NEW o, NEW d, NEW open,
           Asks(O, F, V, top, last, o, d, open), o \in 1 .. Len(F),
           NEW F2, NEW V2, FirstGone(F, V, F2, V2)
    PROVE  Asks(O, F2, V2, top, last, o - 1, d, open)
<1>1. PICK b, a : /\ SentBy(O, F, V, top, last, b, a)
                  /\ b[0] = o /\ a[0] = d /\ open = V[o] /\ (open # {} => top <= d)
  BY DEF Asks
<1> DEFINE b2 == [i \in 0 .. Len(O) |-> b[i] - 1]
<1>2. \A i \in 0 .. Len(O) : b2[i] = b[i] - 1
  OBVIOUS
<1>3. b2[0] = o - 1
  BY <1>1
<1> HIDE DEF b2
<1>4. b[0] >= 1
  BY <1>1
<1>5. SentBy(O, F2, V2, top, last, b2, a)
  <2>1. Lowered(Len(O), b, b2)
    BY <1>2 DEF Lowered
  <2> QED BY <1>1, <1>4, <2>1, SentShifts
<1>6. V2[o - 1] = V[o]
  <2>1. o - 1 \in 0 .. Len(F2) /\ (o - 1) + 1 = o
    BY DEF FirstGone
  <2> QED BY <2>1 DEF FirstGone
<1> QED BY <1>1, <1>3, <1>5, <1>6 DEF Asks

(* Outside the subscribed mode it does not matter when it began.            *)
LEMMA TalkAnew ==
    ASSUME NEW S, NEW pend, NEW Q, Len(Q) \in Nat, NEW done, NEW top, NEW last \in Nat,
           NEW O, Len(O) \in Nat, NEW up, NEW open,
           Talk(S, pend, FALSE, Q, done, top, last, O, up, open), NEW top2
    PROVE  Talk(S, pend, FALSE, Q, done, top2, last, O, up, open)
<1>1. PICK F, V, W, G, m, e : Thread(S, pend, FALSE, Q, done, top, last, O, up, open, F, V, W, G, m, e)
  BY DEF Talk
<1>2. /\ Ledger(S, pend, F, V, W, G) /\ F = <<>> /\ DOMAIN S = {}
      /\ HeardBy(Q, F, V, top, last, m, e) /\ m[0] = 0 /\ e[0] = done
      /\ up /\ Clean(Q, Len(Q)) => Asks(O, F, V, top, last, m[Len(Q)], e[Len(Q)], open)
  BY <1>1 DEF Thread
<1>3. Extends(F, V, F, V) /\ last <= last /\ Len(F) = 0
  BY <1>2 DEF Extends
<1>4. ASSUME NEW i \in 1 .. Len(Q), Clean(Q, i - 1), Aside(Q[i]) PROVE top2 <= e[i]
  BY <1>2, <1>4, NothingAside
<1>5. HeardBy(Q, F, V, top2, last, m, e)
  BY <1>2, <1>3, <1>4, HeardMore
<1>6. ASSUME up /\ Clean(Q, Len(Q))
      PROVE  Asks(O, F, V, top2, last, m[Len(Q)], e[Len(Q)], open)
  <2> DEFINE o == m[Len(Q)]
             d == e[Len(Q)]
  <2>a. o \in 0 .. Len(F)
    <3>1. Len(Q) \in 0 .. Len(Q)
      OBVIOUS
    <3> QED BY <1>2, <3>1 DEF HeardBy, Rising
  <2>1. Asks(O, F, V, top, last, o, d, open)
    BY <1>2, <1>6
  <2> HIDE DEF o, d
  <2>2. PICK b, a : /\ SentBy(O, F, V, top, last, b, a)
                    /\ b[0] = o /\ a[0] = d /\ open = V[o]
    BY <2>1 DEF Asks
  <2>3. \A i \in 1 .. Len(O) : IsCall(O[i])
    BY <1>3, <2>2, CallsOnly
  <2>4. SentBy(O, F, V, top2, last, b, a)
    BY <2>2, <2>3, SentMore
  <2>5. open = {}
    BY <1>2, <2>a, <2>2, LedgerIs
  <2>6. Asks(O, F, V, top2, last, o, d, open)
    BY <2>2, <2>4, <2>5 DEF Asks
  <2> QED BY <2>6 DEF o, d
<1>7. Thread(S, pend, FALSE, Q, done, top2, last, O, up, open, F, V, W, G, m, e)
  BY <1>1, <1>5, <1>6 DEF Thread
<1> QED BY <1>7 DEF Talk

(* A confirmation or the answer to an unsubscription is processed.          *)
LEMMA TalkNotes ==
    ASSUME NEW S, NEW pend, NEW mode, NEW T, NEW Q \in Seq(T), Q # <<>>, NEW done,
           NEW top \in Nat, NEW last \in Nat, NEW O, Len(O) \in Nat, NEW up, NEW open,
           Talk(S, pend, mode, Q, done, top, last, O, up, open), IsNote(Q[1]),
           NEW S2, NEW pend2, TakesNote(S, pend, Q[1], S2, pend2),
           NEW mode2 \in BOOLEAN,
           mode2 <=> ~(Q[1].kind = "unsubscribe" /\ Q[1].count = 0 /\ DOMAIN S2 = {} /\ pend2 = 0)
    PROVE  Talk(S2, pend2, mode2, Tail(Q), done, top, last, O, up, open)
<1>1. PICK F, V, W, G, m, e : Thread(S, pend, mode, Q, done, top, last, O, up, open, F, V, W, G, m, e)
  BY DEF Talk
<1>2. /\ Ledger(S, pend, F, V, W, G)
      /\ HeardBy(Q, F, V, top, last, m, e) /\ m[0] = 0 /\ e[0] = done
      /\ up /\ Clean(Q, Len(Q)) => Asks(O, F, V, top, last, m[Len(Q)], e[Len(Q)], open)
  BY <1>1 DEF Thread
<1>0. PICK z \in {0, 1} : z = 1
  OBVIOUS
<1> DEFINE Q2 == Tail(Q)
           m2 == [i \in 0 .. Len(Q2) |-> m[i + 1] - z]
           e2 == [i \in 0 .. Len(Q2) |-> e[i + 1]]
           F2 == Tail(F)
           V2 == Shifted(V, Len(F) - 1)
           W2 == Shifted(W, Len(F) - 1)
           G2 == Shifted(G, Len(F) - 1)
<1>3. /\ Len(Q) \in Nat \ {0} /\ Len(Q2) = Len(Q) - 1 /\ \A i \in 1 .. Len(Q2) : Q2[i] = Q[i + 1]
      /\ Len(Q2) \in Nat
  BY TailIs
<1>4. /\ Hears(Q[1], F, V, top, 0, m[1], done, e[1])
      /\ m[1] \in 0 .. Len(F) /\ e[1] \in 0 .. last
      /\ 1 \in 0 .. Len(Q) /\ Len(Q) \in 0 .. Len(Q) /\ Len(F) \in Nat
  BY <1>1, <1>3, HeadHeard
<1>5. /\ m[1] = 1 /\ e[1] = done /\ F[1].op = Q[1].kind /\ F[1].name = Q[1].name /\ F # <<>>
      /\ Q[1].kind = "unsubscribe" /\ V[1] = {} => Q[1].count = 0
  <2>1. 0 + 1 = 1 /\ ~IsAnswer(Q[1])
    BY DEF IsNote, IsAnswer
  <2>2. m[1] = 1 /\ e[1] = done /\ F[1].op = Q[1].kind /\ F[1].name = Q[1].name
    BY <1>4, <2>1 DEF Hears
  <2>3. Q[1].kind = "unsubscribe" /\ V[1] = {} => Q[1].count = 0
    BY <1>4, <2>2 DEF Hears
  <2>4. Len(F) # 0
    BY <1>4, <2>2
  <2> QED BY <2>2, <2>3, <2>4
<1>6. e[Len(Q)] \in 0 .. last /\ m[Len(Q)] \in 1 .. Len(F)
  <2>1. 1 <= Len(Q)
    BY <1>3
  <2>2. e[Len(Q)] \in 0 .. last /\ m[Len(Q)] \in 0 .. Len(F) /\ m[1] <= m[Len(Q)]
    BY <1>2, <1>4, <2>1 DEF HeardBy, Rising
  <2> QED BY <1>4, <1>5, <2>2
<1>7. m2[0] = 0 /\ e2[0] = done /\ m2[Len(Q2)] = m[Len(Q)] - 1 /\ e2[Len(Q2)] = e[Len(Q)]
  <2>1. 0 \in 0 .. Len(Q2) /\ Len(Q2) \in 0 .. Len(Q2) /\ 0 + 1 = 1 /\ Len(Q2) + 1 = Len(Q)
    BY <1>3
  <2>2. m2[0] = m[1] - z /\ m2[Len(Q2)] = m[Len(Q)] - z /\ e2[0] = e[1] /\ e2[Len(Q2)] = e[Len(Q)]
    BY <2>1
  <2> HIDE DEF m2, e2
  <2> QED BY <1>0, <1>5, <1>6, <2>2
<1>8. m2 = [i \in 0 .. Len(Q2) |-> m[i + 1] - z] /\ e2 = [i \in 0 .. Len(Q2) |-> e[i + 1]]
  OBVIOUS
<1>9. Noted(S, pend, F[1], S2, pend2)
  BY <1>2, <1>5, NoteTaken
<1>10. Ledger(S2, pend2, F2, V2, W2, G2)
  BY <1>2, <1>5, <1>9, LedgerTakes
<1>11. /\ Len(F2) = Len(F) - 1 /\ Len(F2) \in Nat
       /\ \A p \in 1 .. Len(F2) : F2[p] = F[p + 1]
       /\ \A p \in 0 .. Len(F2) : V2[p] = V[p + 1]
  BY <1>2, <1>5, LedgerTail DEF Ledger
<1>12. Q2 = Tail(Q)
  OBVIOUS
<1> HIDE DEF m2, e2, Q2, F2, V2, W2, G2
<1>13. ~Denial(Q[1])
  BY DEF IsNote, Denial
<1>14. HeardBy(Q2, F2, V2, top, last, m2, e2)
  <2>1. m[1] >= z /\ Len(F2) = Len(F) - z
    BY <1>0, <1>5, <1>11
  <2>2. \A p \in 1 .. Len(F2) : F2[p] = F[p + z]
    BY <1>0, <1>11
  <2>3. \A p \in 0 .. Len(F2) : V2[p] = V[p + z]
    BY <1>0, <1>11
  <2>4. HeardBy(Q, F, V, top, last, m, e) /\ Len(F) \in Nat /\ Len(F2) \in Nat
    BY <1>2, <1>4, <1>11
  <2> QED BY <1>3, <1>8, <1>13, <2>1, <2>2, <2>3, <2>4, HeardTail
<1>15. mode2 <=> F2 # <<>> \/ DOMAIN S2 # {}
  <2>1. CASE Q[1].kind = "subscribe"
    <3>1. Q[1].name \in DOMAIN S
      BY <1>2, <1>5, <2>1, LedgerHead
    <3>2. DOMAIN S2 = DOMAIN S
      BY <2>1 DEF TakesNote, Confirmed
    <3> QED BY <2>1, <3>1, <3>2
  <2>2. CASE Q[1].kind = "unsubscribe"
    <3>1. V2[0] = V[1]
      <4>1. 0 \in 0 .. Len(F2) /\ 0 + 1 = 1
        BY <1>11
      <4> QED BY <1>11, <4>1
    <3>2. V2[0] = {} => Q[1].count = 0
      BY <1>5, <2>2, <3>1
    <3>3. (Q[1].count = 0 /\ DOMAIN S2 = {} /\ pend2 = 0) <=> (F2 = <<>> /\ DOMAIN S2 = {})
      BY <1>10, <2>2, <3>2, ModeEnds
    <3> QED BY <2>2, <3>3
  <2> QED BY <2>1, <2>2 DEF IsNote
<1>16. ASSUME up /\ Clean(Q2, Len(Q2))
       PROVE  Asks(O, F2, V2, top, last, m2[Len(Q2)], e2[Len(Q2)], open)
  <2>1. Clean(Q, Len(Q))
    BY <1>12, <1>13, <1>16, CleanTail
  <2>2. Asks(O, F, V, top, last, m[Len(Q)], e[Len(Q)], open)
    BY <1>2, <1>16, <2>1
  <2>3. Asks(O, F2, V2, top, last, m[Len(Q)] - 1, e[Len(Q)], open)
    <3>1. FirstGone(F, V, F2, V2)
      BY <1>4, <1>11 DEF FirstGone
    <3> QED BY <1>6, <2>2, <3>1, AsksShifts
  <2> QED BY <1>7, <2>3
<1>17. Thread(S2, pend2, mode2, Q2, done, top, last, O, up, open, F2, V2, W2, G2, m2, e2)
  BY <1>7, <1>10, <1>14, <1>15, <1>16 DEF Thread
<1> QED BY <1>12, <1>17 DEF Talk

(* When everything is sent and processed, nothing is left open.             *)
LEMMA TalkEnds ==
    ASSUME NEW S, NEW pend, NEW mode, NEW done, NEW top, NEW last \in Nat, NEW open,
           Talk(S, pend, mode, <<>>, done, top, last, <<>>, TRUE, open)
    PROVE  /\ done = last /\ open = DOMAIN S /\ pend = 0 /\ (mode <=> DOMAIN S # {})
           /\ \A n \in DOMAIN S : S[n] = [pending |-> 0, sent |-> FALSE]
<1>0. PICK E : E = <<>>
  OBVIOUS
<1>1. PICK F, V, W, G, m, e : Thread(S, pend, mode, E, done, top, last, E, TRUE, open, F, V, W, G, m, e)
  BY <1>0 DEF Talk
<1>2. Len(E) = 0 /\ Clean(E, Len(E))
  BY <1>0 DEF Clean
<1>3. /\ Ledger(S, pend, F, V, W, G) /\ (mode <=> F # <<>> \/ DOMAIN S # {}) /\ m[0] = 0 /\ e[0] = done
      /\ Asks(E, F, V, top, last, m[Len(E)], e[Len(E)], open)
  BY <1>1, <1>2 DEF Thread
<1>4. PICK b, a : /\ SentBy(E, F, V, top, last, b, a) /\ b[0] = 0 /\ a[0] = done /\ open = V[0]
  BY <1>2, <1>3 DEF Asks
<1>5. Len(F) = 0 /\ done = last
  BY <1>2, <1>4 DEF SentBy
<1>6. open = {n \in DOMAIN S : ~S[n].sent} /\ F = <<>>
  BY <1>3, <1>4, <1>5, LedgerIs
<1>7. pend = 0
  BY <1>3, <1>5 DEF Ledger, LedgerClosed
<1>8. \A n \in DOMAIN S : /\ S[n] \in Subscription /\ S[n].pending \in Nat /\ S[n].sent \in BOOLEAN
                          /\ n \in AllNames
  BY <1>3, LedgerEntries DEF Ledger
<1>9. \A n \in DOMAIN S : S[n].sent = FALSE
  <2> SUFFICES ASSUME NEW n \in DOMAIN S, S[n].sent PROVE FALSE
    BY <1>8
  <2>1. \E p \in 1 .. Len(F) : TRUE
    BY <1>3 DEF Ledger, LedgerMarks
  <2> QED BY <1>5, <2>1
<1>10. \A n \in DOMAIN S : S[n].pending = 0
  BY <1>3, <1>5, <1>8 DEF Ledger, LedgerClosed
<1>11. \A n \in DOMAIN S : S[n] = [pending |-> 0, sent |-> FALSE]
  BY <1>8, <1>9, <1>10 DEF Subscription
<1> QED BY <1>3, <1>5, <1>6, <1>7, <1>9, <1>11

-----------------------------------------------------------------------------
(***************************************************************************)
(* THE TYPES OF THE STREAMS                                                *)
(*                                                                         *)
(* From here on the lemmas are about the steps of the context.  First,     *)
(* the output buffer, the socket and the reader hold commands and          *)
(* replies.                                                                *)
(***************************************************************************)

(* The applications the theorems are about: they do not issue MONITOR, they *)
(* subscribe when no ignored answer is awaited, to names that are all new   *)
(* or to one, and no reply of a command is an array that could be taken for *)
(* a message.                                                               *)
Orderly == /\ Habits \cap {"monitor", "resubscribe", "mixed", "arrays"} = {}
           /\ \A names \in Targets : Distinct(names)

PlainCommand == {c \in Command : c.op # "monitor"}

FlagsInv ==
    /\ flags \subseteq {"connected", "disconnecting", "freeing", "in_callback", "subscribed",
                        "monitoring", "supports_push", "no_auto_free"}
    /\ err \in BOOLEAN /\ attached \in BOOLEAN
    /\ events \subseteq {"read", "write", "timer"}
    /\ pc \in {"idle", "read", "write", "process", "timeout", "callback", "free", "freed", "abort"}
    /\ handler \in {"read", "write", "timeout", "none"}
    /\ sock \in {"connecting", "refused", "up", "dead"}

StreamInv ==
    /\ obuf \in Seq(PlainCommand) /\ reader \in Seq(PlainReply) /\ stream \in Seq(PlainReply)
    /\ served \in SUBSET Names /\ IsFiniteSet(served) /\ monitor = 0

CountInv ==
    /\ issued \in 0 .. MaxCommands /\ calls \in 0 .. MaxReplied /\ published \in 0 .. MaxMessages
    /\ frame \in [at : Frames, id : 0 .. MaxReplied]
    /\ log \in Seq([id : Ids, got : 0 .. MaxReplied])

(* What the application subscribes to.                                      *)
LEMMA TargetNames ==
    ASSUME NEW names \in Targets
    PROVE  names \in Seq(Names)
<1>1. names \in Seq(Channels) \/ names \in Seq(Patterns)
  BY AsyncAssumption
<1>2. Channels \subseteq Names /\ Patterns \subseteq Names
  BY DEF Names
<1>3. ASSUME NEW T, T \subseteq Names, names \in Seq(T) PROVE names \in Seq(Names)
  BY <1>3
<1> QED BY <1>1, <1>2, <1>3

(* What the application issues.                                             *)
LEMMA ApplicationIssues ==
    ASSUME Orderly, CountInv, Application
    PROVE  \/ /\ UNCHANGED <<obuf, reader, serverVars, countVars, log, frame, handler>>
              /\ Disconnect \/ Free
           \/ \E command \in PlainCommand, f \in {flags, flags \cup {"subscribed"}} :
                 /\ IssueCommand(command, f) /\ calls' \in {calls, calls + 1} /\ calls' \in 0 .. MaxReplied
<1>0. "monitor" \notin Habits /\ calls \in 0 .. MaxReplied
  BY DEF Orderly, CountInv
<1>1. CASE Call
  <2>1. calls' = calls + 1 /\ calls < MaxReplied
    BY <1>1 DEF Call
  <2>2. calls' \in Ids /\ calls' \in 0 .. MaxReplied
    BY <1>0, <2>1, AsyncAssumption DEF Ids
  <2>3. PICK op \in {"call"} \cup (Habits \cap {"monitor"}) :
            IssueCommand([op |-> op, id |-> calls'],
                         flags \cup (IF op = "monitor" THEN {"monitoring"} ELSE {}))
    BY <1>1 DEF Call
  <2>4. op = "call"
    BY <1>0
  <2>5. [op |-> op, id |-> calls'] \in PlainCommand
    BY <2>2, <2>4 DEF PlainCommand, Command
  <2>6. flags \cup (IF op = "monitor" THEN {"monitoring"} ELSE {}) = flags
    BY <2>4
  <2> QED BY <2>1, <2>2, <2>3, <2>5, <2>6
<1>2. ASSUME NEW names \in Targets, Subscribe(names) \/ Unsubscribe(names)
      PROVE  \E command \in PlainCommand, f \in {flags, flags \cup {"subscribed"}} :
                IssueCommand(command, f) /\ calls' = calls
  <2>1. names \in Seq(Names)
    BY TargetNames
  <2>2. \A op \in {"subscribe", "unsubscribe"} : [op |-> op, names |-> names] \in PlainCommand
    BY <2>1 DEF PlainCommand, Command
  <2> QED BY <1>2, <2>2 DEF Subscribe, Unsubscribe
<1>3. ASSUME NEW kind \in Kinds, UnsubscribeAll(kind)
      PROVE  \E command \in PlainCommand : IssueCommand(command, flags) /\ calls' = calls
  <2>1. [op |-> "unsubscribe_all", kind |-> kind] \in PlainCommand
    BY DEF PlainCommand, Command
  <2> QED BY <1>3, <2>1 DEF UnsubscribeAll
<1>4. CASE Disconnect \/ Free
  BY <1>4 DEF Disconnect, Free
<1> QED BY <1>0, <1>1, <1>2, <1>3, <1>4 DEF Application

(* The answer to one command.                                               *)
LEMMA AppendTyped ==
    ASSUME NEW T, NEW s \in Seq(T), NEW x \in T PROVE Append(s, x) \in Seq(T)
OBVIOUS
(* A part of a sequence.                                                    *)
LEMMA PartsTyped ==
    ASSUME NEW T, NEW s \in Seq(T), NEW i \in Nat, NEW j \in Nat, i >= 1, j <= Len(s)
    PROVE SubSeq(s, i, j) \in Seq(T)
OBVIOUS

(* redisAsyncWrite: a command leaves the buffer, the server answers it.     *)
LEMMA WriteTyped ==
    ASSUME Orderly, StreamInv, AsyncWrite PROVE StreamInv' /\ UNCHANGED reader
<1>1. CASE obuf = <<>>
  BY <1>1 DEF AsyncWrite, StreamInv
<1>2. CASE obuf # <<>>
  <2>1. PICK answer \in Answers(Head(obuf)) :
            /\ stream' = stream \o answer /\ served' = NamesServed(answer) /\ obuf' = Tail(obuf)
            /\ monitor' = IF Head(obuf).op = "monitor" THEN Head(obuf).id ELSE monitor
            /\ UNCHANGED reader
    BY <1>2 DEF AsyncWrite
  <2>2. Head(obuf) \in PlainCommand /\ Tail(obuf) \in Seq(PlainCommand)
    BY <1>2 DEF StreamInv
  <2>3. Head(obuf) \in Command /\ Head(obuf).op # "monitor" /\ "arrays" \notin Habits
    BY <2>2 DEF PlainCommand, Orderly
  <2>4. answer \in Seq(PlainReply) /\ NamesServed(answer) \in SUBSET Names /\ IsFiniteSet(NamesServed(answer))
    BY <2>3, AnswerTyped DEF StreamInv
  <2>5. stream \o answer \in Seq(PlainReply)
    BY <2>4, Concatenated DEF StreamInv
  <2> QED BY <2>1, <2>2, <2>3, <2>4, <2>5 DEF StreamInv
<1> QED BY <1>1, <1>2

(* What the server sends is of its type.                                    *)
LEMMA ServerTyped ==
    ASSUME Orderly, StreamInv, Server PROVE StreamInv'
<1>1. UNCHANGED <<obuf, reader, served, monitor>>
  BY DEF Server, ServerSends, Establish, Refuse, Drop, SocketBecomes
<1>2. CASE ServerSends
  <2>1. PICK reply \in Unasked : stream' = Append(stream, reply)
    BY <1>2 DEF ServerSends
  <2>2. reply \in PlainReply
    BY DEF Unasked, StreamInv, PlainReply, Reply
  <2>3. stream' \in Seq(PlainReply)
    BY <2>1, <2>2, AppendTyped DEF StreamInv
  <2> QED BY <1>1, <2>3 DEF StreamInv
<1>3. ASSUME NEW old, NEW new, NEW k \in 0 .. Len(stream), SocketBecomes(old, new, k)
      PROVE  stream' \in Seq(PlainReply)
  <2>1. stream' = SubSeq(stream, 1, k) /\ stream \in Seq(PlainReply) /\ k \in Nat
    BY <1>3 DEF SocketBecomes, StreamInv
  <2> QED BY <2>1, PartsTyped
<1>4. 0 \in 0 .. Len(stream)
  BY DEF StreamInv
<1>5. CASE Establish \/ Refuse \/ Drop
  BY <1>1, <1>3, <1>4, <1>5 DEF Establish, Refuse, Drop, StreamInv
<1> QED BY <1>2, <1>5 DEF Server

(* Sequences with the same values are the same.                             *)
LEMMA SameSeq ==
    ASSUME NEW T, NEW s \in Seq(T), NEW t \in Seq(T), Len(s) = Len(t), \A i \in 1 .. Len(s) : s[i] = t[i]
    PROVE  s = t
OBVIOUS

(* Moving a part from one sequence to the end of another.                   *)
LEMMA CutAndJoined ==
    ASSUME NEW T, NEW s \in Seq(T), NEW t \in Seq(T), NEW k \in 0 .. Len(t)
    PROVE  (s \o SubSeq(t, 1, k)) \o SubSeq(t, k + 1, Len(t)) = s \o t
<1> DEFINE a == SubSeq(t, 1, k)
           b == SubSeq(t, k + 1, Len(t))
<1>1. /\ a \in Seq(T) /\ b \in Seq(T) /\ Len(a) = k /\ Len(b) = Len(t) - k
      /\ \A i \in 1 .. k : a[i] = t[i]
      /\ \A i \in 1 .. Len(t) - k : b[i] = t[k + i]
  OBVIOUS
<1> HIDE DEF a, b
<1>2. /\ s \o a \in Seq(T) /\ Len(s \o a) = Len(s) + k /\ Len(s) \in Nat /\ Len(t) \in Nat
      /\ \A i \in 1 .. Len(s) : (s \o a)[i] = s[i]
      /\ \A i \in 1 .. k : (s \o a)[Len(s) + i] = a[i]
  <2>1. s \in Seq(T) /\ a \in Seq(T)
    BY <1>1
  <2>2. /\ s \o a \in Seq(T) /\ Len(s \o a) = Len(s) + Len(a)
        /\ \A i \in 1 .. Len(s) : (s \o a)[i] = s[i]
        /\ \A i \in 1 .. Len(a) : (s \o a)[Len(s) + i] = a[i]
    BY ONLY <2>1, Concatenated
  <2> QED BY <1>1, <2>2
<1> DEFINE u == s \o a
<1> HIDE DEF u
<1>3. /\ u \in Seq(T) /\ Len(u) = Len(s) + k
      /\ \A i \in 1 .. Len(s) : u[i] = s[i]
      /\ \A i \in 1 .. k : u[Len(s) + i] = a[i]
  BY <1>2 DEF u
<1>4. /\ u \o b \in Seq(T) /\ Len(u \o b) = Len(u) + Len(b)
      /\ \A i \in 1 .. Len(u) : (u \o b)[i] = u[i]
      /\ \A i \in 1 .. Len(b) : (u \o b)[Len(u) + i] = b[i]
  <2>1. u \in Seq(T) /\ b \in Seq(T)
    BY <1>1, <1>3
  <2> QED BY ONLY <2>1, Concatenated
<1>5. /\ s \o t \in Seq(T) /\ Len(s \o t) = Len(s) + Len(t)
      /\ \A i \in 1 .. Len(s) : (s \o t)[i] = s[i]
      /\ \A i \in 1 .. Len(t) : (s \o t)[Len(s) + i] = t[i]
  BY Concatenated
<1> DEFINE v == u \o b
           w == s \o t
<1> HIDE DEF v, w
<1>6. /\ v \in Seq(T) /\ Len(v) = Len(s) + Len(t)
      /\ \A i \in 1 .. Len(s) + k : v[i] = u[i]
      /\ \A i \in 1 .. Len(t) - k : v[Len(s) + k + i] = b[i]
  BY <1>1, <1>2, <1>3, <1>4 DEF v
<1>7. /\ w \in Seq(T) /\ Len(w) = Len(s) + Len(t)
      /\ \A i \in 1 .. Len(s) : w[i] = s[i]
      /\ \A i \in 1 .. Len(t) : w[Len(s) + i] = t[i]
  BY <1>5 DEF w
<1>8. ASSUME NEW i \in 1 .. Len(s) + Len(t) PROVE v[i] = w[i]
  <2>1. CASE i <= Len(s)
    BY <1>2, <1>3, <1>6, <1>7, <2>1
  <2>2. CASE i > Len(s) /\ i <= Len(s) + k
    <3>1. i - Len(s) \in 1 .. k /\ i = Len(s) + (i - Len(s)) /\ i - Len(s) \in 1 .. Len(t)
          /\ i \in 1 .. Len(s) + k
      BY <1>2, <2>2
    <3>2. v[i] = u[i] /\ u[i] = a[i - Len(s)] /\ a[i - Len(s)] = t[i - Len(s)]
      BY <1>1, <1>3, <1>6, <3>1
    <3>3. w[i] = t[i - Len(s)]
      BY <1>7, <3>1
    <3> QED BY <3>2, <3>3
  <2>3. CASE i > Len(s) + k
    <3>1. PICK j \in 1 .. Len(t) - k : i = Len(s) + k + j
      <4>1. i - Len(s) - k \in 1 .. Len(t) - k /\ i = Len(s) + k + (i - Len(s) - k)
        BY <1>2, <2>3
      <4> QED BY <4>1
    <3>2. k + j \in 1 .. Len(t) /\ i = Len(s) + (k + j)
      BY <1>2, <3>1
    <3>3. v[i] = b[j] /\ b[j] = t[k + j]
      BY <1>1, <1>6, <3>1
    <3>4. w[i] = t[k + j]
      BY <1>7, <3>2
    <3> QED BY <3>3, <3>4
  <2> QED BY <1>2, <2>1, <2>2, <2>3
<1>9. v = w
  BY <1>6, <1>7, <1>8, SameSeq
<1> QED BY <1>9 DEF a, b, u, v, w

(* redisAsyncRead: nothing is lost, nothing changes its place.              *)
LEMMA ReadTyped ==
    ASSUME StreamInv, NEW k \in 0 .. Len(stream), AsyncRead(k)
    PROVE  StreamInv' /\ reader' \o stream' = reader \o stream
<1>1. reader \in Seq(PlainReply) /\ stream \in Seq(PlainReply) /\ k \in 0 .. Len(stream)
  BY DEF StreamInv
<1>2. reader' = reader \o SubSeq(stream, 1, k) /\ stream' = SubSeq(stream, k + 1, Len(stream))
  BY DEF AsyncRead
<1>3. /\ reader \o SubSeq(stream, 1, k) \in Seq(PlainReply)
      /\ SubSeq(stream, k + 1, Len(stream)) \in Seq(PlainReply)
  BY <1>1
<1>4. (reader \o SubSeq(stream, 1, k)) \o SubSeq(stream, k + 1, Len(stream)) = reader \o stream
  BY <1>1, CutAndJoined
<1>5. UNCHANGED <<obuf, served, monitor>>
  BY DEF AsyncRead
<1> QED BY <1>2, <1>3, <1>4, <1>5 DEF StreamInv

(* A reply is taken from the reader.                                        *)
LEMMA ProcessTyped ==
    ASSUME StreamInv, Process PROVE StreamInv'
<1> DEFINE Taken == UNCHANGED <<obuf, stream, served, monitor>>
                    /\ (reader' = reader \/ (reader # <<>> /\ reader' = Tail(reader)))
<1>1. NoReply => Taken
  BY DEF NoReply, serverVars
<1>2. SpontaneousPush \/ ReplyToCommand \/ SpontaneousError => Taken
  BY DEF SpontaneousPush, ReplyToCommand, SpontaneousError, serverVars
<1>3. \A kinds : ForSubscription(kinds) => Taken
  BY DEF ForSubscription, serverVars
<1>4. Taken
  <2> HIDE DEF Taken
  <2> QED BY <1>1, <1>2, <1>3 DEF Process, ConfirmSubscribe, PubSubMessage, ConfirmUnsubscribe, ReplyWhileSubscribed
<1>5. reader' \in Seq(PlainReply)
  <2>1. reader \in Seq(PlainReply)
    BY DEF StreamInv
  <2>2. reader # <<>> => Tail(reader) \in Seq(PlainReply)
    BY <2>1
  <2> QED BY <1>4, <2>1, <2>2
<1>6. UNCHANGED <<obuf, stream, served, monitor>>
  BY <1>4
<1> HIDE DEF Taken
<1> QED BY <1>5, <1>6 DEF StreamInv

(* Every step keeps the types of the streams.                               *)
LEMMA StreamStep ==
    ASSUME Orderly, StreamInv, CountInv, [Next]_vars PROVE StreamInv'
<1>1. ASSUME UNCHANGED <<obuf, reader, stream, served, monitor>> PROVE StreamInv'
  BY <1>1 DEF StreamInv
<1>2. CASE UNCHANGED vars
  BY <1>1, <1>2 DEF vars, serverVars
<1>3. CASE Application
  <2>1. ASSUME NEW command \in PlainCommand, NEW f, IssueCommand(command, f) PROVE StreamInv'
    <3>1. obuf' = Append(obuf, command) /\ UNCHANGED <<reader, serverVars>>
      BY <2>1 DEF IssueCommand
    <3> QED BY <3>1, AppendTyped DEF StreamInv, serverVars
  <2> QED BY <1>1, <1>3, <2>1, ApplicationIssues DEF serverVars
<1>4. CASE Process
  BY <1>4, ProcessTyped
<1>5. CASE CallbackReturns
  BY <1>1, <1>5 DEF CallbackReturns, ReplyCallbackReturns, PushCallbackReturns, ConnectCallbackReturns,
         RefusedCallbackReturns, TimeoutCallbackReturns, FreeCallbackReturns,
         DisconnectCallbackReturns, KeepData, serverVars
<1>6. CASE FreeStep \/ ReadFails \/ WriteFails \/ TimeoutReplies \/ TimeoutEnds
  BY <1>1, <1>6 DEF FreeStep, FreeReplies, FreeSubscription, FinishFree, ReadFails, WriteFails,
         TimeoutReplies, TimeoutEnds, serverVars
<1>7. CASE AsyncWrite
  BY <1>7, WriteTyped
<1>8. ASSUME NEW k \in 0 .. Len(stream), AsyncRead(k) PROVE StreamInv'
  BY <1>8, ReadTyped
<1>9. CASE Loop
  BY <1>1, <1>9 DEF Loop, HandleTimeout, HandleEvent, serverVars
<1>10. CASE Server
  BY <1>10, ServerTyped
<1> QED BY <1>2, <1>3, <1>4, <1>5, <1>6, <1>7, <1>8, <1>9, <1>10 DEF Next, Library, Transfer

-----------------------------------------------------------------------------
(***************************************************************************)
(* THE TYPES OF THE CONTROL                                                *)
(*                                                                         *)
(* Flags, handlers and events.                                             *)
(***************************************************************************)

(* Steps that do not touch the control.                                     *)
LEMMA FlagsKept ==
    ASSUME FlagsInv, UNCHANGED control, UNCHANGED sock PROVE FlagsInv'
BY DEF FlagsInv, control

(* A callback is called.                                                    *)
LEMMA RunCallbackFlags ==
    ASSUME FlagsInv, NEW at, NEW id, NEW f \in SUBSET (flags \cup {"supports_push", "connected"}),
           RunCallback(at, id, f), err' \in BOOLEAN, handler' \in {"read", "write", "timeout", "none"},
           UNCHANGED <<events, attached, sock>>
    PROVE  FlagsInv'
BY DEF FlagsInv, RunCallback

(* The callback of a reply, if there is one.                                *)
LEMMA ReplyCallbackFlags ==
    ASSUME FlagsInv, NEW at, NEW id, NEW got, NEW f \in SUBSET (flags \cup {"supports_push", "connected"}),
           RunReplyCallback(id, got, at, f), UNCHANGED <<err, handler, events, attached, sock>>
    PROVE  FlagsInv'
<1>1. CASE RunCallback(at, id, f)
  BY <1>1, RunCallbackFlags DEF FlagsInv
<1>2. CASE flags' = f /\ UNCHANGED <<pc, frame>>
  BY <1>2 DEF FlagsInv
<1> QED BY <1>1, <1>2 DEF RunReplyCallback

(* __redisAsyncDisconnect.                                                  *)
LEMMA EnterDisconnectFlags ==
    ASSUME FlagsInv, NEW f \in SUBSET (flags \cup {"disconnecting"}), NEW e \in BOOLEAN, EnterDisconnect(f, e),
           UNCHANGED <<handler, sock>>
    PROVE  FlagsInv'
BY DEF FlagsInv, EnterDisconnect

(* redisAsyncDisconnect.                                                    *)
LEMMA AsyncDisconnectFlags ==
    ASSUME FlagsInv, NEW f \in SUBSET flags, AsyncDisconnect(f), UNCHANGED <<handler, sock>>
    PROVE  FlagsInv'
<1> DEFINE g == (f \cup {"disconnecting"}) \ {"no_auto_free"}
<1>1. g \in SUBSET (flags \cup {"disconnecting"}) /\ err \in BOOLEAN
  BY DEF FlagsInv
<1> HIDE DEF g
<1>2. CASE EnterDisconnect(g, err)
  BY <1>1, <1>2, EnterDisconnectFlags
<1>3. CASE flags' = g /\ pc' = "idle" /\ UNCHANGED <<err, attached, events>>
  BY <1>1, <1>3 DEF FlagsInv
<1> QED BY <1>2, <1>3 DEF AsyncDisconnect, g

(* A command is issued.                                                     *)
LEMMA IssueFlags ==
    ASSUME FlagsInv, NEW command, NEW f \in SUBSET (flags \cup {"subscribed"}), IssueCommand(command, f)
    PROVE  FlagsInv'
<1>1. /\ flags' = f /\ UNCHANGED <<err, attached, pc, handler, sock>>
      /\ events' = Watch({"write"}, f)
  BY DEF IssueCommand, loopVars, serverVars
<1>2. Watch({"write"}, f) \subseteq {"read", "write", "timer"}
  BY DEF Watch, FlagsInv
<1> QED BY <1>1, <1>2 DEF FlagsInv

(* redisProcessCallbacks.                                                   *)
LEMMA ProcessFlags ==
    ASSUME FlagsInv, Process PROVE FlagsInv'
<1>0. SeenFlags \in SUBSET (flags \cup {"supports_push", "connected"})
  BY SeenFlagsType
<1>1. CASE NoReply
  <2>1. UNCHANGED <<handler, sock>> /\ err \in BOOLEAN
    BY <1>1 DEF NoReply, serverVars, FlagsInv
  <2>2. CASE EnterDisconnect(flags, err)
    BY <2>1, <2>2, EnterDisconnectFlags
  <2>3. CASE pc' = "idle" /\ UNCHANGED <<flags, err, attached, events>>
    BY <2>1, <2>3 DEF FlagsInv
  <2> QED BY <1>1, <2>2, <2>3 DEF NoReply
<1>2. CASE SpontaneousPush
  <2>1. RunCallback("push", 0, SeenFlags) /\ UNCHANGED <<err, handler, events, attached, sock>>
    BY <1>2 DEF SpontaneousPush, serverVars
  <2> QED BY <1>0, <2>1, RunCallbackFlags DEF FlagsInv
<1>3. CASE ReplyToCommand
  <2>1. PICK id, got : RunReplyCallback(id, got, "reply", SeenFlags)
    BY <1>3 DEF ReplyToCommand
  <2>2. UNCHANGED <<err, handler, events, attached, sock>>
    BY <1>3 DEF ReplyToCommand, serverVars
  <2> QED BY <1>0, <2>1, <2>2, ReplyCallbackFlags
<1>4. CASE SpontaneousError
  BY <1>4, EnterDisconnectFlags DEF SpontaneousError, serverVars
<1>5. ASSUME NEW kinds, ForSubscription(kinds),
             \/ Abort
             \/ \E f \in {SeenFlags, SeenFlags \ {"subscribed"}} : \E id, got :
                   RunCallback("reply", 0, f) \/ RunReplyCallback(id, got, "reply", f)
                   \/ (flags' = f /\ UNCHANGED <<pc, frame>>)
      PROVE  FlagsInv'
  <2>1. UNCHANGED <<err, handler, events, attached, sock>>
    BY <1>5 DEF ForSubscription, serverVars
  <2>2. CASE Abort
    BY <2>1, <2>2 DEF Abort, FlagsInv
  <2>3. ASSUME NEW f \in {SeenFlags, SeenFlags \ {"subscribed"}}, NEW id, NEW got,
               RunCallback("reply", 0, f) \/ RunReplyCallback(id, got, "reply", f)
               \/ (flags' = f /\ UNCHANGED <<pc, frame>>)
        PROVE  FlagsInv'
    <3>1. f \in SUBSET (flags \cup {"supports_push", "connected"})
      BY <1>0
    <3>2. err \in BOOLEAN /\ handler \in {"read", "write", "timeout", "none"}
      BY DEF FlagsInv
    <3>3. CASE flags' = f /\ UNCHANGED <<pc, frame>>
      BY <2>1, <3>1, <3>3 DEF FlagsInv
    <3>4. CASE RunCallback("reply", 0, f)
      BY <2>1, <3>1, <3>2, <3>4, RunCallbackFlags
    <3>5. CASE RunReplyCallback(id, got, "reply", f)
      BY <2>1, <3>1, <3>5, ReplyCallbackFlags
    <3> QED BY <2>3, <3>3, <3>4, <3>5
  <2> QED BY <1>5, <2>2, <2>3
<1>6. CASE ConfirmSubscribe
  BY <1>5, <1>6 DEF ConfirmSubscribe
<1>7. CASE PubSubMessage
  BY <1>5, <1>7 DEF PubSubMessage
<1>8. CASE ConfirmUnsubscribe
  BY <1>5, <1>8 DEF ConfirmUnsubscribe
<1>9. CASE ReplyWhileSubscribed
  BY <1>5, <1>9 DEF ReplyWhileSubscribed
<1> QED BY <1>1, <1>2, <1>3, <1>4, <1>6, <1>7, <1>8, <1>9 DEF Process

(* A callback returns.                                                      *)
LEMMA ReturnsFlags ==
    ASSUME FlagsInv, ControlInv, CallbackReturns PROVE FlagsInv'
<1>1. UNCHANGED <<handler, sock>>
  BY DEF CallbackReturns, ReplyCallbackReturns, PushCallbackReturns, ConnectCallbackReturns,
         RefusedCallbackReturns, TimeoutCallbackReturns, FreeCallbackReturns,
         DisconnectCallbackReturns, KeepData, serverVars
<1>2. Callee \in SUBSET flags /\ err \in BOOLEAN
  BY DEF Callee, FlagsInv
<1>3. ASSUME NEW next \in {"idle", "process", "read", "write", "timeout", "free", "freed"}, Continue(next)
      PROVE  FlagsInv'
  BY <1>1, <1>2, <1>3 DEF Continue, FlagsInv
<1>4. CASE ConnectCallbackReturns
  <2>1. handler \in {"read", "write"}
    BY <1>4 DEF ConnectCallbackReturns, Returns, ControlInv, ConnectInv
  <2>2. AsyncDisconnect(Callee) \/ \E next \in {"free", "read", "write"} : Continue(next)
    BY <1>4, <2>1 DEF ConnectCallbackReturns
  <2> QED BY <1>1, <1>2, <1>3, <2>2, AsyncDisconnectFlags
<1>5. CASE RefusedCallbackReturns
  <2>1. Continue("timeout") \/ EnterDisconnect(Callee, err)
    BY <1>5 DEF RefusedCallbackReturns
  <2> QED BY <1>1, <1>2, <1>3, <2>1, EnterDisconnectFlags
<1>6. CASE ReplyCallbackReturns \/ PushCallbackReturns \/ TimeoutCallbackReturns \/ FreeCallbackReturns
           \/ DisconnectCallbackReturns
  <2>1. \E next \in {"process", "timeout", "free", "freed"} : Continue(next)
    BY <1>6 DEF ReplyCallbackReturns, PushCallbackReturns, TimeoutCallbackReturns, FreeCallbackReturns,
                DisconnectCallbackReturns
  <2> QED BY <1>3, <2>1
<1> QED BY <1>4, <1>5, <1>6 DEF CallbackReturns

(* The teardown, the transfers and the timeout.                             *)
LEMMA LibraryFlags ==
    ASSUME FlagsInv, FreeStep \/ Transfer \/ TimeoutReplies \/ TimeoutEnds PROVE FlagsInv'
<1>0. /\ flags \in SUBSET (flags \cup {"supports_push", "connected"})
      /\ flags \in SUBSET (flags \cup {"disconnecting"})
      /\ err \in BOOLEAN /\ handler \in {"read", "write", "timeout", "none"} /\ TRUE \in BOOLEAN
  BY DEF FlagsInv
<1>1. CASE FreeReplies \/ TimeoutReplies
  <2>1. \E id, at : RunReplyCallback(id, 0, at, flags)
    BY <1>1 DEF FreeReplies, TimeoutReplies
  <2>2. UNCHANGED <<err, handler, events, attached, sock>>
    BY <1>1 DEF FreeReplies, TimeoutReplies, serverVars
  <2> QED BY <1>0, <2>1, <2>2, ReplyCallbackFlags
<1>2. ASSUME NEW n \in Names, FreeSubscription(n) PROVE FlagsInv'
  <2>1. RunCallback("free", 0, flags) /\ UNCHANGED <<err, handler, events, attached, sock>>
    BY <1>2 DEF FreeSubscription, serverVars
  <2> QED BY <1>0, <2>1, RunCallbackFlags
<1>3. CASE FinishFree
  <2>1. attached' = FALSE /\ events' = {} /\ UNCHANGED <<err, handler, sock>>
    BY <1>3 DEF FinishFree, serverVars
  <2>2. \/ flags' = flags \cup {"in_callback"} /\ pc' = "callback"
        \/ flags' = flags /\ pc' = "freed"
    BY <1>3 DEF FinishFree, RunCallback
  <2> QED BY <2>1, <2>2 DEF FlagsInv
<1>4. CASE ReadFails \/ WriteFails \/ TimeoutEnds
  <2>1. EnterDisconnect(flags, TRUE) /\ UNCHANGED <<handler, sock>>
    BY <1>4 DEF ReadFails, WriteFails, TimeoutEnds, serverVars
  <2> QED BY <1>0, <2>1, EnterDisconnectFlags
<1>5. ASSUME NEW k, AsyncRead(k) PROVE FlagsInv'
  <2>1. events' = Watch({"read"}, flags) /\ pc' = "process" /\ UNCHANGED <<flags, err, attached, handler, sock>>
    BY <1>5 DEF AsyncRead
  <2> QED BY <2>1 DEF Watch, FlagsInv
<1>6. CASE AsyncWrite
  <2>1. pc' = "idle" /\ UNCHANGED <<flags, err, attached, handler, sock>>
    BY <1>6 DEF AsyncWrite
  <2>2. events' \subseteq Watch({"read", "write"}, flags)
    BY <1>6 DEF AsyncWrite, Watch
  <2> QED BY <2>1, <2>2 DEF Watch, FlagsInv
<1> QED BY <1>1, <1>2, <1>3, <1>4, <1>5, <1>6 DEF FreeStep, Transfer

(* The loop and the server.                                                 *)
LEMMA EventFlags ==
    ASSUME FlagsInv, Loop \/ Server PROVE FlagsInv'
<1>1. CASE Server
  <2>1. UNCHANGED control /\ sock' \in {"connecting", "refused", "up", "dead"}
    BY <1>1 DEF Server, ServerSends, Establish, Refuse, Drop, SocketBecomes, control, loopVars, FlagsInv
  <2> QED BY <2>1 DEF FlagsInv, control
<1>2. CASE Loop
  <2>1. UNCHANGED <<events, attached, sock>> /\ handler' \in {"read", "write", "timeout", "none"}
    BY <1>2 DEF Loop, HandleTimeout, HandleEvent, serverVars
  <2>2. err' \in BOOLEAN
    BY <1>2 DEF Loop, HandleTimeout, HandleEvent, FlagsInv
  <2>3. \/ RunCallback("refused", 0, flags)
        \/ RunCallback("connected", 0, flags \cup {"connected"})
        \/ pc' \in {"read", "write", "timeout"} /\ flags' = flags
    BY <1>2 DEF Loop, HandleTimeout, HandleEvent
  <2>4. CASE pc' \in {"read", "write", "timeout"} /\ flags' = flags
    BY <2>1, <2>2, <2>4 DEF FlagsInv
  <2>5. ASSUME NEW at, NEW f \in {flags, flags \cup {"connected"}}, RunCallback(at, 0, f) PROVE FlagsInv'
    <3>1. f \in SUBSET (flags \cup {"supports_push", "connected"})
      OBVIOUS
    <3> QED BY <2>1, <2>2, <2>5, <3>1, RunCallbackFlags
  <2> QED BY <2>3, <2>4, <2>5
<1> QED BY <1>1, <1>2

(* The application.                                                         *)
LEMMA ApplicationFlags ==
    ASSUME FlagsInv, Orderly, CountInv, Application PROVE FlagsInv'
<1>1. ASSUME NEW command, NEW f \in {flags, flags \cup {"subscribed"}}, IssueCommand(command, f) PROVE FlagsInv'
  <2>1. f \in SUBSET (flags \cup {"subscribed"})
    OBVIOUS
  <2> QED BY <1>1, <2>1, IssueFlags
<1>2. CASE Free
  BY <1>2 DEF Free, FlagsInv, serverVars
<1>3. CASE Disconnect
  <2>1. UNCHANGED <<handler, sock>>
    BY <1>3 DEF Disconnect, serverVars
  <2>2. CASE flags' = (flags \cup {"disconnecting"}) \ {"no_auto_free"} /\ UNCHANGED <<err, attached, events, pc>>
    BY <2>1, <2>2 DEF FlagsInv
  <2>3. CASE AsyncDisconnect(flags)
    BY <2>1, <2>3, AsyncDisconnectFlags
  <2> QED BY <1>3, <2>2, <2>3 DEF Disconnect
<1> QED BY <1>1, <1>2, <1>3, ApplicationIssues

(* Every step keeps the types of the control.                               *)
LEMMA FlagsStep ==
    ASSUME FlagsInv, Orderly, CountInv, ControlInv, [Next]_vars PROVE FlagsInv'
<1>1. CASE UNCHANGED vars
  BY <1>1, FlagsKept DEF vars, loopVars, control, serverVars
<1>2. CASE Next
  BY <1>2, ApplicationFlags, ProcessFlags, ReturnsFlags, LibraryFlags, EventFlags DEF Next, Library
<1> QED BY <1>1, <1>2

-----------------------------------------------------------------------------
(***************************************************************************)
(* THE TYPES OF THE COUNTERS                                               *)
(*                                                                         *)
(* Numbers of commands, of messages and of what the log holds.             *)
(***************************************************************************)

(* Steps that count nothing.                                                *)
LEMMA CountKept ==
    ASSUME CountInv, UNCHANGED <<countVars, published, log>>, frame' = frame \/ frame' = NoFrame PROVE CountInv'
<1>1. NoFrame \in [at : Frames, id : 0 .. MaxReplied]
  BY AsyncAssumption DEF NoFrame, Frames
<1> QED BY <1>1 DEF CountInv, countVars

(* The oldest command that waits has the number after those settled.        *)
LEMMA OldestNumber ==
    ASSUME OrderInv, CountInv
    PROVE  /\ replies # <<>> => Head(replies) \in Ids /\ Head(replies) = Len(log) + 1
           /\ subReplies # <<>> => Head(subReplies) \in Ids
           /\ subReplies # <<>> /\ replies = <<>> => Head(subReplies) = Len(log) + 1
<1>1. /\ calls \in 0 .. MaxReplied /\ replies \in Seq(Nat) /\ subReplies \in Seq(Nat) /\ Len(log) \in Nat
      /\ calls = Len(log) + Len(replies) + Len(subReplies) /\ MaxReplied \in Nat
  BY AsyncAssumption, AppendAny DEF OrderInv, CountInv
<1>2. ASSUME replies # <<>> PROVE Head(replies) \in Ids /\ Head(replies) = Len(log) + 1
  <2>1. Len(replies) >= 1 /\ Head(replies) = replies[1] /\ 1 \in 1 .. Len(replies)
    BY <1>1, <1>2
  <2>2. replies[1] = Len(log) + 1
    BY <2>1 DEF OrderInv
  <2>3. Len(log) + 1 \in Ids
    BY <1>1, <2>1 DEF Ids
  <2> QED BY <2>1, <2>2, <2>3
<1>3. ASSUME subReplies # <<>>
      PROVE  Head(subReplies) \in Ids /\ (replies = <<>> => Head(subReplies) = Len(log) + 1)
  <2>1. Len(subReplies) >= 1 /\ Head(subReplies) = subReplies[1] /\ 1 \in 1 .. Len(subReplies)
    BY <1>1, <1>3
  <2>2. subReplies[1] = Len(log) + Len(replies) + 1
    BY <2>1 DEF OrderInv
  <2>3. Len(log) + Len(replies) + 1 \in Ids
    BY <1>1, <2>1 DEF Ids
  <2>4. replies = <<>> => Len(log) + Len(replies) + 1 = Len(log) + 1
    BY <1>1
  <2> QED BY <2>1, <2>2, <2>3, <2>4
<1> QED BY <1>2, <1>3

(* A callback is called.                                                    *)
LEMMA CallbackCount ==
    ASSUME CountInv, NEW at \in Frames, NEW id \in 0 .. MaxReplied, NEW f, RunCallback(at, id, f),
           UNCHANGED <<countVars, published, log>>
    PROVE  CountInv'
BY DEF CountInv, RunCallback, countVars

(* The callback of a reply, if there is one.                                *)
LEMMA ReplyCallbackCount ==
    ASSUME CountInv, NEW at \in Frames, NEW id \in 0 .. MaxReplied, NEW got \in 0 .. MaxReplied, NEW f,
           RunReplyCallback(id, got, at, f), UNCHANGED <<countVars, published>>
    PROVE  CountInv'
<1>1. log' \in Seq([id : Ids, got : 0 .. MaxReplied])
  <2>1. CASE id = 0
    BY <2>1 DEF RunReplyCallback, CountInv
  <2>2. CASE id # 0
    <3>1. [id |-> id, got |-> got] \in [id : Ids, got : 0 .. MaxReplied]
      BY <2>2, AsyncAssumption DEF Ids
    <3>2. log' = Append(log, [id |-> id, got |-> got])
      BY <2>2 DEF RunReplyCallback
    <3> QED BY <3>1, <3>2, AppendTyped DEF CountInv
  <2> QED BY <2>1, <2>2
<1>2. frame' \in [at : Frames, id : 0 .. MaxReplied]
  BY DEF RunReplyCallback, RunCallback, CountInv
<1> QED BY <1>1, <1>2 DEF CountInv, countVars

(* What the first reply of the reader carries.                              *)
LEMMA HeadReply ==
    ASSUME StreamInv, reader # <<>>
    PROVE  /\ Head(reader) \in PlainReply /\ Head(reader) \in Reply /\ Head(reader).kind # "array"
           /\ Head(reader).kind \in {"reply", "error"} => Head(reader).id \in 0 .. MaxReplied
           /\ Head(reader).kind \in {"reply", "error", "subscribe", "unsubscribe", "message", "push"}
           /\ Head(reader).kind \in {"subscribe", "unsubscribe"} =>
                 Head(reader).name \in Names \cup {NoName} /\ Head(reader).count \in Nat
           /\ Head(reader).kind = "message" => Head(reader).name \in Names
<1>1. reader \in Seq(PlainReply)
  BY DEF StreamInv
<1>2. Head(reader) \in PlainReply
  BY <1>1
<1>3. Head(reader) \in Reply /\ Head(reader).kind # "array"
  BY <1>2 DEF PlainReply
<1> HIDE DEF StreamInv
<1> QED BY <1>2, <1>3 DEF Reply

(* redisProcessCallbacks.                                                   *)
LEMMA ProcessCount ==
    ASSUME CountInv, OrderInv, StreamInv, Process PROVE CountInv'
<1>0. 0 \in 0 .. MaxReplied /\ "reply" \in Frames /\ "push" \in Frames
  BY AsyncAssumption DEF Frames
<1>1. CASE NoReply \/ SpontaneousError
  BY <1>1, CountKept DEF NoReply, SpontaneousError, serverVars
<1>2. CASE SpontaneousPush
  <2>1. RunCallback("push", 0, SeenFlags) /\ UNCHANGED <<countVars, published, log>>
    BY <1>2 DEF SpontaneousPush, serverVars
  <2> QED BY <1>0, <2>1, CallbackCount
<1>3. CASE ReplyToCommand
  <2> DEFINE r == Head(reader)
             got == IF r.kind \in {"reply", "array", "error"} THEN r.id ELSE 0
  <2>1. RunReplyCallback(Head(replies), got, "reply", SeenFlags) /\ UNCHANGED <<countVars, published>>
    BY <1>3 DEF ReplyToCommand, serverVars
  <2>2. got \in 0 .. MaxReplied
    BY <1>0, <1>3, HeadReply DEF ReplyToCommand
  <2>3. Head(replies) \in 0 .. MaxReplied
    <3>1. Head(replies) \in Ids
      BY <1>3, OldestNumber DEF ReplyToCommand
    <3> QED BY <3>1 DEF Ids
  <2> HIDE DEF got
  <2> QED BY <1>0, <2>1, <2>2, <2>3, ReplyCallbackCount
<1>4. ASSUME NEW kinds, ForSubscription(kinds),
             \/ Abort
             \/ log' = log /\ \E f : RunCallback("reply", 0, f) \/ (flags' = f /\ UNCHANGED <<pc, frame>>)
      PROVE  CountInv'
  <2>1. UNCHANGED <<countVars, published>>
    BY <1>4 DEF ForSubscription, serverVars
  <2>2. CASE Abort
    BY <2>1, <2>2, CountKept DEF Abort
  <2>3. CASE log' = log /\ frame' = frame
    BY <2>1, <2>3, CountKept
  <2>4. ASSUME NEW f, log' = log, RunCallback("reply", 0, f) PROVE CountInv'
    BY <1>0, <2>1, <2>4, CallbackCount
  <2> QED BY <1>4, <2>2, <2>3, <2>4
<1>5. CASE ConfirmSubscribe
  BY <1>4, <1>5 DEF ConfirmSubscribe
<1>6. CASE PubSubMessage
  BY <1>4, <1>6 DEF PubSubMessage
<1>7. CASE ConfirmUnsubscribe
  BY <1>4, <1>7 DEF ConfirmUnsubscribe
<1>8. CASE ReplyWhileSubscribed
  <2> DEFINE mistaken == TakenForPushed(Head(reader))
             id == IF subReplies = <<>> \/ mistaken THEN 0 ELSE Head(subReplies)
  <2>1. CASE Abort
    BY <1>4, <1>8, <2>1 DEF ReplyWhileSubscribed
  <2>2. CASE RunReplyCallback(id, Head(reader).id, "reply", SeenFlags)
    <3>1. reader # <<>> /\ Head(reader).kind \in {"reply", "array"} /\ UNCHANGED <<countVars, published>>
      BY <1>8 DEF ReplyWhileSubscribed, ForSubscription, serverVars
    <3>2. Head(reader).id \in 0 .. MaxReplied
      BY <3>1, HeadReply
    <3>3. id \in 0 .. MaxReplied
      <4>1. CASE id = 0
        BY <1>0, <4>1
      <4>2. CASE subReplies # <<>> /\ id = Head(subReplies)
        <5>1. Head(subReplies) \in Ids
          BY <4>2, OldestNumber
        <5> QED BY <4>2, <5>1 DEF Ids
      <4> QED BY <4>1, <4>2
    <3> HIDE DEF id
    <3> QED BY <1>0, <2>2, <3>1, <3>2, <3>3, ReplyCallbackCount
  <2> QED BY <1>8, <2>1, <2>2 DEF ReplyWhileSubscribed
<1> QED BY <1>1, <1>2, <1>3, <1>5, <1>6, <1>7, <1>8 DEF Process

(* Returns, the teardown, the transfers and the timeout.                    *)
LEMMA LibraryCount ==
    ASSUME CountInv, OrderInv, CallbackReturns \/ FreeStep \/ Transfer \/ TimeoutReplies \/ TimeoutEnds
    PROVE  CountInv'
<1>0. 0 \in 0 .. MaxReplied /\ "free" \in Frames /\ "timeout" \in Frames /\ "gone" \in Frames
  BY AsyncAssumption DEF Frames
<1>1. CASE CallbackReturns
  <2>1. UNCHANGED <<countVars, published, log>> /\ frame' = NoFrame
    BY <1>1 DEF CallbackReturns, ReplyCallbackReturns, PushCallbackReturns, ConnectCallbackReturns,
         RefusedCallbackReturns, TimeoutCallbackReturns, FreeCallbackReturns,
         DisconnectCallbackReturns, KeepData, serverVars, Returns
  <2> QED BY <2>1, CountKept
<1>2. ASSUME NEW at \in {"free", "timeout"}, NEW from, from \in {replies, subReplies}, from # <<>>,
             RunReplyCallback(Head(from), 0, at, flags), UNCHANGED <<countVars, published>>
      PROVE  CountInv'
  <2>1. Head(from) \in Ids
    BY <1>2, OldestNumber
  <2>2. Head(from) \in 0 .. MaxReplied /\ at \in Frames
    BY <1>0, <2>1 DEF Ids
  <2> QED BY <1>0, <1>2, <2>2, ReplyCallbackCount
<1>3. CASE FreeReplies
  <2> DEFINE from == IF replies # <<>> THEN replies ELSE subReplies
  <2>1. RunReplyCallback(Head(from), 0, "free", flags) /\ UNCHANGED <<countVars, published>>
    BY <1>3 DEF FreeReplies, serverVars
  <2>2. from \in {replies, subReplies} /\ from # <<>>
    <3>1. replies \o subReplies # <<>> /\ replies \in Seq(Nat) /\ subReplies \in Seq(Nat)
      BY <1>3 DEF FreeReplies, OrderInv
    <3> QED BY <3>1
  <2> HIDE DEF from
  <2> QED BY <1>2, <2>1, <2>2
<1>4. CASE TimeoutReplies
  <2>1. replies # <<>> /\ RunReplyCallback(Head(replies), 0, "timeout", flags) /\ UNCHANGED <<countVars, published>>
    BY <1>4 DEF TimeoutReplies, serverVars
  <2> QED BY <1>2, <2>1
<1>5. CASE TimeoutEnds \/ ReadFails \/ WriteFails \/ AsyncWrite
  BY <1>5, CountKept DEF TimeoutEnds, ReadFails, WriteFails, AsyncWrite, serverVars
<1>6. ASSUME NEW k, AsyncRead(k) PROVE CountInv'
  BY <1>6, CountKept DEF AsyncRead
<1>7. ASSUME NEW n, FreeSubscription(n) PROVE CountInv'
  <2>1. RunCallback("free", 0, flags) /\ UNCHANGED <<countVars, published, log>>
    BY <1>7 DEF FreeSubscription, serverVars
  <2> QED BY <1>0, <2>1, CallbackCount
<1>8. CASE FinishFree
  <2>1. UNCHANGED <<countVars, published, log>> /\ (RunCallback("gone", 0, flags) \/ frame' = frame)
    BY <1>8 DEF FinishFree, serverVars
  <2> QED BY <1>0, <2>1, CallbackCount, CountKept
<1> QED BY <1>1, <1>3, <1>4, <1>5, <1>6, <1>7, <1>8 DEF FreeStep, Transfer

(* Every step keeps the types of the counters.                              *)
LEMMA CountStep ==
    ASSUME Orderly, CountInv, OrderInv, StreamInv, [Next]_vars PROVE CountInv'
<1>0. 0 \in 0 .. MaxReplied /\ "refused" \in Frames /\ "connected" \in Frames
  BY AsyncAssumption DEF Frames
<1>1. CASE UNCHANGED vars
  BY <1>1, CountKept DEF vars, serverVars, loopVars
<1>2. CASE Application
  <2>1. ASSUME NEW command, NEW f, IssueCommand(command, f), calls' \in 0 .. MaxReplied PROVE CountInv'
    <3>1. issued' = issued + 1 /\ issued < MaxCommands /\ UNCHANGED <<published, log, frame>>
      BY <2>1 DEF IssueCommand, serverVars, loopVars
    <3>2. issued' \in 0 .. MaxCommands
      BY <3>1, AsyncAssumption DEF CountInv
    <3> QED BY <2>1, <3>1, <3>2 DEF CountInv
  <2>2. CASE UNCHANGED <<serverVars, countVars, log, frame>>
    BY <2>2, CountKept DEF serverVars
  <2> QED BY <1>2, <2>1, <2>2, ApplicationIssues
<1>3. CASE Library
  BY <1>3, ProcessCount, LibraryCount DEF Library
<1>4. CASE Loop
  <2>1. UNCHANGED <<countVars, published, log>>
    BY <1>4 DEF Loop, HandleTimeout, HandleEvent, serverVars
  <2>2. frame' = frame \/ \E at \in {"refused", "connected"} : \E f : RunCallback(at, 0, f)
    BY <1>4 DEF Loop, HandleTimeout, HandleEvent
  <2> QED BY <1>0, <2>1, <2>2, CallbackCount, CountKept
<1>5. CASE Server
  <2>1. UNCHANGED <<countVars, log, frame>> /\ published' \in 0 .. MaxMessages
    BY <1>5, AsyncAssumption DEF Server, ServerSends, Establish, Refuse, Drop, SocketBecomes, CountInv, loopVars
  <2> QED BY <2>1 DEF CountInv, countVars
<1> QED BY <1>1, <1>2, <1>3, <1>4, <1>5 DEF Next

-----------------------------------------------------------------------------
(***************************************************************************)
(* THE FATE OF THE CONNECTION                                              *)
(*                                                                         *)
(* Once an error is set the library is on its way to __redisAsyncFree,     *)
(* and the conversation is over.                                           *)
(***************************************************************************)

(* The connection has not failed and the context is not being freed: the    *)
(* conversation goes on.                                                    *)
Talking == ~err /\ pc \notin {"free", "freed"} /\ frame.at \notin {"free", "gone"}

(* Where the library is once an error is set.                               *)
ErrInv ==
    /\ err => \/ pc \in {"timeout", "free", "freed"}
              \/ pc = "idle" /\ ~attached
              \/ pc = "callback" /\ frame.at \in {"refused", "timeout", "free", "gone"}
    /\ pc = "timeout" \/ frame.at = "timeout" => err

(* Nothing waits when the last callback is called.                          *)
GoneInv == pc = "freed" \/ frame.at = "gone" => replies = <<>> /\ subReplies = <<>>

(* Before the connection is up the server sends nothing.                    *)
EarlyInv == sock \in {"connecting", "refused"} => stream = <<>>

fate == <<err, attached, pc, frame>>

(* __redisAsyncDisconnect: an error leads to the teardown, and the          *)
(* assertion that nothing waits holds where none is set.                    *)
LEMMA Doomed ==
    ASSUME ErrInv, ControlInv, NEW f, NEW e, EnterDisconnect(f, e), e \in {err, TRUE}, UNCHANGED frame,
           pc \notin {"free", "freed"}, frame.at \notin {"free", "gone", "timeout"},
           pc # "callback", replies = <<>> \/ e = TRUE
    PROVE  ErrInv' /\ pc' # "abort" /\ (Talking' => Talking)
BY DEF EnterDisconnect, ErrInv, Talking, ControlInv, FrameInv

(* The application.                                                         *)
LEMMA ApplicationFate ==
    ASSUME ErrInv, ControlInv, Application, pc # "abort" PROVE ErrInv' /\ pc' # "abort" /\ (Talking' => Talking)
<1>1. CASE UNCHANGED fate
  BY <1>1 DEF fate, ErrInv, Talking
<1>2. CASE Free
  BY <1>2 DEF Free, ErrInv, Talking, ControlInv, FrameInv, AppRuns
<1>3. CASE Disconnect
  <2>1. CASE "in_callback" \in flags
    BY <1>1, <1>3, <2>1 DEF Disconnect, fate
  <2>2. CASE "in_callback" \notin flags
    <3>1. pc = "idle" /\ frame.at = "none" /\ AsyncDisconnect(flags) /\ UNCHANGED frame
      BY <1>3, <2>2 DEF Disconnect, ControlInv, FrameInv, AppRuns
    <3>2. CASE replies = <<>>
      BY <3>1, <3>2, Doomed DEF AsyncDisconnect
    <3>3. CASE replies # <<>>
      <4>1. pc' = "idle" /\ UNCHANGED <<err, attached>>
        BY <3>1, <3>3 DEF AsyncDisconnect
      <4> QED BY <3>1, <4>1, <1>1 DEF fate
    <3> QED BY <3>2, <3>3
  <2> QED BY <2>1, <2>2
<1>4. ASSUME NEW command, NEW f, IssueCommand(command, f) PROVE UNCHANGED fate
  BY <1>4 DEF IssueCommand, fate, loopVars
<1> QED
  <2>1. CASE Call
    <3>1. \E command, f : IssueCommand(command, f)
      BY <2>1 DEF Call
    <3> QED BY <1>1, <1>4, <3>1
  <2>2. ASSUME NEW names, Subscribe(names) \/ Unsubscribe(names)
        PROVE \E command, f : IssueCommand(command, f)
    BY <2>2 DEF Subscribe, Unsubscribe
  <2>3. ASSUME NEW kind, UnsubscribeAll(kind)
        PROVE \E command, f : IssueCommand(command, f)
    BY <2>3 DEF UnsubscribeAll
  <2> QED BY <1>1, <1>2, <1>3, <1>4, <2>1, <2>2, <2>3 DEF Application

(* A callback returns.                                                      *)
LEMMA ReturnsFate ==
    ASSUME ErrInv, ControlInv, CallbackReturns PROVE ErrInv' /\ pc' # "abort" /\ (Talking' => Talking)
<1>1. pc = "callback" /\ frame' = NoFrame /\ NoFrame.at = "none"
  BY DEF CallbackReturns, ReplyCallbackReturns, PushCallbackReturns, ConnectCallbackReturns,
         RefusedCallbackReturns, TimeoutCallbackReturns, FreeCallbackReturns,
         DisconnectCallbackReturns, Returns, NoFrame
<1>2. CASE ConnectCallbackReturns
  <2>1. handler \in {"read", "write"} /\ frame.at = "connected" /\ ~err
    BY <1>2 DEF ConnectCallbackReturns, Returns, ControlInv, ConnectInv, ErrInv
  <2>2. AsyncDisconnect(Callee) \/ \E next \in {"free", "read", "write"} : Continue(next)
    BY <1>2, <2>1 DEF ConnectCallbackReturns
  <2>3. pc' \in {"idle", "free", "read", "write"} /\ err' = err
    BY <2>2 DEF AsyncDisconnect, EnterDisconnect, Continue
  <2> QED BY <1>1, <2>1, <2>3 DEF ErrInv, Talking
<1>3. CASE RefusedCallbackReturns
  <2>1. err = TRUE
    BY <1>3 DEF RefusedCallbackReturns, Returns, ControlInv, ConnectInv
  <2>2. \/ pc' = "timeout" /\ UNCHANGED err
        \/ err' = TRUE /\ attached' = FALSE /\ pc' \in {"idle", "free"}
    BY <1>3, <2>1 DEF RefusedCallbackReturns, Continue, EnterDisconnect
  <2> QED BY <1>1, <2>1, <2>2 DEF ErrInv, Talking
<1>4. CASE ReplyCallbackReturns \/ PushCallbackReturns
  <2>1. frame.at \in {"reply", "push"} /\ ~err
    BY <1>4, <1>1 DEF ReplyCallbackReturns, PushCallbackReturns, Returns, ErrInv
  <2>2. pc' \in {"free", "process"} /\ err' = err
    BY <1>4 DEF ReplyCallbackReturns, PushCallbackReturns, Continue
  <2> QED BY <1>1, <2>1, <2>2 DEF ErrInv, Talking
<1>5. CASE TimeoutCallbackReturns \/ FreeCallbackReturns \/ DisconnectCallbackReturns
  <2>1. \/ frame.at = "timeout" /\ pc' = "timeout" /\ err' = err
        \/ frame.at \in {"free", "gone"} /\ pc' \in {"free", "freed"} /\ err' = err
    BY <1>5 DEF TimeoutCallbackReturns, FreeCallbackReturns, DisconnectCallbackReturns, Continue, Returns
  <2> QED BY <1>1, <2>1 DEF ErrInv, Talking
<1> QED BY <1>2, <1>3, <1>4, <1>5 DEF CallbackReturns

(* The teardown.                                                            *)
LEMMA FreeFate ==
    ASSUME ErrInv, ControlInv, FreeStep PROVE ErrInv' /\ pc' # "abort" /\ ~Talking /\ ~Talking'
<1>1. pc = "free" /\ err' = err
  BY DEF FreeStep, FreeReplies, FinishFree, FreeSubscription
<1>2. \/ pc' = "callback" /\ frame'.at \in {"free", "gone"}
      \/ pc' \in {"free", "freed"} /\ frame' = frame
  <2>1. ASSUME NEW at \in {"free", "gone"}, NEW id, NEW f, RunCallback(at, id, f)
        PROVE  pc' = "callback" /\ frame'.at \in {"free", "gone"}
    BY <2>1 DEF RunCallback
  <2>2. CASE FreeReplies
    <3>1. PICK id : RunReplyCallback(id, 0, "free", flags)
      BY <2>2 DEF FreeReplies
    <3>2. CASE RunCallback("free", id, flags)
      BY <2>1, <3>2
    <3>3. CASE UNCHANGED <<pc, frame>>
      BY <1>1, <3>3
    <3> QED BY <3>1, <3>2, <3>3 DEF RunReplyCallback
  <2>3. CASE FinishFree
    BY <2>1, <2>3 DEF FinishFree
  <2>4. ASSUME NEW n, FreeSubscription(n) PROVE pc' = "callback" /\ frame'.at \in {"free", "gone"}
    BY <2>1, <2>4 DEF FreeSubscription
  <2> QED BY <2>2, <2>3, <2>4 DEF FreeStep
<1>3. frame.at = "none"
  BY <1>1 DEF ControlInv, FrameInv
<1>4. ~Talking' /\ pc' # "abort"
  BY <1>2 DEF Talking
<1>5. ErrInv'
  BY <1>1, <1>2, <1>3 DEF ErrInv
<1> QED BY <1>1, <1>4, <1>5 DEF Talking

(* The transfers, the timeout, the loop and the server.                     *)
LEMMA EventFate ==
    ASSUME ErrInv, ControlInv, Transfer \/ TimeoutReplies \/ TimeoutEnds \/ Loop \/ Server, pc # "abort"
    PROVE  ErrInv' /\ pc' # "abort" /\ (Talking' => Talking)
<1>1. CASE UNCHANGED fate
  BY <1>1 DEF fate, ErrInv, Talking
<1>2. CASE Server
  BY <1>1, <1>2 DEF Server, ServerSends, Establish, Refuse, Drop, SocketBecomes, fate, loopVars
<1>3. CASE TimeoutEnds \/ ReadFails \/ WriteFails
  <2>1. pc \in {"timeout", "read", "write"} /\ EnterDisconnect(flags, TRUE) /\ UNCHANGED frame
    BY <1>3 DEF TimeoutEnds, ReadFails, WriteFails
  <2>2. frame.at = "none"
    BY <2>1 DEF ControlInv, FrameInv
  <2> QED BY <2>1, <2>2, Doomed
<1>4. CASE AsyncWrite
  <2>1. pc = "write" /\ pc' = "idle" /\ UNCHANGED <<err, attached, frame>>
    BY <1>4 DEF AsyncWrite
  <2> QED BY <2>1 DEF ErrInv, Talking, ControlInv, FrameInv
<1>5. ASSUME NEW k, AsyncRead(k) PROVE ErrInv' /\ pc' # "abort" /\ (Talking' => Talking)
  <2>1. pc = "read" /\ pc' = "process" /\ UNCHANGED <<err, attached, frame>>
    BY <1>5 DEF AsyncRead
  <2> QED BY <2>1 DEF ErrInv, Talking, ControlInv, FrameInv
<1>6. CASE TimeoutReplies
  <2>1. pc = "timeout" /\ UNCHANGED err
    BY <1>6 DEF TimeoutReplies
  <2>2. \/ pc' = "callback" /\ frame'.at = "timeout"
        \/ pc' = "timeout" /\ frame' = frame
    BY <1>6, <2>1 DEF TimeoutReplies, RunReplyCallback, RunCallback
  <2> QED BY <2>1, <2>2 DEF ErrInv, Talking, ControlInv, FrameInv
<1>7. CASE HandleTimeout
  <2>1. pc = "idle" /\ err' = TRUE /\ "timer" \in events
    BY <1>7 DEF HandleTimeout
  <2>2. \/ pc' = "timeout" /\ UNCHANGED frame
        \/ pc' = "callback" /\ frame'.at = "refused"
    BY <1>7 DEF HandleTimeout, RunCallback
  <2> QED BY <2>1, <2>2 DEF ErrInv, Talking
<1>8. ASSUME NEW what \in {"read", "write"}, HandleEvent(what)
      PROVE  ErrInv' /\ pc' # "abort" /\ (Talking' => Talking)
  <2>1. pc = "idle" /\ attached /\ ~err /\ frame.at = "none"
    <3>1. pc = "idle" /\ what \in events
      BY <1>8 DEF HandleEvent, Ready
    <3> QED BY <3>1 DEF ErrInv, ControlInv, EndInv, FrameInv
  <2>2. \/ pc' = what /\ UNCHANGED <<err, frame>>
        \/ pc' = "callback" /\ frame'.at = "refused" /\ err' = TRUE
        \/ pc' = "callback" /\ frame'.at = "connected" /\ err' = err
    BY <1>8 DEF HandleEvent, RunCallback
  <2> QED BY <2>1, <2>2 DEF ErrInv, Talking
<1> QED BY <1>2, <1>3, <1>4, <1>5, <1>6, <1>7, <1>8 DEF Transfer, Loop

(* While replies are processed the conversation goes on.                    *)
LEMMA ProcessTalks ==
    ASSUME ErrInv, ControlInv, pc = "process" PROVE Talking /\ frame.at = "none"
BY DEF ErrInv, Talking, ControlInv, FrameInv

(* Every step keeps that.                                                   *)
LEMMA EarlyStep ==
    ASSUME EarlyInv, StreamInv, [Next]_vars PROVE EarlyInv'
<1>1. CASE UNCHANGED <<sock, stream>>
  BY <1>1 DEF EarlyInv
<1>2. CASE UNCHANGED vars \/ Application \/ Process \/ CallbackReturns \/ FreeStep \/ TimeoutReplies
           \/ TimeoutEnds \/ ReadFails \/ WriteFails \/ Loop
  <2>1. UNCHANGED serverVars
    BY <1>2 DEF vars, Application, Call, Subscribe, Unsubscribe, UnsubscribeAll, IssueCommand, Disconnect, Free,
       Process, NoReply, SpontaneousPush, ReplyToCommand, SpontaneousError, ConfirmSubscribe, PubSubMessage,
       ConfirmUnsubscribe, ReplyWhileSubscribed, ForSubscription,
       CallbackReturns, ReplyCallbackReturns, PushCallbackReturns, ConnectCallbackReturns,
       RefusedCallbackReturns, TimeoutCallbackReturns, FreeCallbackReturns,
       DisconnectCallbackReturns, KeepData, FreeStep, FreeReplies, FreeSubscription, FinishFree,
       TimeoutReplies, TimeoutEnds, ReadFails, WriteFails, Loop, HandleTimeout, HandleEvent
  <2> QED BY <1>1, <2>1 DEF serverVars
<1>3. CASE AsyncWrite
  BY <1>1, <1>3 DEF AsyncWrite, EarlyInv
<1>4. ASSUME NEW k, AsyncRead(k) PROVE EarlyInv'
  BY <1>4 DEF AsyncRead, EarlyInv
<1>5. ASSUME NEW old, NEW new, NEW k \in {0} \cup (0 .. Len(stream)), SocketBecomes(old, new, k), k = 0 \/ new = "dead"
      PROVE  EarlyInv'
  <2>1. stream \in Seq(PlainReply) /\ sock' = new /\ stream' = SubSeq(stream, 1, k)
    BY <1>5 DEF StreamInv, SocketBecomes
  <2>2. SubSeq(stream, 1, 0) = <<>>
    BY <2>1
  <2> QED BY <1>5, <2>1, <2>2 DEF EarlyInv
<1>6. CASE Server
  <2>1. ServerSends => sock = "up" /\ UNCHANGED sock
    BY DEF ServerSends
  <2> QED BY <1>5, <1>6, <2>1 DEF Server, Establish, Refuse, Drop, EarlyInv
<1> QED BY <1>2, <1>3, <1>4, <1>6 DEF Next, Library, Transfer

-----------------------------------------------------------------------------
(***************************************************************************)
(* THE APPLICATION TALKS                                                   *)
(*                                                                         *)
(* The commands of the application keep the conversation.                  *)
(***************************************************************************)

Mode == "subscribed" \in flags
Heard == reader \o stream
Direct == Len(log) + Len(replies)
Linked == sock # "dead"

Conversation ==
    Talk(subs, pendingUnsubs, Mode, Heard, Len(log), Direct, calls, obuf, Linked, served)

TalkInv == Talking => Conversation

GotInv == Talking => \A i \in 1 .. Len(log) : log[i].got # 0

SubsInv ==
    /\ subs \in [DOMAIN subs -> Subscription] /\ DOMAIN subs \subseteq Names
    /\ pendingUnsubs \in Nat

DataInv == StreamInv /\ CountInv /\ SubsInv /\ OrderInv

(* What is known of the numbers that the conversation is about.             *)
LEMMA Numbers ==
    ASSUME DataInv
    PROVE  /\ Heard \in Seq(PlainReply) /\ Len(Heard) \in Nat
           /\ Len(log) \in Nat /\ Direct \in Nat /\ calls \in Nat /\ Direct <= calls
           /\ obuf \in Seq(PlainCommand) /\ obuf \in Seq(Command) /\ Len(obuf) \in Nat
           /\ Mode \in BOOLEAN /\ Linked \in BOOLEAN
           /\ calls = Direct + Len(subReplies) /\ Direct = Len(log) + Len(replies)
           /\ Len(replies) \in Nat /\ Len(subReplies) \in Nat
<1>1. reader \in Seq(PlainReply) /\ stream \in Seq(PlainReply) /\ obuf \in Seq(PlainCommand)
  BY DEF DataInv, StreamInv
<1>2. Heard \in Seq(PlainReply)
  BY <1>1, Concatenated DEF Heard
<1>3. /\ calls = Len(log) + Len(replies) + Len(subReplies)
      /\ replies \in Seq(Nat) /\ subReplies \in Seq(Nat) /\ calls \in Nat
  BY DEF DataInv, OrderInv
<1>4. Len(log) \in Nat /\ Len(replies) \in Nat /\ Len(subReplies) \in Nat
  <2>1. IsSeq(log)
    BY DEF DataInv, OrderInv
  <2> QED BY <1>3, <2>1, AppendAny
<1>5. PlainCommand \subseteq Command
  BY DEF PlainCommand
<1>6. obuf \in Seq(Command)
  BY <1>1, <1>5
<1>7. Len(Heard) \in Nat /\ Len(obuf) \in Nat
  BY <1>1, <1>2
<1> QED BY <1>1, <1>2, <1>3, <1>4, <1>6, <1>7 DEF Direct, Mode, Linked

(* Steps that say nothing.                                                  *)
LEMMA TalkKept ==
    ASSUME Conversation, UNCHANGED <<subs, pendingUnsubs, replies, calls, obuf, served, log>>,
           Heard' = Heard, Mode' <=> Mode, Linked' <=> Linked
    PROVE  Conversation'
<1>1. Mode \in BOOLEAN /\ Mode' \in BOOLEAN /\ Linked \in BOOLEAN /\ Linked' \in BOOLEAN
  BY DEF Mode, Linked
<1>2. Mode' = Mode /\ Linked' = Linked
  BY <1>1
<1>3. Direct' = Direct
  BY DEF Direct
<1> QED BY <1>2, <1>3 DEF Conversation

(* A command is put into the output buffer.                                 *)
LEMMA IssuedTalk ==
    ASSUME NEW command, NEW f, IssueCommand(command, f)
    PROVE  /\ obuf' = Append(obuf, command) /\ Heard' = Heard /\ Linked' = Linked
           /\ UNCHANGED <<log, served>> /\ flags' = f
BY DEF IssueCommand, serverVars, Heard, Linked

(* A command with a reply.                                                  *)
LEMMA CallTalks ==
    ASSUME Orderly, DataInv, Call, Conversation PROVE Conversation'
<1>0. "monitor" \notin Habits
  BY DEF Orderly
<1>1. PICK op \in {"call"} \cup (Habits \cap {"monitor"}) :
          /\ IF "subscribed" \in flags /\ op = "call"
             THEN subReplies' = Append(subReplies, calls') /\ UNCHANGED replies
             ELSE replies' = Append(replies, calls') /\ UNCHANGED subReplies
          /\ IssueCommand([op |-> op, id |-> calls'],
                          flags \cup (IF op = "monitor" THEN {"monitoring"} ELSE {}))
  BY DEF Call
<1>2. op = "call" /\ flags \cup (IF op = "monitor" THEN {"monitoring"} ELSE {}) = flags
  BY <1>0
<1> DEFINE c == [op |-> "call", id |-> calls']
<1>3. /\ obuf' = Append(obuf, c) /\ Heard' = Heard /\ Linked' = Linked
      /\ UNCHANGED <<log, served>> /\ flags' = flags
  BY <1>1, <1>2, IssuedTalk
<1>4. calls' = calls + 1 /\ calls < MaxReplied /\ UNCHANGED <<subs, pendingUnsubs>>
  BY DEF Call
<1>5. calls' \in Ids
  BY <1>4, AsyncAssumption, Numbers DEF Ids
<1>6. c \in PlainCommand /\ IsCall(c) /\ c.id = calls + 1
  BY <1>4, <1>5 DEF PlainCommand, Command, IsCall
<1> HIDE DEF c
<1>7. Mode' = Mode
  BY <1>3 DEF Mode
<1>8. Mode => Direct' = Direct
  BY <1>1, <1>2, <1>3 DEF Mode, Direct
<1>9. Talk(subs, pendingUnsubs, Mode, Heard, Len(log), Direct', calls + 1, Append(obuf, c), Linked, served)
  <2> HIDE DEF c
  <2> DEFINE top2 == Direct'
  <2>1. Mode => top2 = Direct
    BY <1>8
  <2> HIDE DEF top2
  <2>2. Talk(subs, pendingUnsubs, Mode, Heard, Len(log), Direct, calls, obuf, Linked, served)
    BY DEF Conversation
  <2>3. Talk(subs, pendingUnsubs, Mode, Heard, Len(log), top2, calls + 1, Append(obuf, c), Linked, served)
    BY <1>6, <2>1, <2>2, Numbers, TalkCalls
  <2> QED BY <2>3 DEF top2
<1> QED BY <1>3, <1>4, <1>7, <1>9 DEF Conversation

(* A command that is about subscriptions, given what it adds to the ledger. *)
LEMMA GrowsTalks ==
    ASSUME DataInv, Conversation, NEW c \in PlainCommand, ~IsCall(c),
           NEW f, "subscribed" \in f, IssueCommand(c, f), UNCHANGED <<replies, calls>>,
           Grows(subs, pendingUnsubs, subs', pendingUnsubs', c)
    PROVE  Conversation'
<1>1. /\ obuf' = Append(obuf, c) /\ Heard' = Heard /\ Linked' = Linked
      /\ UNCHANGED <<log, served>> /\ flags' = f
  BY IssuedTalk
<1>2. Mode' = TRUE /\ Direct' = Direct
  BY <1>1 DEF Mode, Direct
<1> DEFINE S2 == subs'
           pend2 == pendingUnsubs'
<1>3. Grows(subs, pendingUnsubs, S2, pend2, c)
  OBVIOUS
<1> HIDE DEF S2, pend2
<1>4. Talk(S2, pend2, TRUE, Heard, Len(log), Direct, calls, Append(obuf, c), Linked, served)
  <2>1. Talk(subs, pendingUnsubs, Mode, Heard, Len(log), Direct, calls, obuf, Linked, served)
    BY DEF Conversation
  <2> QED BY <1>3, <2>1, Numbers, TalkGrows
<1> QED BY <1>1, <1>2, <1>4 DEF Conversation, S2, pend2

(* What an orderly application subscribes to.                               *)
LEMMA OrderlyTarget ==
    ASSUME Orderly, NEW names \in Targets
    PROVE  names \in Seq(Names) /\ Distinct(names)
BY TargetNames DEF Orderly

(* SUBSCRIBE.                                                               *)
LEMMA SubscribeTalks ==
    ASSUME Orderly, DataInv, NEW names \in Targets, Subscribe(names)
    PROVE  SubsInv' /\ (Conversation => Conversation')
<1>0. "mixed" \notin Habits /\ "resubscribe" \notin Habits
  BY DEF Orderly
<1>1. /\ names # <<>> /\ pendingUnsubs = 0 /\ subs' = Subscribed(names)
      /\ Len(names) = 1 \/ Range(names) \cap DOMAIN subs = {}
      /\ UNCHANGED <<replies, calls, pendingUnsubs>>
      /\ IssueCommand([op |-> "subscribe", names |-> names], flags \cup {"subscribed"})
  BY <1>0 DEF Subscribe
<1>2. names \in Seq(Names) /\ Distinct(names)
  BY OrderlyTarget
<1>3. /\ Renewed(subs, names, Subscribed(names))
      /\ Subscribed(names) \in [DOMAIN subs \cup Range(names) -> Subscription]
  BY <1>1, <1>2, SubscribedRenews DEF DataInv, SubsInv
<1>4. Range(names) \subseteq Names
  BY <1>2 DEF Range
<1>5. SubsInv'
  <2>1. DOMAIN subs' = DOMAIN subs \cup Range(names)
    BY <1>1, <1>3
  <2>2. DOMAIN subs' \subseteq Names
    BY <1>4, <2>1 DEF DataInv, SubsInv
  <2> QED BY <1>1, <1>3, <2>1, <2>2 DEF SubsInv
<1> DEFINE c == [op |-> "subscribe", names |-> names]
<1>6. c \in PlainCommand /\ ~IsCall(c) /\ c.op = "subscribe" /\ c.names = names
  BY <1>2 DEF PlainCommand, Command, IsCall
<1> HIDE DEF c
<1>7. Grows(subs, 0, subs', 0, c)
  BY <1>1, <1>2, <1>3, <1>6, SubscribeGrows
<1>8. IssueCommand(c, flags \cup {"subscribed"}) /\ "subscribed" \in flags \cup {"subscribed"}
  BY <1>1 DEF c
<1>9. Grows(subs, pendingUnsubs, subs', pendingUnsubs', c)
  BY <1>1, <1>7
<1> QED BY <1>1, <1>5, <1>6, <1>8, <1>9, GrowsTalks

(* UNSUBSCRIBE with names.                                                  *)
LEMMA UnsubscribeTalks ==
    ASSUME Orderly, DataInv, NEW names \in Targets, Unsubscribe(names)
    PROVE  SubsInv' /\ (Conversation => Conversation')
<1>1. /\ names # <<>> /\ "subscribed" \in flags
      /\ subs' = Unsubscribed(names).subs /\ pendingUnsubs' = Unsubscribed(names).ignore
      /\ UNCHANGED <<replies, calls>>
      /\ IssueCommand([op |-> "unsubscribe", names |-> names], flags)
  BY DEF Unsubscribe
<1>2. names \in Seq(Names) /\ Distinct(names)
  BY OrderlyTarget
<1>3. PICK ig : /\ Ignored(subs, pendingUnsubs, names, ig)
                /\ Unsubscribed(names).ignore = ig[Len(names)]
                /\ Marked(subs, names, Unsubscribed(names).subs)
                /\ Unsubscribed(names).subs \in [DOMAIN subs -> Subscription]
  <2>1. subs \in [DOMAIN subs -> Subscription] /\ pendingUnsubs \in Nat
    BY DEF DataInv, SubsInv
  <2> QED BY <1>2, <2>1, UnsubscribedMarks
<1>4. SubsInv'
  <2>1. DOMAIN subs' = DOMAIN subs
    BY <1>1, <1>3
  <2>2. ig[Len(names)] \in Nat
    <3>1. Len(names) \in 0 .. Len(names)
      BY <1>2
    <3> QED BY <1>3, <3>1 DEF Ignored
  <2> QED BY <1>1, <1>3, <2>1, <2>2 DEF SubsInv, DataInv
<1> DEFINE c == [op |-> "unsubscribe", names |-> names]
<1>5. c \in PlainCommand /\ ~IsCall(c) /\ c.op # "subscribe" /\ c.op # "unsubscribe_all" /\ c.names = names
  BY <1>2 DEF PlainCommand, Command, IsCall
<1>6. IssueCommand(c, flags)
  BY <1>1
<1> HIDE DEF c
<1>7. \A open : open = {n \in DOMAIN subs : ~subs[n].sent} => AnsweredNames(c, open) = names
  BY <1>5, AnsweredIs
<1>8. names \in Seq(AllNames)
  <2>1. Names \subseteq AllNames
    BY DEF AllNames
  <2> QED BY <1>2, <2>1
<1> DEFINE S2 == Unsubscribed(names).subs
<1>9. Marked(subs, names, S2)
  BY <1>3
<1> HIDE DEF S2
<1>10. Grows(subs, pendingUnsubs, S2, ig[Len(names)], c)
  BY <1>1, <1>2, <1>3, <1>5, <1>7, <1>8, <1>9, UnsubscribeGrows
<1>11. Grows(subs, pendingUnsubs, subs', pendingUnsubs', c)
  BY <1>1, <1>3, <1>10 DEF S2
<1> QED BY <1>1, <1>4, <1>5, <1>6, <1>11, GrowsTalks

(* The client has finitely many entries.                                    *)
LEMMA TalkIsFinite ==
    ASSUME NEW S, NEW pend, NEW mode, NEW Q, NEW done, NEW top, NEW last, NEW O, NEW up, NEW open,
           Talk(S, pend, mode, Q, done, top, last, O, up, open)
    PROVE  IsFiniteSet(DOMAIN S)
<1>1. PICK F, V, W, G, m, e : Thread(S, pend, mode, Q, done, top, last, O, up, open, F, V, W, G, m, e)
  BY DEF Talk
<1>2. Ledger(S, pend, F, V, W, G)
  BY <1>1 DEF Thread
<1> QED BY <1>2, LedgerIs

(* UNSUBSCRIBE without names: every entry of the kind is marked, and the    *)
(* server will answer for the same names.                                   *)
LEMMA UnsubscribeAllTalks ==
    ASSUME DataInv, NEW kind \in Kinds, UnsubscribeAll(kind)
    PROVE  SubsInv' /\ (Conversation => Conversation')
<1> DEFINE open == {n \in DOMAIN subs \cap kind : ~subs[n].sent}
           c == [op |-> "unsubscribe_all", kind |-> kind]
<1>1. /\ "subscribed" \in flags
      /\ subs' = [n \in DOMAIN subs |-> [subs[n] EXCEPT !.sent = @ \/ n \in open]]
      /\ pendingUnsubs' = IF open = {} THEN pendingUnsubs + 1 ELSE pendingUnsubs
      /\ UNCHANGED <<replies, calls>> /\ IssueCommand(c, flags)
  BY DEF UnsubscribeAll
<1>2. subs \in [DOMAIN subs -> Subscription] /\ DOMAIN subs \subseteq Names /\ pendingUnsubs \in Nat
  BY DEF DataInv, SubsInv
<1>3. c \in PlainCommand /\ ~IsCall(c) /\ c.op = "unsubscribe_all" /\ c.kind = kind
  BY DEF PlainCommand, Command, IsCall
<1>4. DOMAIN subs' = DOMAIN subs
  BY <1>1
<1>5. ASSUME NEW n \in DOMAIN subs
      PROVE  subs'[n] \in Subscription /\ subs'[n].pending = subs[n].pending
             /\ subs'[n].sent = (subs[n].sent \/ n \in open)
  <2>1. subs[n] \in Subscription
    BY <1>2
  <2>2. subs'[n] = [subs[n] EXCEPT !.sent = @ \/ n \in open]
    BY <1>1
  <2> HIDE DEF open
  <2> QED BY <2>1, <2>2 DEF Subscription
<1>6. SubsInv'
  <2>1. subs' \in [DOMAIN subs' -> Subscription]
    BY <1>1, <1>4, <1>5
  <2>2. pendingUnsubs' \in Nat
    BY <1>1, <1>2
  <2> QED BY <1>2, <1>4, <2>1, <2>2 DEF SubsInv
<1>7. \A o : o = {n \in DOMAIN subs : ~subs[n].sent} => o \cap kind = open
  OBVIOUS
<1> DEFINE S2 == subs'
<1>8. /\ DOMAIN S2 = DOMAIN subs
      /\ \A n \in DOMAIN subs : S2[n] \in Subscription /\ S2[n].pending = subs[n].pending
             /\ S2[n].sent = (subs[n].sent \/ n \in open)
  BY <1>4, <1>5
<1> HIDE DEF S2, c
<1>9. ASSUME Conversation PROVE Conversation'
  <2>1. \E ig, names : /\ names \in Seq(AllNames) /\ names # <<>> /\ Distinct(names)
                       /\ Ignored(subs, pendingUnsubs, names, ig) /\ Marked(subs, names, S2)
                       /\ pendingUnsubs' = ig[Len(names)]
                       /\ \A o : o = {n \in DOMAIN subs : ~subs[n].sent} => AnsweredNames(c, o) = names
    <3>1. CASE open = {}
      <4> DEFINE names == <<NoName>>
                 ig == [x \in 0 .. 1 |-> pendingUnsubs + x]
      <4>1. NoName \in AllNames /\ NoName \notin Names
        BY AsyncAssumption DEF AllNames, Names
      <4>2. names \in Seq(AllNames) /\ names # <<>> /\ Len(names) = 1 /\ names[1] = NoName
        BY <4>1
      <4>3. Range(names) = {NoName}
        <5>1. DOMAIN names = 1 .. 1
          OBVIOUS
        <5>2. \A i \in 1 .. 1 : i = 1
          OBVIOUS
        <5> QED BY <4>2, <5>1, <5>2 DEF Range
      <4>4. ig[0] = pendingUnsubs /\ ig[1] = pendingUnsubs + 1
        BY <1>2
      <4> HIDE DEF names, ig
      <4>5. \A i \in 0 .. 1 : i = 0 \/ i = 1
        OBVIOUS
      <4>6. Distinct(names)
        BY <4>2 DEF Distinct
      <4>7. ~Open(subs, NoName)
        BY <1>2, <4>1 DEF Open
      <4>8. Ignored(subs, pendingUnsubs, names, ig)
        BY <1>2, <4>2, <4>4, <4>5, <4>7 DEF Ignored
      <4>9. Marked(subs, names, S2)
        <5>1. \A n \in DOMAIN subs : n \notin Range(names) /\ n \notin open
          BY <1>2, <3>1, <4>1, <4>3
        <5> HIDE DEF open
        <5> QED BY <1>8, <5>1 DEF Marked
      <4>10. pendingUnsubs' = ig[Len(names)]
        BY <1>1, <3>1, <4>2, <4>4
      <4>11. \A o : o = {n \in DOMAIN subs : ~subs[n].sent} => AnsweredNames(c, o) = names
        <5>1. \A o : o = {n \in DOMAIN subs : ~subs[n].sent} => o \cap c.kind = {}
          BY <1>3, <1>7, <3>1
        <5> QED BY <1>3, <5>1, AnsweredIs DEF names
      <4> QED BY <4>2, <4>6, <4>8, <4>9, <4>10, <4>11
    <3>2. CASE open # {}
      <4> DEFINE names == SetToSeq(open)
                 ig == [x \in 0 .. Len(names) |-> pendingUnsubs]
      <4>1. IsFiniteSet(open)
        <5>1. IsFiniteSet(DOMAIN subs)
          BY <1>9, TalkIsFinite DEF Conversation
        <5> QED BY <5>1, FS_Subset
      <4>2. /\ names \in Seq(open) /\ Distinct(names) /\ Range(names) = open
        <5> HIDE DEF open
        <5> QED BY <4>1, Listed
      <4>3. open \subseteq AllNames
        BY <1>2 DEF AllNames
      <4>a. c.op = "unsubscribe_all" /\ \A o : o = {n \in DOMAIN subs : ~subs[n].sent} => o \cap c.kind = open
        BY <1>3, <1>7
      <4>b. \A n \in open : Open(subs, n)
        BY DEF Open
      <4> HIDE DEF open
      <4>4. names \in Seq(AllNames) /\ Len(names) \in Nat
        BY <4>2, <4>3
      <4>5. names # <<>>
        <5>1. names = <<>> => Range(names) = {}
          BY DEF Range
        <5> QED BY <3>2, <4>2, <5>1
      <4>6. \A x \in 1 .. Len(names) : names[x] \in open
        BY <4>2
      <4>7. \A x \in 0 .. Len(names) : ig[x] = pendingUnsubs
        OBVIOUS
      <4>8. \A o : o = {n \in DOMAIN subs : ~subs[n].sent} => AnsweredNames(c, o) = names
        BY <3>2, <4>a, AnsweredIs
      <4> HIDE DEF names, ig
      <4>9. Ignored(subs, pendingUnsubs, names, ig)
        <5>1. 0 \in 0 .. Len(names) /\ Len(names) \in 0 .. Len(names)
              /\ \A x \in 1 .. Len(names) : x \in 0 .. Len(names) /\ x - 1 \in 0 .. Len(names)
          BY <4>4
        <5>2. \A x \in 1 .. Len(names) : Open(subs, names[x])
          BY <4>6, <4>b
        <5> QED BY <1>2, <4>7, <5>1, <5>2 DEF Ignored
      <4>10. Marked(subs, names, S2)
        BY <1>8, <4>2 DEF Marked
      <4>11. pendingUnsubs' = ig[Len(names)]
        <5>1. Len(names) \in 0 .. Len(names)
          BY <4>4
        <5> QED BY <1>1, <3>2, <4>7, <5>1
      <4> QED BY <4>2, <4>4, <4>5, <4>8, <4>9, <4>10, <4>11
    <3> QED BY <3>1, <3>2
  <2>2. PICK ig, names : /\ names \in Seq(AllNames) /\ names # <<>> /\ Distinct(names)
                       /\ Ignored(subs, pendingUnsubs, names, ig) /\ Marked(subs, names, S2)
                       /\ pendingUnsubs' = ig[Len(names)]
                       /\ \A o : o = {n \in DOMAIN subs : ~subs[n].sent} => AnsweredNames(c, o) = names
    BY <2>1
  <2>3. c.op # "subscribe"
    BY <1>3
  <2>4. Grows(subs, pendingUnsubs, S2, ig[Len(names)], c)
    BY <2>2, <2>3, UnsubscribeGrows
  <2>5. Grows(subs, pendingUnsubs, subs', pendingUnsubs', c)
    BY <2>2, <2>4 DEF S2
  <2> QED BY <1>1, <1>3, <1>9, <2>5, GrowsTalks
<1> QED BY <1>6, <1>9

(* Whatever the application does keeps the conversation.                    *)
LEMMA ApplicationTalks ==
    ASSUME Orderly, DataInv, Application
    PROVE  SubsInv' /\ (Conversation => Conversation')
<1>1. CASE Call
  <2>1. UNCHANGED <<subs, pendingUnsubs>>
    BY <1>1 DEF Call
  <2> QED BY <1>1, <2>1, CallTalks DEF DataInv, SubsInv
<1>2. CASE Disconnect \/ Free
  <2>1. UNCHANGED <<queueVars, obuf, reader, serverVars, countVars, log>>
    BY <1>2 DEF Disconnect, Free
  <2>2. "subscribed" \in flags' <=> "subscribed" \in flags
    BY <1>2 DEF Disconnect, Free, AsyncDisconnect, EnterDisconnect
  <2>3. Heard' = Heard /\ (Linked' <=> Linked) /\ (Mode' <=> Mode)
    BY <2>1, <2>2 DEF Heard, Linked, Mode, serverVars
  <2>4. UNCHANGED <<subs, pendingUnsubs, replies, calls, obuf, served, log>>
    BY <2>1 DEF queueVars, serverVars, countVars
  <2> QED BY <2>3, <2>4, TalkKept DEF DataInv, SubsInv
<1> QED BY <1>1, <1>2, SubscribeTalks, UnsubscribeTalks, UnsubscribeAllTalks DEF Application

-----------------------------------------------------------------------------
(***************************************************************************)
(* REPLIES, ERRORS AND PUSHES                                              *)
(*                                                                         *)
(* The turns of redisProcessCallbacks that are not about subscriptions.    *)
(***************************************************************************)

(* The head of the first of two sequences.                                  *)
LEMMA HeadAndTail ==
    ASSUME NEW T, NEW s \in Seq(T), s # <<>>, NEW t \in Seq(T)
    PROVE  s \o t # <<>> /\ (s \o t)[1] = Head(s) /\ Tail(s \o t) = Tail(s) \o t
<1>1. /\ s \o t \in Seq(T) /\ Len(s \o t) = Len(s) + Len(t)
      /\ Len(s) \in Nat /\ Len(t) \in Nat
      /\ \A i \in 1 .. Len(s) : (s \o t)[i] = s[i]
      /\ \A i \in 1 .. Len(t) : (s \o t)[Len(s) + i] = t[i]
  BY Concatenated
<1>2. Len(s) >= 1 /\ Head(s) = s[1] /\ Tail(s) \in Seq(T) /\ Len(Tail(s)) = Len(s) - 1
      /\ \A i \in 1 .. Len(s) - 1 : Tail(s)[i] = s[i + 1]
  OBVIOUS
<1> DEFINE u == s \o t
           v == Tail(s)
<1> HIDE DEF u, v
<1>3. /\ u \in Seq(T) /\ Len(u) = Len(s) + Len(t)
      /\ \A i \in 1 .. Len(s) : u[i] = s[i]
      /\ \A i \in 1 .. Len(t) : u[Len(s) + i] = t[i]
  BY <1>1 DEF u
<1>4. v \in Seq(T) /\ Len(v) = Len(s) - 1 /\ \A i \in 1 .. Len(s) - 1 : v[i] = s[i + 1]
  BY <1>2 DEF v
<1>5. u # <<>> /\ u[1] = Head(s)
  BY <1>1, <1>2, <1>3
<1>6. /\ Tail(u) \in Seq(T) /\ Len(Tail(u)) = Len(s) + Len(t) - 1
      /\ \A i \in 1 .. Len(s) + Len(t) - 1 : Tail(u)[i] = u[i + 1]
  BY <1>1, <1>3, <1>5
<1>7. /\ v \o t \in Seq(T) /\ Len(v \o t) = Len(v) + Len(t)
      /\ \A i \in 1 .. Len(v) : (v \o t)[i] = v[i]
      /\ \A i \in 1 .. Len(t) : (v \o t)[Len(v) + i] = t[i]
  <2>1. v \in Seq(T) /\ t \in Seq(T)
    BY <1>4
  <2> QED BY ONLY <2>1, Concatenated
<1> DEFINE w == Tail(u)
           x == v \o t
<1> HIDE DEF w, x
<1>8. /\ w \in Seq(T) /\ Len(w) = Len(s) + Len(t) - 1
      /\ \A i \in 1 .. Len(s) + Len(t) - 1 : w[i] = u[i + 1]
  BY <1>6 DEF w
<1>9. /\ x \in Seq(T) /\ Len(x) = Len(s) + Len(t) - 1
      /\ \A i \in 1 .. Len(s) - 1 : x[i] = v[i]
      /\ \A i \in 1 .. Len(t) : x[Len(s) - 1 + i] = t[i]
  BY <1>1, <1>4, <1>7 DEF x
<1>10. ASSUME NEW i \in 1 .. Len(w) PROVE w[i] = x[i]
  <2>0. i \in Nat /\ i >= 1 /\ i <= Len(s) + Len(t) - 1
    BY <1>1, <1>8
  <2>1. CASE i <= Len(s) - 1
    <3>1. i \in 1 .. Len(s) - 1 /\ i + 1 \in 1 .. Len(s)
      BY <1>1, <2>0, <2>1
    <3>2. w[i] = u[i + 1] /\ u[i + 1] = s[i + 1]
      BY <1>3, <1>8, <3>1
    <3>3. x[i] = v[i] /\ v[i] = s[i + 1]
      BY <1>4, <1>9, <3>1
    <3> QED BY <3>2, <3>3
  <2>2. CASE i > Len(s) - 1
    <3>1. PICK j \in 1 .. Len(t) : i = Len(s) - 1 + j
      <4>1. i - (Len(s) - 1) \in 1 .. Len(t) /\ i = Len(s) - 1 + (i - (Len(s) - 1))
        BY <1>1, <2>0, <2>2
      <4> QED BY <4>1
    <3>2. i + 1 = Len(s) + j
      BY <1>1, <3>1
    <3>3. w[i] = u[i + 1] /\ u[i + 1] = t[j]
      BY <1>3, <1>8, <2>0, <3>1, <3>2
    <3>4. x[i] = t[j]
      BY <1>9, <3>1
    <3> QED BY <3>3, <3>4
  <2> QED BY <1>1, <2>0, <2>1, <2>2
<1>11. w = x
  BY <1>8, <1>9, <1>10, SameSeq
<1> QED BY <1>5, <1>11 DEF u, v, w, x

(* The first reply of the reader is the first of the conversation.          *)
LEMMA FirstHeard ==
    ASSUME DataInv, reader # <<>>
    PROVE  /\ Heard # <<>> /\ Heard[1] = Head(reader)
           /\ UNCHANGED stream /\ reader' = Tail(reader) => Heard' = Tail(Heard)
BY HeadAndTail DEF DataInv, StreamInv, Heard

(* What the first reply of the reader tells: an answer is for the oldest    *)
(* command, a message and a confirmation find their entry, and the answer   *)
(* to an unsubscription finds its entry or is one to be ignored.            *)
LEMMA HeadTells ==
    ASSUME DataInv, Conversation, reader # <<>>
    PROVE  /\ IsAnswer(Head(reader)) => Head(reader).id = Len(log) + 1 /\ Len(log) + 1 <= calls
           /\ Aside(Head(reader)) => replies = <<>> /\ Mode
           /\ Head(reader).kind = "message" => Head(reader).name \in DOMAIN subs
           /\ Head(reader).kind = "subscribe" => /\ Head(reader).name \in DOMAIN subs
                                                 /\ subs[Head(reader).name].pending > 0
           /\ Head(reader).kind = "unsubscribe" /\ Head(reader).name \notin DOMAIN subs => pendingUnsubs > 0
<1>1. Heard # <<>> /\ Heard[1] = Head(reader)
  BY FirstHeard
<1>2. /\ IsAnswer(Heard[1]) => Heard[1].id = Len(log) + 1 /\ Len(log) + 1 <= calls
      /\ Aside(Heard[1]) => Direct <= Len(log) /\ Mode
      /\ Heard[1].kind = "message" => Heard[1].name \in DOMAIN subs
      /\ Heard[1].kind = "subscribe" => Heard[1].name \in DOMAIN subs /\ subs[Heard[1].name].pending > 0
      /\ Heard[1].kind = "unsubscribe" /\ Heard[1].name \notin DOMAIN subs => pendingUnsubs > 0
  BY <1>1, Numbers, TalkTells DEF Conversation
<1>3. Direct <= Len(log) => replies = <<>>
  <2>1. Direct <= Len(log) => Len(replies) = 0
    BY Numbers
  <2>2. replies \in Seq(Nat)
    BY DEF DataInv, OrderInv
  <2> QED BY <2>1, <2>2
<1> QED BY <1>1, <1>2, <1>3

(* A reply that is not about subscriptions is taken.                        *)
LEMMA TakenTalks ==
    ASSUME DataInv, Conversation, reader # <<>>, reader' = Tail(reader), UNCHANGED stream,
           ~IsNote(Head(reader)), ~Denial(Head(reader)),
           Len(log') = IF IsAnswer(Head(reader)) THEN Len(log) + 1 ELSE Len(log),
           Direct' \in Nat, Direct' = Direct \/ Direct' <= Len(log'),
           UNCHANGED <<subs, pendingUnsubs, calls, obuf, sock, served>>, Mode' <=> Mode
    PROVE  Conversation'
<1>1. Heard # <<>> /\ Heard[1] = Head(reader) /\ Heard' = Tail(Heard)
  BY FirstHeard
<1>2. Linked' = Linked /\ Mode' = Mode
  BY DEF Linked, Mode
<1> DEFINE done2 == Len(log')
           top2 == Direct'
<1>3. done2 = (IF IsAnswer(Heard[1]) THEN Len(log) + 1 ELSE Len(log))
      /\ top2 \in Nat /\ (top2 = Direct \/ top2 <= done2)
  BY <1>1
<1>4. ~IsNote(Heard[1]) /\ ~Denial(Heard[1])
  BY <1>1
<1>5. Talk(subs, pendingUnsubs, Mode, Heard, Len(log), Direct, calls, obuf, Linked, served)
  BY DEF Conversation
<1> HIDE DEF done2, top2
<1>6. Talk(subs, pendingUnsubs, Mode, Tail(Heard), done2, top2, calls, obuf, Linked, served)
  BY <1>1, <1>3, <1>4, <1>5, Numbers, TalkTakes
<1> QED BY <1>1, <1>2, <1>6 DEF Conversation, done2, top2

(* Calling a callback changes nothing else.                                 *)
LEMMA RunKeeps ==
    ASSUME NEW at, NEW id, NEW got, NEW f,
           RunCallback(at, id, f) \/ RunReplyCallback(id, got, at, f)
           \/ (flags' = f /\ UNCHANGED <<pc, frame>>)
    PROVE  /\ "subscribed" \in flags' <=> "subscribed" \in f
           /\ pc' = pc \/ pc' = "callback"
           /\ frame' = frame \/ frame' = [at |-> at, id |-> id]
BY DEF RunCallback, RunReplyCallback

(* The flags of a turn have the same mode.                                  *)
LEMMA SeenMode == "subscribed" \in SeenFlags <=> Mode
BY DEF SeenFlags, Mode

(* A command is settled.                                                    *)
LEMMA LogGrows ==
    ASSUME OrderInv, NEW x, log' = Append(log, x)
    PROVE  /\ Len(log) \in Nat /\ Len(log') = Len(log) + 1 /\ log'[Len(log) + 1] = x
           /\ \A i \in 1 .. Len(log) : log'[i] = log[i]
BY AppendAny DEF OrderInv

(* No callback is put back.                                                 *)
LEMMA NotMonitoring == ASSUME OrderInv PROVE \A q, id : Repush(q, id) = q
BY DEF OrderInv, Repush

(* What a turn of redisProcessCallbacks keeps.                              *)
Kept == SubsInv' /\ (Talking' => Conversation') /\ pc' # "abort" /\ GotInv' /\ ErrInv'

(* The end of a turn with no error.                                         *)
LEMMA TurnEnds ==
    ASSUME ErrInv, ControlInv, pc = "process", UNCHANGED err,
           pc' = pc \/ pc' = "callback",
           frame' = frame \/ frame'.at \in {"reply", "push"}
    PROVE  ErrInv' /\ pc' # "abort" /\ Talking
BY DEF ErrInv, ControlInv, FrameInv, Talking

(* The reply to a command goes to the oldest command.                       *)
LEMMA ReplyToCommandTalks ==
    ASSUME Orderly, DataInv, Conversation, GotInv, ErrInv, ControlInv, ReplyToCommand
    PROVE  /\ Kept
           /\ Talking /\ replies # <<>> /\ replies' = Tail(replies) /\ UNCHANGED <<subReplies, calls>>
           /\ Head(replies) # 0 /\ log' = Append(log, [id |-> Head(replies), got |-> Head(replies)])
<1> DEFINE r == Head(reader)
           id == Head(replies)
           got == IF r.kind \in {"reply", "array", "error"} THEN r.id ELSE 0
<1>1. /\ pc = "process" /\ reader # <<>> /\ r.kind # "push" /\ replies # <<>> /\ reader' = Tail(reader)
      /\ RunReplyCallback(id, got, "reply", SeenFlags)
      /\ replies' = IF HasCallback(id) THEN Tail(replies) ELSE Repush(Tail(replies), id)
      /\ UNCHANGED <<err, subReplies, subs, pendingUnsubs, obuf, serverVars, countVars>>
  BY DEF ReplyToCommand
<1>2. UNCHANGED <<stream, sock, served, calls>>
  BY <1>1 DEF serverVars, countVars
<1>3. replies' = Tail(replies) /\ Len(replies') = Len(replies) - 1 /\ Len(replies) >= 1
  <2>1. replies \in Seq(Nat)
    BY DEF DataInv, OrderInv
  <2>2. replies' = Tail(replies)
    BY <1>1, NotMonitoring DEF DataInv
  <2> QED BY <1>1, <2>1, <2>2
<1>4. ~Aside(r)
  BY <1>1, HeadTells
<1>5. IsAnswer(r) /\ r.kind \in {"reply", "error"} /\ ~IsNote(r) /\ ~Denial(r)
  <2>1. r.kind \in {"reply", "error", "subscribe", "unsubscribe", "message", "push"}
    BY <1>1, HeadReply DEF DataInv
  <2> QED BY <1>1, <1>4, <2>1 DEF Aside, IsNote, IsAnswer
<1>6. id = Len(log) + 1 /\ got = id /\ id # 0
  <2>1. r.id = Len(log) + 1
    BY <1>1, <1>5, HeadTells
  <2>2. Head(replies) = Len(log) + 1
    BY <1>1, OldestNumber DEF DataInv
  <2> QED BY <1>5, <2>1, <2>2, Numbers
<1> HIDE DEF got
<1>7. log' = Append(log, [id |-> id, got |-> got])
  BY <1>1, <1>6 DEF RunReplyCallback
<1>8. Len(log') = Len(log) + 1 /\ log'[Len(log) + 1].got = got /\ \A i \in 1 .. Len(log) : log'[i] = log[i]
  BY <1>7, LogGrows DEF DataInv
<1>9. ("subscribed" \in flags' <=> Mode) /\ (pc' = pc \/ pc' = "callback")
      /\ (frame' = frame \/ frame' = [at |-> "reply", id |-> id])
  BY <1>1, RunKeeps, SeenMode
<1>10. Mode' <=> Mode
  BY <1>9 DEF Mode
<1>11. Direct' = Direct
  <2>1. Direct' = Len(log') + Len(replies') /\ Direct = Len(log) + Len(replies)
    BY DEF Direct
  <2>2. Len(log) \in Nat /\ Len(replies) \in Nat
    BY Numbers
  <2> QED BY <1>3, <1>8, <2>1, <2>2
<1>12. Conversation'
  <2>1. Len(log') = IF IsAnswer(Head(reader)) THEN Len(log) + 1 ELSE Len(log)
    BY <1>5, <1>8
  <2>2. Direct' \in Nat
    BY <1>11, Numbers
  <2> QED BY <1>1, <1>2, <1>5, <1>10, <1>11, <2>1, <2>2, TakenTalks
<1>13. ErrInv' /\ pc' # "abort" /\ Talking
  BY <1>1, <1>9, TurnEnds
<1>14. GotInv'
  <2>1. \A i \in 1 .. Len(log') : i \in 1 .. Len(log) \/ i = Len(log) + 1
    BY <1>8, Numbers
  <2> QED BY <1>6, <1>8, <1>13, <2>1 DEF GotInv
<1> QED BY <1>1, <1>2, <1>3, <1>6, <1>7, <1>12, <1>13, <1>14 DEF Kept, SubsInv, DataInv

(* So it does for one that was issued in the subscribed mode, and then no   *)
(* other is older.                                                          *)
LEMMA ReplyWhileSubscribedTalks ==
    ASSUME Orderly, DataInv, Conversation, GotInv, ErrInv, ControlInv, ReplyWhileSubscribed
    PROVE  /\ Kept
           /\ Talking /\ replies = <<>> /\ replies' = <<>> /\ subReplies # <<>>
           /\ subReplies' = Tail(subReplies) /\ UNCHANGED calls
           /\ Head(subReplies) # 0 /\ log' = Append(log, [id |-> Head(subReplies), got |-> Head(subReplies)])
<1> DEFINE r == Head(reader)
           mistaken == TakenForPushed(r)
           id == IF subReplies = <<>> \/ mistaken THEN 0 ELSE Head(subReplies)
<1>1. /\ pc = "process" /\ reader # <<>> /\ replies = <<>> /\ r.kind \in {"reply", "array"}
      /\ reader' = Tail(reader) /\ UNCHANGED <<err, obuf, serverVars, countVars>>
  BY DEF ReplyWhileSubscribed, ForSubscription
<1>2. UNCHANGED <<stream, sock, served, calls>>
  BY <1>1 DEF serverVars, countVars
<1>3. r.kind = "reply" /\ IsAnswer(r) /\ ~IsNote(r) /\ ~Denial(r) /\ ~mistaken
  <2>1. r.kind = "reply"
    BY <1>1, HeadReply DEF DataInv
  <2> QED BY <2>1 DEF IsAnswer, IsNote, Denial, TakenForPushed
<1>4. r.id = Len(log) + 1 /\ Len(log) + 1 <= calls
  BY <1>1, <1>3, HeadTells
<1>5. subReplies # <<>> /\ Len(replies) = 0
  <2>1. Len(replies) = 0
    BY <1>1
  <2>2. Len(subReplies) > 0
    BY <1>4, <2>1, Numbers
  <2> QED BY <2>1, <2>2
<1>6. "subscribed" \in flags
  BY <1>5 DEF DataInv, OrderInv
<1>7. id = Head(subReplies) /\ id = Len(log) + 1 /\ id # 0
  <2>1. Head(subReplies) = Len(log) + 1
    BY <1>1, <1>5, OldestNumber DEF DataInv
  <2> QED BY <1>3, <1>5, <2>1, Numbers
<1>8. /\ RunReplyCallback(id, r.id, "reply", SeenFlags)
      /\ replies' = IF HasCallback(id) THEN <<>> ELSE Repush(<<>>, id)
      /\ UNCHANGED <<subs, pendingUnsubs>>
  BY <1>6 DEF ReplyWhileSubscribed
<1>a. subReplies' = Tail(subReplies)
  BY <1>6, <1>7 DEF ReplyWhileSubscribed
<1>9. replies' = <<>>
  BY <1>8, NotMonitoring DEF DataInv
<1> HIDE DEF id
<1>10. log' = Append(log, [id |-> id, got |-> r.id])
  BY <1>7, <1>8 DEF RunReplyCallback
<1>11. Len(log') = Len(log) + 1 /\ log'[Len(log) + 1].got = r.id /\ \A i \in 1 .. Len(log) : log'[i] = log[i]
  BY <1>10, LogGrows DEF DataInv
<1>12. ("subscribed" \in flags' <=> Mode) /\ (pc' = pc \/ pc' = "callback")
       /\ (frame' = frame \/ frame' = [at |-> "reply", id |-> id])
  BY <1>8, RunKeeps, SeenMode
<1>13. Mode' <=> Mode
  BY <1>12 DEF Mode
<1>14. Direct' = Len(log') /\ Direct' \in Nat
  BY <1>9, <1>11, Numbers DEF Direct
<1>15. Conversation'
  <2>1. Len(log') = IF IsAnswer(Head(reader)) THEN Len(log) + 1 ELSE Len(log)
    BY <1>3, <1>11
  <2>2. Direct' <= Len(log')
    BY <1>14
  <2> QED BY <1>1, <1>2, <1>3, <1>8, <1>13, <1>14, <2>1, <2>2, TakenTalks
<1>16. ErrInv' /\ pc' # "abort" /\ Talking
  BY <1>1, <1>12, TurnEnds
<1>17. GotInv'
  <2>1. \A i \in 1 .. Len(log') : i \in 1 .. Len(log) \/ i = Len(log) + 1
    BY <1>11, Numbers
  <2>2. r.id # 0
    BY <1>4, Numbers
  <2> QED BY <1>11, <1>16, <2>1, <2>2 DEF GotInv
<1> QED BY <1>1, <1>2, <1>4, <1>5, <1>7, <1>8, <1>9, <1>10, <1>a, <1>15, <1>16, <1>17 DEF Kept, SubsInv, DataInv

(* A message, or a push that is no answer.                                  *)
LEMMA PushTalks ==
    ASSUME Orderly, DataInv, Conversation, GotInv, ErrInv, ControlInv, SpontaneousPush \/ PubSubMessage
    PROVE  Kept
<1> DEFINE r == Head(reader)
<1>1. /\ pc = "process" /\ reader # <<>> /\ r.kind \in {"push", "message"} /\ reader' = Tail(reader)
      /\ UNCHANGED <<err, obuf, serverVars, countVars>>
  BY DEF SpontaneousPush, PubSubMessage, ForSubscription
<1>2. UNCHANGED <<stream, sock, served, calls>>
  BY <1>1 DEF serverVars, countVars
<1>3. ~IsNote(r) /\ ~Denial(r) /\ ~IsAnswer(r)
  BY <1>1 DEF IsAnswer, IsNote, Denial
<1>4. /\ UNCHANGED <<subs, pendingUnsubs, replies, log>>
      /\ \E at \in {"push", "reply"} : RunCallback(at, 0, SeenFlags)
  <2>1. CASE SpontaneousPush
    BY <2>1 DEF SpontaneousPush, queueVars
  <2>2. CASE PubSubMessage
    <3>1. r.kind = "message"
      BY <2>2 DEF PubSubMessage, ForSubscription
    <3>2. r.name \in DOMAIN subs /\ Mode
      BY <1>1, <3>1, HeadTells DEF Aside
    <3> QED BY <2>2, <3>2 DEF PubSubMessage, Mode
  <2> QED BY <2>1, <2>2
<1>5. PICK at \in {"push", "reply"} : RunCallback(at, 0, SeenFlags)
  BY <1>4
<1>6. ("subscribed" \in flags' <=> Mode) /\ (pc' = pc \/ pc' = "callback")
      /\ (frame' = frame \/ frame' = [at |-> at, id |-> 0])
  BY <1>5, RunKeeps, SeenMode
<1>7. Mode' <=> Mode
  BY <1>6 DEF Mode
<1>8. Direct' = Direct /\ Direct' \in Nat
  BY <1>4, Numbers DEF Direct
<1>9. Conversation'
  <2>1. Len(log') = IF IsAnswer(Head(reader)) THEN Len(log) + 1 ELSE Len(log)
    BY <1>3, <1>4
  <2> QED BY <1>1, <1>2, <1>3, <1>4, <1>7, <1>8, <2>1, TakenTalks
<1>10. ErrInv' /\ pc' # "abort" /\ Talking
  <2>1. frame' = frame \/ frame'.at \in {"reply", "push"}
    BY <1>6
  <2> QED BY <1>1, <1>6, <2>1, TurnEnds
<1>11. GotInv'
  BY <1>4, <1>10 DEF GotInv
<1> QED BY <1>4, <1>9, <1>10, <1>11 DEF Kept, SubsInv, DataInv

-----------------------------------------------------------------------------
(***************************************************************************)
(* CONFIRMATIONS                                                           *)
(*                                                                         *)
(* The turns of redisProcessCallbacks that call                            *)
(* __redisGetSubscribeCallback for a confirmation or for the answer to an  *)
(* unsubscription.                                                         *)
(***************************************************************************)

(* The answer to a subscription or an unsubscription is taken.              *)
LEMMA NoteTalks ==
    ASSUME DataInv, Conversation, reader # <<>>, reader' = Tail(reader), UNCHANGED stream,
           IsNote(Head(reader)),
           TakesNote(subs, pendingUnsubs, Head(reader), subs', pendingUnsubs'),
           UNCHANGED <<log, calls, obuf, sock, served>>,
           Mode' <=> ~(/\ Head(reader).kind = "unsubscribe" /\ Head(reader).count = 0
                       /\ DOMAIN subs' = {} /\ pendingUnsubs' = 0),
           Mode' => Direct' = Direct
    PROVE  Conversation'
<1>1. Heard # <<>> /\ Heard[1] = Head(reader) /\ Heard' = Tail(Heard)
  BY FirstHeard
<1>2. Linked' = Linked /\ Mode' \in BOOLEAN
  BY DEF Linked, Mode
<1> DEFINE S2 == subs'
           pend2 == pendingUnsubs'
           mode2 == Mode'
           top2 == Direct'
<1>3. /\ IsNote(Heard[1]) /\ TakesNote(subs, pendingUnsubs, Heard[1], S2, pend2)
      /\ mode2 <=> ~(Heard[1].kind = "unsubscribe" /\ Heard[1].count = 0 /\ DOMAIN S2 = {} /\ pend2 = 0)
      /\ mode2 \in BOOLEAN /\ (mode2 => top2 = Direct)
  BY <1>1, <1>2
<1> HIDE DEF S2, pend2, mode2, top2
<1>4. Talk(subs, pendingUnsubs, Mode, Heard, Len(log), Direct, calls, obuf, Linked, served)
  BY DEF Conversation
<1>5. Talk(S2, pend2, mode2, Tail(Heard), Len(log), Direct, calls, obuf, Linked, served)
  <2> DEFINE Q == Heard
             done == Len(log)
  <2>1. /\ Q \in Seq(PlainReply) /\ Q # <<>> /\ Direct \in Nat /\ calls \in Nat /\ Len(obuf) \in Nat
    BY <1>1, Numbers
  <2>2. /\ Talk(subs, pendingUnsubs, Mode, Q, done, Direct, calls, obuf, Linked, served)
        /\ IsNote(Q[1]) /\ TakesNote(subs, pendingUnsubs, Q[1], S2, pend2)
        /\ mode2 \in BOOLEAN
        /\ mode2 <=> ~(Q[1].kind = "unsubscribe" /\ Q[1].count = 0 /\ DOMAIN S2 = {} /\ pend2 = 0)
    BY <1>3, <1>4
  <2> HIDE DEF Q, done
  <2>3. Talk(S2, pend2, mode2, Tail(Q), done, Direct, calls, obuf, Linked, served)
    BY ONLY <2>1, <2>2, TalkNotes
  <2> QED BY <2>3 DEF Q, done
<1>6. Talk(S2, pend2, mode2, Tail(Heard), Len(log), top2, calls, obuf, Linked, served)
  <2>1. CASE mode2
    BY <1>3, <1>5, <2>1
  <2>2. CASE ~mode2
    <3>1. mode2 = FALSE
      BY <1>3, <2>2
    <3>2. Len(Tail(Heard)) \in Nat
      BY <1>1, Numbers
    <3>3. Talk(S2, pend2, FALSE, Tail(Heard), Len(log), Direct, calls, obuf, Linked, served)
      BY <1>5, <3>1
    <3>4. Talk(S2, pend2, FALSE, Tail(Heard), Len(log), top2, calls, obuf, Linked, served)
      BY <3>2, <3>3, Numbers, TalkAnew
    <3> QED BY <3>1, <3>4
  <2> QED BY <2>1, <2>2
<1> QED BY <1>1, <1>2, <1>6 DEF Conversation, S2, pend2, mode2, top2

(* A subscription is confirmed.                                             *)
LEMMA ConfirmSubscribeTalks ==
    ASSUME Orderly, DataInv, Conversation, GotInv, ErrInv, ControlInv, ConfirmSubscribe PROVE Kept
<1> DEFINE r == Head(reader)
           n == r.name
<1>1. /\ pc = "process" /\ reader # <<>> /\ replies = <<>> /\ r.kind = "subscribe" /\ reader' = Tail(reader)
      /\ UNCHANGED <<err, obuf, serverVars, countVars>>
  BY DEF ConfirmSubscribe, ForSubscription
<1>2. UNCHANGED <<stream, sock, served, calls>>
  BY <1>1 DEF serverVars, countVars
<1>3. IsNote(r) /\ Aside(r)
  BY <1>1 DEF IsNote, Aside
<1>4. Mode /\ n \in DOMAIN subs /\ subs[n].pending > 0
  BY <1>1, <1>3, HeadTells
<1>5. /\ subs' = [subs EXCEPT ![n].pending = @ - 1] /\ RunCallback("reply", 0, SeenFlags)
      /\ UNCHANGED <<replies, subReplies, pendingUnsubs, log>>
  BY <1>4 DEF ConfirmSubscribe, Mode
<1>6. subs \in [DOMAIN subs -> Subscription] /\ DOMAIN subs \subseteq Names /\ pendingUnsubs \in Nat
  BY DEF DataInv, SubsInv
<1>7. subs[n] \in Subscription /\ subs[n].pending \in Nat
  <2>1. subs[n] \in Subscription
    BY <1>4, <1>6
  <2> QED BY <2>1 DEF Subscription
<1> HIDE DEF n, r
<1>8. /\ DOMAIN subs' = DOMAIN subs /\ \A k \in DOMAIN subs : k # n => subs'[k] = subs[k]
      /\ subs'[n] = [subs[n] EXCEPT !.pending = @ - 1]
  BY <1>4, <1>5, <1>6
<1>9. subs'[n] \in Subscription /\ subs'[n].sent = subs[n].sent /\ subs'[n].pending = subs[n].pending - 1
  <2>1. subs[n].pending - 1 \in Nat
    BY <1>4, <1>7
  <2> QED BY <1>7, <1>8, <2>1 DEF Subscription
<1>10. SubsInv'
  <2>1. \A k \in DOMAIN subs : subs'[k] \in Subscription
    BY <1>6, <1>8, <1>9
  <2>2. subs' \in [DOMAIN subs' -> Subscription]
    BY <1>5, <1>6, <1>8, <2>1
  <2> QED BY <1>5, <1>6, <1>8, <2>2 DEF SubsInv
<1>11. Confirmed(subs, n, subs')
  BY <1>8, <1>9 DEF Confirmed
<1>12. TakesNote(subs, pendingUnsubs, r, subs', pendingUnsubs')
  BY <1>1, <1>5, <1>11 DEF TakesNote, n
<1>13. ("subscribed" \in flags' <=> Mode) /\ (pc' = pc \/ pc' = "callback")
      /\ (frame' = frame \/ frame' = [at |-> "reply", id |-> 0])
  BY <1>5, RunKeeps, SeenMode
<1>14. Mode' /\ Direct' = Direct
  BY <1>4, <1>5, <1>13 DEF Mode, Direct
<1>15. Conversation'
  <2>1. Head(reader).kind # "unsubscribe"
    BY <1>1 DEF r
  <2> QED BY <1>1, <1>2, <1>3, <1>5, <1>12, <1>14, <2>1, NoteTalks DEF r
<1>16. ErrInv' /\ pc' # "abort" /\ Talking
  BY <1>1, <1>13, TurnEnds
<1>17. GotInv'
  BY <1>5, <1>16 DEF GotInv
<1> QED BY <1>10, <1>15, <1>16, <1>17 DEF Kept

(* An unsubscription is answered.                                           *)
LEMMA ConfirmUnsubscribeTalks ==
    ASSUME Orderly, DataInv, Conversation, GotInv, ErrInv, ControlInv, ConfirmUnsubscribe PROVE Kept
<1> DEFINE r == Head(reader)
           n == r.name
           known == n \in DOMAIN subs
           last == r.count = 0 /\ DOMAIN subs' = {} /\ pendingUnsubs' = 0
           f == IF last THEN SeenFlags \ {"subscribed"} ELSE SeenFlags
           q == IF last THEN subReplies ELSE <<>>
<1>1. /\ pc = "process" /\ reader # <<>> /\ replies = <<>> /\ r.kind = "unsubscribe" /\ reader' = Tail(reader)
      /\ UNCHANGED <<err, obuf, serverVars, countVars>>
  BY DEF ConfirmUnsubscribe, ForSubscription
<1>2. UNCHANGED <<stream, sock, served, calls>>
  BY <1>1 DEF serverVars, countVars
<1>3. IsNote(r) /\ Aside(r)
  BY <1>1 DEF IsNote, Aside
<1>4. Mode /\ (~known => pendingUnsubs > 0)
  BY <1>1, <1>3, HeadTells
<1>5. /\ subs' = IF known /\ subs[n].pending = 0 THEN [k \in DOMAIN subs \ {n} |-> subs[k]] ELSE subs
      /\ pendingUnsubs' = IF known THEN pendingUnsubs ELSE pendingUnsubs - 1
      /\ IF known THEN RunCallback("reply", 0, f) /\ replies' = q
         ELSE flags' = f /\ replies' = Repush(q, 0) /\ UNCHANGED <<pc, frame>>
      /\ UNCHANGED log
  BY <1>4 DEF ConfirmUnsubscribe, Mode
<1>6. subs \in [DOMAIN subs -> Subscription] /\ DOMAIN subs \subseteq Names /\ pendingUnsubs \in Nat
  BY DEF DataInv, SubsInv
<1>7. TakesNote(subs, pendingUnsubs, r, subs', pendingUnsubs')
  BY <1>1, <1>5 DEF TakesNote
<1>8. SubsInv'
  <2>1. pendingUnsubs' \in Nat
    BY <1>4, <1>5, <1>6
  <2>2. CASE subs' = subs
    BY <1>6, <2>1, <2>2 DEF SubsInv
  <2>3. CASE subs' = [k \in DOMAIN subs \ {n} |-> subs[k]]
    <3>1. DOMAIN subs' = DOMAIN subs \ {n}
      BY <2>3
    <3>2. subs' \in [DOMAIN subs' -> Subscription]
      BY <1>6, <2>3
    <3> QED BY <1>6, <2>1, <3>1, <3>2 DEF SubsInv
  <2> QED BY <1>5, <2>2, <2>3
<1>9. replies' = q
  BY <1>5, NotMonitoring DEF DataInv
<1>10. "subscribed" \in f <=> ~last
  BY <1>4, SeenMode
<1>11. (pc' = pc \/ pc' = "callback") /\ (frame' = frame \/ frame'.at = "reply") /\ ("subscribed" \in flags' <=> "subscribed" \in f)
  <2> HIDE DEF f, known, q
  <2> QED BY <1>5 DEF RunCallback
<1>12. Mode' <=> ~last
  BY <1>10, <1>11 DEF Mode
<1>13. ~last => Direct' = Direct
  BY <1>1, <1>5, <1>9 DEF Direct
<1>14. Conversation'
  <2>1. Mode' <=> ~(Head(reader).kind = "unsubscribe" /\ Head(reader).count = 0 /\ DOMAIN subs' = {} /\ pendingUnsubs' = 0)
    BY <1>1, <1>12
  <2>2. Mode' => Direct' = Direct
    BY <1>12, <1>13
  <2> QED BY <1>1, <1>2, <1>3, <1>5, <1>7, <2>1, <2>2, NoteTalks
<1>15. ErrInv' /\ pc' # "abort" /\ Talking
  <2>1. frame' = frame \/ frame'.at \in {"reply", "push"}
    BY <1>11
  <2> QED BY <1>1, <1>11, <2>1, TurnEnds
<1>16. GotInv'
  BY <1>5, <1>15 DEF GotInv
<1> QED BY <1>8, <1>14, <1>15, <1>16 DEF Kept

(* A denied command: the connection is given up.                            *)
LEMMA ErrorTalks ==
    ASSUME DataInv, ErrInv, ControlInv, SpontaneousError PROVE Kept
<1>1. /\ pc = "process" /\ EnterDisconnect(flags, TRUE) /\ UNCHANGED frame /\ UNCHANGED <<queueVars, log>>
  BY DEF SpontaneousError
<1>2. frame.at = "none"
  BY <1>1 DEF ControlInv, FrameInv
<1>3. ErrInv' /\ pc' # "abort"
  BY <1>1, <1>2, Doomed
<1>4. err' = TRUE
  BY <1>1 DEF EnterDisconnect
<1>5. ~Talking'
  BY <1>4 DEF Talking
<1>6. SubsInv'
  BY <1>1 DEF queueVars, SubsInv, DataInv
<1> QED BY <1>3, <1>5, <1>6 DEF Kept, GotInv

(* The reader is empty.                                                     *)
LEMMA NoReplyTalks ==
    ASSUME DataInv, Conversation, GotInv, ErrInv, ControlInv, NoReply PROVE Kept
<1>1. /\ pc = "process" /\ UNCHANGED <<queueVars, obuf, reader, frame, serverVars, countVars, log>>
      /\ \/ replies = <<>> /\ EnterDisconnect(flags, err)
         \/ pc' = "idle" /\ UNCHANGED <<flags, err, attached>>
  BY DEF NoReply
<1>2. frame.at = "none" /\ Talking
  BY <1>1, ProcessTalks
<1>3. ErrInv' /\ pc' # "abort" /\ ("subscribed" \in flags' <=> "subscribed" \in flags)
  <2>1. CASE replies = <<>> /\ EnterDisconnect(flags, err)
    <3>1. ErrInv' /\ pc' # "abort"
      BY <1>1, <1>2, <2>1, Doomed
    <3> QED BY <2>1, <3>1 DEF EnterDisconnect
  <2>2. CASE pc' = "idle" /\ UNCHANGED <<flags, err, attached>>
    BY <1>1, <1>2, <2>2 DEF ErrInv, Talking
  <2> QED BY <1>1, <2>1, <2>2
<1>4. Conversation'
  <2>1. Heard' = Heard /\ (Linked' <=> Linked) /\ (Mode' <=> Mode)
    BY <1>1, <1>3 DEF Heard, Linked, Mode, serverVars
  <2>2. UNCHANGED <<subs, pendingUnsubs, replies, calls, obuf, served, log>>
    BY <1>1 DEF queueVars, serverVars, countVars
  <2> QED BY <2>1, <2>2, TalkKept
<1>5. SubsInv'
  BY <1>1 DEF queueVars, SubsInv, DataInv
<1>6. GotInv'
  BY <1>1, <1>2 DEF GotInv
<1> QED BY <1>3, <1>4, <1>5, <1>6 DEF Kept

(* Every turn of redisProcessCallbacks keeps the conversation.              *)
LEMMA ProcessKept ==
    ASSUME Orderly, DataInv, TalkInv, GotInv, ErrInv, ControlInv, Process PROVE Kept
<1>1. pc = "process"
  BY DEF Process, NoReply, SpontaneousPush, ReplyToCommand, SpontaneousError, ConfirmSubscribe,
         PubSubMessage, ConfirmUnsubscribe, ReplyWhileSubscribed, ForSubscription
<1>2. Conversation
  BY <1>1, ProcessTalks DEF TalkInv
<1> QED BY <1>2, NoReplyTalks, ErrorTalks, ConfirmSubscribeTalks, ConfirmUnsubscribeTalks, PushTalks,
           ReplyToCommandTalks, ReplyWhileSubscribedTalks DEF Process

-----------------------------------------------------------------------------
(***************************************************************************)
(* THE SERVER, THE SOCKET AND THE LOOP                                     *)
(*                                                                         *)
(* Writing, reading, what the server and the network do, and the returns   *)
(* of callbacks keep the conversation.                                     *)
(***************************************************************************)

(* What is sent follows what there was.                                     *)
LEMMA FollowedBy ==
    ASSUME NEW T, NEW s \in Seq(T), NEW t \in Seq(T), NEW A \in Seq(T)
    PROVE  Followed(s \o t, A, s \o (t \o A))
<1> DEFINE u == s \o t
           v == t \o A
           w == s \o v
<1>1. /\ u \in Seq(T) /\ Len(u) = Len(s) + Len(t) /\ Len(s) \in Nat /\ Len(t) \in Nat
      /\ \A i \in 1 .. Len(s) : u[i] = s[i]
      /\ \A i \in 1 .. Len(t) : u[Len(s) + i] = t[i]
  BY Concatenated
<1>2. /\ v \in Seq(T) /\ Len(v) = Len(t) + Len(A) /\ Len(A) \in Nat
      /\ \A i \in 1 .. Len(t) : v[i] = t[i]
      /\ \A i \in 1 .. Len(A) : v[Len(t) + i] = A[i]
  BY Concatenated
<1> HIDE DEF u, v
<1>3. /\ w \in Seq(T) /\ Len(w) = Len(s) + Len(v)
      /\ \A i \in 1 .. Len(s) : w[i] = s[i]
      /\ \A i \in 1 .. Len(v) : w[Len(s) + i] = v[i]
  <2>1. s \in Seq(T) /\ v \in Seq(T)
    BY <1>2
  <2> QED BY ONLY <2>1, Concatenated
<1> HIDE DEF w
<1>4. Len(w) = Len(u) + Len(A) /\ Len(u) \in Nat
  BY <1>1, <1>2, <1>3
<1>5. ASSUME NEW i \in 1 .. Len(u) PROVE w[i] = u[i]
  <2>1. CASE i <= Len(s)
    <3>1. i \in 1 .. Len(s)
      BY <1>1, <2>1
    <3> QED BY <1>1, <1>3, <3>1
  <2>2. CASE i > Len(s)
    <3>1. PICK j \in 1 .. Len(t) : i = Len(s) + j
      <4>1. i - Len(s) \in 1 .. Len(t) /\ i = Len(s) + (i - Len(s))
        BY <1>1, <2>2
      <4> QED BY <4>1
    <3>2. j \in 1 .. Len(v)
      BY <1>1, <1>2, <3>1
    <3>3. w[i] = v[j] /\ v[j] = t[j]
      BY <1>2, <1>3, <3>1, <3>2
    <3>4. u[i] = t[j]
      BY <1>1, <3>1
    <3> QED BY <3>3, <3>4
  <2> QED BY <1>1, <2>1, <2>2
<1>6. ASSUME NEW i \in 1 .. Len(A) PROVE w[Len(u) + i] = A[i]
  <2>1. Len(t) + i \in 1 .. Len(v) /\ Len(u) + i = Len(s) + (Len(t) + i)
    BY <1>1, <1>2
  <2>2. w[Len(s) + (Len(t) + i)] = v[Len(t) + i]
    BY <1>3, <2>1
  <2>3. v[Len(t) + i] = A[i]
    BY <1>2
  <2> QED BY <2>1, <2>2, <2>3
<1> QED BY <1>2, <1>4, <1>5, <1>6 DEF Followed, u, v, w

(* One value at the end.                                                    *)
LEMMA AppendIs ==
    ASSUME NEW T, NEW s \in Seq(T), NEW x \in T
    PROVE  Append(s, x) = s \o <<x>> /\ <<x>> \in Seq(T)
OBVIOUS

(* redisAsyncWrite, and the answer of the server.                           *)
LEMMA WriteTalks ==
    ASSUME Orderly, DataInv, AsyncWrite, Conversation PROVE Conversation'
<1>1. UNCHANGED <<flags, subs, pendingUnsubs, replies, log, calls, reader, sock>>
  BY DEF AsyncWrite, queueVars, countVars
<1>2. Mode' = Mode /\ Linked' = Linked /\ Direct' = Direct
  BY <1>1 DEF Mode, Linked, Direct
<1>3. CASE obuf = <<>>
  <2>1. UNCHANGED <<obuf, stream, served>>
    BY <1>3 DEF AsyncWrite
  <2>2. Heard' = Heard
    BY <1>1, <2>1 DEF Heard
  <2> QED BY <1>1, <1>2, <2>1, <2>2 DEF Conversation
<1>4. CASE obuf # <<>>
  <2>1. PICK answer \in Answers(Head(obuf)) :
            stream' = stream \o answer /\ served' = NamesServed(answer) /\ obuf' = Tail(obuf) /\ sock = "up"
    BY <1>4 DEF AsyncWrite
  <2>2. "arrays" \notin Habits /\ served \in SUBSET Names /\ IsFiniteSet(served)
    BY DEF Orderly, DataInv, StreamInv
  <2>3. Head(obuf) \in Command
    BY <1>4, Numbers
  <2>4. answer \in Seq(PlainReply)
    BY <2>2, <2>3, AnswerTyped
  <2>5. Followed(Heard, answer, Heard')
    <3>1. reader \in Seq(PlainReply) /\ stream \in Seq(PlainReply)
      BY DEF DataInv, StreamInv
    <3>2. Heard' = reader \o (stream \o answer) /\ Heard = reader \o stream
      BY <1>1, <2>1 DEF Heard
    <3> QED BY <2>4, <3>1, <3>2, FollowedBy
  <2>6. Linked = TRUE
    BY <2>1 DEF Linked
  <2> DEFINE Q2 == Heard'
             done == Len(log)
             open2 == NamesServed(answer)
  <2>7. /\ Talk(subs, pendingUnsubs, Mode, Heard, done, Direct, calls, obuf, TRUE, served)
        /\ Followed(Heard, answer, Q2) /\ answer \in Answers(Head(obuf))
        /\ Direct \in Nat /\ calls \in Nat /\ obuf \in Seq(Command) /\ obuf # <<>>
    BY <1>4, <2>5, <2>6, Numbers DEF Conversation
  <2> HIDE DEF Q2, done
  <2>8. Talk(subs, pendingUnsubs, Mode, Q2, done, Direct, calls, Tail(obuf), TRUE, open2)
    BY ONLY <2>2, <2>7, TalkWrites
  <2> QED BY <1>1, <1>2, <2>1, <2>6, <2>8 DEF Conversation, Q2, done
<1> QED BY <1>3, <1>4

(* redisAsyncRead.                                                          *)
LEMMA ReadTalks ==
    ASSUME DataInv, NEW k \in 0 .. Len(stream), AsyncRead(k), Conversation PROVE Conversation'
<1>1. Heard' = Heard
  BY ReadTyped DEF Heard, DataInv
<1>2. UNCHANGED <<subs, pendingUnsubs, replies, calls, obuf, served, log, flags, sock>>
  BY DEF AsyncRead, queueVars, countVars
<1> QED BY <1>1, <1>2, TalkKept DEF Mode, Linked

(* Messages, pushes, a lost connection.                                     *)
LEMMA ServerTalks ==
    ASSUME Orderly, DataInv, EarlyInv, Server, Conversation PROVE Conversation'
<1>1. UNCHANGED <<flags, subs, pendingUnsubs, replies, log, calls, obuf, reader, served>>
  BY DEF Server, ServerSends, Establish, Refuse, Drop, SocketBecomes, queueVars, countVars
<1>2. Mode' = Mode /\ Direct' = Direct
  BY <1>1 DEF Mode, Direct
<1>3. reader \in Seq(PlainReply) /\ stream \in Seq(PlainReply)
  BY DEF DataInv, StreamInv
<1> DEFINE Q2 == Heard'
           done == Len(log)
<1>4. CASE ServerSends
  <2>1. PICK r \in Unasked : stream' = Append(stream, r) /\ sock = "up" /\ sock' = sock
    BY <1>4 DEF ServerSends
  <2>2. r.kind \in {"message", "push"} /\ (r.kind = "message" => r.name \in served) /\ r \in PlainReply
    BY DEF Unasked, DataInv, StreamInv, PlainReply, Reply
  <2>3. Followed(Heard, <<r>>, Heard')
    <3>1. Append(stream, r) = stream \o <<r>> /\ <<r>> \in Seq(PlainReply)
      BY <1>3, <2>2, AppendIs
    <3>2. Heard' = reader \o (stream \o <<r>>) /\ Heard = reader \o stream
      BY <1>1, <2>1, <3>1 DEF Heard
    <3> HIDE DEF Q2
    <3> QED BY <1>3, <3>1, <3>2, FollowedBy
  <2>4. Linked = TRUE /\ Linked' = TRUE
    BY <2>1 DEF Linked
  <2> DEFINE A == <<r>>
  <2>5. /\ Talk(subs, pendingUnsubs, Mode, Heard, done, Direct, calls, obuf, TRUE, served)
        /\ calls \in Nat /\ Followed(Heard, A, Q2) 
    BY <2>3, <2>4, Numbers DEF Conversation
  <2>a. Len(A) = 1 /\ A[1].kind \in {"message", "push"} /\ (A[1].kind = "message" => A[1].name \in served)
    BY <2>2
  <2> HIDE DEF Q2, done, A
  <2>6. Talk(subs, pendingUnsubs, Mode, Q2, done, Direct, calls, obuf, TRUE, served)
    BY ONLY <2>a, <2>5, TalkPushes
  <2> QED BY <1>1, <1>2, <2>4, <2>6 DEF Conversation, Q2, done
<1>5. CASE Establish \/ Refuse
  <2>1. sock = "connecting" /\ sock' \in {"up", "refused"} /\ stream' = SubSeq(stream, 1, 0)
    BY <1>5 DEF Establish, Refuse, SocketBecomes
  <2>2. stream = <<>> /\ stream' = <<>>
    BY <2>1 DEF EarlyInv
  <2>3. Heard' = Heard /\ Linked' = Linked
    BY <1>1, <2>1, <2>2 DEF Heard, Linked
  <2> QED BY <1>1, <1>2, <2>3 DEF Conversation
<1>6. CASE Drop
  <2>1. PICK k \in 0 .. Len(stream) : stream' = SubSeq(stream, 1, k) /\ sock' = "dead"
    BY <1>6 DEF Drop, SocketBecomes
  <2> DEFINE t == SubSeq(stream, 1, k)
  <2>2. t \in Seq(PlainReply) /\ Len(t) = k /\ k \in Nat /\ k <= Len(stream) /\ \A i \in 1 .. k : t[i] = stream[i]
    BY <1>3
  <2> HIDE DEF t
  <2>3. /\ Heard \in Seq(PlainReply) /\ Len(Heard) = Len(reader) + Len(stream)
        /\ Len(reader) \in Nat /\ Len(stream) \in Nat
        /\ \A i \in 1 .. Len(reader) : Heard[i] = reader[i]
        /\ \A i \in 1 .. Len(stream) : Heard[Len(reader) + i] = stream[i]
    BY <1>3, Concatenated DEF Heard
  <2> DEFINE u == reader \o t
  <2>4. /\ u \in Seq(PlainReply) /\ Len(u) = Len(reader) + Len(t)
        /\ \A i \in 1 .. Len(reader) : u[i] = reader[i]
        /\ \A i \in 1 .. Len(t) : u[Len(reader) + i] = t[i]
    <3>1. reader \in Seq(PlainReply) /\ t \in Seq(PlainReply)
      BY <1>3, <2>2
    <3> QED BY ONLY <3>1, Concatenated
  <2>5. Heard' = u
    BY <1>1, <2>1 DEF Heard, t
  <2> HIDE DEF u
  <2>6. Len(u) \in Nat /\ Len(u) <= Len(Heard) /\ Len(Heard) \in Nat
    BY <2>2, <2>3, <2>4
  <2>7. ASSUME NEW i \in 1 .. Len(u) PROVE u[i] = Heard[i]
    <3>1. CASE i <= Len(reader)
      <4>1. i \in 1 .. Len(reader)
        BY <2>3, <3>1
      <4> QED BY <2>3, <2>4, <4>1
    <3>2. CASE i > Len(reader)
      <4>1. PICK j \in 1 .. Len(t) : i = Len(reader) + j
        <5>1. i - Len(reader) \in 1 .. Len(t) /\ i = Len(reader) + (i - Len(reader))
          BY <2>2, <2>3, <2>4, <3>2
        <5> QED BY <5>1
      <4>2. j \in 1 .. k /\ j \in 1 .. Len(stream)
        BY <2>2, <2>3, <4>1
      <4>3. u[i] = t[j] /\ t[j] = stream[j]
        BY <2>2, <2>4, <4>1, <4>2
      <4>4. Heard[i] = stream[j]
        BY <2>3, <4>1, <4>2
      <4> QED BY <4>3, <4>4
    <3> QED BY <2>3, <2>6, <3>1, <3>2
  <2>8. Linked' = FALSE
    BY <2>1 DEF Linked
  <2>9. Talk(subs, pendingUnsubs, Mode, Heard, done, Direct, calls, obuf, Linked, served)
    BY DEF Conversation
  <2> HIDE DEF done
  <2>10. Talk(subs, pendingUnsubs, Mode, u, done, Direct, calls, obuf, FALSE, served)
    BY ONLY <2>6, <2>7, <2>9, TalkDrops
  <2> QED BY <1>1, <1>2, <2>5, <2>8, <2>10 DEF Conversation, done
<1> QED BY <1>4, <1>5, <1>6 DEF Server

(* A callback returns.                                                      *)
LEMMA ReturnsTalks ==
    ASSUME OrderInv, CallbackReturns PROVE (Conversation => Conversation') /\ UNCHANGED <<replies, subReplies, subs, pendingUnsubs, log, calls>>
<1>1. UNCHANGED <<subReplies, subs, pendingUnsubs, obuf, reader, serverVars, countVars, log>>
  BY DEF CallbackReturns, ReplyCallbackReturns, PushCallbackReturns, ConnectCallbackReturns,
         RefusedCallbackReturns, TimeoutCallbackReturns, FreeCallbackReturns,
         DisconnectCallbackReturns, KeepData
<1>2. replies' = replies
  <2>1. \A id : Repush(replies, id) = replies
    BY NotMonitoring
  <2>2. CASE ReplyCallbackReturns
    BY <2>1, <2>2 DEF ReplyCallbackReturns
  <2>3. CASE ~ReplyCallbackReturns
    BY <2>3 DEF CallbackReturns, PushCallbackReturns, ConnectCallbackReturns,
         RefusedCallbackReturns, TimeoutCallbackReturns, FreeCallbackReturns, DisconnectCallbackReturns
  <2> QED BY <2>2, <2>3
<1>3. "subscribed" \in flags' <=> "subscribed" \in flags
  <2>1. ("subscribed" \in Callee <=> "subscribed" \in flags)
    BY DEF Callee
  <2>2. \A f, e : EnterDisconnect(f, e) => ("subscribed" \in flags' <=> "subscribed" \in f)
    BY DEF EnterDisconnect
  <2>3. \A f : AsyncDisconnect(f) => ("subscribed" \in flags' <=> "subscribed" \in f)
    BY <2>2 DEF AsyncDisconnect
  <2>4. \A next : Continue(next) => flags' = Callee
    BY DEF Continue
  <2>5. flags' = Callee \/ AsyncDisconnect(Callee) \/ \E e : EnterDisconnect(Callee, e)
    <3>1. CASE ConnectCallbackReturns
      BY <2>4, <3>1 DEF ConnectCallbackReturns
    <3>2. CASE RefusedCallbackReturns
      BY <2>4, <3>2 DEF RefusedCallbackReturns
    <3>3. CASE ReplyCallbackReturns \/ PushCallbackReturns \/ TimeoutCallbackReturns \/ FreeCallbackReturns
               \/ DisconnectCallbackReturns
      BY <2>4, <3>3 DEF ReplyCallbackReturns, PushCallbackReturns, TimeoutCallbackReturns, FreeCallbackReturns,
         DisconnectCallbackReturns
    <3> QED BY <3>1, <3>2, <3>3 DEF CallbackReturns
  <2> QED BY <2>1, <2>2, <2>3, <2>5
<1>4. Heard' = Heard /\ (Linked' <=> Linked) /\ (Mode' <=> Mode)
  BY <1>1, <1>3 DEF Heard, Linked, Mode, serverVars
<1>5. UNCHANGED <<subs, pendingUnsubs, replies, calls, obuf, served, log>>
  BY <1>1, <1>2 DEF serverVars, countVars
<1> QED BY <1>1, <1>4, <1>5, TalkKept

(* The event loop.                                                          *)
LEMMA LoopTalks ==
    ASSUME Loop PROVE (Conversation => Conversation') /\ UNCHANGED <<queueVars, log, calls>>
<1>1. UNCHANGED <<queueVars, obuf, reader, serverVars, countVars, log>>
  BY DEF Loop, HandleTimeout, HandleEvent
<1>2. "subscribed" \in flags' <=> "subscribed" \in flags
  BY DEF Loop, HandleTimeout, HandleEvent, RunCallback
<1>3. Heard' = Heard /\ (Linked' <=> Linked) /\ (Mode' <=> Mode)
  BY <1>1, <1>2 DEF Heard, Linked, Mode, serverVars
<1>4. UNCHANGED <<subs, pendingUnsubs, replies, calls, obuf, served, log>>
  BY <1>1 DEF serverVars, countVars, queueVars
<1> QED BY <1>1, <1>3, <1>4, TalkKept

-----------------------------------------------------------------------------
(***************************************************************************)
(* THE INVARIANT                                                           *)
(*                                                                         *)
(* Every step of the context, its application, the loop and the server.    *)
(***************************************************************************)

(* What the library does beside processing replies.                         *)
LEMMA LibraryTalks ==
    ASSUME Orderly, DataInv, EarlyInv, ErrInv, ControlInv,
           CallbackReturns \/ FreeStep \/ Transfer \/ TimeoutReplies \/ TimeoutEnds \/ Loop \/ Server
    PROVE  SubsInv' /\ (Talking' /\ Conversation => Conversation') /\ (Talking' => log' = log)
<1>1. ASSUME UNCHANGED <<subs, pendingUnsubs>> PROVE SubsInv'
  BY <1>1 DEF SubsInv, DataInv
<1>2. CASE CallbackReturns
  BY <1>1, <1>2, ReturnsTalks DEF DataInv
<1>3. CASE FreeStep
  <2>1. ~Talking'
    BY <1>3, FreeFate
  <2>2. CASE FreeReplies \/ FinishFree
    BY <1>1, <2>1, <2>2 DEF FreeReplies, FinishFree, queueVars
  <2>3. ASSUME NEW n \in Names, FreeSubscription(n) PROVE SubsInv'
    <3>1. subs' = [k \in DOMAIN subs \ {n} |-> subs[k]] /\ UNCHANGED pendingUnsubs
      BY <2>3 DEF FreeSubscription
    <3>2. DOMAIN subs' = DOMAIN subs \ {n}
      BY <3>1
    <3>3. subs \in [DOMAIN subs -> Subscription]
      BY DEF DataInv, SubsInv
    <3>4. subs' \in [DOMAIN subs' -> Subscription]
      BY <3>1, <3>2, <3>3
    <3> QED BY <3>1, <3>2, <3>4 DEF SubsInv, DataInv
  <2> QED BY <1>3, <2>1, <2>2, <2>3 DEF FreeStep
<1>4. CASE ReadFails \/ WriteFails \/ TimeoutEnds
  <2>1. UNCHANGED queueVars /\ err' = TRUE
    BY <1>4 DEF ReadFails, WriteFails, TimeoutEnds, EnterDisconnect
  <2> QED BY <1>1, <2>1 DEF Talking, queueVars
<1>5. CASE TimeoutReplies
  <2>1. UNCHANGED <<subs, pendingUnsubs, err>> /\ pc = "timeout"
    BY <1>5 DEF TimeoutReplies
  <2>2. err' = TRUE
    BY <2>1 DEF ErrInv, Talking
  <2> QED BY <1>1, <2>1 DEF Talking, ErrInv
<1>6. CASE AsyncWrite
  <2>1. UNCHANGED <<subs, pendingUnsubs, log>>
    BY <1>6 DEF AsyncWrite, queueVars
  <2> QED BY <1>1, <1>6, <2>1, WriteTalks
<1>7. ASSUME NEW k \in 0 .. Len(stream), AsyncRead(k) PROVE UNCHANGED <<subs, pendingUnsubs, log>> /\ (Conversation => Conversation')
  BY <1>7, ReadTalks DEF AsyncRead, queueVars
<1>8. CASE Loop
  BY <1>1, <1>8, LoopTalks DEF queueVars
<1>9. CASE Server
  <2>1. UNCHANGED <<subs, pendingUnsubs, log>>
    BY <1>9 DEF Server, ServerSends, Establish, Refuse, Drop, SocketBecomes, queueVars
  <2> QED BY <1>1, <1>9, <2>1, ServerTalks
<1> QED BY <1>1, <1>2, <1>3, <1>4, <1>5, <1>6, <1>7, <1>8, <1>9 DEF Transfer

AsyncInv == /\ FlagsInv /\ DataInv /\ ControlInv
            /\ ErrInv /\ EarlyInv /\ GotInv /\ TalkInv /\ pc # "abort"

(* Every step keeps the conversation.                                       *)
LEMMA TalkStep ==
    ASSUME Orderly, AsyncInv, [Next]_vars
    PROVE  SubsInv' /\ ErrInv' /\ GotInv' /\ TalkInv' /\ pc' # "abort"
<1>0. DataInv /\ ControlInv /\ ErrInv /\ EarlyInv /\ GotInv /\ TalkInv /\ pc # "abort"
  BY DEF AsyncInv
<1>1. CASE UNCHANGED vars
  <2>1. UNCHANGED <<subs, pendingUnsubs, replies, calls, obuf, served, log, reader, stream, sock, flags, err, pc, frame, attached>>
    BY <1>1 DEF vars, queueVars, serverVars, countVars, loopVars
  <2>2. Heard' = Heard /\ (Mode' <=> Mode) /\ (Linked' <=> Linked)
    BY <2>1 DEF Heard, Mode, Linked
  <2>3. Conversation => Conversation'
    BY <2>1, <2>2, TalkKept
  <2>4. Talking' <=> Talking
    BY <2>1 DEF Talking
  <2>5. SubsInv'
    BY <1>0, <2>1 DEF DataInv, SubsInv
  <2>6. ErrInv'
    BY <1>0, <2>1 DEF ErrInv
  <2>7. GotInv'
    BY <1>0, <2>1, <2>4 DEF GotInv
  <2> QED BY <1>0, <2>1, <2>3, <2>4, <2>5, <2>6, <2>7 DEF TalkInv
<1>2. CASE Application
  <2>1. ErrInv' /\ pc' # "abort" /\ (Talking' => Talking)
    BY <1>0, <1>2, ApplicationFate
  <2>2. SubsInv' /\ (Conversation => Conversation')
    BY <1>0, <1>2, ApplicationTalks
  <2>3. log' = log
    <3>1. \A command, f : IssueCommand(command, f) => log' = log
      BY DEF IssueCommand
    <3> QED BY <1>2, <3>1 DEF Application, Call, Disconnect, Free, Subscribe, Unsubscribe, UnsubscribeAll
  <2>4. GotInv'
    BY <1>0, <2>1, <2>3 DEF GotInv
  <2> QED BY <1>0, <2>1, <2>2, <2>4 DEF TalkInv
<1>3. CASE Process
  BY <1>0, <1>3, ProcessKept DEF Kept, TalkInv
<1>4. CASE CallbackReturns \/ FreeStep \/ Transfer \/ TimeoutReplies \/ TimeoutEnds \/ Loop \/ Server
  <2>1. ErrInv' /\ pc' # "abort" /\ (Talking' => Talking)
    BY <1>0, <1>4, ReturnsFate, FreeFate, EventFate
  <2>2. SubsInv' /\ (Talking' /\ Conversation => Conversation') /\ (Talking' => log' = log)
    BY <1>0, <1>4, LibraryTalks
  <2>3. GotInv'
    BY <1>0, <2>1, <2>2 DEF GotInv
  <2> QED BY <1>0, <2>1, <2>2, <2>3 DEF TalkInv
<1> QED BY <1>1, <1>2, <1>3, <1>4 DEF Next, Library

(* The invariant is inductive.                                              *)
LEMMA AsyncStep ==
    ASSUME Orderly, AsyncInv, [Next]_vars PROVE AsyncInv'
<1>0. /\ FlagsInv /\ StreamInv /\ CountInv /\ SubsInv /\ OrderInv /\ ControlInv /\ EarlyInv
      /\ "monitor" \notin Habits
  BY DEF AsyncInv, DataInv, Orderly
<1>1. SubsInv' /\ ErrInv' /\ GotInv' /\ TalkInv' /\ pc' # "abort"
  BY TalkStep
<1>2. FlagsInv'
  BY <1>0, FlagsStep
<1>3. StreamInv'
  BY <1>0, StreamStep
<1>4. CountInv'
  BY <1>0, CountStep
<1>5. OrderInv'
  BY <1>0, OrderStep
<1>6. ControlInv'
  BY <1>0, AsyncStepKeeps
<1>7. EarlyInv'
  BY <1>0, EarlyStep
<1> QED BY <1>1, <1>2, <1>3, <1>4, <1>5, <1>6, <1>7 DEF AsyncInv, DataInv

(* It holds when redisAsyncConnect has returned.                            *)
LEMMA AsyncStarts == Init => AsyncInv
<1> SUFFICES ASSUME Init PROVE AsyncInv
  OBVIOUS
<1>1. FlagsInv
  BY DEF Init, FlagsInv
<1>2. StreamInv
  <2>1. served = {} /\ IsFiniteSet({})
    BY FS_EmptySet DEF Init
  <2> QED BY <2>1 DEF Init, StreamInv
<1>3. CountInv
  BY AsyncAssumption DEF Init, CountInv, NoFrame, Frames
<1>4. SubsInv
  <2>1. DOMAIN subs = {}
    BY DEF Init
  <2>2. subs \in [DOMAIN subs -> Subscription]
    BY DEF Init
  <2> QED BY <2>1, <2>2 DEF Init, SubsInv
<1>5. ErrInv /\ EarlyInv /\ pc # "abort"
  BY DEF Init, ErrInv, EarlyInv, NoFrame
<1>6. GotInv
  <2>1. Len(log) = 0
    BY DEF Init
  <2> QED BY <2>1 DEF GotInv
<1>7. Conversation
  <2>1. subs = <<>> /\ pendingUnsubs = 0 /\ Heard = <<>> /\ Len(log) = 0 /\ calls = 0 /\ obuf = <<>> /\ served = {}
    BY DEF Init, Heard
  <2>2. Len(replies) = 0
    BY DEF Init
  <2>3. Direct = 0
    BY <2>1, <2>2 DEF Direct
  <2>4. Mode = FALSE /\ Linked = TRUE
    BY DEF Init, Mode, Linked
  <2>5. Talk(<<>>, 0, FALSE, <<>>, 0, 0, 0, <<>>, TRUE, served)
    BY <2>1, TalkStarts
  <2> QED BY <2>1, <2>3, <2>4, <2>5 DEF Conversation
<1> QED BY <1>1, <1>2, <1>3, <1>4, <1>5, <1>6, <1>7, InitOrder, InitControl DEF AsyncInv, DataInv, TalkInv

(* It holds always.                                                         *)
LEMMA AsyncHolds ==
    ASSUME Orderly PROVE Spec => []AsyncInv
<1>1. Init => AsyncInv
  BY AsyncStarts
<1>2. AsyncInv /\ [Next]_vars => AsyncInv'
  BY AsyncStep
<1> QED BY <1>1, <1>2, PTL DEF Spec

-----------------------------------------------------------------------------
(***************************************************************************)
(* WHAT THE INVARIANT SAYS                                                 *)
(*                                                                         *)
(* The safety properties of the asynchronous context.                      *)
(***************************************************************************)

(* Replies are replies.                                                     *)
LEMMA PlainTyped ==
    ASSUME NEW s \in Seq(PlainReply) PROVE s \in Seq(Reply)
<1>1. PlainReply \subseteq Reply
  BY DEF PlainReply
<1> QED BY <1>1

(* Sequences whose values are in a smaller set.                             *)
LEMMA Retyped ==
    ASSUME NEW T, NEW U, NEW s \in Seq(T), \A i \in 1 .. Len(s) : s[i] \in U
    PROVE  s \in Seq(U)
<1>1. Len(s) \in Nat /\ s \in [1 .. Len(s) -> U]
  OBVIOUS
<1> DEFINE k == Len(s)
<1>2. k \in Nat /\ s \in [1 .. k -> U]
  BY <1>1
<1> HIDE DEF k
<1> QED BY <1>2, SequenceOf

(* The queues hold the numbers of commands.                                 *)
LEMMA NumberedTyped ==
    ASSUME OrderInv, CountInv
    PROVE  replies \in Seq(0 .. MaxReplied) /\ subReplies \in Seq(Ids)
<1>1. /\ replies \in Seq(Nat) /\ subReplies \in Seq(Nat) /\ Len(log) \in Nat
      /\ calls = Len(log) + Len(replies) + Len(subReplies) /\ calls \in 0 .. MaxReplied /\ MaxReplied \in Nat
  BY AppendAny, AsyncAssumption DEF OrderInv, CountInv
<1>2. \A i \in 1 .. Len(replies) : replies[i] \in 0 .. MaxReplied
  <2> SUFFICES ASSUME NEW i \in 1 .. Len(replies) PROVE replies[i] \in 0 .. MaxReplied
    OBVIOUS
  <2>1. replies[i] = Len(log) + i /\ i \in Nat /\ i <= Len(replies) /\ Len(replies) \in Nat /\ Len(subReplies) \in Nat
    BY <1>1 DEF OrderInv
  <2> QED BY <1>1, <2>1
<1>3. \A i \in 1 .. Len(subReplies) : subReplies[i] \in Ids
  <2> SUFFICES ASSUME NEW i \in 1 .. Len(subReplies) PROVE subReplies[i] \in Ids
    OBVIOUS
  <2>1. subReplies[i] = Len(log) + Len(replies) + i /\ i \in Nat /\ i >= 1 /\ i <= Len(subReplies)
        /\ Len(replies) \in Nat /\ Len(subReplies) \in Nat
    BY <1>1 DEF OrderInv
  <2> QED BY <1>1, <2>1 DEF Ids
<1> QED BY <1>1, <1>2, <1>3, Retyped

(* The invariant has the types and the assertions.                          *)
LEMMA AsyncTypes == AsyncInv => NoAbort
<1> SUFFICES ASSUME AsyncInv PROVE NoAbort
  OBVIOUS
<1>1. FlagsInv /\ StreamInv /\ CountInv /\ SubsInv /\ OrderInv /\ pc # "abort"
  BY DEF AsyncInv, DataInv
<1>2. replies \in Seq(0 .. MaxReplied) /\ subReplies \in Seq(Ids)
  BY <1>1, NumberedTyped
<1>3. reader \in Seq(Reply) /\ stream \in Seq(Reply)
  BY <1>1, PlainTyped DEF StreamInv
<1>4. obuf \in Seq(Command)
  BY Numbers DEF AsyncInv
<1>5. served \subseteq Names /\ monitor \in 0 .. MaxReplied
  BY <1>1, AsyncAssumption DEF StreamInv
<1>6. DOMAIN subs \subseteq Names /\ (\A n \in DOMAIN subs : subs[n] \in Subscription) /\ pendingUnsubs \in Nat
  BY <1>1 DEF SubsInv
<1>7. TypeOK
  BY <1>1, <1>2, <1>3, <1>4, <1>5, <1>6 DEF TypeOK, FlagsInv, CountInv
<1> QED BY <1>1, <1>7 DEF NoAbort

(* No assertion of async.c fails and no value is out of its type, whatever  *)
(* an orderly application, the server and the loop do: a clean disconnect   *)
(* leaves no command waiting, a pushed reply meets a subscribed context,    *)
(* the confirmation of a subscription finds its entry, and pending_unsubs   *)
(* is never counted below zero.                                             *)
THEOREM NothingAborts == Orderly => (Spec => []NoAbort)
<1> SUFFICES ASSUME Orderly PROVE Spec => []NoAbort
  OBVIOUS
<1> QED BY AsyncHolds, AsyncTypes, PTL

(* A message that redisProcessCallbacks takes meets an empty ac->replies    *)
(* and an entry of its name in sub.channels or sub.patterns: it is not      *)
(* taken for the reply to a command, and no entry is removed while the      *)
(* server may still send messages for it.                                   *)
THEOREM MessagesFindCallback == Orderly => (Spec => []MessagesHaveCallback)
<1> SUFFICES ASSUME Orderly PROVE Spec => []MessagesHaveCallback
  OBVIOUS
<1>1. AsyncInv => MessagesHaveCallback
  <2> SUFFICES ASSUME AsyncInv, pc = "process", reader # <<>>, Head(reader).kind = "message"
               PROVE  replies = <<>> /\ Head(reader).name \in DOMAIN subs
    BY DEF MessagesHaveCallback
  <2>1. Conversation /\ DataInv
    BY ProcessTalks DEF AsyncInv, TalkInv
  <2>2. Aside(Head(reader))
    BY DEF Aside
  <2> QED BY <2>1, <2>2, HeadTells
<1> QED BY <1>1, AsyncHolds, PTL

(* When the server has answered everything the conversation is over.        *)
LEMMA QuietTells ==
    ASSUME AsyncInv, Quiet, sock = "up"
    PROVE  /\ Len(log) = calls /\ served = DOMAIN subs /\ pendingUnsubs = 0
           /\ Mode <=> DOMAIN subs # {}
           /\ \A n \in DOMAIN subs : subs[n] = [pending |-> 0, sent |-> FALSE]
<1>1. pc = "idle" /\ obuf = <<>> /\ reader = <<>> /\ stream = <<>> /\ ~err
  BY DEF Quiet
<1>2. frame.at = "none"
  BY <1>1 DEF AsyncInv, ControlInv, FrameInv
<1>3. Talking
  BY <1>1, <1>2 DEF Talking
<1>4. Conversation /\ DataInv
  BY <1>3 DEF AsyncInv, TalkInv
<1>5. Heard = <<>> /\ Linked = TRUE
  BY <1>1 DEF Heard, Linked
<1> DEFINE done == Len(log)
<1>6. Talk(subs, pendingUnsubs, Mode, <<>>, done, Direct, calls, <<>>, TRUE, served) /\ calls \in Nat
  BY <1>1, <1>4, <1>5, Numbers DEF Conversation
<1> HIDE DEF done
<1>7. /\ done = calls /\ served = DOMAIN subs /\ pendingUnsubs = 0 /\ (Mode <=> DOMAIN subs # {})
      /\ \A n \in DOMAIN subs : subs[n] = [pending |-> 0, sent |-> FALSE]
  BY <1>6, TalkEnds
<1> QED BY <1>7 DEF done

(* Nothing waits when the last callback is called or has been.              *)
LEMMA GoneStep ==
    ASSUME GoneInv, AsyncInv, [Next]_vars PROVE GoneInv'
<1>0. ControlInv /\ OrderInv
  BY DEF AsyncInv, DataInv
<1>1. CASE UNCHANGED vars
  BY <1>1 DEF vars, queueVars, loopVars, GoneInv
<1>2. ASSUME ~(pc' = "freed" \/ frame'.at = "gone") PROVE GoneInv'
  BY <1>2 DEF GoneInv
<1>3. CASE Application
  <2>1. CASE UNCHANGED queueVars
    <3>1. frame' = frame /\ (pc' = "freed" => pc = "freed")
      BY <1>3, <2>1 DEF Application, Call, Subscribe, Unsubscribe, UnsubscribeAll, IssueCommand, Disconnect, Free,
         AsyncDisconnect, EnterDisconnect, loopVars
    <3> QED BY <2>1, <3>1 DEF GoneInv, queueVars
  <2>2. CASE Accepting
    <3>1. frame.at # "gone"
      BY <1>0, <2>2 DEF ControlInv, EndInv
    <3>2. AppRuns
      BY <1>3 DEF Application, Call, Subscribe, Unsubscribe, UnsubscribeAll, IssueCommand, Disconnect, Free
    <3>3. frame' = frame /\ (pc' = "freed" => pc = "freed")
      BY <1>3 DEF Application, Call, Subscribe, Unsubscribe, UnsubscribeAll, IssueCommand, Disconnect, Free,
         AsyncDisconnect, EnterDisconnect, loopVars
    <3> QED BY <1>2, <3>1, <3>2, <3>3 DEF AppRuns
  <2>3. UNCHANGED queueVars \/ Accepting
    BY <1>3 DEF Application, Call, Subscribe, Unsubscribe, UnsubscribeAll, IssueCommand, Disconnect, Free
  <2> QED BY <2>1, <2>2, <2>3
<1>4. CASE Process
  <2>1. pc = "process"
    BY <1>4 DEF Process, NoReply, SpontaneousPush, ReplyToCommand, SpontaneousError, ConfirmSubscribe,
         PubSubMessage, ConfirmUnsubscribe, ReplyWhileSubscribed, ForSubscription
  <2>2. frame.at = "none"
    BY <1>0, <2>1 DEF ControlInv, FrameInv
  <2>a. ASSUME NEW at \in {"reply", "push"}, NEW id, NEW got, NEW f,
               RunCallback(at, id, f) \/ RunReplyCallback(id, got, at, f) \/ UNCHANGED frame
        PROVE  frame' = frame \/ frame'.at \in {"reply", "push"}
    <3>1. frame' = frame \/ frame' = [at |-> at, id |-> id]
      BY <2>a DEF RunCallback, RunReplyCallback
    <3> QED BY <3>1
  <2>3. frame' = frame \/ frame'.at \in {"reply", "push"}
    <3>1. CASE NoReply \/ SpontaneousError
      BY <3>1 DEF NoReply, SpontaneousError
    <3>2. CASE SpontaneousPush
      BY <2>a, <3>2 DEF SpontaneousPush
    <3>3. CASE ReplyToCommand
      BY <2>a, <3>3 DEF ReplyToCommand
    <3>4. CASE ConfirmSubscribe \/ PubSubMessage
      BY <2>a, <3>4 DEF ConfirmSubscribe, PubSubMessage, Abort
    <3>5. CASE ConfirmUnsubscribe
      BY <2>a, <3>5 DEF ConfirmUnsubscribe, Abort
    <3>6. CASE ReplyWhileSubscribed
      BY <2>a, <3>6 DEF ReplyWhileSubscribed, Abort
    <3> QED BY <1>4, <3>1, <3>2, <3>3, <3>4, <3>5, <3>6 DEF Process
  <2>4. pc' # "freed"
    BY <1>4, <2>1 DEF Process, NoReply, SpontaneousPush, ReplyToCommand, SpontaneousError, ConfirmSubscribe,
         PubSubMessage, ConfirmUnsubscribe, ReplyWhileSubscribed, ForSubscription, RunCallback, RunReplyCallback, Abort,
         EnterDisconnect
  <2> QED BY <1>2, <2>2, <2>3, <2>4
<1>5. CASE CallbackReturns
  <2>1. UNCHANGED <<replies, subReplies>> /\ frame' = NoFrame /\ NoFrame.at = "none"
    <3>1. frame' = NoFrame
      BY <1>5 DEF CallbackReturns, ReplyCallbackReturns, PushCallbackReturns, ConnectCallbackReturns,
         RefusedCallbackReturns, TimeoutCallbackReturns, FreeCallbackReturns,
         DisconnectCallbackReturns, Returns
    <3> QED BY <1>0, <1>5, <3>1, ReturnsTalks DEF NoFrame
  <2>2. CASE DisconnectCallbackReturns
    BY <2>1, <2>2 DEF DisconnectCallbackReturns, Returns, GoneInv
  <2>3. CASE ~DisconnectCallbackReturns
    <3>1. pc' # "freed"
      <4>1. CASE ConnectCallbackReturns
        <5>1. handler \in {"read", "write"}
          BY <1>0, <4>1 DEF ConnectCallbackReturns, Returns, ControlInv, ConnectInv
        <5> QED BY <4>1, <5>1 DEF ConnectCallbackReturns, AsyncDisconnect, EnterDisconnect, Continue
      <4>2. CASE RefusedCallbackReturns
        BY <4>2 DEF RefusedCallbackReturns, EnterDisconnect, Continue
      <4>3. CASE ReplyCallbackReturns \/ PushCallbackReturns \/ TimeoutCallbackReturns \/ FreeCallbackReturns
        BY <4>3 DEF ReplyCallbackReturns, PushCallbackReturns, TimeoutCallbackReturns, FreeCallbackReturns, Continue
      <4> QED BY <1>5, <2>3, <4>1, <4>2, <4>3 DEF CallbackReturns
    <3> QED BY <1>2, <2>1, <3>1
  <2> QED BY <2>2, <2>3
<1>6. CASE FreeStep
  <2>0. pc = "free" /\ frame.at = "none"
    <3>1. pc = "free"
      BY <1>6 DEF FreeStep, FreeReplies, FinishFree, FreeSubscription
    <3> QED BY <1>0, <3>1 DEF ControlInv, FrameInv
  <2>1. CASE FreeReplies
    <3>1. PICK id : RunReplyCallback(id, 0, "free", flags)
      BY <2>1 DEF FreeReplies
    <3>2. (pc' = pc /\ frame' = frame) \/ (pc' = "callback" /\ frame'.at = "free")
      BY <3>1 DEF RunReplyCallback, RunCallback
    <3> QED BY <1>2, <2>0, <3>2
  <2>2. ASSUME NEW n, FreeSubscription(n) PROVE GoneInv'
    <3>1. pc' = "callback" /\ frame'.at = "free"
      BY <2>2 DEF FreeSubscription, RunCallback
    <3> QED BY <1>2, <3>1
  <2>3. CASE FinishFree
    <3>1. replies \o subReplies = <<>> /\ UNCHANGED <<replies, subReplies>>
      BY <2>3 DEF FinishFree, queueVars
    <3>2. replies \in Seq(Nat) /\ subReplies \in Seq(Nat)
      BY <1>0 DEF OrderInv
    <3>3. replies = <<>> /\ subReplies = <<>>
      BY <3>1, <3>2
    <3> QED BY <3>1, <3>3 DEF GoneInv
  <2> QED BY <1>6, <2>1, <2>2, <2>3 DEF FreeStep
<1>7. CASE Transfer \/ TimeoutReplies \/ TimeoutEnds \/ Loop
  <2>1. pc \in {"read", "write", "timeout", "idle"}
    BY <1>7 DEF Transfer, ReadFails, WriteFails, AsyncRead, AsyncWrite, TimeoutReplies, TimeoutEnds, Loop,
                HandleTimeout, HandleEvent, Ready
  <2>2. frame.at = "none"
    BY <1>0, <2>1 DEF ControlInv, FrameInv
  <2>a. ASSUME NEW at \in {"timeout", "refused", "connected"}, NEW id, NEW got, NEW f,
               RunCallback(at, id, f) \/ RunReplyCallback(id, got, at, f) \/ UNCHANGED frame
        PROVE  frame' = frame \/ frame'.at \in {"timeout", "refused", "connected"}
    <3>1. frame' = frame \/ frame' = [at |-> at, id |-> id]
      BY <2>a DEF RunCallback, RunReplyCallback
    <3> QED BY <3>1
  <2>3. frame' = frame \/ frame'.at \in {"timeout", "refused", "connected"}
    <3>1. CASE Transfer \/ TimeoutEnds
      BY <3>1 DEF Transfer, ReadFails, WriteFails, AsyncRead, AsyncWrite, TimeoutEnds
    <3>2. CASE TimeoutReplies
      BY <2>a, <3>2 DEF TimeoutReplies
    <3>3. CASE HandleTimeout
      BY <2>a, <3>3 DEF HandleTimeout
    <3>4. ASSUME NEW what, HandleEvent(what)
          PROVE  frame' = frame \/ frame'.at \in {"timeout", "refused", "connected"}
      BY <2>a, <3>4 DEF HandleEvent
    <3> QED BY <1>7, <3>1, <3>2, <3>3, <3>4 DEF Loop
  <2>4. pc' # "freed"
    <3>1. CASE TimeoutReplies
      BY <3>1 DEF TimeoutReplies, RunReplyCallback, RunCallback
    <3>2. CASE Transfer \/ TimeoutEnds
      BY <3>2 DEF Transfer, ReadFails, WriteFails, AsyncRead, AsyncWrite, TimeoutEnds, EnterDisconnect
    <3>3. CASE Loop
      BY <3>3 DEF Loop, HandleTimeout, HandleEvent, RunCallback
    <3> QED BY <1>7, <3>1, <3>2, <3>3
  <2> QED BY <1>2, <2>2, <2>3, <2>4
<1>8. CASE Server
  BY <1>8 DEF Server, ServerSends, Establish, Refuse, Drop, SocketBecomes, queueVars, loopVars, GoneInv
<1> QED BY <1>1, <1>3, <1>4, <1>5, <1>6, <1>7, <1>8 DEF Next, Library

(* Nobody waits for ever: when the context is freed, and whenever           *)
(* everything is written, answered and processed, every command has been    *)
(* settled.                                                                 *)
THEOREM EveryReplyReaches == Orderly => (Spec => []NoReplyLost)
<1> SUFFICES ASSUME Orderly PROVE Spec => []NoReplyLost
  OBVIOUS
<1>1. Init => AsyncInv /\ GoneInv
  BY AsyncStarts DEF Init, GoneInv, NoFrame
<1>2. AsyncInv /\ GoneInv /\ [Next]_vars => AsyncInv' /\ GoneInv'
  BY AsyncStep, GoneStep
<1>3. AsyncInv /\ GoneInv => NoReplyLost
  <2> SUFFICES ASSUME AsyncInv, GoneInv, pc = "freed" \/ (Quiet /\ sock = "up") PROVE Len(log) = calls
    BY DEF NoReplyLost
  <2>1. CASE pc = "freed"
    <3>1. replies = <<>> /\ subReplies = <<>>
      BY <2>1 DEF GoneInv
    <3>2. Len(replies) = 0 /\ Len(subReplies) = 0
      BY <3>1
    <3> QED BY <3>2, Numbers DEF AsyncInv
  <2>2. CASE Quiet /\ sock = "up"
    BY <2>2, QuietTells
  <2> QED BY <2>1, <2>2
<1> QED BY <1>1, <1>2, <1>3, PTL DEF Spec

(* When everything is written, answered and processed, REDIS_SUBSCRIBED is  *)
(* set exactly if the server has something open, the dictionaries hold      *)
(* exactly the names it has open, none of them marked or awaited, and no    *)
(* ignored answer is awaited.                                               *)
THEOREM ModeIsExact == Orderly => (Spec => []SubscribedModeExact)
<1> SUFFICES ASSUME Orderly PROVE Spec => []SubscribedModeExact
  OBVIOUS
<1>1. AsyncInv => SubscribedModeExact
  BY QuietTells DEF SubscribedModeExact, Mode
<1> QED BY <1>1, AsyncHolds, PTL

-----------------------------------------------------------------------------
(***************************************************************************)
(* THE PROMISE                                                             *)
(*                                                                         *)
(* The context implements the abstract specification of what it promises   *)
(* for commands with a reply.                                              *)
(***************************************************************************)

Waiting == replies \o subReplies

(* The oldest command is the head of what waits.                            *)
LEMMA FirstWaits ==
    ASSUME OrderInv,
           \/ replies # <<>> /\ replies' = Tail(replies) /\ subReplies' = subReplies
           \/ /\ replies = <<>> /\ replies' = <<>>
              /\ subReplies # <<>> /\ subReplies' = Tail(subReplies)
    PROVE  /\ Waiting # <<>> /\ Waiting' = Tail(Waiting)
           /\ Head(Waiting) = IF replies # <<>> THEN Head(replies) ELSE Head(subReplies)
<1>1. replies \in Seq(Nat) /\ subReplies \in Seq(Nat)
  BY DEF OrderInv
<1>2. CASE replies # <<>>
  <2>1. Waiting # <<>> /\ Waiting[1] = Head(replies) /\ Tail(Waiting) = Tail(replies) \o subReplies
    BY <1>1, <1>2, HeadAndTail DEF Waiting
  <2>2. Waiting \in Seq(Nat)
    BY <1>1, Concatenated DEF Waiting
  <2>3. Head(Waiting) = Waiting[1]
    BY <2>1, <2>2
  <2>4. Waiting' = Tail(replies) \o subReplies
    BY <1>2 DEF Waiting
  <2> QED BY <1>2, <2>1, <2>3, <2>4
<1>3. CASE replies = <<>>
  <2>1. \A s \in Seq(Nat) : <<>> \o s = s
    OBVIOUS
  <2>2. subReplies # <<>> /\ subReplies' = Tail(subReplies) /\ replies' = <<>>
    BY <1>3
  <2>3. Tail(subReplies) \in Seq(Nat)
    BY <1>1, <2>2
  <2>4. Waiting = subReplies
    BY <1>1, <1>3, <2>1 DEF Waiting
  <2>5. Waiting' = Tail(subReplies)
    BY <2>1, <2>2, <2>3 DEF Waiting
  <2> QED BY <1>3, <2>2, <2>4, <2>5
<1> QED BY <1>2, <1>3

(* What a step is for the commands that have a reply.                       *)
Stutters == UNCHANGED <<Waiting, log, calls>>
Issues == calls' = calls + 1 /\ Waiting' = Append(Waiting, calls + 1) /\ log' = log
Settles(got) == /\ Waiting # <<>> /\ Waiting' = Tail(Waiting)
                /\ log' = Append(log, [id |-> Head(Waiting), got |-> got]) /\ calls' = calls

(* Steps that settle no command.                                            *)
LEMMA QueueKept ==
    ASSUME UNCHANGED <<replies, subReplies, log, calls>> PROVE Stutters
BY DEF Stutters, Waiting

(* The application issues commands.                                         *)
LEMMA ApplicationPromise ==
    ASSUME Orderly, DataInv, Application PROVE Stutters \/ Issues
<1>0. \A command, f : IssueCommand(command, f) => log' = log
  BY DEF IssueCommand
<1>1. CASE Call
  <2>0. "monitor" \notin Habits
    BY DEF Orderly
  <2>1. PICK op \in {"call"} \cup (Habits \cap {"monitor"}) :
          /\ IF "subscribed" \in flags /\ op = "call"
             THEN subReplies' = Append(subReplies, calls') /\ UNCHANGED replies
             ELSE replies' = Append(replies, calls') /\ UNCHANGED subReplies
          /\ log' = log
    BY <1>0, <1>1 DEF Call
  <2>2. op = "call" /\ calls' = calls + 1
    BY <1>1, <2>0 DEF Call
  <2>3. replies \in Seq(Nat) /\ subReplies \in Seq(Nat) /\ calls \in Nat
    BY DEF DataInv, OrderInv
  <2>4. calls + 1 \in Nat
    BY <2>3
  <2>5. CASE "subscribed" \in flags
    <3>1. Waiting' = replies \o Append(subReplies, calls + 1)
      BY <2>1, <2>2, <2>5 DEF Waiting
    <3>2. \A s, t \in Seq(Nat), x \in Nat : s \o Append(t, x) = Append(s \o t, x)
      OBVIOUS
    <3>3. Waiting' = Append(Waiting, calls + 1)
      BY <2>3, <2>4, <3>1, <3>2 DEF Waiting
    <3> QED BY <2>1, <2>2, <3>3 DEF Issues
  <2>6. CASE "subscribed" \notin flags
    <3>1. subReplies = <<>>
      BY <2>6 DEF DataInv, OrderInv
    <3>2. Waiting' = Append(replies, calls + 1) \o <<>> /\ Waiting = replies \o <<>>
      BY <2>1, <2>2, <2>6, <3>1 DEF Waiting
    <3>3. \A s \in Seq(Nat) : s \o <<>> = s
      OBVIOUS
    <3>4. Append(replies, calls + 1) \in Seq(Nat)
      BY <2>3, <2>4
    <3> QED BY <2>1, <2>2, <2>3, <3>2, <3>3, <3>4 DEF Issues
  <2> QED BY <2>5, <2>6
<1>2. CASE Disconnect \/ Free
  BY <1>2, QueueKept DEF Disconnect, Free, queueVars, countVars
<1>3. ASSUME NEW names, Subscribe(names) \/ Unsubscribe(names) PROVE Stutters
  BY <1>0, <1>3, QueueKept DEF Subscribe, Unsubscribe
<1>4. ASSUME NEW kind, UnsubscribeAll(kind) PROVE Stutters
  BY <1>0, <1>4, QueueKept DEF UnsubscribeAll
<1> QED BY <1>1, <1>2, <1>3, <1>4 DEF Application

(* A turn settles the oldest command, with its own reply, or none.          *)
LEMMA ProcessPromise ==
    ASSUME Orderly, AsyncInv, Process
    PROVE  Stutters \/ (Talking /\ Settles(Head(Waiting)) /\ Head(Waiting) # 0)
<1>0. DataInv /\ GotInv /\ ErrInv /\ ControlInv /\ OrderInv /\ TalkInv
  BY DEF AsyncInv, DataInv
<1>1. CASE NoReply \/ SpontaneousPush \/ SpontaneousError
  BY <1>1, QueueKept DEF NoReply, SpontaneousPush, SpontaneousError, queueVars, countVars
<1>2. ASSUME pc = "process" PROVE Conversation
  BY <1>0, <1>2, ProcessTalks DEF TalkInv
<1>3. CASE ReplyToCommand
  <2>1. Conversation
    BY <1>2, <1>3 DEF ReplyToCommand
  <2>2. /\ Talking /\ replies # <<>> /\ replies' = Tail(replies) /\ UNCHANGED <<subReplies, calls>>
        /\ Head(replies) # 0 /\ log' = Append(log, [id |-> Head(replies), got |-> Head(replies)])
    BY <1>0, <1>3, <2>1, ReplyToCommandTalks
  <2>3. Waiting # <<>> /\ Waiting' = Tail(Waiting) /\ Head(Waiting) = Head(replies)
    BY <1>0, <2>2, FirstWaits
  <2> QED BY <2>2, <2>3 DEF Settles
<1>4. CASE ReplyWhileSubscribed
  <2>1. Conversation
    BY <1>2, <1>4 DEF ReplyWhileSubscribed, ForSubscription
  <2>2. /\ Talking /\ replies = <<>> /\ replies' = <<>> /\ subReplies # <<>>
        /\ subReplies' = Tail(subReplies) /\ UNCHANGED calls
        /\ Head(subReplies) # 0 /\ log' = Append(log, [id |-> Head(subReplies), got |-> Head(subReplies)])
    BY <1>0, <1>4, <2>1, ReplyWhileSubscribedTalks
  <2>3. Waiting # <<>> /\ Waiting' = Tail(Waiting) /\ Head(Waiting) = Head(subReplies)
    BY <1>0, <2>2, FirstWaits
  <2> QED BY <2>2, <2>3 DEF Settles
<1>5. CASE ConfirmSubscribe \/ PubSubMessage
  <2>1. replies = <<>> /\ UNCHANGED calls
    BY <1>5 DEF ConfirmSubscribe, PubSubMessage, ForSubscription, countVars
  <2>2. \A q, id : Repush(q, id) = q
    BY <1>0, NotMonitoring
  <2>3. UNCHANGED <<subReplies, log>> /\ (replies' = replies \/ replies' = Repush(<<>>, 0))
    BY <1>5 DEF ConfirmSubscribe, PubSubMessage, Abort, queueVars
  <2> QED BY <2>1, <2>2, <2>3, QueueKept
<1>6. CASE ConfirmUnsubscribe
  <2>1. replies = <<>> /\ UNCHANGED <<calls, log>>
    BY <1>6 DEF ConfirmUnsubscribe, ForSubscription, countVars, Abort
  <2>2. \A q, id : Repush(q, id) = q
    BY <1>0, NotMonitoring
  <2>3. \/ UNCHANGED <<replies, subReplies>>
        \/ \E q \in {subReplies, <<>>} : /\ replies' = q \/ replies' = Repush(q, 0)
                                         /\ subReplies' = IF q = <<>> THEN subReplies ELSE <<>>
    <3>1. CASE Abort
      BY <3>1 DEF Abort, queueVars
    <3>2. CASE ~Abort
      <4> DEFINE last == Head(reader).count = 0 /\ DOMAIN subs' = {} /\ pendingUnsubs' = 0
                 q == IF last THEN subReplies ELSE <<>>
      <4>1. (replies' = q \/ replies' = Repush(q, 0)) /\ subReplies' = IF last THEN <<>> ELSE subReplies
        BY <1>6, <3>2 DEF ConfirmUnsubscribe
      <4>2. subReplies' = IF q = <<>> THEN subReplies ELSE <<>>
        BY <4>1
      <4>3. q \in {subReplies, <<>>}
        OBVIOUS
      <4> HIDE DEF q
      <4> QED BY <4>1, <4>2, <4>3
    <3> QED BY <3>1, <3>2
  <2>4. CASE UNCHANGED <<replies, subReplies>>
    BY <2>1, <2>4, QueueKept
  <2>5. ASSUME NEW q \in {subReplies, <<>>}, replies' = q, subReplies' = IF q = <<>> THEN subReplies ELSE <<>>
        PROVE  Waiting' = Waiting
    <3>1. \A s \in Seq(Nat) : s \o <<>> = s /\ <<>> \o s = s
      OBVIOUS
    <3>2. subReplies \in Seq(Nat)
      BY <1>0 DEF OrderInv
    <3>3. Waiting = subReplies
      BY <2>1, <3>1, <3>2 DEF Waiting
    <3>4. CASE q = <<>>
      <4>1. Waiting' = <<>> \o subReplies
        BY <2>5, <3>4 DEF Waiting
      <4> QED BY <3>1, <3>2, <3>3, <4>1
    <3>5. CASE q # <<>>
      <4>1. Waiting' = subReplies \o <<>>
        BY <2>5, <3>5 DEF Waiting
      <4> QED BY <3>1, <3>2, <3>3, <4>1
    <3> QED BY <3>4, <3>5
  <2> QED BY <2>1, <2>2, <2>3, <2>4, <2>5 DEF Stutters
<1> QED BY <1>1, <1>3, <1>4, <1>5, <1>6 DEF Process

(* The teardown settles the oldest with no reply.                           *)
LEMMA LibraryPromise ==
    ASSUME AsyncInv, CallbackReturns \/ FreeStep \/ Transfer \/ TimeoutReplies \/ TimeoutEnds \/ Loop \/ Server
    PROVE  Stutters \/ Settles(0)
<1>0. OrderInv /\ CountInv
  BY DEF AsyncInv, DataInv
<1>1. CASE CallbackReturns
  BY <1>0, <1>1, ReturnsTalks, QueueKept
<1>2. CASE FreeReplies
  <2> DEFINE from == IF replies # <<>> THEN replies ELSE subReplies
  <2>0. replies \o subReplies # <<>> /\ replies \in Seq(Nat) /\ subReplies \in Seq(Nat)
    BY <1>0, <1>2 DEF FreeReplies, OrderInv
  <2>1. from # <<>>
    BY <2>0
  <2>2. RunReplyCallback(Head(from), 0, "free", flags) /\ calls' = calls
    BY <1>2 DEF FreeReplies, countVars
  <2>3. Head(from) \in Ids
    BY <1>0, <2>1, OldestNumber
  <2>4. Head(from) # 0
    BY <2>3, AsyncAssumption DEF Ids
  <2>5. log' = Append(log, [id |-> Head(from), got |-> 0])
    <3> HIDE DEF from
    <3> QED BY <2>2, <2>4 DEF RunReplyCallback
  <2>6. Waiting # <<>> /\ Waiting' = Tail(Waiting) /\ Head(Waiting) = IF replies # <<>> THEN Head(replies) ELSE Head(subReplies)
    BY <1>0, <1>2, <2>1, FirstWaits DEF FreeReplies
  <2>7. Head(Waiting) = Head(from)
    BY <2>6
  <2> HIDE DEF from
  <2> QED BY <2>2, <2>5, <2>6, <2>7 DEF Settles
<1>3. CASE TimeoutReplies
  <2>1. /\ replies # <<>> /\ replies' = Tail(replies) /\ UNCHANGED <<subReplies, calls>>
        /\ RunReplyCallback(Head(replies), 0, "timeout", flags)
    BY <1>3 DEF TimeoutReplies, countVars
  <2>2. Head(replies) \in Ids
    BY <1>0, <2>1, OldestNumber
  <2>3. Head(replies) # 0
    BY <2>2, AsyncAssumption DEF Ids
  <2>4. log' = Append(log, [id |-> Head(replies), got |-> 0])
    BY <2>1, <2>3 DEF RunReplyCallback
  <2>5. Waiting # <<>> /\ Waiting' = Tail(Waiting) /\ Head(Waiting) = Head(replies)
    BY <1>0, <2>1, FirstWaits
  <2> QED BY <2>1, <2>4, <2>5 DEF Settles
<1>4. ASSUME NEW n, FreeSubscription(n) PROVE Stutters
  BY <1>4, QueueKept DEF FreeSubscription, countVars
<1>5. CASE FinishFree \/ TimeoutEnds \/ ReadFails \/ WriteFails \/ AsyncWrite
  BY <1>5, QueueKept DEF FinishFree, TimeoutEnds, ReadFails, WriteFails, AsyncWrite, queueVars, countVars
<1>6. ASSUME NEW k, AsyncRead(k) PROVE Stutters
  BY <1>6, QueueKept DEF AsyncRead, queueVars, countVars
<1>7. CASE Loop
  BY <1>7, LoopTalks, QueueKept DEF queueVars
<1>8. CASE Server
  BY <1>8, QueueKept DEF Server, ServerSends, Establish, Refuse, Drop, SocketBecomes, queueVars, countVars
<1> QED BY <1>1, <1>2, <1>3, <1>4, <1>5, <1>6, <1>7, <1>8 DEF FreeStep, Transfer

(* Every step is one of the abstract specification, or a stutter.           *)
LEMMA PromiseStep ==
    ASSUME Orderly, AsyncInv, [Next]_vars
    PROVE  [Promise!Next]_(Promise!promiseVars)
<1> DEFINE Ending == \E i \in DOMAIN log : log[i].got = 0
<1>0. DataInv /\ GotInv /\ IsSeq(log) /\ Len(log) \in Nat /\ DOMAIN log = 1 .. Len(log)
  BY AppendAny DEF AsyncInv, DataInv, OrderInv, IsSeq
<1>1. CASE Stutters
  <2>1. Ending' = Ending
    BY <1>1 DEF Stutters
  <2> QED BY <1>1, <2>1 DEF Stutters, Waiting, Promise!promiseVars
<1>2. CASE Issues
  <2>1. Ending' = Ending
    BY <1>2 DEF Issues
  <2>2. Promise!Issue
    BY <1>2, <2>1 DEF Issues, Waiting, Promise!Issue
  <2> QED BY <2>2 DEF Promise!Next
<1>3. ASSUME NEW got, Settles(got)
      PROVE  /\ Ending' = (Ending \/ got = 0)
             /\ Promise!Settle(got)
  <2>1. log' = Append(log, [id |-> Head(Waiting), got |-> got])
    BY <1>3 DEF Settles
  <2>2. /\ Len(log') = Len(log) + 1 /\ log'[Len(log) + 1] = [id |-> Head(Waiting), got |-> got]
        /\ \A i \in 1 .. Len(log) : log'[i] = log[i]
        /\ IsSeq(log')
    BY <1>0, <2>1, AppendAny
  <2>3. DOMAIN log' = 1 .. Len(log) + 1
    BY <2>2 DEF IsSeq
  <2>4. Ending' <=> (Ending \/ got = 0)
    <3>1. \A i \in 1 .. Len(log) + 1 : i \in 1 .. Len(log) \/ i = Len(log) + 1
      BY <1>0
    <3>2. \A i \in 1 .. Len(log) : i \in 1 .. Len(log) + 1
      BY <1>0
    <3>3. Len(log) + 1 \in 1 .. Len(log) + 1
      BY <1>0
    <3>4. Ending' <=> \E i \in 1 .. Len(log) + 1 : log'[i].got = 0
      BY <2>3
    <3>5. Ending <=> \E i \in 1 .. Len(log) : log[i].got = 0
      BY <1>0
    <3>6. log'[Len(log) + 1].got = got
      BY <2>2
    <3> HIDE DEF Ending
    <3> QED BY <2>2, <3>1, <3>2, <3>3, <3>4, <3>5, <3>6
  <2>5. Promise!Settle(got)
    BY <1>3 DEF Settles, Waiting, Promise!Settle
  <2> QED BY <2>4, <2>5
<1>4. CASE Settles(0)
  <2>1. Promise!Settle(0) /\ Ending'
    BY <1>3, <1>4
  <2>2. Promise!Cancel
    BY <2>1 DEF Promise!Cancel
  <2> QED BY <2>2 DEF Promise!Next
<1>5. CASE Talking /\ Settles(Head(Waiting)) /\ Head(Waiting) # 0
  <2>1. ~Ending
    BY <1>0, <1>5 DEF GotInv
  <2>2. Promise!Settle(Head(Waiting)) /\ ~Ending'
    BY <1>3, <1>5, <2>1
  <2>3. Promise!Answer
    BY <2>1, <2>2 DEF Promise!Answer, Waiting
  <2> QED BY <2>3 DEF Promise!Next
<1>6. CASE UNCHANGED vars
  BY <1>1, <1>6, QueueKept DEF vars, queueVars, countVars
<1> QED BY <1>0, <1>1, <1>2, <1>4, <1>5, <1>6, ApplicationPromise, ProcessPromise, LibraryPromise DEF Next, Library

(* The context implements the abstract queue: its two queues and the         *)
(* hand-over between them settle every command once, in the order of issue, *)
(* with its own reply, until one is settled with none; from then on all are *)
(* settled with none.                                                       *)
THEOREM PromiseIsKept == Orderly => (Spec => CallbacksInOrder)
<1> SUFFICES ASSUME Orderly PROVE Spec => CallbacksInOrder
  OBVIOUS
<1>1. Init => Promise!Init
  <2> SUFFICES ASSUME Init PROVE Promise!Init
    OBVIOUS
  <2>1. replies = <<>> /\ subReplies = <<>> /\ log = <<>> /\ calls = 0
    BY DEF Init
  <2>2. <<>> \o <<>> = <<>> /\ DOMAIN <<>> = {}
    OBVIOUS
  <2> QED BY <2>1, <2>2 DEF Promise!Init
<1>2. AsyncInv /\ [Next]_vars => [Promise!Next]_(Promise!promiseVars)
  BY PromiseStep
<1>3. Spec => []AsyncInv
  BY AsyncHolds
<1> QED BY <1>1, <1>2, <1>3, PTL DEF Spec, CallbacksInOrder, Promise!Spec

=============================================================================
