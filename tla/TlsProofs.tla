----------------------------- MODULE TlsProofs -----------------------------
(***************************************************************************)
(* Two promises of the TLS layer that hold whatever OpenSSL wants, and for *)
(* any number of commands and handshakes: an interrupted write is repeated *)
(* as it was, and commands in the buffer are not forgotten.                *)
(*                                                                         *)
(* How far a call of OpenSSL gets is left open: the proofs use only which  *)
(* fields of its object a call leaves alone.                               *)
(***************************************************************************)
EXTENDS TlsLayer, TLAPS

SslFields == {"left", "came", "data", "shut", "room", "repeat", "misused"}
IsSsl(s) == s = [f \in SslFields |-> s[f]]

Ctx == [owner : {"caller", "context", "freed"}, err : {"none", "io"}, obuf : Nat]
Rssl == [lastLen : Nat, wantRead : BOOLEAN, pendingWrite : BOOLEAN]

(* lastLen is the length that OpenSSL expects again.                        *)
RepeatInv == ssl.repeat = rssl.lastLen /\ ssl.misused = FALSE

(* In the read handler, a write is resumed only if there is one, and        *)
(* afterwards what is left waits for room already.                          *)
HandlerInv == /\ at = "write" => c.obuf > 0
              /\ at = "read" /\ c.obuf > 0 => "write" \in watched

TlsInv ==
    /\ c \in Ctx /\ rssl \in Rssl /\ rssl.lastLen <= c.obuf /\ IsSsl(ssl)
    /\ at \in {"loop", "write", "read"}
    /\ RepeatInv /\ HandlerInv /\ WriteNotForgotten

-----------------------------------------------------------------------------
(* A handshake does not touch the length of the interrupted write.          *)
LEMMA WorksKeeps ==
    ASSUME NEW s, IsSsl(s), NEW room
    PROVE  /\ IsSsl(Works(s, room))
           /\ Works(s, room).repeat = s.repeat
           /\ Works(s, room).misused = s.misused
<1>1. PICK l, a, r : Works(s, room) = [s EXCEPT !.left = l, !.came = a, !.room = r]
  BY DEF Works
<1> DEFINE v == [s EXCEPT !.left = l, !.came = a, !.room = r]
<1>2. IsSsl(v) /\ v.repeat = s.repeat /\ v.misused = s.misused
  BY DEF IsSsl, SslFields
<1> QED
  BY <1>1, <1>2

LEMMA WriteResult ==
    ASSUME NEW s, IsSsl(s), NEW len, NEW room
    PROVE  LET call == SslWrite(s, len, room)
           IN  /\ IsSsl(call.ssl)
               /\ call.ssl.repeat = IF call.rv = "nothing" THEN 0
                                    ELSE IF call.rv = "end" THEN s.repeat ELSE len
               /\ s.misused = FALSE /\ (s.repeat > 0 => s.repeat = len)
                      => call.ssl.misused = FALSE
<1> DEFINE w == Works(s, room)
<1>1. IsSsl(w) /\ w.repeat = s.repeat /\ w.misused = s.misused
  BY WorksKeeps
<1> DEFINE want == IF w.left # <<>> THEN Wants(w) ELSE IF w.room THEN "nothing" ELSE "write"
           p == IF want = "nothing" THEN 0 ELSE IF want = "end" THEN w.repeat ELSE len
           r == IF want = "nothing" THEN room ELSE w.room
           m == w.misused \/ (s.repeat > 0 /\ s.repeat # len)
           v == [w EXCEPT !.repeat = p, !.room = r, !.misused = m]
<1>2. SslWrite(s, len, room) = [ssl |-> v, rv |-> want]
  BY Zenon DEF SslWrite
<1>3. s.misused = FALSE /\ (s.repeat > 0 => s.repeat = len) => m = FALSE
  BY <1>1
<1>4. p = IF want = "nothing" THEN 0 ELSE IF want = "end" THEN s.repeat ELSE len
  BY <1>1
<1> HIDE DEF want, p, r, m
<1>5. IsSsl(v) /\ v.repeat = p /\ v.misused = m
  BY <1>1 DEF IsSsl, SslFields
<1> HIDE DEF v, w
<1> QED
  BY <1>2, <1>3, <1>4, <1>5

LEMMA ReadResult ==
    ASSUME NEW s, IsSsl(s), NEW room
    PROVE  LET call == SslRead(s, room)
           IN  /\ IsSsl(call.ssl)
               /\ call.ssl.repeat = s.repeat /\ call.ssl.misused = s.misused
<1> DEFINE w == Works(s, room)
<1>1. IsSsl(w) /\ w.repeat = s.repeat /\ w.misused = s.misused
  BY WorksKeeps
<1>2. LET v == [w EXCEPT !.data = 0]
      IN  IsSsl(v) /\ v.repeat = w.repeat /\ v.misused = w.misused
  BY <1>1 DEF IsSsl, SslFields
<1> QED
  BY <1>1, <1>2 DEF SslRead

(* maybeCheckWant does not touch the length.                                *)
LEMMA CheckWantKeeps ==
    ASSUME NEW r \in Rssl, NEW rv
    PROVE  /\ MaybeCheckWant(r, rv) \in Rssl
           /\ MaybeCheckWant(r, rv).lastLen = r.lastLen
BY DEF MaybeCheckWant, Rssl

LEMMA LengthBounds ==
    ASSUME TlsInv
    PROVE  Length \in Nat /\ Length <= c.obuf /\ (ssl.repeat > 0 => ssl.repeat = Length)
BY DEF Length, TlsInv, RepeatInv, Rssl, Ctx

LEMMA AfterWriteType ==
    ASSUME TlsInv, NEW r \in Rssl, NEW call
    PROVE  /\ AfterWrite(r, call) \in Rssl
           /\ AfterWrite(r, call).lastLen = LastLen(call)
<1> DEFINE q == [r EXCEPT !.lastLen = LastLen(call)]
<1>0. LastLen(call) \in Nat
  BY LengthBounds DEF LastLen, TlsInv, Rssl
<1>1. q \in Rssl /\ q.lastLen = LastLen(call)
  BY <1>0 DEF Rssl
<1> QED
  BY <1>1, CheckWantKeeps DEF AfterWrite

(* redisBufferWrite: what is sent leaves the buffer; the rest is repeated.  *)
LEMMA WrittenKeeps ==
    ASSUME TlsInv, NEW room, Written(SslWrite(ssl, Length, room)), rssl' \in Rssl,
           rssl'.lastLen = LastLen(SslWrite(ssl, Length, room))
    PROVE  /\ c' \in Ctx /\ c'.owner = c.owner /\ c'.err = c.err
           /\ c'.obuf = c.obuf - Sent(SslWrite(ssl, Length, room))
           /\ rssl'.lastLen <= c'.obuf /\ IsSsl(ssl') /\ RepeatInv'
<1> DEFINE call == SslWrite(ssl, Length, room)
<1>1. Length \in Nat /\ Length <= c.obuf
  BY LengthBounds
<1>2. /\ IsSsl(call.ssl)
      /\ call.ssl.repeat = LastLen(call)
      /\ call.ssl.misused = FALSE
  <2>1. IsSsl(ssl) /\ ssl.misused = FALSE /\ (ssl.repeat > 0 => ssl.repeat = Length)
    BY LengthBounds DEF TlsInv, RepeatInv
  <2>2. \A len, rm : LET k == SslWrite(ssl, len, rm)
                     IN  /\ IsSsl(k.ssl)
                         /\ k.ssl.repeat = IF k.rv = "nothing" THEN 0
                                           ELSE IF k.rv = "end" THEN ssl.repeat ELSE len
                         /\ ssl.misused = FALSE /\ (ssl.repeat > 0 => ssl.repeat = len)
                              => k.ssl.misused = FALSE
    BY <2>1, WriteResult
  <2> QED
    BY <2>1, <2>2 DEF LastLen, TlsInv, RepeatInv
<1>3. c' = [c EXCEPT !.obuf = @ - Sent(call)] /\ ssl' = call.ssl
  BY DEF Written
<1>4. Sent(call) = IF call.rv = "nothing" THEN Length ELSE 0
  BY DEF Sent
<1>5. c' \in Ctx /\ c'.owner = c.owner /\ c'.err = c.err /\ c'.obuf = c.obuf - Sent(call)
  BY <1>1, <1>3, <1>4 DEF TlsInv, Ctx
<1>6. rssl'.lastLen <= c'.obuf
  BY <1>1, <1>4, <1>5 DEF LastLen, TlsInv, Ctx
<1> QED
  BY <1>2, <1>3, <1>5, <1>6 DEF RepeatInv

-----------------------------------------------------------------------------
(* The handlers.                                                            *)
LEMMA InitTls == TlsInit => TlsInv
BY DEF TlsInit, TlsInv, Ctx, Rssl, IsSsl, SslFields, RepeatInv, HandlerInv, WriteNotForgotten, Up

(* Every action that touches neither the buffer nor the lengths.            *)
LEMMA ObjectKeeps ==
    ASSUME TlsInv, IsSsl(ssl'), ssl'.repeat = ssl.repeat, ssl'.misused = ssl.misused,
           UNCHANGED <<c, rssl, watched, at>>
    PROVE  TlsInv'
BY DEF TlsInv, RepeatInv, HandlerInv, WriteNotForgotten, Up

LEMMA LostKeeps ==
    ASSUME TlsInv, Lost PROVE TlsInv'
<1>1. c' \in Ctx /\ c'.err = "io" /\ c'.obuf = c.obuf
  BY DEF Lost, TlsInv, Ctx
<1> QED
  BY <1>1 DEF Lost, TlsInv, RepeatInv, HandlerInv, WriteNotForgotten, Up

LEMMA InitiateKeeps ==
    ASSUME TlsInv, InitiateSSL PROVE TlsInv'
<1>1. c' \in Ctx /\ c'.obuf = c.obuf
  BY DEF InitiateSSL, TlsInv, Ctx
<1>2. IsSsl(ssl') /\ ssl'.repeat = ssl.repeat /\ ssl'.misused = ssl.misused
  BY WorksKeeps DEF InitiateSSL, TlsInv
<1> QED
  BY <1>1, <1>2 DEF InitiateSSL, TlsInv, RepeatInv, HandlerInv, WriteNotForgotten, Up

LEMMA HandleReadKeeps ==
    ASSUME TlsInv, HandleRead PROVE TlsInv'
<1>1. rssl' \in Rssl /\ rssl'.lastLen = rssl.lastLen
  BY DEF HandleRead, TlsInv, Rssl
<1>2. at' = "read" /\ c.obuf > 0 => rssl.pendingWrite = FALSE
  BY DEF HandleRead, TlsInv, Rssl
<1>3. HandlerInv'
  BY <1>2 DEF HandleRead, HandlerInv, TlsInv, WriteNotForgotten
<1> QED
  BY <1>1, <1>3 DEF HandleRead, TlsInv, RepeatInv, WriteNotForgotten

LEMMA ResumeWriteKeeps ==
    ASSUME TlsInv, ResumeWrite PROVE TlsInv'
<1>1. CASE Lost
  BY <1>1, LostKeeps
<1>2. ASSUME NEW room \in Rooms,
             LET call == SslWrite(ssl, Length, room)
             IN  /\ Written(call)
                 /\ rssl' = AfterWrite(rssl, call)
                 /\ watched' = watched \cup (IF c'.obuf = 0 THEN {} ELSE {"write"})
                 /\ at' = "read"
      PROVE  TlsInv'
  <2> DEFINE call == SslWrite(ssl, Length, room)
  <2>1. rssl' \in Rssl /\ rssl'.lastLen = LastLen(call)
    BY <1>2, AfterWriteType DEF TlsInv
  <2>2. c' \in Ctx /\ rssl'.lastLen <= c'.obuf /\ IsSsl(ssl') /\ RepeatInv'
    BY <1>2, <2>1, WrittenKeeps
  <2>3. at' = "read" /\ (c'.obuf # 0 => "write" \in watched')
    BY <1>2
  <2> QED
    BY <2>1, <2>2, <2>3 DEF TlsInv, HandlerInv, WriteNotForgotten, Ctx
<1> QED
  BY <1>1, <1>2 DEF ResumeWrite

LEMMA BufferReadKeeps ==
    ASSUME TlsInv, BufferRead PROVE TlsInv'
<1>1. CASE Lost
  BY <1>1, LostKeeps
<1>2. ASSUME NEW room \in Rooms,
             LET call == SslRead(ssl, room)
             IN  /\ ssl' = call.ssl
                 /\ rssl' = MaybeCheckWant(rssl, call.rv)
                 /\ watched' = watched \cup {"read"}
                 /\ at' = "loop"
                 /\ UNCHANGED <<c, peer, issued, started>>
      PROVE  TlsInv'
  <2>1. IsSsl(ssl') /\ ssl'.repeat = ssl.repeat /\ ssl'.misused = ssl.misused
    BY <1>2, ReadResult DEF TlsInv
  <2>2. rssl' \in Rssl /\ rssl'.lastLen = rssl.lastLen
    BY <1>2, CheckWantKeeps DEF TlsInv
  <2> QED
    BY <1>2, <2>1, <2>2 DEF BufferRead, TlsInv, RepeatInv, HandlerInv, WriteNotForgotten
<1> QED
  BY <1>1, <1>2 DEF BufferRead

LEMMA NothingToWriteKeeps ==
    ASSUME TlsInv, NothingToWrite, at = "loop" PROVE TlsInv'
<1>1. rssl' \in Rssl /\ rssl'.lastLen = rssl.lastLen
  BY DEF NothingToWrite, TlsInv, Rssl
<1> QED
  BY <1>1 DEF NothingToWrite, TlsInv, RepeatInv, HandlerInv, WriteNotForgotten

LEMMA WriteMoreKeeps ==
    ASSUME TlsInv, NEW room, WriteMore(room), at = "loop" PROVE TlsInv'
<1> DEFINE call  == SslWrite(ssl, Length, room)
           r     == [rssl EXCEPT !.pendingWrite = FALSE]
           after == AfterWrite(r, call)
           done  == c.obuf = Sent(call)
<1>1. r \in Rssl
  BY DEF TlsInv, Rssl
<1>2. after \in Rssl /\ after.lastLen = LastLen(call)
  BY <1>1, AfterWriteType
<1>3. /\ Written(call)
      /\ rssl' = [after EXCEPT !.pendingWrite = @ \/ (~done /\ after.wantRead)]
      /\ watched' = {"read"} \cup (IF done \/ after.wantRead THEN {} ELSE {"write"})
      /\ at' = at
  BY DEF WriteMore
<1> HIDE DEF r, after
<1>4. /\ rssl' \in Rssl /\ rssl'.lastLen = after.lastLen
      /\ ~done /\ after.wantRead => rssl'.pendingWrite = TRUE
  BY <1>2, <1>3 DEF Rssl
<1>5. /\ c' \in Ctx /\ rssl'.lastLen <= c'.obuf /\ IsSsl(ssl') /\ RepeatInv'
      /\ c'.obuf = c.obuf - Sent(call)
  BY <1>2, <1>3, <1>4, WrittenKeeps
<1>6. c'.obuf > 0 => ~done
  BY <1>5 DEF TlsInv, Ctx
<1>7. WriteNotForgotten'
  BY <1>3, <1>4, <1>6 DEF WriteNotForgotten
<1> QED
  BY <1>3, <1>4, <1>5, <1>7 DEF TlsInv, HandlerInv

LEMMA CommandKeeps ==
    ASSUME TlsInv, Command PROVE TlsInv'
<1>1. c' \in Ctx /\ c'.obuf = c.obuf + 1
  BY DEF Command, TlsInv, Ctx
<1> QED
  BY <1>1 DEF Command, TlsInv, Ctx, Rssl, RepeatInv, HandlerInv, WriteNotForgotten

(* The server and the network.                                              *)
LEMMA NetworkKeeps ==
    ASSUME TlsInv, ServerHandshake \/ ServerRenegotiates \/ ServerReplies \/ ServerCloses \/ RoomAgain
    PROVE  TlsInv'
<1>1. IsSsl(ssl') /\ ssl'.repeat = ssl.repeat /\ ssl'.misused = ssl.misused
  BY DEF ServerHandshake, ServerRenegotiates, ServerReplies, ServerCloses, RoomAgain, TlsInv, IsSsl, SslFields
<1> QED
  BY <1>1, ObjectKeeps DEF ServerHandshake, ServerRenegotiates, ServerReplies, ServerCloses, RoomAgain

LEMMA TlsStepKeeps ==
    ASSUME TlsInv, [TlsNext]_tlsVars PROVE TlsInv'
<1>1. CASE UNCHANGED tlsVars
  BY <1>1 DEF tlsVars, TlsInv, RepeatInv, HandlerInv, WriteNotForgotten, Up
<1>2. CASE InitiateSSL
  BY <1>2, InitiateKeeps
<1>3. CASE HandleRead
  BY <1>3, HandleReadKeeps
<1>4. CASE ResumeWrite
  BY <1>4, ResumeWriteKeeps
<1>5. CASE BufferRead
  BY <1>5, BufferReadKeeps
<1>6. CASE HandleWrite
  BY <1>6, NothingToWriteKeeps, WriteMoreKeeps, LostKeeps DEF HandleWrite
<1>7. CASE Command
  BY <1>7, CommandKeeps
<1>8. CASE ServerHandshake \/ ServerRenegotiates \/ ServerReplies \/ ServerCloses \/ RoomAgain
  BY <1>8, NetworkKeeps
<1> QED
  BY <1>1, <1>2, <1>3, <1>4, <1>5, <1>6, <1>7, <1>8 DEF TlsNext

LEMMA TlsInvHolds == TlsSpec => []TlsInv
<1>1. TlsInv /\ [TlsNext]_tlsVars => TlsInv'
  BY TlsStepKeeps
<1> QED
  BY InitTls, <1>1, PTL DEF TlsSpec

-----------------------------------------------------------------------------
(* An interrupted SSL_write is repeated with its own length, whatever was   *)
(* appended to the buffer since, and whatever handshake interrupted it.     *)
THEOREM RepeatsAsBefore == TlsSpec => []RepeatedAsBefore
<1>1. TlsInv => RepeatedAsBefore
  BY DEF TlsInv, RepeatInv, RepeatedAsBefore
<1> QED BY TlsInvHolds, <1>1, PTL

(* While commands are in the buffer the layer waits for room, or for a read *)
(* event after which it writes.                                             *)
THEOREM NoWriteForgotten == TlsSpec => []WriteNotForgotten
<1>1. TlsInv => WriteNotForgotten
  BY DEF TlsInv
<1> QED BY TlsInvHolds, <1>1, PTL
=============================================================================
