------------------------------ MODULE TlsLayer ------------------------------
(***************************************************************************)
(* TLS below a context that does not block (ssl.c): the handshake, and the *)
(* handlers that have to write in order to read and the other way round.   *)
(*                                                                         *)
(* OpenSSL is external: a call works through the handshake as far as the   *)
(* socket allows, and returns what it wants when that is not all of it.    *)
(***************************************************************************)
EXTENDS Naturals, Sequences, FiniteSetsExt

CONSTANTS
    MaxCommands,       \* commands of the application
    MaxRenegotiations, \* handshakes that the server begins later
    Congested          \* whether the socket may have no room to write

ASSUME TlsAssumption == MaxCommands \in Nat /\ MaxRenegotiations \in Nat

VARIABLES
    c,       \* the context: owner of its SSL object, err, the bytes of obuf
    rssl,    \* c->privctx: lastLen, wantRead, pendingWrite
    watched, \* events that the event library watches for
    ssl,     \* the SSL object and its socket: what is left of the handshake
             \* (directions), messages of it and data that arrived, whether
             \* the server closed it, room to write, the length of a write
             \* that is to be repeated
    peer,    \* the server: commands it got, replies it sent
    issued,  \* commands of the application
    started, \* handshakes that the server began
    at       \* the handler's next call: "loop" when none runs, "write", "read"

tlsVars == <<c, rssl, watched, ssl, peer, issued, started, at>>

Handshake == <<"write", "read", "write">>
Renegotiation == <<"read", "write", "read", "write">>

TlsInit ==
    /\ c = [owner |-> "caller", err |-> "none", obuf |-> 0]
    /\ rssl = [lastLen |-> 0, wantRead |-> FALSE, pendingWrite |-> FALSE]
    /\ watched = {}
    /\ ssl = [left |-> Handshake, came |-> 0, data |-> 0, shut |-> FALSE, room |-> TRUE,
              repeat |-> 0, misused |-> FALSE]
    /\ peer = [commands |-> 0, replies |-> 0]
    /\ issued = 0 /\ started = 0 /\ at = "loop"

-----------------------------------------------------------------------------
(* OpenSSL.  Only a write takes room, and there is some left after it or    *)
(* not.                                                                     *)

Rooms == IF Congested THEN BOOLEAN ELSE {TRUE}

Count(s, k, direction) == Cardinality({i \in 1..k : s.left[i] = direction})
Works(s, room) ==
    LET k == Max({k \in 0..Len(s.left) :
                     /\ Count(s, k, "read") <= s.came
                     /\ s.room \/ Count(s, k, "write") = 0})
    IN  [s EXCEPT !.left = SubSeq(@, k + 1, Len(@)), !.came = @ - Count(s, k, "read"),
                  !.room = IF Count(s, k, "write") = 0 THEN @ ELSE room]
ToRead(s) == IF s.shut THEN "end" ELSE "read"
Wants(s) == IF s.left = <<>> THEN "nothing"
            ELSE IF Head(s.left) = "read" THEN ToRead(s) ELSE "write"

(* SSL_write and SSL_read: the object after the call, and what it wanted;   *)
(* "end" for 0, when there is nothing more to read and the server closed.   *)
SslWrite(s, len, room) ==
    LET w    == Works(s, room)
        want == IF w.left # <<>> THEN Wants(w) ELSE IF w.room THEN "nothing" ELSE "write"
    IN  [ssl |-> [w EXCEPT !.repeat = IF want = "nothing" THEN 0 ELSE IF want = "end" THEN @ ELSE len,
                           !.room = IF want = "nothing" THEN room ELSE @,
                           !.misused = @ \/ (s.repeat > 0 /\ s.repeat # len)],
         rv |-> want]
SslRead(s, room) ==
    LET w == Works(s, room)
    IN  IF w.left # <<>> THEN [ssl |-> w, rv |-> Wants(w)]
        ELSE IF w.data > 0 THEN [ssl |-> [w EXCEPT !.data = 0], rv |-> "nothing"]
        ELSE [ssl |-> w, rv |-> ToRead(w)]

-----------------------------------------------------------------------------
(* redisBufferWrite with redisSSLWrite: nothing is called for an empty      *)
(* buffer, an interrupted write is repeated with its own length, and one    *)
(* that returned 0 changes nothing.                                         *)

MaybeCheckWant(r, rv) ==
    CASE rv = "read"  -> [r EXCEPT !.wantRead = TRUE]
      [] rv = "write" -> [r EXCEPT !.pendingWrite = TRUE]
      [] OTHER        -> r

(* Mutant: a repeated write takes all that is in the buffer by now.         *)
LengthOfBuffer == c.obuf

Length == IF rssl.lastLen > 0 THEN rssl.lastLen ELSE c.obuf
Sent(call) == IF call.rv = "nothing" THEN Length ELSE 0

Written(call) ==
    /\ c' = [c EXCEPT !.obuf = @ - Sent(call)]
    /\ peer' = [peer EXCEPT !.commands = @ + Sent(call)]
    /\ ssl' = call.ssl
LastLen(call) ==
    IF call.rv = "nothing" THEN 0 ELSE IF call.rv = "end" THEN rssl.lastLen ELSE Length
AfterWrite(r, call) == MaybeCheckWant([r EXCEPT !.lastLen = LastLen(call)], call.rv)

(* __redisAsyncDisconnect: the adapter is cleaned up, the context freed and *)
(* its SSL object with it (redisSSLFree).                                   *)
Lost == /\ c' = [c EXCEPT !.err = "io", !.owner = "freed"]
        /\ watched' = {} /\ at' = "loop"
        /\ UNCHANGED <<rssl, ssl, peer, issued, started>>

-----------------------------------------------------------------------------

Up == c.owner = "context" /\ c.err = "none"

(* redisInitiateSSLWithContext for a context that does not block: the SSL   *)
(* object is the context's when SSL_connect succeeds or has to wait, and is *)
(* freed when it fails.                                                     *)
InitiateSSL ==
    /\ c.owner = "caller"
    /\ \E fails \in BOOLEAN, room \in Rooms :
          IF fails THEN c' = [c EXCEPT !.owner = "freed", !.err = "io"] /\ UNCHANGED ssl
          ELSE /\ c' = [c EXCEPT !.owner = "context"]
               /\ ssl' = Works(ssl, room)
    /\ watched' = {"write"}  \* redisAsyncSetConnectCallback
    /\ UNCHANGED <<rssl, peer, issued, started, at>>

Readable == ssl.came > 0 \/ ssl.data > 0 \/ ssl.shut

(* redisSSLAsyncRead: first a write that waited for this.                   *)
HandleRead ==
    /\ Up /\ at = "loop" /\ "read" \in watched /\ Readable
    /\ rssl' = [rssl EXCEPT !.wantRead = FALSE, !.pendingWrite = FALSE]
    /\ at' = IF rssl.pendingWrite /\ c.obuf > 0 THEN "write" ELSE "read"
    /\ UNCHANGED <<c, watched, ssl, peer, issued, started>>

(* Mutant: a write that is not done is not scheduled again.                 *)
ResumeWriteOnce ==
    /\ Up /\ at = "write"
    /\ \/ \E room \in Rooms :
             LET call == SslWrite(ssl, Length, room)
             IN  /\ Written(call)
                 /\ rssl' = AfterWrite(rssl, call)
                 /\ at' = "read"
                 /\ UNCHANGED <<watched, issued, started>>
       \/ Lost

ResumeWrite ==
    /\ Up /\ at = "write"
    /\ \/ \E room \in Rooms :
             LET call == SslWrite(ssl, Length, room)
             IN  /\ Written(call)
                 /\ rssl' = AfterWrite(rssl, call)
                 /\ watched' = watched \cup (IF c'.obuf = 0 THEN {} ELSE {"write"})
                 /\ at' = "read"
                 /\ UNCHANGED <<issued, started>>
       \/ Lost

BufferRead ==
    /\ Up /\ at = "read"
    /\ \/ \E room \in Rooms :
             LET call == SslRead(ssl, room)
             IN  /\ call.rv # "end"
                 /\ ssl' = call.ssl
                 /\ rssl' = MaybeCheckWant(rssl, call.rv)
                 /\ watched' = watched \cup {"read"}
                 /\ at' = "loop"
                 /\ UNCHANGED <<c, peer, issued, started>>
       \/ Lost

(* Mutant: nothing is watched for when all is written.                      *)
NothingToWriteOrRead ==
    /\ c.obuf = 0
    /\ watched' = {}
    /\ rssl' = [rssl EXCEPT !.pendingWrite = FALSE]
    /\ UNCHANGED <<c, ssl, peer, issued, started, at>>

(* redisSSLAsyncWrite                                                       *)
NothingToWrite ==
    /\ c.obuf = 0
    /\ watched' = (watched \ {"write"}) \cup {"read"}
    /\ rssl' = [rssl EXCEPT !.pendingWrite = FALSE]
    /\ UNCHANGED <<c, ssl, peer, issued, started, at>>

WriteMore(room) ==
    LET call  == SslWrite(ssl, Length, room)
        after == AfterWrite([rssl EXCEPT !.pendingWrite = FALSE], call)
        done  == c.obuf = Sent(call)
    IN  /\ c.obuf > 0
        /\ Written(call)
        /\ rssl' = [after EXCEPT !.pendingWrite = @ \/ (~done /\ after.wantRead)]
        /\ watched' = {"read"} \cup (IF done \/ after.wantRead THEN {} ELSE {"write"})
        /\ UNCHANGED <<issued, started, at>>

HandleWrite ==
    /\ Up /\ at = "loop" /\ "write" \in watched /\ ssl.room
    /\ NothingToWrite \/ (\E room \in Rooms : WriteMore(room)) \/ (c.obuf > 0 /\ Lost)

(* Mutant: the command is left for the next event.                          *)
CommandUnscheduled ==
    /\ Up /\ at = "loop" /\ issued < MaxCommands
    /\ issued' = issued + 1
    /\ c' = [c EXCEPT !.obuf = @ + 1]
    /\ UNCHANGED <<rssl, watched, ssl, peer, started, at>>

(* redisAsyncCommand appends to obuf and watches for room to write.         *)
Command ==
    /\ Up /\ at = "loop" /\ issued < MaxCommands
    /\ issued' = issued + 1
    /\ c' = [c EXCEPT !.obuf = @ + 1]
    /\ watched' = watched \cup {"write"}
    /\ UNCHANGED <<rssl, ssl, peer, started, at>>

(* The server and the network.                                              *)
ServerHandshake ==
    /\ Up /\ ~ssl.shut /\ ssl.left # <<>> /\ Head(ssl.left) = "read" /\ ssl.came = 0
    /\ ssl' = [ssl EXCEPT !.came = 1]
    /\ UNCHANGED <<c, rssl, watched, peer, issued, started, at>>

ServerRenegotiates ==
    /\ Up /\ ~ssl.shut /\ ssl.left = <<>> /\ started < MaxRenegotiations
    /\ started' = started + 1
    /\ ssl' = [ssl EXCEPT !.left = Renegotiation, !.came = 1]
    /\ UNCHANGED <<c, rssl, watched, peer, issued, at>>

ServerReplies ==
    /\ Up /\ ~ssl.shut /\ peer.replies < peer.commands
    /\ peer' = [peer EXCEPT !.replies = @ + 1]
    /\ ssl' = [ssl EXCEPT !.data = @ + 1]
    /\ UNCHANGED <<c, rssl, watched, issued, started, at>>

ServerCloses ==
    /\ Up /\ ~ssl.shut
    /\ ssl' = [ssl EXCEPT !.shut = TRUE]
    /\ UNCHANGED <<c, rssl, watched, peer, issued, started, at>>

RoomAgain ==
    /\ Up /\ ~ssl.room
    /\ ssl' = [ssl EXCEPT !.room = TRUE]
    /\ UNCHANGED <<c, rssl, watched, peer, issued, started, at>>

TlsNext == InitiateSSL \/ HandleRead \/ ResumeWrite \/ BufferRead \/ HandleWrite \/ Command
           \/ ServerHandshake \/ ServerRenegotiates \/ ServerReplies \/ ServerCloses
           \/ RoomAgain

TlsSpec == TlsInit /\ [][TlsNext]_tlsVars

(* The event library calls back for what is ready, the server answers, and  *)
(* the network delivers.                                                    *)
TlsFairSpec ==
    /\ TlsSpec
    /\ WF_tlsVars(HandleRead) /\ WF_tlsVars(ResumeWrite) /\ WF_tlsVars(BufferRead)
    /\ SF_tlsVars(HandleWrite)
    /\ WF_tlsVars(ServerHandshake) /\ WF_tlsVars(ServerReplies) /\ WF_tlsVars(RoomAgain)

-----------------------------------------------------------------------------

(* SSL_write is repeated with the length it was interrupted with, although  *)
(* commands were appended to the buffer in between.                         *)
RepeatedAsBefore == ~ssl.misused

(* Commands in the buffer are never forgotten: the layer waits for room, or *)
(* for a read event after which it goes on writing.                         *)
WriteNotForgotten ==
    (Up /\ at = "loop" /\ c.obuf > 0) =>
        "write" \in watched \/ ("read" \in watched /\ rssl.pendingWrite)

(* redisSSLAsyncWrite stops watching for room only when OpenSSL must read   *)
(* before it can write (the comment in the branch that tests wantRead).     *)
ReadBeforeWrite ==
    (Up /\ at = "loop" /\ c.obuf > 0 /\ "write" \notin watched) => Wants(ssl) = ToRead(ssl)

(* Every command is sent, whatever handshake is under way, unless wantRead  *)
(* is left over from a handshake that is complete.                          *)
LeftOver == rssl.wantRead /\ ssl.left = <<>>
EveryCommandSent == (Up /\ c.obuf > 0) ~> (c.obuf = 0 \/ ~Up \/ LeftOver)

(* Every reply that arrived is read.                                        *)
EveryReplyRead == (Up /\ ssl.data > 0) ~> (ssl.data = 0 \/ ~Up)
=============================================================================
