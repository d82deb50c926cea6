-------------------------- MODULE NetConnectProofs --------------------------
(***************************************************************************)
(* What holds of connecting and reconnecting for all options, any number   *)
(* of addresses, retries and reconnects, and any set of failing calls.     *)
(***************************************************************************)
EXTENDS NetConnect, TLAPS

Ctx == [fd : 0 .. 3, err : {"none", "io", "oom", "other"}, type : {"tcp", "unix"},
        host : {"null", "asked"}, path : {"null", "asked"}, source : {"null", "asked"}]
Sock == [mode : {"none", "user", "blocking", "nonblocking"},
         peer : {"none", "null", "self", "asked"},
         state : {"none", "new", "inprogress", "connected"}]

(* Calls on the new socket; all but the first find it non-blocking.         *)
Prepared == {"path", "bind", "dial", "wait", "nodelay", "block"}

(* The context owns its descriptor and no other, and has none when it looks *)
(* for one.                                                                 *)
FdInv ==
    /\ FdsOwned
    /\ pc \in {"connect", "socket"} => c.fd = NoFd
    /\ pc \in Prepared \cup {"nonblock"} => c.fd # NoFd

(* A result is known only when the call is over, or sets the timeout.       *)
ResultInv ==
    /\ result = "failed" => pc \in {"idle", "freed", "settimeout"}
    /\ result = "ok" => pc \in {"idle", "freed"}
    /\ result = "failed" /\ ~asked.reuse => c.err # "none"

(* poll is repeated only after less than the timeout.                       *)
WaitInv ==
    /\ pc \in {"connect", "socket", "nonblock", "path", "bind", "dial"} => waited = 0
    /\ pc = "wait" => waited < Timeout
    /\ WaitBounded

(* What the socket is like on the way to REDIS_OK.                          *)
Reached == sock.state = "connected" \/ (~asked.block /\ sock.state = "inprogress")
ReadyInv ==
    /\ pc \in Prepared => sock.mode = "nonblocking"
    /\ pc = "nodelay" => sock.state = "connected"
    /\ pc = "block" => Reached
    /\ (pc = "settimeout" /\ result # "failed") \/ (pc = "idle" /\ result = "ok") =>
          /\ c.fd # NoFd /\ Reached
          /\ asked.type # "fd" \/ attempts > 0 =>
                sock.mode = (IF asked.block THEN "blocking" ELSE "nonblocking")

NetInv ==
    /\ c \in Ctx /\ sock \in Sock /\ waited \in Nat /\ attempts \in Nat
    /\ FdInv /\ ResultInv /\ WaitInv /\ ReadyInv

LEMMA InitNet == NetInit => NetInv
BY NetAssumption
DEF NetInit, NetInv, Ctx, Sock, NoSock, NoFd, FdInv, FdsOwned, ResultInv, WaitInv, WaitBounded,
    ReadyInv, Prepared, Reached

(* A context without a descriptor finds one that is not open.               *)
LEMMA NewFdIsNew ==
    ASSUME FdInv, c.fd = NoFd PROVE NewFd \in 1 .. 3 /\ open = {}
BY DEF FdInv, FdsOwned, NewFd, NoFd

-----------------------------------------------------------------------------
(* The ways a step ends.                                                    *)
LEMMA FailKeeps ==
    ASSUME NetInv, NEW known \in Ctx, NEW e \in {"unset", "io", "oom", "other"}, Fail(known, e),
           known.fd = c.fd, e = "unset" => asked.reuse,
           waited' \in Nat, waited' < 2 * Timeout
    PROVE  NetInv'
<1>1. c' \in Ctx /\ c'.fd = c.fd /\ (~asked.reuse => c'.err # "none")
  BY DEF Fail, Ctx
<1>2. pc' \in {"settimeout", "idle"} /\ result' = "failed"
      /\ UNCHANGED <<asked, sock, open, attempts>>
  BY DEF Fail, AfterFailure
<1>3. FdInv'
  BY <1>1, <1>2 DEF NetInv, FdInv, FdsOwned, Prepared
<1>4. ResultInv'
  BY <1>1, <1>2 DEF ResultInv
<1>5. WaitInv'
  BY <1>2 DEF WaitInv, WaitBounded
<1>6. ReadyInv'
  BY <1>2 DEF ReadyInv, Prepared
<1> QED
  BY <1>1, <1>2, <1>3, <1>4, <1>5, <1>6 DEF NetInv

(* redisNetClose.                                                           *)
LEMMA ClosedKeeps ==
    ASSUME NetInv, c' = [c EXCEPT !.err = "io", !.fd = NoFd],
           sock' = NoSock, open' = open \ {c.fd}, UNCHANGED <<asked, attempts>>,
           waited' \in Nat, waited' < 2 * Timeout,
           pc' = "idle" /\ result' = "failed"
    PROVE  NetInv'
<1>1. c' \in Ctx /\ c'.fd = NoFd /\ c'.err # "none"
  <2>1. c \in Ctx /\ NoFd \in 0 .. 3
    BY DEF NetInv, NoFd
  <2> QED
    BY <2>1 DEF Ctx
<1>2. sock' \in Sock
  BY DEF NoSock, Sock
<1>3. open' = {}
  BY DEF NetInv, FdInv, FdsOwned
<1>4. FdInv' /\ ResultInv' /\ WaitInv' /\ ReadyInv'
  BY <1>1, <1>3 DEF FdInv, FdsOwned, ResultInv, WaitInv, WaitBounded, ReadyInv, Prepared
<1> QED
  BY <1>1, <1>2, <1>4 DEF NetInv

LEMMA WaitedBound ==
    ASSUME NetInv PROVE waited \in Nat /\ waited < 2 * Timeout
BY DEF NetInv, WaitInv, WaitBounded

(* A descriptor is found for the context, and the call goes on.             *)
LEMMA OpenedKeeps ==
    ASSUME NetInv, pc \in {"connect", "socket"}, c' = [c EXCEPT !.fd = NewFd],
           open' = open \cup {NewFd}, sock' \in Sock, Go("nonblock"),
           waited' = 0, UNCHANGED asked
    PROVE  NetInv'
<1>1. NewFd \in 1 .. 3 /\ open = {} /\ result \notin {"failed", "ok"}
  BY NewFdIsNew DEF NetInv, FdInv, ResultInv
<1>2. c' \in Ctx /\ c'.fd = NewFd /\ c'.fd # NoFd
  BY <1>1 DEF NetInv, Ctx, NoFd
<1>3. pc' = "nonblock" /\ UNCHANGED <<result, attempts>>
  BY DEF Go
<1>4. FdInv'
  BY <1>1, <1>2, <1>3 DEF FdInv, FdsOwned, NoFd, Prepared
<1>5. ResultInv' /\ WaitInv' /\ ReadyInv'
  BY <1>1, <1>3, NetAssumption DEF ResultInv, WaitInv, WaitBounded, ReadyInv, Prepared
<1> QED
  BY <1>2, <1>3, <1>4, <1>5 DEF NetInv

-----------------------------------------------------------------------------
(* The calls before there is a socket.                                      *)
LEMMA UseFdKeeps ==
    ASSUME NetInv, UseFd PROVE NetInv'
<1>1. NewFd \in 1 .. 3 /\ open = {} /\ result \notin {"failed", "ok"}
  BY NewFdIsNew DEF UseFd, NetInv, FdInv, ResultInv
<1>2. c' \in Ctx /\ c'.fd = NewFd /\ c'.fd # NoFd
  BY <1>1 DEF UseFd, NetInv, Ctx, NoFd
<1>3. sock' \in Sock /\ sock'.state = "connected"
  BY DEF UseFd, Sock
<1>4. /\ pc' = "settimeout" /\ UNCHANGED <<asked, waited, result, attempts>>
      /\ open' = open \cup {NewFd} /\ asked.type = "fd" /\ attempts = 0
  BY DEF UseFd, Go
<1>5. FdInv'
  BY <1>1, <1>2, <1>4 DEF FdInv, FdsOwned, NoFd, Prepared
<1>6. ResultInv' /\ WaitInv'
  BY <1>1, <1>4 DEF NetInv, ResultInv, WaitInv, WaitBounded
<1>7. ReadyInv'
  BY <1>2, <1>3, <1>4 DEF ReadyInv, Prepared, Reached
<1> QED
  BY <1>2, <1>3, <1>4, <1>5, <1>6, <1>7 DEF NetInv

LEMMA StartTcpKeeps ==
    ASSUME NetInv, StartTcp PROVE NetInv'
<1>1. pc = "connect"
  BY DEF StartTcp
<1>2. PICK host \in OwnCopy("oom"), source \in OwnCopy("oom"), valid \in Valid,
           found \in Succeeds("resolve") :
          LET known == [c EXCEPT !.type = "tcp", !.host = Copied(@, "asked", host),
                            !.source = IF ~host \/ ~valid \/ ~asked.source THEN @
                                       ELSE Copied(@, "asked", source)]
              err == IF ~host THEN "oom" ELSE IF ~valid THEN "io"
                     ELSE IF ~found THEN "other" ELSE "none"
          IN  IF err = "none"
              THEN /\ c' = known /\ Go("socket")
                   /\ addr' = 1 /\ reuses' = 0 /\ waited' = 0
                   /\ UNCHANGED <<asked, sock, open>>
              ELSE Fail(known, err) /\ UNCHANGED waited
  BY Zenon DEF StartTcp
<1> DEFINE known == [c EXCEPT !.type = "tcp", !.host = Copied(@, "asked", host),
                         !.source = IF ~host \/ ~valid \/ ~asked.source THEN @
                                    ELSE Copied(@, "asked", source)]
<1>3. known \in Ctx /\ known.fd = c.fd
  <2>1. \A own, ok : Copied(own, "asked", ok) \in {own, "asked", "null"}
    BY DEF Copied
  <2>2. PICK h, s : /\ known = [c EXCEPT !.type = "tcp", !.host = h, !.source = s]
                    /\ h \in {c.host, "asked", "null"} /\ s \in {c.source, "asked", "null"}
    BY <2>1
  <2>3. h \in {"null", "asked"} /\ s \in {"null", "asked"} /\ c \in Ctx
    BY <2>2 DEF NetInv, Ctx
  <2>4. \A x, y \in {"null", "asked"} :
            LET k == [c EXCEPT !.type = "tcp", !.host = x, !.source = y]
            IN  k \in Ctx /\ k.fd = c.fd
    BY <2>3 DEF Ctx
  <2> HIDE DEF known
  <2> QED
    BY <2>2, <2>3, <2>4
<1> HIDE DEF known
<1>4. CASE \E e \in {"io", "oom", "other"} : Fail(known, e) /\ UNCHANGED waited
  BY <1>3, <1>4, FailKeeps, WaitedBound
<1>5. CASE c' = known /\ Go("socket") /\ waited' = 0 /\ UNCHANGED <<asked, sock, open>>
  <2>1. pc' = "socket" /\ UNCHANGED <<result, attempts>>
    BY <1>5 DEF Go
  <2>2. FdInv'
    BY <1>1, <1>3, <1>5, <2>1 DEF NetInv, FdInv, FdsOwned, Prepared
  <2>3. ResultInv' /\ WaitInv' /\ ReadyInv'
    BY <1>1, <1>5, <2>1, NetAssumption
    DEF NetInv, ResultInv, WaitInv, WaitBounded, ReadyInv, Prepared
  <2> QED
    BY <1>3, <1>5, <2>1, <2>2, <2>3 DEF NetInv
<1> QED
  BY <1>2, <1>4, <1>5 DEF known

LEMMA TcpSocketKeeps ==
    ASSUME NetInv, TcpSocket PROVE NetInv'
<1>1. pc = "socket" /\ c \in Ctx /\ waited = 0
  BY DEF TcpSocket, NetInv, WaitInv
<1>2. CASE Fail(c, "other") /\ UNCHANGED waited
  BY <1>1, <1>2, FailKeeps, WaitedBound
<1>3. CASE /\ c' = [c EXCEPT !.fd = NewFd] /\ open' = open \cup {NewFd} /\ Go("nonblock")
           /\ sock' = [mode |-> "blocking", peer |-> IF c.host = "null" THEN "self" ELSE c.host,
                       state |-> "new"]
           /\ UNCHANGED <<asked, waited>>
  <2>1. sock' \in Sock
    BY <1>1, <1>3 DEF Sock, Ctx
  <2> QED
    BY <1>1, <1>3, <2>1, OpenedKeeps
<1>4. CASE Go("socket") /\ UNCHANGED <<c, open, sock, asked, waited>>
  BY <1>1, <1>4 DEF Go, NetInv, FdInv, FdsOwned, ResultInv, WaitInv, WaitBounded, ReadyInv
<1> QED
  BY <1>2, <1>3, <1>4 DEF TcpSocket

LEMMA StartUnixKeeps ==
    ASSUME NetInv, StartUnix PROVE NetInv'
<1>1. CASE Fail(c, "io") /\ UNCHANGED waited
  BY <1>1, FailKeeps, WaitedBound DEF NetInv
<1>2. CASE /\ c' = [c EXCEPT !.fd = NewFd] /\ open' = open \cup {NewFd} /\ Go("nonblock")
           /\ sock' = [mode |-> "blocking", peer |-> "none", state |-> "new"]
           /\ waited' = 0 /\ UNCHANGED asked
  <2>1. sock' \in Sock /\ pc = "connect"
    BY <1>2 DEF Sock, StartUnix
  <2> QED
    BY <1>2, <2>1, OpenedKeeps
<1> QED
  BY <1>1, <1>2 DEF StartUnix

-----------------------------------------------------------------------------
(* The calls on the socket.                                                 *)

(* One that succeeds: the socket changes, the descriptor does not.          *)
LEMMA PreparedKeeps ==
    ASSUME NetInv, pc \in Prepared \cup {"nonblock"}, c' \in Ctx, c'.fd = c.fd, sock' \in Sock,
           NEW to \in Prepared, Go(to), sock'.mode = "nonblocking",
           to = "nodelay" => sock'.state = "connected", to = "block" => Reached',
           waited' \in Nat, waited' < 2 * Timeout,
           to \in {"path", "bind", "dial"} => waited' = 0, to = "wait" => waited' < Timeout,
           UNCHANGED <<asked, open>>
    PROVE  NetInv'
<1>1. pc' = to /\ UNCHANGED <<result, attempts>>
  BY DEF Go
<1>2. result \notin {"failed", "ok"}
  BY DEF NetInv, ResultInv, Prepared
<1>3. FdInv'
  BY <1>1 DEF NetInv, FdInv, FdsOwned, Prepared
<1>4. ResultInv'
  BY <1>1, <1>2 DEF ResultInv
<1>5. WaitInv'
  BY <1>1 DEF WaitInv, WaitBounded, Prepared
<1>6. ReadyInv'
  BY <1>1 DEF ReadyInv, Prepared
<1> QED
  BY <1>1, <1>3, <1>4, <1>5, <1>6 DEF NetInv

LEMMA FailClosedKeeps ==
    ASSUME NetInv, FailClosed("io") PROVE NetInv'
BY ClosedKeeps, WaitedBound DEF FailClosed

LEMMA SetNonBlockingKeeps ==
    ASSUME NetInv, SetNonBlocking PROVE NetInv'
<1>1. CASE FailClosed("io")
  BY <1>1, FailClosedKeeps
<1>2. CASE /\ sock' = [sock EXCEPT !.mode = "nonblocking"]
           /\ Go(IF sock.peer = "none" THEN "path" ELSE "bind")
           /\ UNCHANGED <<asked, c, open, waited>>
  <2>1. sock' \in Sock /\ sock'.mode = "nonblocking" /\ c \in Ctx
    BY <1>2 DEF NetInv, Sock
  <2>2. pc = "nonblock" /\ waited = 0
    BY DEF SetNonBlocking, NetInv, WaitInv
  <2>3. waited' \in Nat /\ waited' < 2 * Timeout
    BY <1>2, WaitedBound
  <2>4. CASE sock.peer = "none"
    BY <1>2, <2>1, <2>2, <2>3, <2>4, PreparedKeeps DEF Prepared
  <2>5. CASE sock.peer # "none"
    BY <1>2, <2>1, <2>2, <2>3, <2>5, PreparedKeeps DEF Prepared
  <2> QED
    BY <2>4, <2>5
<1> QED
  BY <1>1, <1>2 DEF SetNonBlocking

LEMMA UnixPathKeeps ==
    ASSUME NetInv, UnixPath PROVE NetInv'
<1>1. pc = "path" /\ waited = 0 /\ c \in Ctx /\ sock \in Sock /\ sock.mode = "nonblocking"
  BY DEF UnixPath, NetInv, WaitInv, ReadyInv, Prepared
<1>2. PICK path \in OwnCopy("oom"), valid \in Valid :
          LET known == [c EXCEPT !.type = "unix", !.path = Copied(@, "asked", path)]
          IN  IF path /\ valid
              THEN /\ c' = known /\ sock' = [sock EXCEPT !.peer = known.path] /\ Go("dial")
                   /\ UNCHANGED <<asked, open, addr, reuses, waited>>
              ELSE Fail(known, IF path THEN "io" ELSE "oom") /\ UNCHANGED waited
  BY DEF UnixPath
<1> DEFINE known == [c EXCEPT !.type = "unix", !.path = Copied(@, "asked", path)]
<1>3. known \in Ctx /\ known.fd = c.fd
  <2>1. Copied(c.path, "asked", path) \in {"null", "asked"}
    BY <1>1 DEF Copied, Ctx
  <2> QED
    BY <1>1, <2>1 DEF Ctx
<1> HIDE DEF known
<1>4. CASE \E e \in {"io", "oom"} : Fail(known, e) /\ UNCHANGED waited
  BY <1>3, <1>4, FailKeeps, WaitedBound
<1>5. CASE /\ c' = known /\ sock' = [sock EXCEPT !.peer = known.path] /\ Go("dial")
           /\ UNCHANGED <<asked, open, waited>>
  <2>1. sock' \in Sock /\ sock'.mode = "nonblocking"
    BY <1>1, <1>3, <1>5 DEF Sock, Ctx
  <2> QED
    BY <1>1, <1>3, <1>5, <2>1, PreparedKeeps, WaitedBound DEF Prepared
<1> QED
  BY <1>2, <1>4, <1>5 DEF known

LEMMA BindKeeps ==
    ASSUME NetInv, Bind PROVE NetInv'
<1>1. pc = "bind" /\ waited = 0 /\ c \in Ctx /\ sock \in Sock /\ sock.mode = "nonblocking"
  BY DEF Bind, NetInv, WaitInv, ReadyInv, Prepared
<1>2. CASE Go("dial") /\ UNCHANGED <<asked, c, sock, open, waited>>
  BY <1>1, <1>2, PreparedKeeps, WaitedBound DEF Prepared
<1>3. CASE (Fail(c, "other") \/ (Fail(c, "unset") /\ asked.reuse)) /\ UNCHANGED waited
  BY <1>1, <1>3, FailKeeps, WaitedBound
<1> QED
  BY <1>2, <1>3 DEF Bind

(* connect() again, on a new socket.                                        *)
LEMMA AgainKeeps ==
    ASSUME NetInv, pc = "dial", NEW nextAddr, NEW nextReuses, Again(nextAddr, nextReuses)
    PROVE  NetInv'
<1>1. pc' = "socket" /\ UNCHANGED <<asked, result, attempts, waited>>
  BY DEF Again, Go
<1>2. c' \in Ctx /\ c'.fd = NoFd /\ sock' \in Sock
  <2>1. c \in Ctx /\ NoFd \in 0 .. 3 /\ NoSock \in Sock
    BY DEF NetInv, NoFd, NoSock, Sock
  <2> QED
    BY <2>1 DEF Again, Ctx
<1>3. open' = {}
  BY DEF Again, NetInv, FdInv, FdsOwned
<1>4. FdInv' /\ ResultInv' /\ ReadyInv'
  BY <1>1, <1>2, <1>3 DEF NetInv, FdInv, FdsOwned, ResultInv, ReadyInv, Prepared
<1>5. WaitInv'
  BY <1>1, WaitedBound DEF NetInv, WaitInv, WaitBounded
<1> QED
  BY <1>1, <1>2, <1>4, <1>5 DEF NetInv

LEMMA DialKeeps ==
    ASSUME NetInv, Dial PROVE NetInv'
<1>1. /\ pc = "dial" /\ waited = 0 /\ c \in Ctx /\ sock \in Sock
      /\ sock.mode = "nonblocking"
  BY DEF Dial, NetInv, WaitInv, ReadyInv, Prepared
<1>2. ASSUME NEW state \in {"connected", "inprogress"}, NEW to \in {"block", "wait"},
             Dialled(state, to), to = "block" => state = "connected" \/ ~asked.block
      PROVE  NetInv'
  <2>1. sock' \in Sock /\ sock'.mode = "nonblocking" /\ sock'.state = state
    BY <1>1, <1>2 DEF Dialled, Sock
  <2>2. Go(to) /\ UNCHANGED <<asked, c, open, waited>>
    BY <1>2 DEF Dialled
  <2>3. to = "block" => Reached'
    BY <1>2, <2>1, <2>2 DEF Reached
  <2>4. waited' \in Nat /\ waited' < 2 * Timeout /\ waited' < Timeout
    BY <1>1, <2>2, WaitedBound, NetAssumption
  <2> QED
    BY <1>1, <2>1, <2>2, <2>3, <2>4, PreparedKeeps DEF Prepared
<1>3. CASE Fail(c, "oom") /\ UNCHANGED waited
  BY <1>1, <1>3, FailKeeps, WaitedBound
<1>4. CASE Fail(c, "unset") /\ asked.reuse /\ UNCHANGED waited
  BY <1>1, <1>4, FailKeeps, WaitedBound
<1>5. CASE \E nextAddr, nextReuses : Again(nextAddr, nextReuses)
  BY <1>1, <1>5, AgainKeeps
<1>6. CASE FailClosed("io")
  BY <1>6, FailClosedKeeps
<1>7. \/ Fail(c, "oom") /\ UNCHANGED waited
      \/ Dialled("connected", "block")
      \/ Dialled("inprogress", IF asked.block THEN "wait" ELSE "block")
      \/ \E nextAddr, nextReuses : Again(nextAddr, nextReuses)
      \/ Fail(c, "unset") /\ asked.reuse /\ UNCHANGED waited
      \/ FailClosed("io")
  BY DEF Dial
<1> QED
  BY <1>2, <1>3, <1>4, <1>5, <1>6, <1>7

(* Whatever one poll takes, it began before the timeout had passed.         *)
LEMMA WaitReadyKeeps ==
    ASSUME NetInv, WaitReady PROVE NetInv'
<1>1. pc = "wait" /\ c \in Ctx /\ sock \in Sock /\ sock.mode = "nonblocking"
      /\ waited \in Nat /\ waited < Timeout
  BY DEF WaitReady, NetInv, WaitInv, ReadyInv, Prepared
<1> DEFINE Spent(time) == IF asked.timeout THEN waited + time ELSE 0
           Outcome(event, spent) ==
               CASE event = "ready" ->
                        /\ sock' = [sock EXCEPT !.state = "connected"]
                        /\ waited' = spent
                        /\ Go(IF c.type = "tcp" THEN "nodelay" ELSE "block")
                        /\ UNCHANGED <<asked, c, open, addr, reuses>>
                 [] event = "signal" /\ MayWaitOn(spent) ->
                        /\ waited' = spent /\ Go("wait")
                        /\ UNCHANGED <<asked, c, sock, open, addr, reuses>>
                 [] event = "late" -> Fail(c, "io") /\ waited' = spent
                 [] OTHER ->
                        /\ c' = [c EXCEPT !.err = "io", !.fd = NoFd]
                        /\ sock' = NoSock /\ open' = open \ {c.fd} /\ waited' = spent
                        /\ pc' = "idle" /\ result' = "failed"
                        /\ UNCHANGED <<asked, addr, reuses, attempts>>
<1>2. PICK event \in {"ready"} \cup ({"signal", "timeout", "poll", "late"} \cap Faults),
           time \in 1 .. Timeout :
          /\ event = "signal" => time < Timeout
          /\ Outcome(event, Spent(time))
  BY Zenon DEF WaitReady
<1> DEFINE spent == Spent(time)
<1>3. spent \in Nat /\ spent < 2 * Timeout
  BY <1>1, <1>2, NetAssumption
<1>4. CASE /\ sock' = [sock EXCEPT !.state = "connected"]
           /\ waited' = spent
           /\ Go(IF c.type = "tcp" THEN "nodelay" ELSE "block")
           /\ UNCHANGED <<asked, c, open>>
  <2>1. sock' \in Sock /\ sock'.mode = "nonblocking" /\ sock'.state = "connected"
    BY <1>1, <1>4 DEF Sock
  <2>2. PICK to \in {"nodelay", "block"} : Go(to)
    BY <1>4
  <2> QED
    BY <1>1, <1>3, <1>4, <2>1, <2>2, PreparedKeeps DEF Prepared, Reached
<1>5. CASE /\ MayWaitOn(spent) /\ waited' = spent /\ Go("wait")
           /\ UNCHANGED <<asked, c, sock, open>>
  <2>1. spent < Timeout
    BY <1>5, NetAssumption DEF MayWaitOn
  <2> QED
    BY <1>1, <1>3, <1>5, <2>1, PreparedKeeps DEF Prepared
<1>6. CASE Fail(c, "io") /\ waited' = spent
  BY <1>1, <1>3, <1>6, FailKeeps
<1>7. CASE /\ c' = [c EXCEPT !.err = "io", !.fd = NoFd]
           /\ sock' = NoSock /\ open' = open \ {c.fd} /\ waited' = spent
           /\ pc' = "idle" /\ result' = "failed"
           /\ UNCHANGED <<asked, attempts>>
  BY <1>3, <1>7, ClosedKeeps
<1> HIDE DEF spent, Spent
<1> QED
  BY <1>2, <1>4, <1>5, <1>6, <1>7 DEF spent

LEMMA SetNoDelayKeeps ==
    ASSUME NetInv, SetNoDelay PROVE NetInv'
<1>1. /\ pc = "nodelay" /\ c \in Ctx /\ sock \in Sock
      /\ sock.mode = "nonblocking" /\ sock.state = "connected"
  BY DEF SetNoDelay, NetInv, ReadyInv, Prepared
<1>2. CASE Go("block") /\ UNCHANGED <<asked, c, sock, open, waited>>
  BY <1>1, <1>2, PreparedKeeps, WaitedBound DEF Prepared, Reached
<1>3. CASE FailClosed("io")
  BY <1>3, FailClosedKeeps
<1> QED
  BY <1>2, <1>3 DEF SetNoDelay

LEMMA SetBlockingKeeps ==
    ASSUME NetInv, SetBlocking PROVE NetInv'
<1>1. /\ pc = "block" /\ c \in Ctx /\ c.fd # NoFd /\ sock \in Sock
      /\ sock.mode = "nonblocking" /\ Reached /\ result \notin {"failed", "ok"}
  BY DEF SetBlocking, NetInv, FdInv, ResultInv, ReadyInv, Prepared
<1>2. CASE FailClosed("io")
  BY <1>2, FailClosedKeeps
<1>3. CASE /\ sock' = [sock EXCEPT !.mode = IF asked.block THEN "blocking" ELSE @]
           /\ Go("settimeout") /\ UNCHANGED <<asked, c, open, waited>>
  <2>1. sock' \in Sock /\ sock'.state = sock.state
        /\ sock'.mode = IF asked.block THEN "blocking" ELSE "nonblocking"
    BY <1>1, <1>3 DEF Sock
  <2>2. pc' = "settimeout" /\ UNCHANGED <<asked, c, open, waited, result, attempts>>
    BY <1>3 DEF Go
  <2>3. FdInv' /\ ResultInv'
    BY <1>1, <2>2 DEF NetInv, FdInv, FdsOwned, ResultInv, Prepared
  <2>4. WaitInv'
    BY <2>2 DEF NetInv, WaitInv, WaitBounded
  <2>5. ReadyInv'
    BY <1>1, <2>1, <2>2 DEF ReadyInv, Reached, Prepared
  <2> QED
    BY <1>1, <2>1, <2>2, <2>3, <2>4, <2>5 DEF NetInv
<1> QED
  BY <1>2, <1>3 DEF SetBlocking

LEMMA SetTimeoutKeeps ==
    ASSUME NetInv, SetTimeout PROVE NetInv'
<1>1. /\ pc = "settimeout" /\ pc' = "idle"
      /\ result' = IF result = "failed" THEN "failed" ELSE "ok"
      /\ UNCHANGED <<asked, sock, open, waited, attempts>>
  BY DEF SetTimeout
<1>2. c' \in Ctx /\ c'.fd = c.fd /\ (c.err # "none" => c'.err # "none")
  <2>1. c \in Ctx
    BY DEF NetInv
  <2>2. c' = c \/ c' = [c EXCEPT !.err = "io"]
    BY DEF SetTimeout
  <2> QED
    BY <2>1, <2>2 DEF Ctx
<1>3. FdInv'
  BY <1>1, <1>2 DEF NetInv, FdInv, FdsOwned, Prepared
<1>4. ResultInv'
  BY <1>1, <1>2 DEF NetInv, ResultInv
<1>5. WaitInv'
  BY <1>1 DEF NetInv, WaitInv, WaitBounded
<1>6. ReadyInv'
  BY <1>1, <1>2 DEF NetInv, ReadyInv, Reached, Prepared
<1> QED
  BY <1>1, <1>2, <1>3, <1>4, <1>5, <1>6 DEF NetInv

-----------------------------------------------------------------------------
(* redisReconnect and redisFree.                                            *)
LEMMA ReconnectKeeps ==
    ASSUME NetInv, Reconnect PROVE NetInv'
<1>1. PICK made \in Succeeds("oom") :
          /\ c' = [c EXCEPT !.fd = NoFd, !.err = IF made THEN "none" ELSE "oom"]
          /\ pc' = IF made THEN "connect" ELSE "idle"
          /\ result' = IF made THEN "none" ELSE "failed"
  BY DEF Reconnect
<1>2. c' \in Ctx /\ c'.fd = NoFd /\ (~made => c'.err = "oom")
  <2>1. c \in Ctx /\ NoFd \in 0 .. 3
    BY DEF NetInv, NoFd
  <2> QED
    BY <1>1, <2>1 DEF Ctx
<1>3. /\ open' = {} /\ sock' \in Sock /\ waited' = 0 /\ attempts' \in Nat
      /\ UNCHANGED asked
  BY DEF Reconnect, NetInv, FdInv, FdsOwned, NoSock, Sock
<1>4. FdInv' /\ ResultInv' /\ ReadyInv'
  BY <1>1, <1>2, <1>3 DEF FdInv, FdsOwned, ResultInv, ReadyInv, Prepared
<1>5. WaitInv'
  BY <1>3, NetAssumption DEF WaitInv, WaitBounded
<1> QED
  BY <1>2, <1>3, <1>4, <1>5 DEF NetInv

LEMMA FreeContextKeeps ==
    ASSUME NetInv, NEW keep \in BOOLEAN, Free(keep) PROVE NetInv'
<1>1. c' \in Ctx /\ c'.err = c.err /\ FdsOwned'
  <2>1. c \in Ctx /\ NoFd \in 0 .. 3
    BY DEF NetInv, NoFd
  <2>2. CASE keep
    <3>1. c' = [c EXCEPT !.fd = @] /\ open' = open
      BY <2>2 DEF Free
    <3> QED
      BY <2>1, <3>1 DEF NetInv, FdInv, FdsOwned, Ctx
  <2>3. CASE ~keep
    <3>1. c' = [c EXCEPT !.fd = NoFd] /\ open' = open \ {c.fd}
      BY <2>3 DEF Free
    <3>2. c' \in Ctx /\ c'.fd = NoFd /\ c'.err = c.err
      BY <2>1, <3>1 DEF Ctx
    <3> QED
      BY <3>1, <3>2 DEF NetInv, FdInv, FdsOwned
  <2> QED
    BY <2>2, <2>3
<1>2. pc' = "freed" /\ UNCHANGED <<asked, sock, waited, result, attempts>>
  BY DEF Free
<1>3. FdInv' /\ ResultInv' /\ ReadyInv'
  BY <1>1, <1>2 DEF NetInv, FdInv, ResultInv, ReadyInv, Prepared
<1>4. WaitInv'
  BY <1>2 DEF NetInv, WaitInv, WaitBounded
<1> QED
  BY <1>1, <1>2, <1>3, <1>4 DEF NetInv

LEMMA NetStepKeeps ==
    ASSUME NetInv, [NetNext]_netVars PROVE NetInv'
<1>1. CASE UNCHANGED netVars
  BY <1>1 DEF netVars, NetInv, FdInv, FdsOwned, ResultInv, WaitInv, WaitBounded, ReadyInv, Reached
<1>2. CASE Start
  <2>1. \/ UseFd \/ StartTcp \/ StartUnix
        \/ Fail(c, "oom") /\ UNCHANGED waited
    BY <1>2 DEF Start
  <2>2. CASE Fail(c, "oom") /\ UNCHANGED waited
    BY <2>2, FailKeeps, WaitedBound DEF NetInv
  <2> QED
    BY <2>1, <2>2, UseFdKeeps, StartTcpKeeps, StartUnixKeeps
<1>3. CASE Dialling
  BY <1>3, TcpSocketKeeps, SetNonBlockingKeeps, UnixPathKeeps, BindKeeps, DialKeeps,
     WaitReadyKeeps, SetNoDelayKeeps, SetBlockingKeeps, SetTimeoutKeeps DEF Dialling
<1>4. CASE Reconnect
  BY <1>4, ReconnectKeeps
<1>5. ASSUME NEW keep \in BOOLEAN, Free(keep) PROVE NetInv'
  BY <1>5, FreeContextKeeps
<1> QED
  BY <1>1, <1>2, <1>3, <1>4, <1>5 DEF NetNext

LEMMA NetInvHolds == NetSpec => []NetInv
<1>1. NetInv /\ [NetNext]_netVars => NetInv'
  BY NetStepKeeps
<1> QED
  BY InitNet, <1>1, PTL DEF NetSpec

-----------------------------------------------------------------------------
(* Connecting over several addresses, retries and reconnects leaves no      *)
(* descriptor open but the one of the context, whichever call fails.        *)
THEOREM NoFdLeaks == NetSpec => []FdsOwned
<1>1. NetInv => FdsOwned
  BY DEF NetInv, FdInv
<1> QED BY NetInvHolds, <1>1, PTL

(* Signals prolong connecting to less than twice the timeout.               *)
THEOREM WaitIsBounded == NetSpec => []WaitBounded
<1>1. NetInv => WaitBounded
  BY DEF NetInv, WaitInv
<1> QED BY NetInvHolds, <1>1, PTL

(* A connect that returns without an error leaves a socket that is          *)
(* connected, or dialled at least, and in the mode of the context.          *)
THEOREM OkIsConnected == NetSpec => []OkMeansConnected
<1>1. NetInv => OkMeansConnected
  BY DEF NetInv, ReadyInv, Reached, OkMeansConnected
<1> QED BY NetInvHolds, <1>1, PTL

(* Without REDIS_OPT_REUSEADDR a connect that fails sets c->err.            *)
THEOREM FailureIsReported == NetSpec => []FailureReportedWithoutReuse
<1>1. NetInv => FailureReportedWithoutReuse
  BY DEF NetInv, ResultInv, FailureReportedWithoutReuse, FailureReported
<1> QED BY NetInvHolds, <1>1, PTL

-----------------------------------------------------------------------------
(* Where the connection goes.  What a reconnect knows of the endpoint is in *)
(* the context: of a host since the first attempt began, of a path since    *)
(* its copy, with which the type is noted.                                  *)
EndpointInv ==
    /\ asked.type = "tcp" => /\ c.type = "tcp"
                             /\ c.host = "asked" \/ (pc = "connect" /\ attempts = 0)
    /\ c.path = "asked" => c.type = "unix"
    /\ pc = "socket" => c.type = "tcp"
    /\ pc = "path" => sock.peer = "none"
    /\ pc = "path" \/ (pc = "nonblock" /\ sock.peer = "none") => asked.type # "tcp"
    /\ KnownEndpointKept

LEMMA InitEndpoint == NetInit => EndpointInv
BY DEF NetInit, EndpointInv, KnownEndpointKept, SameEndpoint, NoSock

(* A step on the way, or after the call, that does not name a peer.         *)
LEMMA EndpointStays ==
    ASSUME EndpointInv, pc # "connect", UNCHANGED asked,
           c'.type = c.type, c'.host = c.host, c'.path = c.path,
           sock'.peer \in {sock.peer, "none"},
           pc' = "path" => pc = "nonblock" /\ sock.peer = "none",
           pc' # "nonblock", pc' = "socket" => c.type = "tcp"
    PROVE  EndpointInv'
BY DEF EndpointInv, KnownEndpointKept, SameEndpoint

LEMMA EndpointStep ==
    ASSUME "oom" \notin Faults, NetInv, EndpointInv, [NetNext]_netVars PROVE EndpointInv'
<1>0. c \in Ctx /\ sock \in Sock /\ NoSock.peer = "none"
  BY DEF NetInv, NoSock
<1>1. CASE UNCHANGED netVars
  BY <1>1 DEF netVars, EndpointInv, KnownEndpointKept, SameEndpoint
<1>2. CASE UseFd
  <2>1. /\ c'.type = c.type /\ c'.host = c.host /\ c'.path = c.path /\ UNCHANGED asked
        /\ sock'.peer = "asked" /\ pc' = "settimeout" /\ asked.type # "tcp"
    BY <1>0, <1>2 DEF UseFd, Go, Ctx
  <2> QED BY <2>1 DEF EndpointInv, KnownEndpointKept, SameEndpoint
<1>3. CASE StartTcp
  <2>1. pc = "connect" /\ (IF attempts = 0 THEN asked.type = "tcp" ELSE c.type = "tcp")
    BY <1>3 DEF StartTcp
  <2>2. PICK host \in OwnCopy("oom"), source \in OwnCopy("oom"), valid \in Valid,
             found \in Succeeds("resolve") :
          LET known == [c EXCEPT !.type = "tcp", !.host = Copied(@, "asked", host),
                            !.source = IF ~host \/ ~valid \/ ~asked.source THEN @
                                       ELSE Copied(@, "asked", source)]
              err == IF ~host THEN "oom" ELSE IF ~valid THEN "io"
                     ELSE IF ~found THEN "other" ELSE "none"
          IN  IF err = "none"
              THEN /\ c' = known /\ Go("socket")
                   /\ addr' = 1 /\ reuses' = 0 /\ waited' = 0
                   /\ UNCHANGED <<asked, sock, open>>
              ELSE Fail(known, err) /\ UNCHANGED waited
    BY <1>3, Zenon DEF StartTcp
  <2>3. host = TRUE
    BY DEF OwnCopy, Succeeds
  <2> DEFINE h == Copied(c.host, "asked", host)
             s == IF ~host \/ ~valid \/ ~asked.source THEN c.source ELSE Copied(c.source, "asked", source)
             known == [c EXCEPT !.type = "tcp", !.host = h, !.source = s]
  <2>4. \/ c' = known /\ Go("socket") /\ UNCHANGED <<asked, sock>>
        \/ \E e \in {"io", "other"} : Fail(known, e)
    BY <2>2, <2>3
  <2>5. h = "asked" \/ (attempts # 0 /\ h = c.host)
    BY <2>3 DEF Copied
  <2>6. known.type = "tcp" /\ known.host = h /\ known.path = c.path
    <3> HIDE DEF h, s
    <3> QED BY <1>0 DEF Ctx
  <2> HIDE DEF h, s, known
  <2>7. /\ c'.type = "tcp" /\ c'.host = h /\ c'.path = c.path /\ UNCHANGED <<asked, sock>>
        /\ pc' \notin {"path", "nonblock"}
    <3>1. CASE c' = known /\ Go("socket") /\ UNCHANGED <<asked, sock>>
      BY <2>6, <3>1 DEF Go
    <3>2. ASSUME NEW e \in {"io", "other"}, Fail(known, e)
          PROVE  /\ c'.type = "tcp" /\ c'.host = h /\ c'.path = c.path /\ UNCHANGED <<asked, sock>>
                 /\ pc' \notin {"path", "nonblock"}
      <4>1. c' = [known EXCEPT !.err = e] /\ pc' \in {"idle", "settimeout"} /\ UNCHANGED <<asked, sock>>
        BY <3>2 DEF Fail, AfterFailure
      <4> QED BY <2>6, <4>1
    <3> QED BY <2>4, <3>1, <3>2
  <2>8. c.type = "tcp" \/ asked.type = "tcp"
    BY <2>1
  <2> QED BY <2>1, <2>5, <2>7, <2>8 DEF EndpointInv, KnownEndpointKept, SameEndpoint
<1>4. CASE TcpSocket
  <2>1. pc = "socket"
    BY <1>4 DEF TcpSocket
  <2>2. CASE Fail(c, "other")
    BY <1>0, <2>1, <2>2, EndpointStays DEF Fail, AfterFailure, Ctx
  <2>3. CASE c' = [c EXCEPT !.fd = NewFd] /\ Go("nonblock") /\ UNCHANGED asked
             /\ sock' = [mode |-> "blocking", peer |-> IF c.host = "null" THEN "self" ELSE c.host,
                         state |-> "new"]
    <3>1. c'.type = c.type /\ c'.host = c.host /\ c'.path = c.path /\ pc' = "nonblock"
      BY <1>0, <2>3 DEF Ctx, Go
    <3>2. sock'.peer # "none" /\ (asked.type = "tcp" => sock'.peer = "asked")
      BY <1>0, <2>1, <2>3 DEF EndpointInv, Ctx
    <3> QED BY <2>1, <2>3, <3>1, <3>2 DEF EndpointInv, KnownEndpointKept, SameEndpoint
  <2>4. CASE Go("socket") /\ UNCHANGED <<c, sock, asked>>
    BY <2>1, <2>4, EndpointStays DEF Go, EndpointInv
  <2> QED BY <1>4, <2>2, <2>3, <2>4 DEF TcpSocket
<1>5. CASE StartUnix
  <2>1. pc = "connect" /\ (IF attempts = 0 THEN asked.type = "unix" ELSE c.type = "unix")
    BY <1>5 DEF StartUnix
  <2>2. /\ c'.type = c.type /\ c'.host = c.host /\ c'.path = c.path /\ UNCHANGED asked
        /\ sock'.peer \in {sock.peer, "none"} /\ pc' \notin {"socket", "path"}
    <3>1. CASE Fail(c, "io")
      BY <1>0, <3>1 DEF Fail, AfterFailure, Ctx
    <3>2. CASE ~Fail(c, "io")
      BY <1>0, <1>5, <3>2 DEF StartUnix, Go, Ctx
    <3> QED BY <3>1, <3>2
  <2>3. asked.type # "tcp"
    BY <2>1 DEF EndpointInv
  <2> QED BY <2>1, <2>2, <2>3 DEF EndpointInv, KnownEndpointKept, SameEndpoint
<1>6. CASE UnixPath
  <2>1. pc = "path" /\ sock.peer = "none"
    BY <1>6 DEF UnixPath, EndpointInv
  <2>2. PICK path \in OwnCopy("oom"), valid \in Valid :
          LET known == [c EXCEPT !.type = "unix", !.path = Copied(@, "asked", path)]
          IN  IF path /\ valid
              THEN /\ c' = known /\ sock' = [sock EXCEPT !.peer = known.path] /\ Go("dial")
                   /\ UNCHANGED <<asked, open, addr, reuses, waited>>
              ELSE Fail(known, IF path THEN "io" ELSE "oom") /\ UNCHANGED waited
    BY <1>6 DEF UnixPath
  <2> DEFINE known == [c EXCEPT !.type = "unix", !.path = Copied(@, "asked", path)]
  <2>3. known.type = "unix" /\ known.host = c.host
    BY <1>0 DEF Ctx
  <2> HIDE DEF known
  <2>4. /\ c'.type = "unix" /\ c'.host = c.host /\ c'.path = known.path /\ UNCHANGED asked
        /\ sock'.peer \in {"none", c'.path} /\ pc' \notin {"socket", "path", "nonblock"}
    <3>1. CASE c' = known /\ sock' = [sock EXCEPT !.peer = known.path] /\ Go("dial") /\ UNCHANGED asked
      BY <1>0, <2>3, <3>1 DEF Sock, Go
    <3>2. ASSUME NEW e \in {"io", "oom"}, Fail(known, e)
          PROVE  /\ c'.type = "unix" /\ c'.host = c.host /\ c'.path = known.path /\ UNCHANGED asked
                 /\ sock'.peer \in {"none", c'.path} /\ pc' \notin {"socket", "path", "nonblock"}
      BY <2>1, <2>3, <3>2 DEF Fail, AfterFailure
    <3> QED BY <2>2, <3>1, <3>2 DEF known
  <2>5. asked.type # "tcp"
    BY <2>1 DEF EndpointInv
  <2> QED BY <2>1, <2>4, <2>5 DEF EndpointInv, KnownEndpointKept, SameEndpoint
<1>7. CASE Reconnect
  <2>1. PICK made \in Succeeds("oom") : c' = [c EXCEPT !.fd = NoFd, !.err = IF made THEN "none" ELSE "oom"]
    BY <1>7 DEF Reconnect
  <2>2. c'.type = c.type /\ c'.host = c.host /\ c'.path = c.path
    BY <1>0, <2>1 DEF Ctx
  <2>3. sock'.peer = "none" /\ UNCHANGED asked /\ pc = "idle" /\ pc' \in {"idle", "connect"}
    BY <1>0, <1>7 DEF Reconnect
  <2> QED BY <2>2, <2>3, EndpointStays
<1>8. ASSUME NEW keep \in BOOLEAN, Free(keep) PROVE EndpointInv'
  <2>1. c'.type = c.type /\ c'.host = c.host /\ c'.path = c.path
    BY <1>0, <1>8 DEF Free, Ctx
  <2> QED BY <1>8, <2>1, EndpointStays DEF Free
<1>9. CASE SetNonBlocking
  <2>1. CASE FailClosed("io")
    BY <1>0, <1>9, <2>1, EndpointStays DEF SetNonBlocking, FailClosed, Ctx
  <2>2. CASE /\ sock' = [sock EXCEPT !.mode = "nonblocking"] /\ UNCHANGED <<asked, c>>
             /\ Go(IF sock.peer = "none" THEN "path" ELSE "bind")
    <3>1. sock'.peer = sock.peer
      BY <1>0, <2>2 DEF Sock
    <3> QED BY <1>9, <2>2, <3>1, EndpointStays DEF SetNonBlocking, Go
  <2> QED BY <1>9, <2>1, <2>2 DEF SetNonBlocking
<1>10. CASE Bind \/ SetNoDelay \/ SetBlocking \/ SetTimeout
  <2>1. c'.type = c.type /\ c'.host = c.host /\ c'.path = c.path /\ UNCHANGED asked
    BY <1>0, <1>10 DEF Bind, SetNoDelay, SetBlocking, SetTimeout, Fail, FailClosed, Ctx
  <2>2. sock'.peer \in {sock.peer, "none"}
    BY <1>0, <1>10 DEF Bind, SetNoDelay, SetBlocking, SetTimeout, Fail, FailClosed, Sock
  <2>3. pc # "connect" /\ pc' \notin {"path", "nonblock", "socket"}
    BY <1>10 DEF Bind, SetNoDelay, SetBlocking, SetTimeout, Fail, FailClosed, AfterFailure, Go
  <2> QED BY <2>1, <2>2, <2>3, EndpointStays
<1>11. CASE Dial
  <2>1. \/ Fail(c, "oom")
        \/ Dialled("connected", "block")
        \/ Dialled("inprogress", IF asked.block THEN "wait" ELSE "block")
        \/ c.type = "tcp" /\ \E nextAddr, nextReuses : Again(nextAddr, nextReuses)
        \/ Fail(c, "unset")
        \/ FailClosed("io")
    BY <1>11 DEF Dial
  <2>2. c'.type = c.type /\ c'.host = c.host /\ c'.path = c.path /\ UNCHANGED asked
    BY <1>0, <2>1 DEF Dialled, Again, Fail, FailClosed, Ctx
  <2>3. sock'.peer \in {sock.peer, "none"}
    BY <1>0, <2>1 DEF Dialled, Again, Fail, FailClosed, Sock
  <2>4. pc = "dial" /\ pc' \notin {"path", "nonblock"} /\ (pc' = "socket" => c.type = "tcp")
    BY <1>11, <2>1 DEF Dial, Dialled, Again, Fail, FailClosed, AfterFailure, Go
  <2> QED BY <2>2, <2>3, <2>4, EndpointStays
<1>12. CASE WaitReady
  <2>1. c'.type = c.type /\ c'.host = c.host /\ c'.path = c.path /\ UNCHANGED asked
    BY <1>0, <1>12 DEF WaitReady, Fail, Ctx
  <2>2. sock'.peer \in {sock.peer, "none"}
    BY <1>0, <1>12 DEF WaitReady, Fail, Sock
  <2>3. pc = "wait" /\ pc' \notin {"path", "nonblock", "socket"}
    BY <1>12 DEF WaitReady, Fail, AfterFailure, Go
  <2> QED BY <2>1, <2>2, <2>3, EndpointStays
<1>13. Start => UseFd \/ StartTcp \/ StartUnix
  <2>1. \A copied \in TimeoutsCopied : copied
    BY DEF TimeoutsCopied, OwnCopy, Succeeds
  <2> QED BY <2>1 DEF Start
<1> QED BY <1>1, <1>2, <1>3, <1>4, <1>5, <1>6, <1>7, <1>8, <1>9, <1>10, <1>11, <1>12, <1>13
        DEF NetNext, Dialling

(* Short of memory, a context may forget whom it connects to; else the      *)
(* first connect of a TCP context, and every connect of one that has copied *)
(* its path, and all their reconnects, go where the options say.            *)
THEOREM EndpointIsKept == "oom" \notin Faults => (NetSpec => []KnownEndpointKept)
<1> SUFFICES ASSUME "oom" \notin Faults PROVE NetSpec => []KnownEndpointKept
  OBVIOUS
<1>1. NetInv /\ EndpointInv /\ [NetNext]_netVars => EndpointInv'
  BY EndpointStep
<1>2. EndpointInv => KnownEndpointKept
  BY DEF EndpointInv
<1> QED BY <1>1, <1>2, InitEndpoint, NetInvHolds, PTL DEF NetSpec

-----------------------------------------------------------------------------
(* The counters.  The next address is tried only by a TCP context that came *)
(* to connect() with one of the list, and binding is tried again only while *)
(* attempts are left.                                                       *)
CountInv ==
    /\ asked \in Requests /\ attempts \in 0 .. MaxReconnects
    /\ result \in {"none", "ok", "failed"}
    /\ addr \in 1 .. asked.addrs + 1 /\ reuses \in 0 .. Retries
    /\ (pc = "nonblock" /\ sock.peer # "none") \/ pc = "bind" \/ (pc = "dial" /\ c.type = "tcp") =>
          addr <= asked.addrs

LEMMA InitCount == NetInit => CountInv
BY NetAssumption DEF NetInit, CountInv, NoSock

(* A step that tries no other address, and is not on its way to connect().  *)
LEMMA CountStays ==
    ASSUME CountInv, UNCHANGED <<asked, addr, reuses, attempts>>, result' \in {"none", "ok", "failed"},
           pc' \notin {"nonblock", "bind", "dial"}
    PROVE  CountInv'
BY DEF CountInv

LEMMA CountFail ==
    ASSUME CountInv, NEW known, NEW e, Fail(known, e) PROVE CountInv'
BY CountStays DEF Fail, AfterFailure

LEMMA CountClosed ==
    ASSUME CountInv, FailClosed("io") PROVE CountInv'
BY CountStays DEF FailClosed

LEMMA CountStep ==
    ASSUME NetInv, CountInv, [NetNext]_netVars PROVE CountInv'
<1>0. /\ c \in Ctx /\ sock \in Sock /\ asked \in Requests /\ asked.addrs \in Nat
      /\ addr \in Nat \ {0} /\ result \in {"none", "ok", "failed"}
  BY NetAssumption DEF NetInv, CountInv
<1>1. CASE UNCHANGED netVars
  BY <1>1 DEF netVars, CountInv
<1>2. CASE UseFd
  BY <1>0, <1>2, CountStays DEF UseFd, Go
<1>3. CASE StartTcp
  <2>1. \/ \E known, e : Fail(known, e)
        \/ Go("socket") /\ addr' = 1 /\ reuses' = 0 /\ UNCHANGED asked
    BY <1>3, Zenon DEF StartTcp
  <2>2. CASE Go("socket") /\ addr' = 1 /\ reuses' = 0 /\ UNCHANGED asked
    BY <1>0, <2>2, NetAssumption DEF Go, CountInv
  <2> QED BY <2>1, <2>2, CountFail
<1>4. CASE TcpSocket
  <2>1. CASE Fail(c, "other")
    BY <2>1, CountFail
  <2>2. CASE /\ addr <= asked.addrs /\ UNCHANGED <<asked, reuses>>
             /\ \/ Go("nonblock") /\ UNCHANGED addr
                \/ Go("socket") /\ addr' = addr + 1
    BY <1>0, <2>2 DEF Go, CountInv
  <2> QED BY <1>0, <1>4, <2>1, <2>2 DEF TcpSocket
<1>5. CASE StartUnix
  <2>1. CASE Fail(c, "io")
    BY <2>1, CountFail
  <2>2. CASE sock'.peer = "none" /\ Go("nonblock") /\ UNCHANGED <<asked, addr, reuses>>
    BY <2>2 DEF Go, CountInv
  <2> QED BY <1>5, <2>1, <2>2 DEF StartUnix
<1>6. CASE SetNonBlocking
  <2>1. CASE FailClosed("io")
    BY <2>1, CountClosed
  <2>2. CASE /\ Go(IF sock.peer = "none" THEN "path" ELSE "bind")
             /\ UNCHANGED <<asked, addr, reuses>>
    BY <1>6, <2>2 DEF SetNonBlocking, Go, CountInv
  <2> QED BY <1>6, <2>1, <2>2 DEF SetNonBlocking
<1>7. CASE UnixPath
  <2>1. \/ \E known, e : Fail(known, e)
        \/ \E path : /\ c' = [c EXCEPT !.type = "unix", !.path = Copied(@, "asked", path)]
                     /\ Go("dial") /\ UNCHANGED <<asked, addr, reuses>>
    BY <1>7, Zenon DEF UnixPath
  <2>2. ASSUME NEW path, c' = [c EXCEPT !.type = "unix", !.path = Copied(@, "asked", path)],
               Go("dial"), UNCHANGED <<asked, addr, reuses>>
        PROVE  CountInv'
    <3>1. c'.type = "unix"
      BY <1>0, <2>2 DEF Ctx
    <3> QED BY <2>2, <3>1 DEF Go, CountInv
  <2> QED BY <2>1, <2>2, CountFail
<1>8. CASE Bind
  <2>1. CASE \E e : Fail(c, e)
    BY <2>1, CountFail
  <2>2. CASE Go("dial") /\ UNCHANGED <<asked, c, sock, addr, reuses>>
    BY <1>8, <2>2 DEF Bind, Go, CountInv
  <2> QED BY <1>8, <2>1, <2>2 DEF Bind
<1>9. CASE Dial
  <2>1. \/ \E e : Fail(c, e)
        \/ FailClosed("io")
        \/ \E state, to \in {"connected", "inprogress", "wait", "block"} : Dialled(state, to)
        \/ c.type = "tcp" /\ Again(addr + 1, reuses)
        \/ reuses + 1 < Retries /\ Again(addr, reuses + 1)
    <3>1. reuses \in Nat /\ Retries \in Nat
      BY NetAssumption DEF CountInv
    <3>2. reuses + 1 >= Retries \/ reuses + 1 < Retries
      BY <3>1
    <3> QED BY <1>9, <3>2 DEF Dial
  <2>2. CASE \E state, to \in {"connected", "inprogress", "wait", "block"} : Dialled(state, to)
    BY <1>0, <2>2, CountStays DEF Dialled, Go
  <2>3. CASE c.type = "tcp" /\ Again(addr + 1, reuses)
    <3>1. addr <= asked.addrs
      BY <1>9, <2>3 DEF Dial, CountInv
    <3> QED BY <1>0, <2>3, <3>1 DEF Again, Go, CountInv
  <2>4. CASE reuses + 1 < Retries /\ Again(addr, reuses + 1)
    BY <1>0, <2>4, NetAssumption DEF Again, Go, CountInv
  <2> QED BY <2>1, <2>2, <2>3, <2>4, CountFail, CountClosed
<1>10. CASE WaitReady
  <2>1. /\ UNCHANGED <<asked, addr, reuses, attempts>> /\ result' \in {result, "failed"}
        /\ pc' \in {"nodelay", "block", "wait", "settimeout", "idle"}
    BY <1>10 DEF WaitReady, Fail, AfterFailure, Go
  <2> QED BY <1>0, <2>1, CountStays
<1>11. CASE SetNoDelay \/ SetBlocking \/ SetTimeout
  BY <1>0, <1>11, CountStays, CountClosed DEF SetNoDelay, SetBlocking, SetTimeout, Go
<1>12. CASE Reconnect
  BY <1>12, NetAssumption DEF Reconnect, CountInv
<1>13. ASSUME NEW keep \in BOOLEAN, Free(keep) PROVE CountInv'
  BY <1>0, <1>13, CountStays DEF Free
<1>14. Start => UseFd \/ StartTcp \/ StartUnix \/ Fail(c, "oom")
  BY DEF Start
<1> QED BY <1>1, <1>2, <1>3, <1>4, <1>5, <1>6, <1>7, <1>8, <1>9, <1>10, <1>11, <1>12, <1>13, <1>14,
           CountFail DEF NetNext, Dialling

(* Type correctness; in particular no address is tried that the look-up did *)
(* not return, nor more often than REDIS_CONNECT_RETRIES allows.            *)
THEOREM ConnectTypes == NetSpec => []NetTypeOK
<1>1. NetInv /\ CountInv /\ [NetNext]_netVars => CountInv'
  BY CountStep
<1>2. NetInv /\ CountInv => NetTypeOK
  BY DEF NetInv, CountInv, NetTypeOK, Ctx, FdInv, FdsOwned, NoFd
<1> QED BY NetInvHolds, InitCount, <1>1, <1>2, PTL DEF NetSpec
=============================================================================
