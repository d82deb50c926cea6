----------------------------- MODULE NetConnect -----------------------------
(***************************************************************************)
(* How a context gets and loses its socket: redisConnectWithOptions,       *)
(* redisReconnect and redisFree (hiredis.c) with the connection of net.c.  *)
(*                                                                         *)
(* A step is one system call with what the code does about its outcome.    *)
(* Time is counted in units of which the connect timeout has Timeout.      *)
(***************************************************************************)
EXTENDS Naturals

CONSTANTS
    Requests,    \* the options: [type, addrs, source, reuse, block, timeout, command]
    Faults,      \* the calls that may fail
    Retries,     \* REDIS_CONNECT_RETRIES
    Timeout,     \* the connect timeout, where there is one
    MaxReconnects

ASSUME NetAssumption ==
    /\ Retries \in Nat \ {0} /\ Timeout \in Nat \ {0} /\ MaxReconnects \in Nat
    /\ \A r \in Requests : r.addrs \in Nat

VARIABLES
    asked,    \* the options of this context
    c,        \* [fd, err, type, host, path, source]; type is connection_type
    sock,     \* the socket c->fd: its mode, its peer, how far it is connected
    open,     \* file descriptors that are open
    addr,     \* the address that is tried
    reuses,   \* attempts that found no local address
    waited,   \* time spent in poll
    pc,       \* the call to come; "idle", "freed" when none is
    result,   \* of the last connect or reconnect: "none", "ok", "failed"
    attempts  \* calls of redisReconnect

netVars == <<asked, c, sock, open, addr, reuses, waited, pc, result, attempts>>

NoFd == 0
NoSock == [mode |-> "none", peer |-> "none", state |-> "none"]
Succeeds(call) == {TRUE} \cup (IF call \in Faults THEN {FALSE} ELSE {})
NewFd == CHOOSE fd \in 1..3 : fd \notin open

(* redisContextInit and the flags; connection_type is zero, REDIS_CONN_TCP. *)
NetInit ==
    /\ asked \in Requests
    /\ c = [fd |-> NoFd, err |-> "none", type |-> "tcp", host |-> "null", path |-> "null",
            source |-> "null"]
    /\ sock = NoSock /\ open = {} /\ addr = 1 /\ reuses = 0 /\ waited = 0
    /\ pc = "connect" /\ result = "none" /\ attempts = 0

(* How the steps end: in an error of type err (or none was set), or not.    *)
Go(to) == pc' = to /\ UNCHANGED <<result, attempts>>
(* The command timeout is set also after a failure that left the socket     *)
(* open, by redisReconnect always, else only when no error was set.         *)
AfterFailure(err) ==
    IF c.fd # NoFd /\ asked.command /\ asked.block /\ (attempts > 0 \/ err = "unset")
    THEN "settimeout" ELSE "idle"

Fail(known, err) ==
    /\ c' = [known EXCEPT !.err = IF err = "unset" THEN @ ELSE err]
    /\ pc' = AfterFailure(err) /\ result' = "failed"
    /\ UNCHANGED <<asked, sock, open, addr, reuses, attempts>>

(* Mutant: the socket is closed before the error is set, which is lost.     *)
FailClosedSilently(err) ==
    /\ c' = [c EXCEPT !.fd = NoFd]
    /\ sock' = NoSock /\ open' = open \ {c.fd}
    /\ pc' = "idle" /\ result' = "failed"
    /\ UNCHANGED <<asked, addr, reuses, waited, attempts>>

(* ... with redisNetClose.                                                  *)
FailClosed(err) ==
    /\ c' = [c EXCEPT !.err = err, !.fd = NoFd]
    /\ sock' = NoSock /\ open' = open \ {c.fd}
    /\ pc' = "idle" /\ result' = "failed"
    /\ UNCHANGED <<asked, addr, reuses, waited, attempts>>

-----------------------------------------------------------------------------

(* Mutant: a reconnect frees the context's strings before it copies them.   *)
CopiedAfterFree(own, given, ok) == IF attempts > 0 \/ ~ok THEN "null" ELSE given

(* The strings of the options are copied, unless this is a reconnect and    *)
(* they are the context's own.  A source that cannot be copied is forgotten.*)
Copied(own, given, ok) == IF attempts > 0 THEN own ELSE IF ok THEN given ELSE "null"
OwnCopy(call) == IF attempts > 0 THEN {TRUE} ELSE Succeeds(call)

(* redisContextTimeoutMsec                                                  *)
Valid == IF asked.timeout THEN Succeeds("invalid") ELSE {TRUE}

(* redisConnectWithOptions for a descriptor of the user's.                  *)
UseFd ==
    /\ pc = "connect" /\ asked.type = "fd" /\ attempts = 0
    /\ c' = [c EXCEPT !.fd = NewFd]
    /\ open' = open \cup {NewFd}
    /\ sock' = [mode |-> "user", peer |-> "asked", state |-> "connected"]
    /\ Go("settimeout")
    /\ UNCHANGED <<asked, addr, reuses, waited>>

(* _redisContextConnectTcp up to the look-up of the host, that of no host   *)
(* finds the machine itself.                                                *)
StartTcp ==
    /\ pc = "connect"
    /\ IF attempts = 0 THEN asked.type = "tcp" ELSE c.type = "tcp"
    /\ \E host \in OwnCopy("oom"), source \in OwnCopy("oom"), valid \in Valid,
          found \in Succeeds("resolve") :
          LET known == [c EXCEPT !.type = "tcp", !.host = Copied(@, "asked", host),
                            !.source = IF ~host \/ ~valid \/ ~asked.source THEN @
                                       ELSE Copied(@, "asked", source)]
              err == IF ~host THEN "oom" ELSE IF ~valid THEN "io"
                     ELSE IF ~found THEN "other" ELSE "none"
          IN  IF err = "none"
              THEN /\ c' = known /\ Go("socket")
                   /\ addr' = 1 /\ reuses' = 0 /\ waited' = 0
                   /\ UNCHANGED <<asked, sock, open>>
              ELSE Fail(known, err) /\ UNCHANGED waited

(* The loop over the addresses: socket().                                   *)
TcpSocket ==
    /\ pc = "socket"
    /\ IF addr > asked.addrs THEN Fail(c, "other") /\ UNCHANGED waited
       ELSE \E ok \in Succeeds("socket") :
            /\ IF ok
               THEN /\ c' = [c EXCEPT !.fd = NewFd] /\ open' = open \cup {NewFd}
                    /\ sock' = [mode |-> "blocking",
                                peer |-> IF c.host = "null" THEN "self" ELSE c.host,
                                state |-> "new"]
                    /\ Go("nonblock") /\ UNCHANGED addr
               ELSE addr' = addr + 1 /\ Go("socket") /\ UNCHANGED <<c, open, sock>>
            /\ UNCHANGED <<asked, reuses, waited>>

(* redisContextConnectUnix begins with the socket, and notes the type after.*)
StartUnix ==
    /\ pc = "connect"
    /\ IF attempts = 0 THEN asked.type = "unix" ELSE c.type = "unix"
    /\ \E ok \in Succeeds("unixsocket") :
          IF ~ok THEN Fail(c, "io") /\ UNCHANGED waited
          ELSE /\ c' = [c EXCEPT !.fd = NewFd] /\ open' = open \cup {NewFd}
               /\ sock' = [mode |-> "blocking", peer |-> "none", state |-> "new"]
               /\ Go("nonblock") /\ waited' = 0
               /\ UNCHANGED <<asked, addr, reuses>>

(* redisConnectWithOptions copies the timeouts before it looks at the type. *)
TimeoutsCopied == IF asked.timeout \/ asked.command THEN OwnCopy("oom") ELSE {TRUE}
Start ==
    \E copied \in TimeoutsCopied :
       IF copied THEN UseFd \/ StartTcp \/ StartUnix
       ELSE pc = "connect" /\ Fail(c, "oom") /\ UNCHANGED waited

(* redisSetBlocking(c,0)                                                    *)
SetNonBlocking ==
    /\ pc = "nonblock"
    /\ \E ok \in Succeeds("fcntl") :
          IF ~ok THEN FailClosed("io")
          ELSE /\ sock' = [sock EXCEPT !.mode = "nonblocking"]
               /\ Go(IF sock.peer = "none" THEN "path" ELSE "bind")
               /\ UNCHANGED <<asked, c, open, addr, reuses, waited>>

UnixPath ==
    /\ pc = "path"
    /\ \E path \in OwnCopy("oom"), valid \in Valid :
          LET known == [c EXCEPT !.type = "unix", !.path = Copied(@, "asked", path)]
          IN  IF path /\ valid
              THEN /\ c' = known /\ sock' = [sock EXCEPT !.peer = known.path] /\ Go("dial")
                   /\ UNCHANGED <<asked, open, addr, reuses, waited>>
              ELSE Fail(known, IF path THEN "io" ELSE "oom") /\ UNCHANGED waited

(* The source address: its look-up, SO_REUSEADDR, bind.  No error is set    *)
(* when the option cannot be.                                               *)
Bind ==
    /\ pc = "bind"
    /\ \E bound \in Succeeds("bind"), option \in Succeeds("reuseaddr") :
          IF c.source = "null" \/ (bound /\ (option \/ ~asked.reuse))
          THEN Go("dial") /\ UNCHANGED <<asked, c, sock, open, addr, reuses, waited>>
          ELSE Fail(c, IF asked.reuse /\ ~option THEN "unset" ELSE "other") /\ UNCHANGED waited

(* connect(), after the address was kept for a repeated one.                *)
Dialled(state, to) ==
    /\ sock' = [sock EXCEPT !.state = state]
    /\ Go(to)
    /\ UNCHANGED <<asked, c, open, addr, reuses, waited>>

(* Mutants: the socket stays open; the attempts are not counted.            *)
AgainUnclosed(nextAddr, nextReuses) ==
    /\ c' = [c EXCEPT !.fd = NoFd] /\ sock' = NoSock
    /\ addr' = nextAddr /\ reuses' = nextReuses
    /\ Go("socket")
    /\ UNCHANGED <<asked, waited, open>>
AgainUncounted(nextAddr, nextReuses) ==
    /\ c' = [c EXCEPT !.fd = NoFd] /\ sock' = NoSock /\ open' = open \ {c.fd}
    /\ addr' = nextAddr
    /\ Go("socket")
    /\ UNCHANGED <<asked, waited, reuses>>

Again(nextAddr, nextReuses) ==
    /\ c' = [c EXCEPT !.fd = NoFd] /\ sock' = NoSock /\ open' = open \ {c.fd}
    /\ addr' = nextAddr /\ reuses' = nextReuses
    /\ Go("socket")
    /\ UNCHANGED <<asked, waited>>

Dial ==
    /\ pc = "dial"
    /\ \E kept \in Succeeds("oom"),
          errno \in {"none", "inprogress"} \cup
                    ({"refused", "unreachable", "notavail"} \cap Faults) :
          CASE ~kept -> Fail(c, "oom") /\ UNCHANGED waited
            [] kept /\ errno = "none" -> Dialled("connected", "block")
            [] kept /\ errno = "inprogress" ->
                  Dialled("inprogress", IF asked.block THEN "wait" ELSE "block")
            [] kept /\ errno = "unreachable" /\ c.type = "tcp" -> Again(addr + 1, reuses)
            [] kept /\ errno = "notavail" /\ c.type = "tcp" /\ asked.reuse ->
                  IF reuses + 1 >= Retries THEN Fail(c, "unset") /\ UNCHANGED waited
                  ELSE Again(addr, reuses + 1)
            [] OTHER -> FailClosed("io")  \* redisContextWaitReady gives up at once

(* Mutant: ... whatever the time.                                           *)
MayWaitOnForEver(spent) == TRUE

(* An interrupted poll is repeated while there is time.                     *)
MayWaitOn(spent) == ~asked.timeout \/ spent < Timeout

(* redisContextWaitReady: each poll waits for the whole timeout, and the    *)
(* time is looked at only when a signal interrupted one.                    *)
WaitReady ==
    /\ pc = "wait"
    /\ \E event \in {"ready"} \cup ({"signal", "timeout", "poll", "late"} \cap Faults),
          time \in 1..Timeout :
          /\ event = "timeout" => asked.timeout /\ time = Timeout
          /\ event = "signal" => time < Timeout
          /\ LET spent == IF asked.timeout THEN waited + time ELSE 0
             IN  CASE event = "ready" ->
                        /\ sock' = [sock EXCEPT !.state = "connected"]
                        /\ waited' = spent
                        /\ Go(IF c.type = "tcp" THEN "nodelay" ELSE "block")
                        /\ UNCHANGED <<asked, c, open, addr, reuses>>
                   [] event = "signal" /\ MayWaitOn(spent) ->
                        /\ waited' = spent /\ Go("wait")
                        /\ UNCHANGED <<asked, c, sock, open, addr, reuses>>
                   [] event = "late" -> Fail(c, "io") /\ waited' = spent
                   [] OTHER ->
                        /\ c' = [c EXCEPT !.err = "io", !.fd = NoFd]
                        /\ sock' = NoSock /\ open' = open \ {c.fd} /\ waited' = spent
                        /\ pc' = "idle" /\ result' = "failed"
                        /\ UNCHANGED <<asked, addr, reuses, attempts>>

(* redisSetTcpNoDelay, then redisSetBlocking(c,1).                          *)
SetNoDelay ==
    /\ pc = "nodelay"
    /\ \E ok \in Succeeds("nodelay") :
          IF ok THEN Go("block") /\ UNCHANGED <<asked, c, sock, open, addr, reuses, waited>>
          ELSE FailClosed("io")

(* Mutant: the socket stays as connect() needed it.                         *)
SetBlockingForgotten ==
    /\ pc = "block" /\ Go("settimeout")
    /\ UNCHANGED <<asked, c, sock, open, addr, reuses, waited>>

SetBlocking ==
    /\ pc = "block"
    /\ \E ok \in Succeeds("fcntl") :
          IF asked.block /\ ~ok THEN FailClosed("io")
          ELSE /\ sock' = [sock EXCEPT !.mode = IF asked.block THEN "blocking" ELSE @]
               /\ Go("settimeout")
               /\ UNCHANGED <<asked, c, open, addr, reuses, waited>>

(* redisContextSetTimeout; redisReconnect returns what it did before, also  *)
(* when this failed.                                                        *)
SetTimeout ==
    /\ pc = "settimeout"
    /\ \E ok \in Succeeds("timeo") :
          /\ c' = IF ok \/ ~asked.command \/ ~asked.block THEN c ELSE [c EXCEPT !.err = "io"]
          /\ pc' = "idle" /\ result' = IF result = "failed" THEN "failed" ELSE "ok"
          /\ UNCHANGED <<asked, sock, open, addr, reuses, waited, attempts>>

(* redisReconnect: the error is cleared, the socket closed, buffers made.   *)
Reconnect ==
    /\ pc = "idle" /\ attempts < MaxReconnects
    /\ attempts' = attempts + 1
    /\ sock' = NoSock /\ open' = open \ {c.fd} /\ waited' = 0
    /\ \E made \in Succeeds("oom") :
          /\ c' = [c EXCEPT !.fd = NoFd, !.err = IF made THEN "none" ELSE "oom"]
          /\ pc' = IF made THEN "connect" ELSE "idle"
          /\ result' = IF made THEN "none" ELSE "failed"
    /\ UNCHANGED <<asked, addr, reuses>>

(* redisFree, and redisFreeKeepFd that leaves the descriptor to the caller. *)
Free(keep) ==
    /\ pc = "idle"
    /\ open' = IF keep THEN open ELSE open \ {c.fd}
    /\ c' = [c EXCEPT !.fd = IF keep THEN @ ELSE NoFd]
    /\ pc' = "freed"
    /\ UNCHANGED <<asked, sock, addr, reuses, waited, result, attempts>>

Dialling == TcpSocket \/ SetNonBlocking \/ UnixPath \/ Bind \/ Dial \/ WaitReady
            \/ SetNoDelay \/ SetBlocking \/ SetTimeout
NetNext == Start \/ Dialling \/ Reconnect \/ \E keep \in BOOLEAN : Free(keep)

NetSpec == NetInit /\ [][NetNext]_netVars
NetFairSpec == NetSpec /\ WF_netVars(Start \/ Dialling)

-----------------------------------------------------------------------------

NetTypeOK ==
    /\ asked \in Requests /\ open \subseteq 1..3 /\ attempts \in 0..MaxReconnects
    /\ c.fd \in 0..3 /\ c.err \in {"none", "io", "oom", "other"}
    /\ c.type \in {"tcp", "unix"}
    /\ {c.host, c.path, c.source} \subseteq {"null", "asked"}
    /\ addr \in 1..(asked.addrs + 1) /\ reuses \in 0..Retries
    /\ result \in {"none", "ok", "failed"}

(* A context owns at most one descriptor, and no other stays open, whatever *)
(* call failed after how many addresses, retries and reconnects.            *)
FdsOwned == open = {c.fd} \ {NoFd}

(* A call that returns without error leaves a socket in the mode of the     *)
(* context: connected when it blocks, dialled at least when it does not.    *)
OkMeansConnected ==
    (pc = "idle" /\ result = "ok") =>
        /\ c.fd # NoFd
        /\ asked.type # "fd" \/ attempts > 0 =>
              sock.mode = (IF asked.block THEN "blocking" ELSE "nonblocking")
        /\ sock.state = "connected" \/ (~asked.block /\ sock.state = "inprogress")

(* The connection never goes to another endpoint than the one asked for,    *)
SameEndpoint == sock.peer \in {"none", "asked"}

(* ... at least when the context got to know it before the first error.     *)
KnownEndpointKept == (asked.type = "tcp" \/ c.path = "asked") => SameEndpoint

(* Connecting takes less than twice the timeout.                            *)
WaitBounded == waited < 2 * Timeout

(* A connect that fails tells so in c->err,                                 *)
FailureReported == (pc = "idle" /\ result = "failed") => c.err # "none"

(* ... at least without REDIS_OPT_REUSEADDR.                                *)
FailureReportedWithoutReuse == ~asked.reuse => FailureReported

(* redisReconnect returns REDIS_OK only for a context that has no error.    *)
OkIsUsable == (pc = "idle" /\ result = "ok" /\ attempts > 0) => c.err = "none"

(* With a timeout a call that connects returns.                             *)
ConnectReturns == (pc \notin {"idle", "freed"} /\ asked.timeout) ~> (pc = "idle")
=============================================================================
