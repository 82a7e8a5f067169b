------------------------------ MODULE Session ------------------------------
(***************************************************************************)
(* The operations of basic_session, basic_client_session and               *)
(* basic_server_session, each a coroutine that runs as the implementation  *)
(* of a TimedOp.  A coroutine is suspended in one primitive of Asio or     *)
(* Beast at a time (pc); the primitive is pending in the operating system  *)
(* or its completion is queued with a result (io).                         *)
(*                                                                         *)
(* Closing the socket, by a shutdown or by the timer, aborts the pending   *)
(* socket primitives.  It does not reach a name resolution, and it does    *)
(* not touch a completion that is already queued.                          *)
(***************************************************************************)
EXTENDS TimedOp

CONSTANT Kinds   \* the member functions the user calls

ClientKinds == {"read", "write", "request", "connect", "clientShutdown"}
ServerKinds == {"read", "write", "detect", "handshake", "serverShutdown"}

ASSUME KindsAssumption == Kinds \subseteq ClientKinds \cup ServerKinds
ASSUME ResultCodes == Results = {"ok", "error", "aborted"}

VARIABLES
    role,      \* "client" or "server"
    ctx,       \* opts.ssl_ctx holds a context
    ssl,       \* stream.is_ssl()
    sock,      \* the TCP socket
    peeked,    \* the session's buffer holds bytes of the peer's first flight
    kind,      \* the member function each op is a call of
    pc,        \* the primitive the coroutine of each op awaits
    io,        \* that primitive's state: pending, or queued with a result
    cut        \* the timer closed the stream under the op

sessionVars == <<role, ctx, ssl, sock, peeked, kind, pc, io, cut>>
allVars == <<impl, results, done, calls, wait, expiry, elapsed,
             role, ctx, ssl, sock, peeked, kind, pc, io, cut>>

Awaits == {"none", "transfer", "send", "receive", "resolve", "connect",
           "handshake", "sslShutdown", "drain"}

IoStates == {"none", "pending", "truncated"} \cup Results
Socks == {"closed", "open", "connected", "halfClosed"}

StreamTypeOK ==
    /\ role \in {"client", "server"}
    /\ ctx \in BOOLEAN /\ ssl \in BOOLEAN /\ peeked \in BOOLEAN
    /\ sock \in Socks
    /\ kind \in [Ops -> Kinds \cup {"none"}]
    /\ pc \in [Ops -> Awaits]
    /\ io \in [Ops -> IoStates]
    /\ cut \in [Ops -> BOOLEAN]

(* A client session is constructed with a closed socket, on an SSL stream  *)
(* if opts hold a context; a server session is given a connected stream,   *)
(* which may be an SSL stream already.                                     *)
SessionInit ==
    /\ Init
    /\ role \in {"client", "server"}
    /\ ctx \in BOOLEAN
    /\ ssl \in IF role = "client" THEN {ctx} ELSE {FALSE, ctx}
    /\ sock = IF role = "client" THEN "closed" ELSE "connected"
    /\ peeked = FALSE
    /\ kind = [o \in Ops |-> "none"]
    /\ pc = [o \in Ops |-> "none"]
    /\ io = [o \in Ops |-> "none"]
    /\ cut = [o \in Ops |-> FALSE]

-----------------------------------------------------------------------------
(* Primitives.                                                             *)

(* close() on the socket: what is pending on it is queued as aborted. *)
Closed(i) == [p \in Ops |-> IF i[p] = "pending" /\ pc[p] # "resolve"
                            THEN "aborted" ELSE i[p]]

(* A primitive started on socket state s fails at once if s has no         *)
(* connection to use.                                                      *)
Started(s) == IF s \in {"connected", "halfClosed"} THEN "pending" ELSE "error"

(* Suspend o in primitive p, in state i; the socket is left alone. *)
Await(o, p, i) ==
    /\ pc' = [pc EXCEPT ![o] = p]
    /\ io' = [io EXCEPT ![o] = i]

(* asio::async_connect over the endpoints closes the socket, opens it anew *)
(* and connects it.                                                        *)
AwaitConnect(o) ==
    /\ sock' = "open"
    /\ pc' = [pc EXCEPT ![o] = "connect"]
    /\ io' = [Closed(io) EXCEPT ![o] = "pending"]

(* Mutant of Complete: the user's handler is called past the wrapper, whose *)
(* wait is left armed.                                                      *)
CompleteDirectly(o, r) ==
    /\ impl[o] = "running"
    /\ impl' = [impl EXCEPT ![o] = "finished"]
    /\ results' = [results EXCEPT ![o] = r]
    /\ calls' = [calls EXCEPT ![o] = @ + 1]
    /\ pc' = [pc EXCEPT ![o] = "none"]
    /\ UNCHANGED <<done, wait, expiry, elapsed>>

(* The coroutine of o ends with cb.complete(r). *)
Complete(o, r) ==
    /\ ImplComplete(o, r)
    /\ pc' = [pc EXCEPT ![o] = "none"]

CompleteOpen(o, r) ==
    /\ Complete(o, r)
    /\ io' = [io EXCEPT ![o] = "none"]
    /\ UNCHANGED sock

CompleteClosing(o, r) ==
    /\ Complete(o, r)
    /\ sock' = "closed"
    /\ io' = [Closed(io) EXCEPT ![o] = "none"]

(* A suspended coroutine is resumed with a queued completion. *)
Resumed(o, p) == pc[o] = p /\ io[o] \notin {"none", "pending"}

-----------------------------------------------------------------------------
(* The initiating functions: each arms the timer and runs its coroutine to *)
(* the first primitive.                                                    *)

Call(o, k) ==
    /\ k \in Kinds \cap (IF role = "client" THEN ClientKinds ELSE ServerKinds)
    /\ kind' = [kind EXCEPT ![o] = k]
    /\ cut' = [cut EXCEPT ![o] = FALSE]
    /\ UNCHANGED <<role, ctx, peeked>>

(* An operation of one primitive. *)
Transfer(o, k, i) ==
    /\ Call(o, k)
    /\ Initiate(o)
    /\ Await(o, "transfer", i)
    /\ UNCHANGED <<ssl, sock>>

(* async_read, and async_read_header, which differs in what it parses. *)
AsyncRead(o) == Transfer(o, "read", Started(sock))

(* async_write, and async_write_header. *)
AsyncWrite(o) ==
    Transfer(o, "write", IF sock = "halfClosed" THEN "error" ELSE Started(sock))

AsyncDetectSsl(o) == Transfer(o, "detect", Started(sock))

AsyncRequest(o) ==
    /\ Call(o, "request")
    /\ Initiate(o)
    /\ Await(o, "send", Started(sock))
    /\ UNCHANGED <<ssl, sock>>

AsyncConnect(o) ==
    /\ Call(o, "connect")
    /\ Initiate(o)
    /\ Await(o, "resolve", "pending")
    /\ UNCHANGED <<ssl, sock>>

(* The plain stream's socket moves into an SSL stream. *)
upgrade == ssl' = TRUE

(* The stream is upgraded first; without a context there is nothing to     *)
(* upgrade to and stream.ssl() has no stream to return.                    *)
AsyncHandshake(o) ==
    /\ Call(o, "handshake")
    /\ ssl \/ ctx
    /\ Initiate(o)
    /\ IF ~ssl /\ ctx THEN upgrade ELSE UNCHANGED ssl
    /\ Await(o, "handshake", Started(sock))
    /\ UNCHANGED sock

(* On a plain stream the client's shutdown never goes asynchronous. *)
AsyncShutdownClient(o) ==
    /\ Call(o, "clientShutdown")
    /\ IF ssl
       THEN /\ Initiate(o)
            /\ Await(o, "sslShutdown", Started(sock))
            /\ UNCHANGED sock
       ELSE /\ InitiateInline(o, "ok")
            /\ sock' = "closed"
            /\ io' = [Closed(io) EXCEPT ![o] = "none"]
            /\ UNCHANGED pc
    /\ UNCHANGED ssl

(* Mutant of HalfClosed: the sending side stays open. *)
NotHalfClosed(s) == s

(* The half close that precedes the server's last read. *)
HalfClosed(s) == IF s = "connected" THEN "halfClosed" ELSE s

AsyncShutdownServer(o) ==
    /\ Call(o, "serverShutdown")
    /\ Initiate(o)
    /\ IF ssl
       THEN Await(o, "sslShutdown", Started(sock)) /\ UNCHANGED sock
       ELSE Await(o, "drain", Started(sock)) /\ sock' = HalfClosed(sock)
    /\ UNCHANGED ssl

-----------------------------------------------------------------------------
(* The continuations.                                                      *)

(* async_detect_ssl leaves the bytes it looked at in the session's buffer. *)
OnTransfer(o) ==
    /\ Resumed(o, "transfer")
    /\ CompleteOpen(o, io[o])
    /\ peeked' = (peeked \/ (kind[o] = "detect" /\ io[o] = "ok"))
    /\ UNCHANGED <<role, ctx, ssl, kind, cut>>

OnSend(o) ==
    /\ Resumed(o, "send")
    /\ \/ /\ io[o] = "ok"
          /\ Await(o, "receive", Started(sock))
          /\ UNCHANGED <<vars, sock>>
       \/ /\ io[o] # "ok"
          /\ CompleteOpen(o, io[o])
    /\ UNCHANGED <<role, ctx, ssl, peeked, kind, cut>>

OnReceive(o) ==
    /\ Resumed(o, "receive")
    /\ CompleteOpen(o, io[o])
    /\ UNCHANGED <<role, ctx, ssl, peeked, kind, cut>>

OnResolve(o) ==
    /\ Resumed(o, "resolve")
    /\ \/ /\ io[o] = "ok"
          /\ AwaitConnect(o)
          /\ UNCHANGED vars
       \/ /\ io[o] # "ok"
          /\ CompleteOpen(o, io[o])
    /\ UNCHANGED <<role, ctx, ssl, peeked, kind, cut>>

(* Mutant of OnConnect: the error of the attempt is not passed on. *)
OnConnectUnchecked(o) ==
    /\ Resumed(o, "connect")
    /\ IF ~ssl \/ io[o] # "ok" \/ sock = "closed"
       THEN CompleteOpen(o, "ok")
       ELSE /\ sock' = "connected"
            /\ Await(o, "handshake", "pending")
            /\ UNCHANGED vars
    /\ UNCHANGED <<role, ctx, ssl, peeked, kind, cut>>

(* A connect attempt whose socket was closed meanwhile is aborted, even if *)
(* the attempt itself succeeded.                                           *)
OnConnect(o) ==
    LET ec == IF sock = "closed" THEN "aborted" ELSE io[o] IN
    /\ Resumed(o, "connect")
    /\ \/ /\ ec = "ok" /\ ssl
          /\ sock' = "connected"
          /\ Await(o, "handshake", "pending")
          /\ UNCHANGED vars
       \/ /\ ec = "ok" /\ ~ssl
          /\ sock' = "connected"
          /\ Complete(o, "ok")
          /\ io' = [io EXCEPT ![o] = "none"]
       \/ /\ ec # "ok"
          /\ CompleteOpen(o, ec)
    /\ UNCHANGED <<role, ctx, ssl, peeked, kind, cut>>

(* The server's handshake consumes what it used of the buffer. *)
OnHandshake(o) ==
    /\ Resumed(o, "handshake")
    /\ CompleteOpen(o, io[o])
    /\ peeked' = (peeked /\ ~(role = "server" /\ io[o] = "ok"))
    /\ UNCHANGED <<role, ctx, ssl, kind, cut>>

(* Mutant of OnSslShutdownClient: a truncated stream is an error too. *)
OnSslShutdownClientStrict(o) ==
    /\ Resumed(o, "sslShutdown") /\ role = "client"
    /\ IF io[o] = "ok" THEN CompleteClosing(o, "ok") ELSE CompleteOpen(o, io[o])
    /\ UNCHANGED <<role, ctx, ssl, peeked, kind, cut>>

(* The client ignores a truncated stream but no other error; an error      *)
(* skips the close.                                                        *)
OnSslShutdownClient(o) ==
    /\ Resumed(o, "sslShutdown") /\ role = "client"
    /\ \/ io[o] \in {"ok", "truncated"} /\ CompleteClosing(o, "ok")
       \/ io[o] \notin {"ok", "truncated"} /\ CompleteOpen(o, io[o])
    /\ UNCHANGED <<role, ctx, ssl, peeked, kind, cut>>

(* The server ignores every error of the TLS shutdown and of its last      *)
(* read, and closes the socket in any case.                                *)
OnSslShutdownServer(o) ==
    /\ Resumed(o, "sslShutdown") /\ role = "server"
    /\ sock' = HalfClosed(sock)
    /\ Await(o, "drain", Started(sock))
    /\ UNCHANGED vars
    /\ UNCHANGED <<role, ctx, ssl, peeked, kind, cut>>

(* Mutant of OnDrain: an error of the last read skips the close. *)
OnDrainStrict(o) ==
    /\ Resumed(o, "drain")
    /\ IF io[o] = "ok" THEN CompleteClosing(o, "ok") ELSE CompleteOpen(o, io[o])
    /\ UNCHANGED <<role, ctx, ssl, peeked, kind, cut>>

OnDrain(o) ==
    /\ Resumed(o, "drain")
    /\ CompleteClosing(o, "ok")
    /\ UNCHANGED <<role, ctx, ssl, peeked, kind, cut>>

-----------------------------------------------------------------------------
(* The world, and the timer.                                               *)

(* The peer, the resolver or the operating system answers. *)
Answer(o) ==
    /\ io[o] = "pending"
    /\ \E r \in {"ok", "error"} \cup
                (IF pc[o] = "sslShutdown" THEN {"truncated"} ELSE {}) :
        io' = [io EXCEPT ![o] = r]
    /\ UNCHANGED vars
    /\ UNCHANGED <<role, ctx, ssl, sock, peeked, kind, pc, cut>>

(* Mutants of TimeOut: the socket's operations are cancelled and it stays  *)
(* open; the op is marked and the socket left alone.                       *)
TimeOutCancels(o) ==
    /\ TimerClose(o)
    /\ io' = Closed(io)
    /\ cut' = [cut EXCEPT ![o] = TRUE]
    /\ UNCHANGED <<role, ctx, ssl, sock, peeked, kind, pc>>

TimeOutMarks(o) ==
    /\ TimerClose(o)
    /\ cut' = [cut EXCEPT ![o] = TRUE]
    /\ UNCHANGED <<role, ctx, ssl, sock, peeked, kind, pc, io>>

(* The timer's handler closes the TCP socket, whichever layer is on top. *)
TimeOut(o) ==
    /\ TimerClose(o)
    /\ sock' = "closed"
    /\ io' = Closed(io)
    /\ cut' = [cut EXCEPT ![o] = TRUE]
    /\ UNCHANGED <<role, ctx, ssl, peeked, kind, pc>>

TimerOnly ==
    /\ \/ Tick
       \/ Expire
       \/ ElongateTimer
       \/ \E o \in Ops : TimerRearm(o) \/ TimerDeliver(o)
    /\ UNCHANGED sessionVars

Begin(o) ==
    \/ AsyncRead(o)
    \/ AsyncWrite(o)
    \/ AsyncDetectSsl(o)
    \/ AsyncRequest(o)
    \/ AsyncConnect(o)
    \/ AsyncHandshake(o)
    \/ AsyncShutdownClient(o)
    \/ AsyncShutdownServer(o)

Resume(o) ==
    \/ OnTransfer(o)
    \/ OnSend(o)
    \/ OnReceive(o)
    \/ OnResolve(o)
    \/ OnConnect(o)
    \/ OnHandshake(o)
    \/ OnSslShutdownClient(o)
    \/ OnSslShutdownServer(o)
    \/ OnDrain(o)

SessionNext ==
    \/ TimerOnly
    \/ \E o \in Ops : Begin(o) \/ Resume(o) \/ Answer(o) \/ TimeOut(o)

SessionSpec == SessionInit /\ [][SessionNext]_allVars

(* The executor runs what is queued, time passes, the resolver answers and *)
(* the operating system gives up on a TCP connect.  The peer owes nothing. *)
SessionFairness ==
    /\ WF_allVars(Tick /\ UNCHANGED sessionVars)
    /\ WF_allVars(Expire /\ UNCHANGED sessionVars)
    /\ \A o \in Ops :
        /\ WF_allVars((TimerRearm(o) \/ TimerDeliver(o)) /\ UNCHANGED sessionVars)
        /\ WF_allVars(TimeOut(o))
        /\ WF_allVars(Resume(o))
        /\ WF_allVars(Answer(o) /\ pc[o] \in {"resolve", "connect"})

FairSessionSpec == SessionSpec /\ SessionFairness

-----------------------------------------------------------------------------
(* Properties.                                                             *)

StreamInv ==
    /\ StreamTypeOK
    /\ \A o \in Ops :
        /\ io[o] = "truncated" => pc[o] = "sslShutdown"
        /\ role = "server" => pc[o] \notin {"resolve", "connect"}
        /\ role = "server" /\ pc[o] = "drain" => sock # "connected"

(* The primitives in which the coroutine of a member function waits. *)
Suspends ==
    [none           |-> {},
     read           |-> {"transfer"},
     write          |-> {"transfer"},
     detect         |-> {"transfer"},
     request        |-> {"send", "receive"},
     connect        |-> {"resolve", "connect", "handshake"},
     handshake      |-> {"handshake"},
     clientShutdown |-> {"sslShutdown"},
     serverShutdown |-> {"sslShutdown", "drain"}]

(* Exactly the running coroutines are suspended, each in a primitive of    *)
(* its own function, which is one of the session's.                        *)
OpPlaced(o) ==
    /\ kind[o] = "none" <=> impl[o] = "idle"
    /\ kind[o] # "none" =>
         kind[o] \in IF role = "client" THEN ClientKinds ELSE ServerKinds
    /\ pc[o] # "none" <=> impl[o] = "running"
    /\ pc[o] # "none" => pc[o] \in Suspends[kind[o]]
    /\ kind[o] = "handshake" => ssl

(* What an operation that the timer cut off, or a shutdown, knows of the   *)
(* socket as long as no other operation may connect it anew.               *)
OpStaysClosed(o) ==
    \/ cut[o] /\ kind[o] # "connect"
    \/ impl[o] = "finished" /\ kind[o] = "serverShutdown"
    \/ impl[o] = "finished" /\ kind[o] = "clientShutdown" /\ results[o] = "ok"
    => sock = "closed"

(* What an operation knows of the socket, if it is the only one, while it  *)
(* waits for a handshake and once it is finished.                          *)
OpStaysConnected(o) ==
    /\ sock = "halfClosed" => pc[o] = "drain"
    /\ ~cut[o] /\ pc[o] = "handshake" /\ io[o] \in {"pending", "ok"}
         => sock = "connected"
    /\ impl[o] = "finished" /\ results[o] = "ok" =>
        /\ ~cut[o] /\ kind[o] \in {"connect", "handshake"} => sock = "connected"
        /\ kind[o] = "handshake" => ~peeked

OneOp == \A p, q \in Ops : p = q
NoRevival == role = "server" \/ "connect" \notin Kinds \/ OneOp

(* A client's stream is what its options ask for, a server's never more.   *)
CoroutineInv ==
    /\ ssl => ctx
    /\ role = "client" /\ ctx => ssl
    /\ \A o \in Ops : /\ OpPlaced(o)
                      /\ NoRevival => OpStaysClosed(o)
                      /\ OneOp => OpStaysConnected(o)

(* The state has its type, for the wrapper as for the stream; only a TLS   *)
(* shutdown is ever told of a truncated stream, so that no other operation *)
(* reports one; a server, which never connects, reads its last only once   *)
(* its sending side is shut; and every coroutine is where its function can *)
(* be, with the socket as its steps so far have left it.                   *)
SessionInv == TypeOK /\ StreamInv /\ CoroutineInv

Reported(o) == kind[o] # "none" /\ ~Pending(o)
ReportedOk(o) == Reported(o) /\ results[o] = "ok"

(* An operation that used the timer's close leaves the socket closed: the  *)
(* rest of its coroutine, which runs on after the close, does not bring it *)
(* back.  async_connect is the exception, and so is an operation beside    *)
(* which another one connects.                                             *)
CutLeavesClosed ==
    \A o \in Ops : Reported(o) /\ cut[o] /\ kind[o] # "connect" => sock = "closed"

(* Each operation of a session runs under the timer exactly as a TimedOp   *)
(* does: no continuation, not even one that completes inline or runs after *)
(* the timer has closed the stream, steps around the wrapper.              *)
RunsUnderTimer == Spec

(* A successful connect or handshake leaves a usable connection, of the    *)
(* kind the options ask for, unless the timer took the socket after the    *)
(* last completion was queued.                                             *)
OkMeansConnected ==
    \A o \in Ops :
        ReportedOk(o) /\ kind[o] \in {"connect", "handshake"} /\ ~cut[o] =>
            /\ sock = "connected"
            /\ ssl = ctx

(* A shutdown that reports success, and every shutdown of a server, leaves *)
(* the socket closed, whatever the TLS layer and the peer did.             *)
ShutdownCloses ==
    \A o \in Ops :
        \/ Reported(o) /\ kind[o] = "serverShutdown"
        \/ ReportedOk(o) /\ kind[o] = "clientShutdown"
        => sock = "closed"

(* A server closes a live connection in stages, first the sending side,    *)
(* unless the timer cuts it off: it does not reset the peer.               *)
StagedTeardown ==
    [][role = "server" /\ sock = "connected" /\ sock' = "closed"
        => \E o \in Ops : TimerClose(o)]_allVars

(* Every session operation but a connect is eventually reported, however   *)
(* silent the peer is: closing the stream reaches whatever it waits for.   *)
OpsTimeOut ==
    \A o \in Ops : Pending(o) /\ kind[o] # "connect" ~> ~Pending(o)

(* A connect is eventually reported, too. *)
ConnectTimesOut ==
    \A o \in Ops : Pending(o) /\ kind[o] = "connect" ~> ~Pending(o)
=============================================================================
