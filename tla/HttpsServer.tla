---------------------------- MODULE HttpsServer ----------------------------
(***************************************************************************)
(* A program around a listener, examples/https_server: every connection's  *)
(* handler answers requests until one does not persist, and clients, each  *)
(* on a strand of its own, send a fixed number of requests.  The client    *)
(* whose response is the last of all shuts the listener down.              *)
(*                                                                         *)
(* A client and the session that serves it share one connection, on which  *)
(* a request or a response is under way at a time.  Any operation may      *)
(* fail, if only by its timeout.  The program may shut the listener down   *)
(* by itself, too.                                                         *)
(***************************************************************************)
EXTENDS Listener, FiniteSets

CONSTANT num_client_requests

ASSUME RequestsAssumption == num_client_requests \in Nat \ {0}
ASSUME ClientsAssumption == IsFiniteSet(Conns)

VARIABLES
    client,     \* where each client_op is
    answered,   \* its req_count
    req_count,  \* the atomic counter that the clients share
    wire,       \* what is under way on the connection
    handler,    \* where the connection's request_handler is
    keep,       \* keep_alive() of the last request
    fault,      \* an operation of the client or of its session has failed
    stops       \* shutdown() called by a client

programVars == <<client, answered, req_count, wire, handler, keep, fault, stops>>
serverVars == <<tls, open, strand, loop, accepting, shutdowns, session, secured,
                client, answered, req_count, wire, handler, keep, fault, stops>>

Total == Cardinality(Conns) * num_client_requests

ProgramTypeOK ==
    /\ client \in [Conns -> {"posted", "connect", "request", "shutdown", "ended"}]
    /\ answered \in [Conns -> 0..num_client_requests]
    /\ req_count \in Nat
    /\ wire \in [Conns -> {"none", "request", "response"}]
    /\ handler \in [Conns -> {"none", "read", "write"}]
    /\ keep \in [Conns -> BOOLEAN] /\ fault \in [Conns -> BOOLEAN]
    /\ stops \in Nat

(* main() has made the listener and posted the clients. *)
ProgramInit ==
    /\ ListenerInit
    /\ client = [c \in Conns |-> "posted"]
    /\ answered = [c \in Conns |-> 0]
    /\ req_count = 0
    /\ wire = [c \in Conns |-> "none"]
    /\ handler = [c \in Conns |-> "none"]
    /\ keep = [c \in Conns |-> TRUE]
    /\ fault = [c \in Conns |-> FALSE]
    /\ stops = 0

-----------------------------------------------------------------------------
(* client_op.                                                              *)

StartConnect(c) ==
    /\ client[c] = "posted"
    /\ client' = [client EXCEPT ![c] = "connect"]
    /\ UNCHANGED listenerVars
    /\ UNCHANGED <<answered, req_count, wire, handler, keep, fault, stops>>

(* Mutant of SendRequest: the last request but one does not persist. *)
SendRequestShort(c, n) ==
    /\ wire' = [wire EXCEPT ![c] = "request"]
    /\ keep' = [keep EXCEPT ![c] = n < num_client_requests - 2]

(* Request n, counted from zero; only the last one does not persist. *)
SendRequest(c, n) ==
    /\ wire' = [wire EXCEPT ![c] = "request"]
    /\ keep' = [keep EXCEPT ![c] = n < num_client_requests - 1]

(* A TLS connect needs the other side's handshake; a plain one is complete *)
(* once the connection is in the backlog of the acceptor.                  *)
OnClientConnect(c) ==
    /\ client[c] = "connect"
    /\ IF tls THEN session[c] \in {"handshake", "handler"}
              ELSE open \/ session[c] # "away"
    /\ client' = [client EXCEPT ![c] = "request"]
    /\ SendRequest(c, 0)
    /\ UNCHANGED listenerVars
    /\ UNCHANGED <<answered, req_count, handler, fault, stops>>

(* A client that cannot connect ends at once. *)
OnClientConnectError(c) ==
    /\ client[c] = "connect"
    /\ client' = [client EXCEPT ![c] = "ended"]
    /\ fault' = [fault EXCEPT ![c] = TRUE]
    /\ UNCHANGED listenerVars
    /\ UNCHANGED <<answered, req_count, wire, handler, keep, stops>>

(* Mutants of IsLast: the client's own count is compared; the counter is   *)
(* read before it is incremented.                                          *)
IsLastOwn(c) == answered[c] + 1 = num_client_requests

IsLastBefore(c) == req_count = Total

(* ++req_count gives each client another value. *)
IsLast(c) == req_count + 1 = Total

OnResponse(c) ==
    /\ client[c] = "request" /\ wire[c] = "response"
    /\ req_count' = req_count + 1
    /\ answered' = [answered EXCEPT ![c] = @ + 1]
    /\ \/ IsLast(c) /\ Shutdown /\ stops' = stops + 1
       \/ ~IsLast(c) /\ UNCHANGED listenerVars /\ UNCHANGED stops
    /\ IF answered[c] + 1 < num_client_requests
       THEN SendRequest(c, answered[c] + 1) /\ UNCHANGED client
       ELSE /\ client' = [client EXCEPT ![c] = "shutdown"]
            /\ wire' = [wire EXCEPT ![c] = "none"]
            /\ UNCHANGED keep
    /\ UNCHANGED <<handler, fault>>

(* A failed request leads to the shutdown. *)
OnRequestError(c) ==
    /\ client[c] = "request"
    /\ client' = [client EXCEPT ![c] = "shutdown"]
    /\ fault' = [fault EXCEPT ![c] = TRUE]
    /\ UNCHANGED listenerVars
    /\ UNCHANGED <<answered, req_count, wire, handler, keep, stops>>

OnClientShutdown(c) ==
    /\ client[c] = "shutdown"
    /\ client' = [client EXCEPT ![c] = "ended"]
    /\ UNCHANGED listenerVars
    /\ UNCHANGED <<answered, req_count, wire, handler, keep, fault, stops>>

ClientStep(c) ==
    \/ StartConnect(c)
    \/ OnClientConnect(c)
    \/ OnClientConnectError(c)
    \/ OnResponse(c)
    \/ OnRequestError(c)
    \/ OnClientShutdown(c)

-----------------------------------------------------------------------------
(* The listener, and request_handler in its sessions.                      *)

OnRequest(c) ==
    /\ handler[c] = "read" /\ wire[c] = "request"
    /\ handler' = [handler EXCEPT ![c] = "write"]
    /\ wire' = [wire EXCEPT ![c] = "none"]
    /\ UNCHANGED listenerVars
    /\ UNCHANGED <<client, answered, req_count, keep, fault, stops>>

(* The response is out; the handler goes on if the request asked for it.   *)
OnWritten(c) ==
    /\ handler[c] = "write"
    /\ wire' = [wire EXCEPT ![c] = "response"]
    /\ \/ /\ keep[c]
          /\ handler' = [handler EXCEPT ![c] = "read"]
          /\ UNCHANGED listenerVars
       \/ /\ ~keep[c]
          /\ handler' = [handler EXCEPT ![c] = "none"]
          /\ OnHandler(c)
    /\ UNCHANGED <<client, answered, req_count, keep, fault, stops>>

(* Any error of a read or a write ends the handler; the response of a      *)
(* write that fails may have gone out.                                     *)
OnHandlerError(c) ==
    /\ handler[c] # "none"
    /\ handler' = [handler EXCEPT ![c] = "none"]
    /\ OnHandler(c)
    /\ \/ UNCHANGED wire
       \/ handler[c] = "write" /\ wire' = [wire EXCEPT ![c] = "response"]
    /\ fault' = [fault EXCEPT ![c] = TRUE]
    /\ UNCHANGED <<client, answered, req_count, keep, stops>>

(* The session calls the handler, which starts to read. *)
EnterHandler(c) ==
    /\ (Serve(c) /\ ~tls) \/ (OnHandshake(c) /\ session'[c] = "handler")
    /\ handler' = [handler EXCEPT ![c] = "read"]
    /\ UNCHANGED <<client, answered, req_count, wire, keep, fault, stops>>

(* The handshake begins, or the session ends; or the handshake fails. *)
ServeOther(c) ==
    /\ (Serve(c) /\ tls) \/ OnShutdown(c)
    /\ UNCHANGED programVars

FailHandshake(c) ==
    /\ OnHandshake(c) /\ session'[c] = "shutdown"
    /\ fault' = [fault EXCEPT ![c] = TRUE]
    /\ UNCHANGED <<client, answered, req_count, wire, handler, keep, stops>>

ServerStep(c) ==
    \/ OnRequest(c)
    \/ OnWritten(c)
    \/ OnHandlerError(c)
    \/ EnterHandler(c)
    \/ ServeOther(c)
    \/ FailHandshake(c)

(* A connection arrives once its client has begun to connect, even if that *)
(* has given up since.                                                     *)
Accept(c) == client[c] # "posted" /\ Arrive(c) /\ UNCHANGED programVars

(* One of the MaxShutdowns is left to the clients. *)
OwnShutdown == shutdowns - stops < MaxShutdowns - 1 /\ Shutdown /\ UNCHANGED programVars

ListenerStep == (AsyncAccept \/ RunStrand) /\ UNCHANGED programVars

ProgramNext ==
    \/ ListenerStep
    \/ OwnShutdown
    \/ FailAccept /\ UNCHANGED programVars
    \/ \E c \in Conns : Accept(c) \/ ClientStep(c) \/ ServerStep(c)

ProgramSpec == ProgramInit /\ [][ProgramNext]_serverVars

(* The threads run what is queued, a pending accept takes a connection     *)
(* that waits, and the operations complete, if only by their timeouts.     *)
FairProgramSpec ==
    /\ ProgramSpec
    /\ WF_serverVars(ListenerStep)
    /\ \A c \in Conns : /\ WF_serverVars(Accept(c))
                        /\ WF_serverVars(ClientStep(c))
                        /\ WF_serverVars(ServerStep(c))

-----------------------------------------------------------------------------
(* Properties.                                                             *)

(* As long as neither end of a connection has failed, its two ends take    *)
(* turns: a request is sent into a handler that reads or is yet to be      *)
(* called, and the response to the last request leaves the handler ended.  *)
InTurn(c) ==
    /\ client[c] \in {"posted", "connect"} =>
        /\ answered[c] = 0 /\ wire[c] = "none" /\ keep[c]
        /\ handler[c] # "write" /\ session[c] \notin {"shutdown", "ended"}
    /\ client[c] = "request" =>
        /\ keep[c] <=> answered[c] < num_client_requests - 1
        /\ wire[c] = "none" => handler[c] = "write"
        /\ wire[c] = "request" =>
            handler[c] # "write" /\ session[c] \notin {"shutdown", "ended"}
        /\ wire[c] = "response" =>
            IF keep[c] THEN handler[c] = "read" ELSE session[c] \in {"shutdown", "ended"}
    /\ client[c] \in {"shutdown", "ended"} =>
        wire[c] = "none" /\ session[c] \in {"shutdown", "ended"}

(* The counter that the clients share is their responses, each counted     *)
(* once, a client stops the listener only when it is full, and a client    *)
(* has responses only from a session that has reached its handler.         *)
Responses == {p \in Conns \X (1..num_client_requests) : p[2] <= answered[p[1]]}

CountInv ==
    /\ req_count = Cardinality(Responses)
    /\ stops > 0 => req_count = Total
    /\ \A c \in Conns :
        wire[c] = "response" \/ answered[c] > 0
            => session[c] \in {"handler", "shutdown", "ended"}

(* Around this program the listener keeps its invariant: the handlers and  *)
(* clients, whatever fails in them, drive it only through its own steps.   *)
(* A handler runs exactly while its session is in it, a client never       *)
(* counts more answers than it has sent requests, both ends of a           *)
(* connection are in turn until one of them fails, and no response is      *)
(* counted twice, or missed, in the shared counter.                        *)
ProgramInv ==
    /\ ProgramTypeOK
    /\ ListenerInv
    /\ CountInv
    /\ \A c \in Conns :
        /\ handler[c] # "none" <=> session[c] = "handler"
        /\ client[c] \notin {"shutdown", "ended"} => answered[c] < num_client_requests
        /\ ~fault[c] => InTurn(c)

(* The listener is shut down by the clients only behind the last response: *)
(* no client, whatever the order in which they end, is cut off from a      *)
(* connection it still needs.                                              *)
StopsAfterLast ==
    stops > 0 => \A c \in Conns : /\ answered[c] = num_client_requests
                                  /\ session[c] \in {"handler", "shutdown", "ended"}

(* Both ends count alike which request is the last: as long as nothing     *)
(* fails no request meets a session that has left its handler, and no      *)
(* session waits for a request that its client will not send.              *)
LastIsAgreed ==
    \A c \in Conns : ~fault[c] =>
        /\ wire[c] = "request" => session[c] \notin {"shutdown", "ended"}
        /\ client[c] \in {"shutdown", "ended"} => session[c] \in {"shutdown", "ended"}

(* The program comes to its end, all clients and sessions ended and the    *)
(* loop left, unless an operation fails; and a client ends in any case.    *)
(* (A failed request is never made up for, so that the count is not        *)
(* reached and the listener goes on.)                                      *)
ProgramEnds ==
    /\ <>[](\A c \in Conns : client[c] = "ended")
    /\ \/ <>(\E c \in Conns : fault[c])
       \/ <>[](loop = "ended" /\ \A c \in Conns : session[c] = "ended")
=============================================================================
