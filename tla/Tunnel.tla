------------------------------- MODULE Tunnel -------------------------------
(***************************************************************************)
(* detail::tunnel_op: the proxy reads requests from its client until one   *)
(* of them has set up a tunnel (CONNECT), been relayed on the spot         *)
(* (absolute URI), or ended the connection.                                *)
(*                                                                         *)
(* The sessions' operations complete with success or with an error, which  *)
(* may be the session's timeout.  async_relay is used through its          *)
(* contract: an error comes with the request to close (module Relay).      *)
(***************************************************************************)
EXTENDS Naturals

CONSTANT MaxRequests   \* bound: requests read on one connection

ASSUME MaxRequestsAssumption == MaxRequests \in Nat \ {0}

(* What parse_uri and the parser say of a request.  A target is an         *)
(* authority, an absolute http URI, or neither.                            *)
Requests == [connect : BOOLEAN, target : {"authority", "http", "other"},
             keepAlive : BOOLEAN]
NoRequest == [target |-> "none"]

VARIABLES
    at,           \* what the coroutine awaits
    request,      \* the header in state::parser
    requests,     \* headers read so far
    answers,      \* responses the tunnel has written so far
    handed,       \* requests handed to async_relay so far
    answer,       \* the last of them
    remote,       \* the request whose remote the client session is connected to, or 0
    closeTunnel,  \* state::close_tunnel
    outcome       \* what the handler is called with

tunnelVars == <<at, request, requests, answers, handed, answer, remote,
                closeTunnel, outcome>>

NoOutcome == [ec |-> "none", close |-> FALSE]

TunnelTypeOK ==
    /\ at \in {"idle", "header", "refuse", "connect", "unreachable",
               "malformed", "relay", "established", "detect"}
    /\ request \in Requests \cup {NoRequest}
    /\ requests \in 0..MaxRequests
    /\ answers \in 0..MaxRequests
    /\ handed \in 0..MaxRequests
    /\ answer \in {"none", "200", "400"}
    /\ remote \in 0..MaxRequests
    /\ closeTunnel \in BOOLEAN
    /\ outcome \in [ec : {"none", "ok", "error"}, close : BOOLEAN]

(* A new tunnel_op, up to its first read. *)
StartTunnel ==
    /\ at' = "header"
    /\ request' = NoRequest
    /\ closeTunnel' = FALSE
    /\ outcome' = NoOutcome
    /\ UNCHANGED <<requests, answers, handed, answer, remote>>

-----------------------------------------------------------------------------
Finish(ec, close) ==
    /\ at' = "idle"
    /\ outcome' = [ec |-> ec, close |-> close]

(* goto upcall *)
Upcall == Finish("error", closeTunnel)

(* break: what follows the loop. *)
Break(close) ==
    /\ closeTunnel' = close
    /\ \/ close /\ Finish("ok", TRUE)
       \/ ~close /\ at' = "detect" /\ UNCHANGED outcome

(* A response of the given status is written, and the write succeeds. *)
Answered(status) ==
    /\ answers' = answers + 1
    /\ answer' = status

Persistent(r) == r.connect /\ r.target = "authority"
Reachable(r) == Persistent(r) \/ r.target = "http"

(* Mutant of OnHeader: a failed read is tried again. *)
OnHeaderRetries ==
    /\ at = "header"
    /\ \/ UNCHANGED <<at, request, requests>>
       \/ \E r \in Requests :
          /\ requests < MaxRequests
          /\ requests' = requests + 1
          /\ request' = r
          /\ at' = IF Persistent(r) /\ ~r.keepAlive THEN "refuse"
                   ELSE IF Reachable(r) THEN "connect" ELSE "malformed"
    /\ UNCHANGED <<answers, handed, answer, remote, closeTunnel, outcome>>

(* async_read_header, and the dispatch on the request. *)
OnHeader ==
    /\ at = "header"
    /\ \/ /\ Upcall
          /\ UNCHANGED <<request, requests>>
       \/ \E r \in Requests :
          /\ requests < MaxRequests
          /\ requests' = requests + 1
          /\ request' = r
          /\ at' = IF Persistent(r) /\ ~r.keepAlive THEN "refuse"
                   ELSE IF Reachable(r) THEN "connect" ELSE "malformed"
          /\ UNCHANGED outcome
    /\ UNCHANGED <<answers, handed, answer, remote, closeTunnel>>

(* The 400 for a CONNECT that would not persist. *)
OnRefuse ==
    /\ at = "refuse"
    /\ \/ /\ closeTunnel' = TRUE
          /\ Finish("error", TRUE)
          /\ UNCHANGED <<answers, answer>>
       \/ /\ Answered("400")
          /\ Break(TRUE)
    /\ UNCHANGED <<request, requests, handed, remote>>

(* Mutant of OnConnected: the error of the connect is not looked at. *)
OnConnectedUnchecked ==
    /\ at = "connect"
    /\ remote' \in {remote, 0, requests}
    /\ at' = IF request.target = "http" THEN "relay" ELSE "established"
    /\ handed' = IF request.target = "http" THEN handed + 1 ELSE handed
    /\ UNCHANGED <<request, requests, answers, answer, closeTunnel, outcome>>

(* client.async_connect replaces whatever the client session was connected *)
(* to, once it has resolved the name: a failed resolution leaves an        *)
(* earlier connection in place, a failed connect and the timer close it.   *)
OnConnected ==
    /\ at = "connect"
    /\ \/ /\ remote' \in {remote, 0}
          /\ at' = "unreachable"
          /\ UNCHANGED handed
       \/ /\ remote' = requests
          /\ request.target = "http"
          /\ at' = "relay"
          /\ handed' = handed + 1
       \/ /\ remote' = requests
          /\ request.target # "http"
          /\ at' = "established"
          /\ UNCHANGED handed
    /\ UNCHANGED <<request, requests, answers, answer, closeTunnel, outcome>>

(* Mutant of OnRejected: the loop goes on without an answer. *)
OnRejectedSilently ==
    /\ at \in {"unreachable", "malformed"}
    /\ \/ /\ request.keepAlive
          /\ at' = "header"
          /\ request' = NoRequest
          /\ UNCHANGED <<answers, answer, closeTunnel, outcome>>
       \/ /\ ~request.keepAlive
          /\ Answered("400")
          /\ Break(closeTunnel)
          /\ UNCHANGED request
    /\ UNCHANGED <<requests, handed, remote>>

(* The 400 for an unreachable remote and for a request that is neither     *)
(* form: the loop goes on if the request was persistent.                   *)
OnRejected ==
    /\ at \in {"unreachable", "malformed"}
    /\ \/ /\ Upcall
          /\ UNCHANGED <<request, answers, answer, closeTunnel>>
       \/ /\ Answered("400")
          /\ \/ /\ request.keepAlive
                /\ at' = "header"
                /\ request' = NoRequest
                /\ UNCHANGED <<closeTunnel, outcome>>
             \/ /\ ~request.keepAlive
                /\ Break(closeTunnel)
                /\ UNCHANGED request
    /\ UNCHANGED <<requests, handed, remote>>

(* The relay of an absolute-form request, made non-persistent. *)
OnRelayed ==
    /\ at = "relay"
    /\ \/ Upcall /\ UNCHANGED closeTunnel
       \/ Break(TRUE)
    /\ UNCHANGED <<request, requests, answers, handed, answer, remote>>

(* The 200 that answers CONNECT. *)
OnEstablished ==
    /\ at = "established"
    /\ \/ /\ closeTunnel' = TRUE
          /\ Finish("error", TRUE)
          /\ UNCHANGED <<answers, answer>>
       \/ /\ Answered("200")
          /\ Break(FALSE)
    /\ UNCHANGED <<request, requests, handed, remote>>

(* async_detect_ssl, whatever it says. *)
OnDetected ==
    /\ at = "detect"
    /\ Finish("ok", closeTunnel)
    /\ UNCHANGED <<request, requests, answers, handed, answer, remote, closeTunnel>>

TunnelStep ==
    \/ OnHeader
    \/ OnRefuse
    \/ OnConnected
    \/ OnRejected
    \/ OnRelayed
    \/ OnEstablished
    \/ OnDetected
=============================================================================
