------------------------------- MODULE Proxy -------------------------------
(***************************************************************************)
(* One connection of foxy::proxy (async_connect_op): tunnels and relays    *)
(* alternate until one of them fails or asks to close, then the server     *)
(* session and the client session are shut down, in this order.            *)
(***************************************************************************)
EXTENDS Tunnel

VARIABLE phase   \* what the connection's coroutine awaits

proxyVars == <<at, request, requests, answers, handed, answer, remote,
               closeTunnel, outcome, phase>>

ProxyTypeOK ==
    /\ TunnelTypeOK
    /\ phase \in {"none", "posted", "tunnel", "relay", "shutServer", "shutClient", "ended"}

(* Before the connection is accepted. *)
ProxyInit ==
    /\ at = "idle"
    /\ request = NoRequest
    /\ requests = 0
    /\ answers = 0
    /\ handed = 0
    /\ answer = "none"
    /\ remote = 0
    /\ closeTunnel = FALSE
    /\ outcome = NoOutcome
    /\ phase = "none"

(* The coroutine is made of an accepted stream and posted. *)
Post ==
    /\ phase = "none"
    /\ phase' = "posted"
    /\ UNCHANGED tunnelVars

Enter ==
    /\ phase = "posted"
    /\ phase' = "tunnel"
    /\ StartTunnel

(* Mutant of InTunnel: close_tunnel is not looked at. *)
InTunnelIgnoresClose ==
    /\ phase = "tunnel"
    /\ TunnelStep
    /\ phase' = IF at' # "idle" THEN "tunnel"
                ELSE IF outcome'.ec = "ok" THEN "relay" ELSE "shutServer"

(* A step of the tunnel; when it completes the tunnel, its handler is the  *)
(* connection's coroutine, which goes on at once.                          *)
InTunnel ==
    /\ phase = "tunnel"
    /\ TunnelStep
    /\ phase' = IF at' # "idle" THEN "tunnel"
                ELSE IF outcome'.ec = "ok" /\ ~outcome'.close THEN "relay"
                ELSE "shutServer"

(* async_relay, which reads the client's next request itself, fails or     *)
(* asks to close; or it succeeds, which takes a remote, and the next       *)
(* tunnel begins.                                                          *)
AfterRelay ==
    /\ phase = "relay"
    /\ \/ /\ phase' = "shutServer"
          /\ UNCHANGED tunnelVars
       \/ /\ remote # 0
          /\ phase' = "tunnel"
          /\ StartTunnel

AfterShutServer ==
    /\ phase = "shutServer"
    /\ phase' = "shutClient"
    /\ UNCHANGED tunnelVars

AfterShutClient ==
    /\ phase = "shutClient"
    /\ phase' = "ended"
    /\ remote' = 0
    /\ UNCHANGED <<at, request, requests, answers, handed, answer, closeTunnel,
                   outcome>>

ProxyStep ==
    \/ Enter
    \/ InTunnel
    \/ AfterRelay
    \/ AfterShutServer
    \/ AfterShutClient

-----------------------------------------------------------------------------
(* Properties.                                                             *)

(* Where a connection is says what it owes: a request that has been read   *)
(* and neither answered nor handed on, a remote that was reached, a 200.   *)
(* close_tunnel is set on the way out only.                                *)
ConnectionInv ==
    /\ at = "idle" <=> phase # "tunnel"
    /\ at # "idle" \/ phase \in {"none", "posted"} => outcome.ec = "none"
    /\ at \notin {"idle", "header"} => request \in Requests
    /\ at \in {"refuse", "connect", "unreachable", "malformed", "established"} =>
        requests = answers + handed + 1
    /\ \/ at \in {"header", "relay", "detect"}
       \/ phase \in {"none", "posted", "relay"}
       \/ outcome.ec = "ok"
       => requests = answers + handed
    /\ at = "connect" => /\ Reachable(request)
                         /\ Persistent(request) => request.keepAlive
    /\ at \in {"relay", "established"} => remote = requests
    /\ at = "established" => request.connect
    /\ at = "detect" \/ phase = "relay" =>
        /\ request \in Requests
        /\ request.keepAlive =>
            remote = requests /\ answer = "200" /\ request.connect
    /\ closeTunnel => phase \in {"shutServer", "shutClient", "ended"}

(* Before the tunnel reads the next request, and before it reports         *)
(* success, each request so far has been dealt with exactly once: the      *)
(* tunnel answered it, or handed it to a relay.                            *)
EveryRequestHandled ==
    (phase = "tunnel" /\ at = "header") \/ outcome.ec = "ok" =>
        requests = answers + handed

(* However many requests of the connection failed before, and to whichever *)
(* remote the client session was connected meanwhile: the tunnel hands an  *)
(* absolute-form request to a relay only while that request's own remote   *)
(* is connected, and the proxy relays only for a client whose CONNECT it   *)
(* has answered with 200 and to the remote that CONNECT named, as long as  *)
(* the last request was persistent.                                        *)
RelayNeedsTunnel ==
    /\ at = "relay" => remote = requests
    /\ phase = "relay" /\ request.keepAlive =>
        remote = requests /\ answer = "200" /\ request.connect

(* A refused CONNECT, a 200 that could not be written and a relayed        *)
(* absolute-form request end the connection: once close_tunnel is set the  *)
(* connection relays nothing and reads no other request.                   *)
CloseIsFinal ==
    [][closeTunnel => closeTunnel' /\ requests' = requests /\ phase' # "relay"]_proxyVars

(* An accepted connection, after finitely many requests, comes to its end  *)
(* with both sessions shut down; that the accept loop is cancelled         *)
(* meanwhile changes nothing.                                              *)
ConnectionEnds == phase = "posted" ~> phase = "ended" /\ remote = 0
=============================================================================
