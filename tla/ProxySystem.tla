---------------------------- MODULE ProxySystem ----------------------------
(***************************************************************************)
(* foxy::proxy as a whole: the accept loop and one of the connections it   *)
(* has accepted, any one, followed from its post to its end.  The two run  *)
(* on strands of their own.                                                *)
(***************************************************************************)
EXTENDS ProxyServer, Proxy

systemVars ==
    <<strand, loop, accepting, stream, arrivals, spawned, cancelled,
      at, request, requests, answers, handed, answer, remote, closeTunnel,
      outcome, phase>>

SystemInit == ProxyServerInit /\ ProxyInit

(* The connection just accepted is the one that is followed, or another. *)
Spawn == RunAccepted /\ (Post \/ UNCHANGED proxyVars)

LoopStep == ServerStep /\ UNCHANGED proxyVars
ConnectionStep == ProxyStep /\ UNCHANGED proxyServerVars

SystemNext == Spawn \/ LoopStep \/ ConnectionStep

SystemSpec == SystemInit /\ [][SystemNext]_systemVars

(* The strands run what is queued; no connection has to arrive.  The       *)
(* sessions' operations complete, if only by their timeouts, and the       *)
(* client does not fall silent during async_detect_ssl, which has none.    *)
FairSystemSpec ==
    /\ SystemSpec
    /\ WF_systemVars(Spawn \/ (RunOther /\ UNCHANGED proxyVars))
    /\ WF_systemVars(ConnectionStep)

-----------------------------------------------------------------------------
(* The types of both parts.  However accepts, failures and a cancel are    *)
(* interleaved, the loop has exactly one accept under way until it ends,   *)
(* and the one stream_ holds the connection of that accept and no other.   *)
(* A connection runs only once it has been handed out, owes at most the    *)
(* request it is at, and relays only where its tunnel has led.             *)
SystemInv ==
    /\ ProxyServerTypeOK
    /\ ProxyTypeOK
    /\ StreamOwnedOnce
    /\ LoopAlive
    /\ ConnectionInv
    /\ phase # "none" => spawned > 0
=============================================================================
