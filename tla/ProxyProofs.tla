---------------------------- MODULE ProxyProofs ----------------------------
(***************************************************************************)
(* Proofs about ProxySystem, for any number of arrivals and of requests:   *)
(* SystemInv is inductive, and what the proxy promises a connection        *)
(* follows from it.  Then about parse_uri, by which the tunnel learns      *)
(* where to connect to, for targets of any length: the parts it returns    *)
(* account for the whole target.                                           *)
(***************************************************************************)
EXTENDS ProxySystem, ParseUri, TLAPS

(* The proxy server's accept loop. *)
LoopInv == ProxyServerTypeOK /\ StreamOwnedOnce /\ LoopAlive
(* The connection that the loop has handed over. *)
PeerInv == ProxyTypeOK /\ ConnectionInv

-----------------------------------------------------------------------------
(* The accept loop.                                                        *)

(* A handler posted to the strand stands behind the others. *)
LEMMA Posted ==
    ASSUME strand \in Seq(Handlers), NEW h \in Handlers, strand' = Append(strand, h)
    PROVE  /\ strand' \in Seq(Handlers)
           /\ Turns' = Turns \cup (IF h = "cancel" THEN {} ELSE {Len(strand) + 1})
           /\ \A g : Queued(g)' <=> Queued(g) \/ g = h
BY DEF Turns, Queued

(* A handler that is run leaves the strand, and the others move up. *)
LEMMA Popped ==
    ASSUME strand \in Seq(Handlers), strand # <<>>
    PROVE  /\ Tail(strand) \in Seq(Handlers)
           /\ Len(Tail(strand)) = Len(strand) - 1
           /\ \A i \in 1..Len(strand) - 1 : Tail(strand)[i] = strand[i + 1]
           /\ Len(strand) \in Nat \ {0} /\ 1 \in 1..Len(strand) /\ Head(strand) = strand[1]
BY DEF Handlers

(* A turn of the loop is the only one queued: nothing else is behind it.   *)
LEMMA TurnRun ==
    ASSUME LoopInv, strand # <<>>, Head(strand) # "cancel", strand' = Tail(strand)
    PROVE  /\ strand' \in Seq(Handlers)
           /\ Turns' = {} /\ Turns = {1} /\ ~accepting /\ loop = "started"
           /\ \A g : g # "cancel" => ~Queued(g)'
           /\ stream <=> Head(strand) = "accepted"
<1>1. 1 \in Turns
  BY Popped DEF Turns, LoopInv, ProxyServerTypeOK
<1>2. Turns = {1}
  BY <1>1 DEF LoopInv, StreamOwnedOnce
<1>3. ~accepting /\ loop = "started"
  BY <1>2 DEF LoopInv, StreamOwnedOnce, LoopAlive
<1>4. \A i \in 1..Len(strand) - 1 : strand'[i] = "cancel"
  <2>1. ASSUME NEW i \in 1..Len(strand) - 1 PROVE strand'[i] = "cancel"
    <3>1. i + 1 \in 1..Len(strand) /\ i + 1 # 1 /\ strand'[i] = strand[i + 1]
      BY Popped DEF LoopInv, ProxyServerTypeOK
    <3>2. i + 1 \notin Turns
      BY <1>2, <3>1
    <3>3. QED
      BY <3>1, <3>2 DEF Turns
  <2>2. QED
    BY <2>1
<1>5. strand' \in Seq(Handlers) /\ Len(strand') = Len(strand) - 1
  BY Popped DEF LoopInv, ProxyServerTypeOK
<1>6. Turns' = {} /\ \A g : g # "cancel" => ~Queued(g)'
  BY <1>4, <1>5 DEF Turns, Queued
<1>7. stream <=> Head(strand) = "accepted"
  <2>1. \A i \in 1..Len(strand) : strand[i] = "accepted" => i = 1
    BY <1>2 DEF Turns
  <2>2. Queued("accepted") <=> Head(strand) = "accepted"
    BY <2>1, Popped DEF Queued, LoopInv, ProxyServerTypeOK
  <2>3. QED
    BY <2>2 DEF LoopInv, StreamOwnedOnce
<1>8. QED
  BY <1>2, <1>3, <1>5, <1>6, <1>7

(* A cancel that is run leaves the turns as they are, one place further    *)
(* up, and turns a pending accept into an aborted one.                     *)
LEMMA CancelRun ==
    ASSUME LoopInv, RunCancel
    PROVE  LoopInv'
<1> DEFINE rest == Tail(strand)
           more == IF accepting THEN <<"aborted">> ELSE <<>>
<1>1. /\ strand # <<>> /\ Head(strand) = "cancel" /\ strand' = rest \o more
      /\ accepting' = FALSE /\ UNCHANGED <<loop, stream, arrivals, spawned, cancelled>>
  BY DEF RunCancel, Runs
<1>2. /\ rest \in Seq(Handlers) /\ more \in Seq(Handlers)
      /\ Len(rest) = Len(strand) - 1 /\ Len(strand) \in Nat \ {0}
      /\ strand[1] = "cancel"
      /\ \A i \in 1..Len(strand) - 1 : rest[i] = strand[i + 1]
  <2>1. strand \in Seq(Handlers)
    BY DEF LoopInv, ProxyServerTypeOK
  <2>2. <<"aborted">> \in Seq(Handlers) /\ <<>> \in Seq(Handlers)
    BY DEF Handlers
  <2>3. more \in Seq(Handlers)
    BY <2>2
  <2>4. QED
    BY <1>1, <2>1, <2>3, Popped
<1> HIDE DEF rest, more
<1>3. strand' \in Seq(Handlers)
  BY <1>1, <1>2
<1>4. CASE accepting
  <2>1. /\ Len(strand') = Len(strand) /\ strand'[Len(strand)] = "aborted"
        /\ \A i \in 1..Len(strand) - 1 : strand'[i] = strand[i + 1]
    <3>1. more = <<"aborted">> /\ Len(more) = 1 /\ more[1] = "aborted"
      BY <1>4 DEF more
    <3>2. /\ Len(rest \o more) = Len(rest) + 1
          /\ \A i \in 1..Len(rest) + 1 :
                (rest \o more)[i] = IF i <= Len(rest) THEN rest[i] ELSE more[i - Len(rest)]
      BY <1>2, <3>1
    <3>3. Len(strand') = Len(strand)
      BY <1>1, <1>2, <3>2
    <3>4. strand'[Len(strand)] = "aborted"
      BY <1>1, <1>2, <3>1, <3>2
    <3>5. ASSUME NEW i \in 1..Len(strand) - 1 PROVE strand'[i] = strand[i + 1]
      BY <1>1, <1>2, <3>2
    <3>6. QED
      BY <3>3, <3>4, <3>5
  <2>2. \A i \in 1..Len(strand) : strand[i] = "cancel"
    BY <1>4 DEF LoopInv, StreamOwnedOnce, Turns
  <2>3. \A i \in 1..Len(strand) - 1 : strand'[i] = "cancel"
    BY <1>2, <2>1, <2>2
  <2>4. Turns' = {Len(strand)}
    BY <1>2, <2>1, <2>3 DEF Turns
  <2>5. ~Queued("accepted") /\ ~Queued("accepted")'
    BY <1>2, <2>1, <2>2, <2>3 DEF Queued
  <2>6. QED
    BY <1>1, <1>3, <1>4, <2>4, <2>5, Zenon
       DEF LoopInv, ProxyServerTypeOK, StreamOwnedOnce, LoopAlive
<1>5. CASE ~accepting
  <2>1. strand' = rest
    BY <1>1, <1>2, <1>5 DEF more
  <2>2. \A i \in 1..Len(strand) - 1 : i \in Turns' <=> i + 1 \in Turns
    BY <1>2, <2>1 DEF Turns
  <2>3. Turns' \subseteq 1..Len(strand) - 1 /\ Turns \subseteq 2..Len(strand)
    BY <1>2, <2>1 DEF Turns
  <2>4. Turns' = {} <=> Turns = {}
    <3>1. ASSUME NEW j \in Turns PROVE j - 1 \in Turns'
      BY <1>2, <2>2, <2>3
    <3>2. ASSUME NEW j \in Turns' PROVE j + 1 \in Turns
      BY <2>2, <2>3
    <3>3. QED
      BY <3>1, <3>2
  <2>5. \A i, j \in Turns' : i = j
    <3>1. ASSUME NEW i \in Turns', NEW j \in Turns' PROVE i = j
      <4>1. i \in 1..Len(strand) - 1 /\ j \in 1..Len(strand) - 1
        BY <2>3
      <4>2. i + 1 \in Turns /\ j + 1 \in Turns
        BY <2>2, <4>1
      <4>3. i + 1 = j + 1
        BY <4>2 DEF LoopInv, StreamOwnedOnce
      <4>4. QED
        BY <1>2, <4>1, <4>3
    <3>2. QED
      BY <3>1
  <2>6. Queued("accepted")' <=> Queued("accepted")
    <3>1. ASSUME NEW j \in 1..Len(strand), strand[j] = "accepted"
          PROVE  \E i \in 1..Len(strand) - 1 : strand'[i] = "accepted"
      <4>1. j # 1 /\ j - 1 \in 1..Len(strand) - 1 /\ (j - 1) + 1 = j
        BY <1>2, <3>1
      <4>2. strand'[j - 1] = "accepted"
        BY <1>2, <2>1, <3>1, <4>1
      <4>3. QED
        BY <4>1, <4>2
    <3>2. ASSUME NEW j \in 1..Len(strand) - 1, strand'[j] = "accepted"
          PROVE  \E i \in 1..Len(strand) : strand[i] = "accepted"
      BY <1>2, <2>1, <3>2
    <3>3. Len(strand') = Len(strand) - 1
      BY <1>2, <2>1
    <3>4. QED
      BY <3>1, <3>2, <3>3 DEF Queued
  <2>7. QED
    BY <1>1, <1>3, <1>5, <2>4, <2>5, <2>6, Zenon
       DEF LoopInv, ProxyServerTypeOK, StreamOwnedOnce, LoopAlive
<1>6. QED
  BY <1>4, <1>5 DEF LoopInv, ProxyServerTypeOK

(* Every step of the server keeps the loop's invariant. *)
LEMMA ServerKeeps ==
    ASSUME LoopInv, ServerStep
    PROVE  LoopInv' /\ spawned' = spawned
<1> USE MaxArrivalsAssumption
<1>1. CASE AsyncAccept
  <2>1. "start" \in Handlers /\ strand' = Append(strand, "start")
    BY <1>1 DEF AsyncAccept, Handlers
  <2>2. strand \in Seq(Handlers) /\ Len(strand) \in Nat /\ Turns = {} /\ ~accepting
    BY <1>1 DEF AsyncAccept, LoopInv, LoopAlive, ProxyServerTypeOK
  <2>3. /\ strand' \in Seq(Handlers) /\ Turns' = {Len(strand) + 1}
        /\ Queued("accepted")' <=> Queued("accepted")
    BY <2>1, <2>2, Posted
  <2>4. QED
    BY <1>1, <2>2, <2>3
       DEF AsyncAccept, LoopInv, ProxyServerTypeOK, StreamOwnedOnce, LoopAlive
<1>2. CASE Cancel
  <2>1. "cancel" \in Handlers /\ strand' = Append(strand, "cancel")
    BY <1>2 DEF Cancel, Handlers
  <2>2. /\ strand' \in Seq(Handlers) /\ Turns' = Turns
        /\ Queued("accepted")' <=> Queued("accepted")
    BY <2>1, Posted, Zenon DEF LoopInv, ProxyServerTypeOK
  <2>3. QED
    BY <1>2, <2>2 DEF Cancel, LoopInv, ProxyServerTypeOK, StreamOwnedOnce, LoopAlive
<1>3. CASE Arrive
  <2>1. "accepted" \in Handlers /\ strand' = Append(strand, "accepted")
    BY <1>3 DEF Arrive, Handlers
  <2>2. /\ strand \in Seq(Handlers) /\ Len(strand) \in Nat /\ Turns = {}
        /\ loop = "started"
    BY <1>3 DEF Arrive, LoopInv, LoopAlive, StreamOwnedOnce, ProxyServerTypeOK
  <2>3. ~stream
    BY <2>2 DEF LoopInv, StreamOwnedOnce, Turns, Queued
  <2>4. /\ strand' \in Seq(Handlers) /\ Turns' = {Len(strand) + 1} /\ Queued("accepted")'
    BY <2>1, <2>2, Posted
  <2>5. arrivals' \in 0..MaxArrivals /\ arrivals' = spawned' + 1
    BY <1>3, <2>3 DEF Arrive, LoopInv, ProxyServerTypeOK, StreamOwnedOnce
  <2>6. QED
    BY <1>3, <2>2, <2>4, <2>5, Zenon
       DEF Arrive, LoopInv, ProxyServerTypeOK, StreamOwnedOnce, LoopAlive
<1>4. CASE FailAccept
  <2>1. "failed" \in Handlers /\ strand' = Append(strand, "failed")
    BY <1>4 DEF FailAccept, Handlers
  <2>2. /\ strand \in Seq(Handlers) /\ Len(strand) \in Nat /\ Turns = {}
        /\ loop = "started"
    BY <1>4 DEF FailAccept, LoopInv, LoopAlive, StreamOwnedOnce, ProxyServerTypeOK
  <2>3. /\ strand' \in Seq(Handlers) /\ Turns' = {Len(strand) + 1}
        /\ Queued("accepted")' <=> Queued("accepted")
    BY <2>1, <2>2, Posted
  <2>4. QED
    BY <1>4, <2>2, <2>3, Zenon
       DEF FailAccept, LoopInv, ProxyServerTypeOK, StreamOwnedOnce, LoopAlive
<1>5. CASE RunCancel
  BY <1>5, CancelRun, Zenon DEF RunCancel
<1>6. CASE RunStart
  BY <1>6, TurnRun
     DEF RunStart, Runs, AcceptNext, LoopInv, ProxyServerTypeOK, StreamOwnedOnce, LoopAlive
<1>7. CASE RunAborted
  BY <1>7, TurnRun
     DEF RunAborted, Runs, LoopInv, ProxyServerTypeOK, StreamOwnedOnce, LoopAlive
<1>8. CASE RunFailed
  BY <1>8, TurnRun
     DEF RunFailed, Runs, AcceptNext, LoopInv, ProxyServerTypeOK, StreamOwnedOnce, LoopAlive
<1>9. QED
  BY <1>1, <1>2, <1>3, <1>4, <1>5, <1>6, <1>7, <1>8 DEF ServerStep, RunOther

(* So does handing the stream on. *)
LEMMA AcceptedKeeps ==
    ASSUME LoopInv, RunAccepted
    PROVE  LoopInv' /\ spawned' > 0
<1>1. /\ strand # <<>> /\ Head(strand) = "accepted" /\ strand' = Tail(strand)
      /\ accepting' = TRUE /\ stream' = FALSE /\ spawned' = spawned + 1
      /\ UNCHANGED <<loop, arrivals, cancelled>>
  BY DEF RunAccepted, Runs, AcceptNext
<1>2. /\ strand' \in Seq(Handlers) /\ Turns' = {} /\ ~Queued("accepted")'
      /\ stream /\ loop = "started"
  BY <1>1, TurnRun
<1>3. arrivals = spawned + 1 /\ spawned \in Nat /\ spawned + 1 \in 0..MaxArrivals
  BY <1>2 DEF LoopInv, ProxyServerTypeOK, StreamOwnedOnce
<1>4. ProxyServerTypeOK'
  BY <1>1, <1>2, <1>3, Zenon DEF LoopInv, ProxyServerTypeOK
<1>5. StreamOwnedOnce' /\ LoopAlive'
  <2>1. LoopAlive'
    BY <1>1, <1>2, Zenon DEF LoopAlive
  <2>2. arrivals' = spawned' + (IF stream' THEN 1 ELSE 0)
    <3>1. spawned' + (IF stream' THEN 1 ELSE 0) = spawned' + 0 /\ arrivals' = arrivals
      BY <1>1, Zenon
    <3>2. arrivals = spawned' + 0
      BY <1>1, <1>3
    <3>3. QED
      BY <3>1, <3>2, Zenon
  <2>3. QED
    BY <1>1, <1>2, <2>1, <2>2, Zenon DEF StreamOwnedOnce
<1>6. QED
  BY <1>1, <1>3, <1>4, <1>5 DEF LoopInv

-----------------------------------------------------------------------------
(* The connection.                                                         *)

(* A step of the tunnel, as the connection's coroutine sees it. *)
LEMMA TunnelKeeps ==
    ASSUME PeerInv, InTunnel
    PROVE  PeerInv'
<1> USE MaxRequestsAssumption DEF PeerInv, ProxyTypeOK, TunnelTypeOK, ConnectionInv, InTunnel
<1>1. CASE OnHeader
  <2>1. CASE Upcall /\ UNCHANGED <<request, requests>>
    BY <1>1, <2>1 DEF OnHeader, Upcall, Finish
  <2>2. ASSUME NEW r \in Requests,
               requests < MaxRequests, requests' = requests + 1, request' = r,
               at' = IF Persistent(r) /\ ~r.keepAlive THEN "refuse"
                     ELSE IF Reachable(r) THEN "connect" ELSE "malformed",
               UNCHANGED outcome
        PROVE  PeerInv'
    BY <1>1, <2>2 DEF OnHeader, Reachable, Persistent, Requests
  <2>3. QED
    BY <1>1, <2>1, <2>2 DEF OnHeader
<1>2. CASE OnRefuse
  <2>1. /\ at = "refuse" /\ request \in Requests /\ requests = answers + handed + 1
        /\ at' = "idle" /\ closeTunnel' = TRUE /\ outcome'.close = TRUE
        /\ UNCHANGED <<request, requests, handed, remote>>
    BY <1>2 DEF OnRefuse, Finish, Break
  <2>2. phase' = "shutServer"
    BY <2>1
  <2>3. CASE outcome' = [ec |-> "error", close |-> TRUE] /\ UNCHANGED <<answers, answer>>
    BY <2>1, <2>2, <2>3
  <2>4. CASE /\ outcome' = [ec |-> "ok", close |-> TRUE]
             /\ answers' = answers + 1 /\ answer' = "400"
    BY <2>1, <2>2, <2>4
  <2>5. QED
    BY <1>2, <2>3, <2>4 DEF OnRefuse, Finish, Answered, Break
<1>3. CASE OnConnected
  <2>1. /\ at = "connect" /\ request \in Requests /\ requests = answers + handed + 1
        /\ Reachable(request) /\ phase' = "tunnel" /\ outcome.ec = "none"
        /\ ~closeTunnel
        /\ UNCHANGED <<request, requests, answers, answer, closeTunnel, outcome>>
    BY <1>3 DEF OnConnected
  <2>2. request.target # "http" => request.connect
    BY <2>1 DEF Reachable, Persistent
  <2>3. CASE remote' \in {remote, 0} /\ at' = "unreachable" /\ UNCHANGED handed
    <3>1. remote' \in 0..MaxRequests
      BY <2>3, MaxRequestsAssumption
    <3>2. QED
      BY <2>1, <2>3, <3>1, Zenon
  <2>4. CASE remote' = requests /\ at' = "relay" /\ handed' = handed + 1
    BY <2>1, <2>4
  <2>5. CASE /\ remote' = requests /\ request.target # "http"
             /\ at' = "established" /\ UNCHANGED handed
    BY <2>1, <2>2, <2>5
  <2>6. QED
    BY <1>3, <2>3, <2>4, <2>5, Zenon DEF OnConnected
<1>4. CASE OnRejected
  BY <1>4 DEF OnRejected, Upcall, Finish, Answered, Break, Requests
<1>5. CASE OnRelayed
  <2>1. /\ at = "relay" /\ request \in Requests /\ requests = answers + handed
        /\ at' = "idle" /\ ~closeTunnel
        /\ UNCHANGED <<request, requests, answers, handed, answer, remote>>
    BY <1>5 DEF OnRelayed, Upcall, Finish, Break
  <2>2. CASE outcome' = [ec |-> "error", close |-> closeTunnel] /\ UNCHANGED closeTunnel
    BY <2>1, <2>2
  <2>3. CASE outcome' = [ec |-> "ok", close |-> TRUE] /\ closeTunnel' = TRUE
    <3>1. phase' = "shutServer"
      BY <2>1, <2>3
    <3>2. QED
      BY <2>1, <2>3, <3>1
  <2>4. QED
    BY <1>5, <2>2, <2>3, Zenon DEF OnRelayed, Upcall, Finish, Break
<1>6. CASE OnEstablished
  <2>1. /\ at = "established" /\ request \in Requests /\ requests = answers + handed + 1
        /\ remote = requests /\ request.connect /\ outcome.ec = "none"
        /\ UNCHANGED <<request, requests, handed, remote>>
    BY <1>6 DEF OnEstablished
  <2>2. CASE /\ at' = "idle" /\ outcome' = [ec |-> "error", close |-> TRUE]
             /\ closeTunnel' = TRUE /\ UNCHANGED <<answers, answer>>
    <3>1. phase' = "shutServer"
      BY <2>1, <2>2
    <3>2. QED
      BY <2>1, <2>2, <3>1
  <2>3. CASE /\ at' = "detect" /\ UNCHANGED outcome /\ closeTunnel' = FALSE
             /\ answers' = answers + 1 /\ answer' = "200"
    <3>1. phase' = "tunnel"
      BY <2>3
    <3>2. ProxyTypeOK'
      <4>1. answers' \in 0..MaxRequests
        BY <2>1, <2>3
      <4>2. outcome' = outcome /\ closeTunnel' \in BOOLEAN /\ remote' \in 0..MaxRequests
        BY <2>1, <2>3, Zenon
      <4>3. QED
        BY <2>1, <2>3, <3>1, <4>1, <4>2
    <3>3. /\ request' \in Requests /\ requests' = answers' + handed'
          /\ remote' = requests' /\ answer' = "200" /\ request'.connect
      BY <2>1, <2>3
    <3>4. ConnectionInv'
      BY <2>1, <2>3, <3>1, <3>3
    <3>5. QED
      BY <3>2, <3>4, Zenon
  <2>4. QED
    BY <1>6, <2>2, <2>3, Zenon DEF OnEstablished, Finish, Answered, Break
<1>7. CASE OnDetected
  BY <1>7 DEF OnDetected, Finish
<1>8. QED
  BY <1>1, <1>2, <1>3, <1>4, <1>5, <1>6, <1>7, Zenon DEF TunnelStep

(* Every step of the connection keeps its invariant. *)
LEMMA ConnectionKeeps ==
    ASSUME PeerInv, Post \/ ProxyStep
    PROVE  PeerInv'
<1>1. CASE Post
  BY <1>1 DEF Post, tunnelVars, PeerInv, ProxyTypeOK, TunnelTypeOK, ConnectionInv
<1>2. CASE Enter
  BY <1>2, Zenon DEF Enter, StartTunnel, NoOutcome, NoRequest,
              PeerInv, ProxyTypeOK, TunnelTypeOK, ConnectionInv
<1>3. CASE InTunnel
  BY <1>3, TunnelKeeps
<1>4. CASE AfterRelay
  <2>1. CASE phase' = "shutServer" /\ UNCHANGED tunnelVars
    BY <1>4, <2>1 DEF AfterRelay, tunnelVars,
                      PeerInv, ProxyTypeOK, TunnelTypeOK, ConnectionInv
  <2>2. CASE phase' = "tunnel" /\ StartTunnel
    BY <1>4, <2>2, Zenon DEF AfterRelay, StartTunnel, NoOutcome, NoRequest,
                      PeerInv, ProxyTypeOK, TunnelTypeOK, ConnectionInv
  <2>3. QED
    BY <1>4, <2>1, <2>2 DEF AfterRelay
<1>5. CASE AfterShutServer
  BY <1>5 DEF AfterShutServer, tunnelVars,
              PeerInv, ProxyTypeOK, TunnelTypeOK, ConnectionInv
<1>6. CASE AfterShutClient
  <2>1. 0 \in 0..MaxRequests
    BY MaxRequestsAssumption
  <2>2. QED
    BY <1>6, <2>1, Zenon
       DEF AfterShutClient, PeerInv, ProxyTypeOK, TunnelTypeOK, ConnectionInv
<1>7. QED
  BY <1>1, <1>2, <1>3, <1>4, <1>5, <1>6 DEF ProxyStep

-----------------------------------------------------------------------------
(* The proxy.                                                              *)

(* The system starts with the invariant. *)
LEMMA InitInv == SystemInit => SystemInv
<1> SUFFICES ASSUME SystemInit PROVE SystemInv
  OBVIOUS
<1>1. strand = <<>> /\ Len(strand) = 0 /\ strand \in Seq(Handlers)
  BY DEF SystemInit, ProxyServerInit
<1>2. Turns = {} /\ ~Queued("accepted")
  BY <1>1 DEF Turns, Queued
<1> 0 \in 0..MaxArrivals /\ 0 \in 0..MaxRequests
  BY MaxArrivalsAssumption, MaxRequestsAssumption
<1>3. ProxyServerTypeOK
  BY <1>1, Zenon DEF SystemInit, ProxyServerInit, ProxyServerTypeOK
<1>4. StreamOwnedOnce
  BY <1>2 DEF SystemInit, ProxyServerInit, StreamOwnedOnce
<1>5. LoopAlive
  BY <1>2 DEF SystemInit, ProxyServerInit, LoopAlive
<1>6. /\ at = "idle" /\ phase = "none" /\ closeTunnel = FALSE /\ remote = 0
      /\ requests = 0 /\ answers = 0 /\ handed = 0 /\ answer = "none"
      /\ request = NoRequest /\ outcome = NoOutcome
  BY DEF SystemInit, ProxyInit
<1>7. NoOutcome \in [ec : {"none", "ok", "error"}, close : BOOLEAN] /\ NoOutcome.ec = "none"
  BY DEF NoOutcome
<1>8. ProxyTypeOK
  BY <1>6, <1>7, Zenon DEF ProxyTypeOK, TunnelTypeOK
<1>9. ConnectionInv
  BY <1>6, <1>7 DEF ConnectionInv
<1>10. QED
  BY <1>3, <1>4, <1>5, <1>6, <1>8, <1>9 DEF SystemInv

(* The variables of one part are left alone by the other. *)
LEMMA LoopFrame ==
    ASSUME LoopInv, UNCHANGED proxyServerVars
    PROVE  LoopInv' /\ spawned' = spawned
BY DEF LoopInv, proxyServerVars, ProxyServerTypeOK, StreamOwnedOnce, LoopAlive, Turns, Queued

(* A step that leaves the connection alone keeps it right. *)
LEMMA PeerFrame ==
    ASSUME PeerInv, UNCHANGED proxyVars
    PROVE  PeerInv' /\ phase' = phase
<1>1. ProxyTypeOK' /\ phase' = phase
  BY DEF PeerInv, proxyVars, ProxyTypeOK, TunnelTypeOK
<1>2. ConnectionInv'
  BY DEF PeerInv, proxyVars, ConnectionInv
<1>3. QED
  BY <1>1, <1>2 DEF PeerInv

(* A connection's own steps follow its post. *)
LEMMA StepAfterPost == ASSUME ProxyStep PROVE phase # "none"
BY DEF ProxyStep, Enter, InTunnel, AfterRelay, AfterShutServer, AfterShutClient

(* SystemInv is inductive. *)
LEMMA NextInv == SystemInv /\ [SystemNext]_systemVars => SystemInv'
<1> SUFFICES ASSUME SystemInv, [SystemNext]_systemVars PROVE SystemInv'
  OBVIOUS
<1>1. LoopInv /\ PeerInv /\ (phase # "none" => spawned > 0)
  BY DEF SystemInv, LoopInv, PeerInv
<1>2. CASE Spawn
  BY <1>1, <1>2, AcceptedKeeps, ConnectionKeeps, PeerFrame
     DEF Spawn, SystemInv, LoopInv, PeerInv
<1>3. CASE LoopStep
  BY <1>1, <1>3, ServerKeeps, PeerFrame DEF LoopStep, SystemInv, LoopInv, PeerInv
<1>4. CASE ConnectionStep
  BY <1>1, <1>4, ConnectionKeeps, LoopFrame, StepAfterPost
     DEF ConnectionStep, SystemInv, LoopInv, PeerInv
<1>5. CASE UNCHANGED systemVars
  BY <1>1, <1>5, LoopFrame, PeerFrame
     DEF systemVars, proxyServerVars, proxyVars, SystemInv, LoopInv, PeerInv
<1>6. QED
  BY <1>2, <1>3, <1>4, <1>5 DEF SystemNext

(* The accept loop always has exactly one accept under way until it ends,  *)
(* stream_ holds the connection of that accept and no other, and each      *)
(* connection owes at most the request it is at, whatever the number of    *)
(* arrivals and of requests.                                               *)
THEOREM SystemKeepsInvariant == SystemSpec => []SystemInv
<1>1. QED
  BY InitInv, NextInv, PTL DEF SystemSpec

(* tunnel_op reads the next request, and reports success, only when every  *)
(* request so far was answered by it or handed to a relay, once.           *)
THEOREM TunnelHandlesEveryRequest == SystemSpec => []EveryRequestHandled
<1>1. SystemInv => EveryRequestHandled
  BY DEF SystemInv, ConnectionInv, EveryRequestHandled
<1>2. QED
  BY <1>1, SystemKeepsInvariant, PTL

(* For any number of requests on a connection: the tunnel relays a request *)
(* only to that request's own remote, and a connection whose last request  *)
(* was persistent relays only behind a CONNECT that was answered with 200, *)
(* to the remote that CONNECT named.                                       *)
THEOREM RelayFollowsTunnel == SystemSpec => []RelayNeedsTunnel
<1>1. SystemInv => RelayNeedsTunnel
  BY DEF SystemInv, ConnectionInv, RelayNeedsTunnel
<1>2. QED
  BY <1>1, SystemKeepsInvariant, PTL

(* Once close_tunnel is set the connection relays nothing and reads no     *)
(* other request: only the two shutdowns are left.                         *)
THEOREM ClosedTunnelStaysClosed == SystemSpec => CloseIsFinal
<1> DEFINE Final == closeTunnel => closeTunnel' /\ requests' = requests /\ phase' # "relay"
<1>1. SystemInv /\ [SystemNext]_systemVars => [Final]_proxyVars
  <2> SUFFICES ASSUME SystemInv, [SystemNext]_systemVars, closeTunnel
               PROVE  UNCHANGED proxyVars \/ Final
    OBVIOUS
  <2>1. phase \in {"shutServer", "shutClient", "ended"}
    BY DEF SystemInv, ConnectionInv
  <2>2. CASE Spawn
    BY <2>1, <2>2 DEF Spawn, Post
  <2>3. CASE LoopStep
    BY <2>3 DEF LoopStep
  <2>4. CASE ConnectionStep
    BY <2>1, <2>4, Zenon DEF ConnectionStep, ProxyStep, Enter, InTunnel, AfterRelay,
                      AfterShutServer, AfterShutClient, tunnelVars
  <2>5. CASE UNCHANGED systemVars
    BY <2>5 DEF systemVars, proxyVars
  <2>6. QED
    BY <2>2, <2>3, <2>4, <2>5 DEF SystemNext
<1>2. QED
  BY <1>1, SystemKeepsInvariant, PTL DEF SystemSpec, CloseIsFinal

-----------------------------------------------------------------------------
\* What is asked of a rule and of a delimiter, one by one.
MovesIn(p, t) == \A i \in 1 .. Len(t) + 1 : Match(p, t, i) \in {Fail} \cup (i .. Len(t) + 1)
IsLit(d, cs, t) ==
  \A i \in 1 .. Len(t) + 1 :
    Match(lit(d), t, i) # Fail => Match(lit(d), t, i) = i + Len(cs) /\ Reads(t, i, cs)
UserHasNoAt(t) ==
  \A i \in 1 .. Len(t) + 1 : \A k \in i .. Match(userinfo, t, i) - 1 : t[k] # 64

\* RulesInPlace is these.
LEMMA RulesFacts ==
  ASSUME NEW t, RulesInPlace(t)
  PROVE  /\ MovesIn(scheme, t) /\ MovesIn(userinfo, t) /\ MovesIn(host, t) /\ MovesIn(port, t)
         /\ MovesIn(path_abempty, t) /\ MovesIn(path_empty, t)
         /\ MovesIn(query, t) /\ MovesIn(fragment, t)
         /\ IsLit(":", <<58>>, t) /\ IsLit("//", <<47, 47>>, t) /\ IsLit("@", <<64>>, t)
         /\ IsLit("?", <<63>>, t) /\ IsLit("#", <<35>>, t)
         /\ UserHasNoAt(t)
BY Zenon DEF RulesInPlace, MovesIn, IsLit, UserHasNoAt

\* A parse that stands at a, the parts it has found, and the six of them.
ParseAt(a, parts) == [at |-> a, parts |-> parts]
Cut(s, h, o, p, q, f) ==
  [scheme |-> s, host |-> h, port |-> o, path |-> p, query |-> q, fragment |-> f]
None == NullView

\* What a parse is made of.
LEMMA AtFacts ==
  ASSUME NEW a, NEW parts
  PROVE  /\ ParseAt(a, parts).at = a /\ ParseAt(a, parts).parts = parts
         /\ \A b : [ParseAt(a, parts) EXCEPT !.at = b] = ParseAt(b, parts)
BY DEF ParseAt

\* A view that is there: it lies in the text.
IsView(t, v, i, j) == v = <<i, j>> /\ i \in 1 .. Len(t) + 1 /\ j \in i .. Len(t) + 1

\* What a view that is there says.
LEMMA ViewFacts ==
  ASSUME NEW t \in Seq(Nat), NEW v, NEW i, NEW j, IsView(t, v, i, j)
  PROVE  /\ v # None /\ v[1] = i /\ v[2] = j /\ v[1] <= v[2] /\ j \in 1 .. Len(t) + 1
         /\ \A a : End(v, a) = j
<1>1. v # None /\ v[1] = i /\ v[2] = j /\ v[1] <= v[2] /\ j \in 1 .. Len(t) + 1
  BY DEF IsView, None, NullView
<1>2. QED
  BY <1>1, Zenon DEF End, None

\* The null view.
LEMMA NullFacts ==
  /\ None[1] <= None[2] /\ \A a : End(None, a) = a
  /\ \A t, d, i : Follows(t, None, d, i)
<1>1. None[1] <= None[2]
  BY DEF None, NullView
<1>2. QED
  BY <1>1, Zenon DEF End, Follows, None

\* The parse q has failed to find the codes cs at a, or has them behind.
Skips(t, q, a, cs, parts) ==
  q = ParseAt(Fail, parts) \/ (q = ParseAt(a + Len(cs), parts) /\ Reads(t, a, cs))

\* A delimiter fails or is behind.
LEMMA SkipFacts ==
  ASSUME NEW t, NEW d, NEW cs, IsLit(d, cs, t), NEW a \in 1 .. Len(t) + 1, NEW parts
  PROVE  Skips(t, Skip(lit(d), t, ParseAt(a, parts)), a, cs, parts)
<1> DEFINE m == Match(lit(d), t, a)
<1>1. m = Fail \/ (m = a + Len(cs) /\ Reads(t, a, cs))
  BY Zenon DEF IsLit
<1>2. a # Fail
  BY DEF Fail
<1>3. Skip(lit(d), t, ParseAt(a, parts)) = ParseAt(m, parts)
  <2> HIDE DEF m
  <2>1. Skip(lit(d), t, ParseAt(a, parts)) = ParseAt(Match(lit(d), t, a), parts)
    BY <1>2 DEF Skip, ParseAt
  <2>2. QED
    BY <2>1, Zenon DEF m
<1>4. QED
  BY <1>1, <1>3, Zenon DEF Skips

\* A parse that has failed stays so.
LEMMA FailStays ==
  ASSUME NEW t, NEW parts
  PROVE  /\ \A p : Skip(p, t, ParseAt(Fail, parts)) = ParseAt(Fail, parts)
         /\ \A p, part : Raw(p, part, t, ParseAt(Fail, parts)) = ParseAt(Fail, parts)
         /\ \A d, p, part : OptRaw(d, p, part, t, ParseAt(Fail, parts)) = ParseAt(Fail, parts)
<1>1. \A p : Skip(p, t, ParseAt(Fail, parts)) = ParseAt(Fail, parts)
  BY AtFacts, Zenon DEF Skip
<1>2. \A p, part : Raw(p, part, t, ParseAt(Fail, parts)) = ParseAt(Fail, parts)
  BY AtFacts, Zenon DEF Raw
<1>3. QED
  BY <1>1, <1>2, AtFacts, Zenon DEF OptRaw

\* The rule p fails from a, or it becomes the view v.
Raws(t, q, a, parts, part, v, j) ==
  IsView(t, v, a, j) /\ q = ParseAt(j, [parts EXCEPT ![part] = v])

\* raw[p] fails or finds its part where the parse stands.
LEMMA RawFacts ==
  ASSUME NEW t \in Seq(Nat), NEW p, MovesIn(p, t), NEW a \in 1 .. Len(t) + 1,
         NEW parts, NEW part, NEW q, q = Raw(p, part, t, ParseAt(a, parts))
  PROVE  q = ParseAt(Fail, parts) \/ \E v, j : Raws(t, q, a, parts, part, v, j)
<1> DEFINE m == Match(p, t, a)
<1>1. a # Fail
  BY DEF Fail
<1>2. m = Fail \/ m \in a .. Len(t) + 1
  BY Zenon DEF MovesIn
<1>3. CASE m = Fail
  <2>1. q = ParseAt(Fail, parts)
    BY <1>1, <1>3 DEF Raw, ParseAt
  <2>2. QED
    BY <2>1, Zenon
<1>4. CASE m # Fail
  <2>1. q = [at |-> m, parts |-> [parts EXCEPT ![part] = <<a, m>>]]
    BY <1>1, <1>4 DEF Raw, ParseAt
  <2>2. IsView(t, <<a, m>>, a, m)
    BY <1>2, <1>4, Zenon DEF IsView
  <2>3. Raws(t, q, a, parts, part, <<a, m>>, m)
    BY <2>1, <2>2, Zenon DEF Raws, ParseAt
  <2>4. QED
    BY <2>3, Zenon
<1>5. QED
  BY <1>3, <1>4, Zenon

\* -(d >> raw[p]) found the part v, or none, and stands at b.
Opts(t, q, a, c, parts, part, v, b) ==
  /\ q = ParseAt(b, [parts EXCEPT ![part] = v]) /\ b = End(v, a) /\ b \in 1 .. Len(t) + 1
  /\ Follows(t, v, c, a) /\ v[1] <= v[2]
Opted(t, q, a, c, parts, part) == \E v, b : Opts(t, q, a, c, parts, part, v, b)

\* It never fails; a part it finds is behind the delimiter.
LEMMA OptRawFacts ==
  ASSUME NEW t \in Seq(Nat), NEW p, MovesIn(p, t), NEW d, NEW c, IsLit(d, <<c>>, t),
         NEW a \in 1 .. Len(t) + 1, NEW parts, NEW part, [parts EXCEPT ![part] = None] = parts,
         NEW q, q = OptRaw(d, p, part, t, ParseAt(a, parts))
  PROVE  Opted(t, q, a, c, parts, part)
<1> DEFINE r == Skip(lit(d), t, ParseAt(a, parts))
           u == Raw(p, part, t, r)
<1>1. q = IF u.at = Fail THEN ParseAt(a, parts) ELSE u
  BY Zenon DEF OptRaw
<1>2. r = ParseAt(Fail, parts) \/ (r = ParseAt(a + Len(<<c>>), parts) /\ Reads(t, a, <<c>>))
  <2>1. Skips(t, r, a, <<c>>, parts)
    BY SkipFacts, Zenon
  <2>2. QED
    BY <2>1, Zenon DEF Skips
<1>3. Len(<<c>>) = 1
  OBVIOUS
<1> HIDE DEF r
<1>4. CASE u.at = Fail
  <2>1. q = ParseAt(a, [parts EXCEPT ![part] = None])
    BY <1>1, <1>4, Zenon
  <2>2. Opts(t, q, a, c, parts, part, None, a)
    BY <2>1, NullFacts, Zenon DEF Opts
  <2>3. QED
    BY <2>2, Zenon DEF Opted
<1>5. CASE u.at # Fail
  <2>1. q = u
    BY <1>1, <1>5, Zenon
  <2>2. r # ParseAt(Fail, parts)
    <3>1. r = ParseAt(Fail, parts) => u.at = Fail
      <4>1. Raw(p, part, t, ParseAt(Fail, parts)) = ParseAt(Fail, parts)
        BY FailStays, Zenon
      <4>2. ParseAt(Fail, parts).at = Fail
        BY AtFacts, Zenon
      <4>3. QED
        BY <4>1, <4>2, Zenon
    <3>2. QED
      BY <1>5, <3>1, Zenon
  <2>3. r = ParseAt(a + 1, parts) /\ Reads(t, a, <<c>>)
    BY <1>2, <1>3, <2>2, Zenon
  <2>4. a + 1 \in 1 .. Len(t) + 1
    <3>1. a + 1 <= Len(t) + 1
      BY <1>3, <2>3, Zenon DEF Reads
    <3>2. QED
      BY <3>1
  <2>5. u = ParseAt(Fail, parts) \/ \E v, j : Raws(t, u, a + 1, parts, part, v, j)
    BY <2>3, <2>4, RawFacts, Zenon
  <2>6. PICK v, j : Raws(t, u, a + 1, parts, part, v, j)
    <3>1. ParseAt(Fail, parts).at = Fail
      BY AtFacts, Zenon
    <3>2. QED
      BY <1>5, <2>5, <3>1, Zenon
  <2>7. IsView(t, v, a + 1, j) /\ u = ParseAt(j, [parts EXCEPT ![part] = v])
    BY <2>6, Zenon DEF Raws
  <2>8. v[1] = a + 1 /\ v[1] <= v[2] /\ j \in 1 .. Len(t) + 1 /\ End(v, a) = j
    BY <2>7, ViewFacts, Zenon
  <2>9. Opts(t, q, a, c, parts, part, v, j)
    BY <2>1, <2>3, <2>7, <2>8, Zenon DEF Opts, Follows
  <2>10. QED
    BY <2>9, Zenon DEF Opted
<1>6. QED
  BY <1>4, <1>5, Zenon

\* The parse q has failed.
Failed(q) == \E parts : q = ParseAt(Fail, parts)

\* A query v and a fragment w, or none, behind the path, which ends at a.
Tailed(t, q, a, s, h, o, p, v, w) ==
  /\ q = ParseAt(End(w, End(v, a)), Cut(s, h, o, p, v, w))
  /\ Follows(t, v, 63, a) /\ Follows(t, w, 35, End(v, a))
  /\ v[1] <= v[2] /\ w[1] <= w[2]

\* The two steps behind the path never fail.
LEMMA TailsFacts ==
  ASSUME NEW t \in Seq(Nat), RulesInPlace(t), NEW a \in 1 .. Len(t) + 1,
         NEW s, NEW h, NEW o, NEW p, NEW q, q = Tails(t, ParseAt(a, Cut(s, h, o, p, None, None)))
  PROVE  \E v, w : Tailed(t, q, a, s, h, o, p, v, w)
<1> DEFINE c == Cut(s, h, o, p, None, None)
           r == OptRaw("?", query, "query", t, ParseAt(a, c))
<1>1. q = OptRaw("#", fragment, "fragment", t, r)
  BY Zenon DEF Tails
<1>2. /\ MovesIn(query, t) /\ MovesIn(fragment, t)
      /\ IsLit("?", <<63>>, t) /\ IsLit("#", <<35>>, t)
  BY RulesFacts, Zenon
<1>3. [c EXCEPT !["query"] = None] = c /\ \A v : [c EXCEPT !["query"] = v] = Cut(s, h, o, p, v, None)
  BY DEF Cut
<1> HIDE DEF c, r
<1>4. Opted(t, r, a, 63, c, "query")
  BY <1>2, <1>3, OptRawFacts, Zenon DEF r
<1>5. PICK v, b : Opts(t, r, a, 63, c, "query", v, b)
  BY <1>4, Zenon DEF Opted
<1> DEFINE d == Cut(s, h, o, p, v, None)
<1>6. r = ParseAt(b, d) /\ b = End(v, a) /\ b \in 1 .. Len(t) + 1 /\ Follows(t, v, 63, a) /\ v[1] <= v[2]
  BY <1>3, <1>5, Zenon DEF Opts
<1>7. [d EXCEPT !["fragment"] = None] = d /\ \A w : [d EXCEPT !["fragment"] = w] = Cut(s, h, o, p, v, w)
  BY DEF Cut
<1> HIDE DEF d
<1>8. Opted(t, q, b, 35, d, "fragment")
  <2>1. q = OptRaw("#", fragment, "fragment", t, ParseAt(b, d)) /\ b \in 1 .. Len(t) + 1
    BY <1>1, <1>6, Zenon
  <2>2. MovesIn(fragment, t) /\ IsLit("#", <<35>>, t) /\ [d EXCEPT !["fragment"] = None] = d
    BY <1>2, <1>7, Zenon
  <2>3. QED
    BY <2>1, <2>2, OptRawFacts
<1>9. PICK w, e : Opts(t, q, b, 35, d, "fragment", w, e)
  BY <1>8, Zenon DEF Opted
<1>10. q = ParseAt(e, Cut(s, h, o, p, v, w)) /\ e = End(w, b) /\ Follows(t, w, 35, b) /\ w[1] <= w[2]
  BY <1>7, <1>9, Zenon DEF Opts
<1>11. Tailed(t, q, a, s, h, o, p, v, w)
  BY <1>6, <1>10, Zenon DEF Tailed
<1>12. QED
  BY <1>11, Zenon

\* They leave a failed parse failed.
LEMMA TailsFail ==
  ASSUME NEW t, NEW r, Failed(r)
  PROVE  Tails(t, r).at = Fail
<1>1. PICK parts : r = ParseAt(Fail, parts)
  BY Zenon DEF Failed
<1>2. OptRaw("?", query, "query", t, r) = r /\ OptRaw("#", fragment, "fragment", t, r) = r
  BY <1>1, FailStays, Zenon
<1>3. r.at = Fail
  BY <1>1, AtFacts, Zenon
<1>4. QED
  BY <1>2, <1>3, Zenon DEF Tails

\* A port o, or none, and a path p behind the host, which ends at a.
PortPaths(t, q, a, s, h, o, p, j) ==
  /\ q = ParseAt(j, Cut(s, h, o, p, None, None)) /\ IsView(t, p, End(o, a), j)
  /\ Follows(t, o, 58, a) /\ o[1] <= o[2]

\* The port and the path.
LEMMA PortPathFacts ==
  ASSUME NEW t \in Seq(Nat), RulesInPlace(t), NEW a \in 1 .. Len(t) + 1,
         NEW s, NEW h, NEW q, q = PortPath(t, ParseAt(a, Cut(s, h, None, None, None, None)))
  PROVE  Failed(q) \/ \E o, p, j : PortPaths(t, q, a, s, h, o, p, j)
<1> DEFINE c == Cut(s, h, None, None, None, None)
           r == OptRaw(":", port, "port", t, ParseAt(a, c))
<1>1. q = Raw(path_abempty, "path", t, r)
  BY Zenon DEF PortPath
<1>2. MovesIn(port, t) /\ MovesIn(path_abempty, t) /\ IsLit(":", <<58>>, t)
  BY RulesFacts, Zenon
<1>3. [c EXCEPT !["port"] = None] = c /\ \A o : [c EXCEPT !["port"] = o] = Cut(s, h, o, None, None, None)
  BY DEF Cut
<1> HIDE DEF c, r
<1>4. Opted(t, r, a, 58, c, "port")
  BY <1>2, <1>3, OptRawFacts, Zenon DEF r
<1>5. PICK o, b : Opts(t, r, a, 58, c, "port", o, b)
  BY <1>4, Zenon DEF Opted
<1> DEFINE d == Cut(s, h, o, None, None, None)
<1>6. r = ParseAt(b, d) /\ b = End(o, a) /\ b \in 1 .. Len(t) + 1 /\ Follows(t, o, 58, a) /\ o[1] <= o[2]
  BY <1>3, <1>5, Zenon DEF Opts
<1>7. \A p : [d EXCEPT !["path"] = p] = Cut(s, h, o, p, None, None)
  BY DEF Cut
<1> HIDE DEF d
<1>8. q = ParseAt(Fail, d) \/ \E p, j : Raws(t, q, b, d, "path", p, j)
  BY <1>1, <1>2, <1>6, RawFacts, Zenon
<1>9. CASE q = ParseAt(Fail, d)
  BY <1>9, Zenon DEF Failed
<1>10. CASE \E p, j : Raws(t, q, b, d, "path", p, j)
  <2>1. PICK p, j : Raws(t, q, b, d, "path", p, j)
    BY <1>10, Zenon
  <2>2. q = ParseAt(j, Cut(s, h, o, p, None, None)) /\ IsView(t, p, b, j)
    BY <1>7, <2>1, Zenon DEF Raws
  <2>3. PortPaths(t, q, a, s, h, o, p, j)
    BY <1>6, <2>2, Zenon DEF PortPaths
  <2>4. QED
    BY <2>3, Zenon
<1>11. QED
  BY <1>8, <1>9, <1>10, Zenon

\* Between b and the host, at i, is nothing, or a userinfo and its "@".
UserBetween(t, b, i) == b <= i /\ {k \in b .. i - 1 : t[k] = 64} = {i - 1} \ {b - 1}

\* The host h, behind a userinfo or none, for an authority that begins at b.
Hosts(t, q, b, s, h, i, j) ==
  q = ParseAt(j, Cut(s, h, None, None, None, None)) /\ IsView(t, h, i, j) /\ UserBetween(t, b, i)

\* The userinfo is behind, or there is none.
LEMMA UserFacts ==
  ASSUME NEW t \in Seq(Nat), RulesInPlace(t), NEW b \in 1 .. Len(t) + 1, NEW parts,
         NEW u, u = Skip(lit("@"), t, Skip(userinfo, t, ParseAt(b, parts)))
  PROVE  \/ u = ParseAt(Fail, parts)
         \/ \E i \in 1 .. Len(t) + 1 : u = ParseAt(i, parts) /\ UserBetween(t, b, i)
<1> DEFINE L == Len(t)
           m == Match(userinfo, t, b)
           r == Skip(userinfo, t, ParseAt(b, parts))
<1>1. L \in Nat /\ b # Fail
  BY DEF Fail
<1>2. MovesIn(userinfo, t) /\ IsLit("@", <<64>>, t) /\ UserHasNoAt(t)
  BY RulesFacts, Zenon
<1>3. (m = Fail \/ m \in b .. L + 1) /\ \A k \in b .. m - 1 : t[k] # 64
  BY <1>2, Zenon DEF MovesIn, UserHasNoAt
<1>4. r = ParseAt(m, parts)
  <2>1. r = ParseAt(Match(userinfo, t, b), parts)
    BY <1>1 DEF Skip, ParseAt
  <2>2. QED
    BY <2>1, Zenon
<1> HIDE DEF m, r
<1>5. CASE m = Fail
  BY <1>4, <1>5, FailStays, Zenon DEF r
<1>6. CASE m # Fail
  <2>1. m \in b .. L + 1 /\ m \in 1 .. L + 1
    BY <1>1, <1>3, <1>6
  <2>2. Skips(t, u, m, <<64>>, parts)
    BY <1>2, <1>4, <2>1, SkipFacts, Zenon DEF r
  <2>3. Len(<<64>>) = 1 /\ <<64>>[1] = 64 /\ 1 \in 1 .. 1
    OBVIOUS
  <2>4. CASE u = ParseAt(m + 1, parts) /\ Reads(t, m, <<64>>)
    <3>1. m + 1 <= L + 1 /\ t[m + 1 - 1] = 64
      BY <2>3, <2>4, Zenon DEF Reads
    <3>2. t[m] = 64 /\ m + 1 \in 1 .. L + 1 /\ b <= m + 1 /\ (m + 1) - 1 = m
      BY <1>1, <2>1, <3>1
    <3>3. {k \in b .. m : t[k] = 64} = {m} \ {b - 1}
      <4>1. \A k \in b .. m : k = m \/ k \in b .. m - 1
        BY <1>1, <2>1
      <4>2. m \in b .. m /\ m # b - 1
        BY <1>1, <2>1
      <4>3. \A k \in b .. m : t[k] = 64 => k = m
        BY <1>3, <4>1, Zenon
      <4>4. {k \in b .. m : t[k] = 64} = {m}
        BY <3>2, <4>2, <4>3
      <4>5. {m} = {m} \ {b - 1}
        BY <4>2
      <4>6. QED
        BY <4>4, <4>5, Zenon
    <3>4. UserBetween(t, b, m + 1)
      BY <3>2, <3>3, Zenon DEF UserBetween
    <3>5. QED
      BY <2>4, <3>2, <3>4, Zenon
  <2>5. QED
    BY <2>2, <2>3, <2>4, Zenon DEF Skips
<1>7. QED
  BY <1>5, <1>6, Zenon

\* The host.
LEMMA HostFacts ==
  ASSUME NEW t \in Seq(Nat), RulesInPlace(t), NEW b \in 1 .. Len(t) + 1, NEW s,
         NEW q, q = HostPart(t, ParseAt(b, Cut(s, None, None, None, None, None)))
  PROVE  Failed(q) \/ \E h, i, j : Hosts(t, q, b, s, h, i, j)
<1> DEFINE c == Cut(s, None, None, None, None, None)
           u == Skip(lit("@"), t, Skip(userinfo, t, ParseAt(b, c)))
           r == IF u.at = Fail THEN ParseAt(b, c) ELSE u
<1>1. q = Raw(host, "host", t, r)
  BY Zenon DEF HostPart
<1>2. MovesIn(host, t)
  BY RulesFacts, Zenon
<1>3. \A h : [c EXCEPT !["host"] = h] = Cut(s, h, None, None, None, None)
  BY DEF Cut
<1> HIDE DEF c
<1>4. u = ParseAt(Fail, c) \/ \E i \in 1 .. Len(t) + 1 : u = ParseAt(i, c) /\ UserBetween(t, b, i)
  BY UserFacts, Zenon
<1> HIDE DEF u
<1>5. \E i \in 1 .. Len(t) + 1 : r = ParseAt(i, c) /\ UserBetween(t, b, i)
  <2>1. CASE u = ParseAt(Fail, c)
    <3>1. u.at = Fail
      BY <2>1, AtFacts, Zenon
    <3>2. b <= b /\ {k \in b .. b - 1 : t[k] = 64} = {b - 1} \ {b - 1}
      OBVIOUS
    <3>3. QED
      BY <3>1, <3>2, Zenon DEF UserBetween
  <2>2. ASSUME NEW i \in 1 .. Len(t) + 1, u = ParseAt(i, c), UserBetween(t, b, i)
        PROVE  \E k \in 1 .. Len(t) + 1 : r = ParseAt(k, c) /\ UserBetween(t, b, k)
    <3>1. i # Fail
      BY DEF Fail
    <3>2. u.at = i
      BY <2>2, AtFacts, Zenon
    <3>3. QED
      BY <2>2, <3>1, <3>2, Zenon
  <2>3. QED
    BY <1>4, <2>1, <2>2, Zenon
<1> HIDE DEF r
<1>6. PICK i \in 1 .. Len(t) + 1 : r = ParseAt(i, c) /\ UserBetween(t, b, i)
  BY <1>5, Zenon
<1>7. q = ParseAt(Fail, c) \/ \E h, j : Raws(t, q, i, c, "host", h, j)
  BY <1>1, <1>2, <1>6, RawFacts, Zenon
<1>8. CASE q = ParseAt(Fail, c)
  BY <1>8, Zenon DEF Failed
<1>9. CASE \E h, j : Raws(t, q, i, c, "host", h, j)
  <2>1. PICK h, j : Raws(t, q, i, c, "host", h, j)
    BY <1>9, Zenon
  <2>2. Hosts(t, q, b, s, h, i, j)
    BY <1>3, <1>6, <2>1, Zenon DEF Raws, Hosts
  <2>3. QED
    BY <2>2, Zenon
<1>10. QED
  BY <1>7, <1>8, <1>9, Zenon

\* The scheme s and the host h, with their delimiters: what PartsTile says of
\* them, and where the host ends.
Fronts(t, s, h, a) ==
  LET begun == IF s = None THEN 1 ELSE s[2] + (IF h = None THEN 1 ELSE 3)
  IN /\ s[1] <= s[2] /\ h[1] <= h[2] /\ a = End(h, begun) /\ a \in 1 .. Len(t) + 1
     /\ s # None => s[1] = 1 /\ Reads(t, s[2], IF h = None THEN <<58>> ELSE <<58, 47, 47>>)
     /\ h # None => UserBetween(t, begun, h[1])

\* The parts of a parse that has come to the end tile the text.
LEMMA PartsAssemble ==
  ASSUME NEW t \in Seq(Nat), NEW s, NEW h, NEW o, NEW p, NEW v, NEW w, NEW a, NEW e, NEW q,
         Fronts(t, s, h, a), p[1] = End(o, a), p[1] <= p[2], Follows(t, o, 58, a), o[1] <= o[2],
         Tailed(t, q, p[2], s, h, o, p, v, w), Whole(t, q)
  PROVE  PartsTile(t, q.parts)
<1> DEFINE c == Cut(s, h, o, p, v, w)
           begun == IF s = None THEN 1 ELSE s[2] + (IF h = None THEN 1 ELSE 3)
           end == End(w, End(v, p[2]))
<1>1. q = ParseAt(end, c) /\ q.at = Len(t) + 1
  BY Zenon DEF Tailed, Whole
<1>2. q.parts = c /\ end = Len(t) + 1
  <2> HIDE DEF c, end
  <2>1. QED
    BY <1>1, AtFacts, Zenon
<1>3. /\ c.scheme = s /\ c.host = h /\ c.port = o /\ c.path = p /\ c.query = v /\ c.fragment = w
      /\ DOMAIN c = {"scheme", "host", "port", "path", "query", "fragment"}
  BY Zenon DEF Cut
<1>4. \A name \in DOMAIN c : c[name] \in {s, h, o, p, v, w}
  BY DEF Cut
<1>5. s[1] <= s[2] /\ h[1] <= h[2] /\ v[1] <= v[2] /\ w[1] <= w[2]
  BY Zenon DEF Fronts, Tailed
<1> HIDE DEF c
<1>6. \A name \in DOMAIN c : c[name][1] <= c[name][2]
  BY <1>4, <1>5, Zenon
<1>7. /\ a = End(h, begun)
      /\ s # NullView => s[1] = 1 /\ Reads(t, s[2], IF h = NullView THEN <<58>> ELSE <<58, 47, 47>>)
      /\ h # NullView => UserBetween(t, begun, h[1])
  BY Zenon DEF Fronts, None
<1>8. Follows(t, v, 63, p[2]) /\ Follows(t, w, 35, End(v, p[2]))
  BY Zenon DEF Tailed
<1>9. PartsTile(t, c)
  BY <1>2, <1>3, <1>6, <1>7, <1>8, Zenon DEF PartsTile, UserBetween, None
<1>10. QED
  BY <1>2, <1>9, Zenon

\* From where the host ends: port, path, query and fragment.
LEMMA RestTiles ==
  ASSUME NEW t \in Seq(Nat), RulesInPlace(t), NEW s, NEW h, NEW a, Fronts(t, s, h, a),
         NEW q, q = Tails(t, PortPath(t, ParseAt(a, Cut(s, h, None, None, None, None)))), Whole(t, q)
  PROVE  PartsTile(t, q.parts)
<1> DEFINE r == PortPath(t, ParseAt(a, Cut(s, h, None, None, None, None)))
<1>1. a \in 1 .. Len(t) + 1
  BY Zenon DEF Fronts
<1>2. Failed(r) \/ \E o, p, j : PortPaths(t, r, a, s, h, o, p, j)
  BY <1>1, PortPathFacts, Zenon
<1> HIDE DEF r
<1>3. ~Failed(r)
  <2>1. Failed(r) => q.at = Fail
    BY TailsFail, Zenon DEF r
  <2>2. q.at # Fail
    <3>1. q.at = Len(t) + 1
      BY Zenon DEF Whole
    <3>2. Len(t) + 1 # Fail
      BY DEF Fail
    <3>3. QED
      BY <3>1, <3>2, Zenon
  <2>3. QED
    BY <2>1, <2>2, Zenon
<1>4. PICK o, p, j : PortPaths(t, r, a, s, h, o, p, j)
  BY <1>2, <1>3, Zenon
<1>5. /\ r = ParseAt(j, Cut(s, h, o, p, None, None)) /\ IsView(t, p, End(o, a), j)
      /\ Follows(t, o, 58, a) /\ o[1] <= o[2]
  BY <1>4, Zenon DEF PortPaths
<1>6. p[1] = End(o, a) /\ p[2] = j /\ p[1] <= p[2] /\ j \in 1 .. Len(t) + 1
  <2>1. PICK i : i = End(o, a) /\ IsView(t, p, i, j)
    BY <1>5, Zenon
  <2>2. IsView(t, p, i, j)
    BY <2>1, Zenon
  <2>3. p[1] = i /\ p[2] = j /\ p[1] <= p[2] /\ j \in 1 .. Len(t) + 1
    BY <2>2, ViewFacts, Zenon
  <2>4. QED
    BY <2>1, <2>3, Zenon
<1>7. \E v, w : Tailed(t, q, j, s, h, o, p, v, w)
  <2>1. q = Tails(t, ParseAt(j, Cut(s, h, o, p, None, None)))
    BY <1>5, Zenon DEF r
  <2>2. QED
    BY <1>6, <2>1, TailsFacts, Zenon
<1>8. PICK v, w : Tailed(t, q, p[2], s, h, o, p, v, w)
  BY <1>6, <1>7, Zenon
<1>9. QED
  BY <1>5, <1>6, <1>8, PartsAssemble, Zenon

\* ":" and, behind it, "//" stand in the text from position a.
BothStand(t, a) == Reads(t, a, <<58>>) /\ Reads(t, a + 1, <<47, 47>>)

\* Two delimiters one behind the other are the string of both.
LEMMA ReadsBoth ==
  ASSUME NEW t \in Seq(Nat), NEW a \in 1 .. Len(t) + 1, BothStand(t, a)
  PROVE  Reads(t, a, <<58, 47, 47>>)
<1>1. Len(<<58>>) = 1 /\ Len(<<47, 47>>) = 2 /\ Len(<<58, 47, 47>>) = 3
  OBVIOUS
<1>2. t[a + 1 - 1] = 58
  BY <1>1 DEF Reads, BothStand
<1>3. (a + 1) + 2 <= Len(t) + 1 /\ t[(a + 1) + 1 - 1] = 47 /\ t[(a + 1) + 2 - 1] = 47
  <2>1. <<47, 47>>[1] = 47 /\ <<47, 47>>[2] = 47 /\ 1 \in 1 .. 2 /\ 2 \in 1 .. 2
    OBVIOUS
  <2>2. QED
    BY <1>1, <2>1, Zenon DEF Reads, BothStand
<1>4. a + 3 <= Len(t) + 1 /\ t[a] = 58 /\ t[a + 1] = 47 /\ t[a + 2] = 47
  BY <1>2, <1>3
<1>5. \A k \in 1 .. 3 : t[a + k - 1] = <<58, 47, 47>>[k]
  <2>1. a + 1 - 1 = a /\ a + 2 - 1 = a + 1 /\ a + 3 - 1 = a + 2
    OBVIOUS
  <2>2. <<58, 47, 47>>[1] = 58 /\ <<58, 47, 47>>[2] = 47 /\ <<58, 47, 47>>[3] = 47
    OBVIOUS
  <2>3. \A k \in 1 .. 3 : k = 1 \/ k = 2 \/ k = 3
    OBVIOUS
  <2>4. \A k \in 1 .. 3 : k = 1 => t[a + k - 1] = <<58, 47, 47>>[k]
    BY <1>4, <2>1, <2>2, Zenon
  <2>5. \A k \in 1 .. 3 : k = 2 => t[a + k - 1] = <<58, 47, 47>>[k]
    BY <1>4, <2>1, <2>2, Zenon
  <2>6. \A k \in 1 .. 3 : k = 3 => t[a + k - 1] = <<58, 47, 47>>[k]
    BY <1>4, <2>1, <2>2, Zenon
  <2>7. QED
    BY <2>3, <2>4, <2>5, <2>6, Zenon
<1>6. QED
  BY <1>1, <1>4, <1>5, Zenon DEF Reads

\* The authority form.
LEMMA AuthorityTiles ==
  ASSUME NEW t \in Seq(Nat), RulesInPlace(t), Whole(t, parse_authority(t))
  PROVE  PartsTile(t, parse_authority(t).parts)
<1> DEFINE r == HostPart(t, Start)
           q == parse_authority(t)
<1>1. Start = ParseAt(1, Cut(None, None, None, None, None, None))
  BY Zenon DEF Start, ParseAt, Cut, basic_uri_parts, None
<1>2. 1 \in 1 .. Len(t) + 1
  OBVIOUS
<1>3. Failed(r) \/ \E h, i, j : Hosts(t, r, 1, None, h, i, j)
  BY <1>1, <1>2, HostFacts, Zenon
<1>4. q = Tails(t, PortPath(t, r))
  BY Zenon DEF parse_authority
<1> HIDE DEF r, q
<1>5. ~Failed(r)
  <2>1. ASSUME Failed(r) PROVE q.at = Fail
    <3>1. PICK parts : r = ParseAt(Fail, parts)
      BY <2>1, Zenon DEF Failed
    <3>2. PortPath(t, r) = r
      BY <3>1, FailStays, Zenon DEF PortPath
    <3>3. QED
      BY <1>4, <2>1, <3>2, TailsFail, Zenon
  <2>2. q.at = Len(t) + 1
    BY Zenon DEF Whole, q
  <2>3. Len(t) + 1 # Fail
    BY DEF Fail
  <2>4. QED
    BY <2>1, <2>2, <2>3, Zenon
<1>6. PICK h, i, j : Hosts(t, r, 1, None, h, i, j)
  BY <1>3, <1>5, Zenon
<1>7. r = ParseAt(j, Cut(None, h, None, None, None, None)) /\ IsView(t, h, i, j) /\ UserBetween(t, 1, i)
  BY <1>6, Zenon DEF Hosts
<1>8. h # None /\ h[1] = i /\ h[1] <= h[2] /\ End(h, 1) = j /\ j \in 1 .. Len(t) + 1
  BY <1>7, ViewFacts, Zenon
<1>9. Fronts(t, None, h, j)
  BY <1>7, <1>8, NullFacts, Zenon DEF Fronts
<1>10. q = Tails(t, PortPath(t, ParseAt(j, Cut(None, h, None, None, None, None)))) /\ Whole(t, q)
  BY <1>4, <1>7, Zenon DEF q
<1>11. PartsTile(t, q.parts)
  BY <1>9, <1>10, RestTiles, Zenon
<1>12. QED
  BY <1>11, Zenon DEF q

\* A parse that has failed says so.
LEMMA FailedFacts ==
  ASSUME NEW q, Failed(q)
  PROVE  q.at = Fail
BY DEF Failed, ParseAt

\* The scheme and its ":" are behind.
Names(t, q, s, a) ==
  IsView(t, s, 1, a) /\ q = ParseAt(a + 1, Cut(s, None, None, None, None, None)) /\ Reads(t, a, <<58>>)

\* The scheme.
LEMMA SchemeFacts ==
  ASSUME NEW t \in Seq(Nat), RulesInPlace(t),
         NEW q, q = Skip(lit(":"), t, Raw(scheme, "scheme", t, Start))
  PROVE  Failed(q) \/ \E s, a : Names(t, q, s, a)
<1> DEFINE c == Cut(None, None, None, None, None, None)
           r == Raw(scheme, "scheme", t, Start)
<1>1. Start = ParseAt(1, c) /\ 1 \in 1 .. Len(t) + 1
  <2>1. Start = ParseAt(1, c)
    BY Zenon DEF Start, ParseAt, Cut, basic_uri_parts, None
  <2>2. QED
    BY <2>1
<1>2. MovesIn(scheme, t) /\ IsLit(":", <<58>>, t)
  BY RulesFacts, Zenon
<1>3. \A s : [c EXCEPT !["scheme"] = s] = Cut(s, None, None, None, None, None)
  BY DEF Cut
<1> HIDE DEF c
<1>4. r = ParseAt(Fail, c) \/ \E s, a : Raws(t, r, 1, c, "scheme", s, a)
  BY <1>1, <1>2, RawFacts, Zenon
<1> HIDE DEF r
<1>5. CASE r = ParseAt(Fail, c)
  <2>1. q = ParseAt(Fail, c)
    BY <1>5, FailStays, Zenon DEF r
  <2>2. QED
    BY <2>1, Zenon DEF Failed
<1>6. CASE \E s, a : Raws(t, r, 1, c, "scheme", s, a)
  <2>1. PICK s, a : Raws(t, r, 1, c, "scheme", s, a)
    BY <1>6, Zenon
  <2> DEFINE d == Cut(s, None, None, None, None, None)
  <2>2. IsView(t, s, 1, a) /\ r = ParseAt(a, d)
    BY <1>3, <2>1, Zenon DEF Raws
  <2>3. a \in 1 .. Len(t) + 1
    BY <2>2, ViewFacts, Zenon
  <2> HIDE DEF d
  <2>4. Skips(t, q, a, <<58>>, d)
    BY <1>2, <2>2, <2>3, SkipFacts, Zenon DEF r
  <2>5. CASE q = ParseAt(Fail, d)
    BY <2>5, Zenon DEF Failed
  <2>6. CASE q = ParseAt(a + Len(<<58>>), d) /\ Reads(t, a, <<58>>)
    <3>1. Len(<<58>>) = 1
      OBVIOUS
    <3>2. Names(t, q, s, a)
      BY <2>2, <2>6, <3>1, Zenon DEF Names, d
    <3>3. QED
      BY <3>2, Zenon
  <2>7. QED
    BY <2>4, <2>5, <2>6, Zenon DEF Skips
<1>7. QED
  BY <1>4, <1>5, <1>6, Zenon

\* The complete form behind the scheme: with an authority.
LEMMA HostedTiles ==
  ASSUME NEW t \in Seq(Nat), RulesInPlace(t), NEW s, NEW a, NEW r, Names(t, r, s, a),
         NEW g, g = HostPart(t, Skip(lit("//"), t, r)), g.at # Fail,
         NEW q, q = Tails(t, PortPath(t, g)), Whole(t, q)
  PROVE  PartsTile(t, q.parts)
<1> DEFINE c == Cut(s, None, None, None, None, None)
           u == Skip(lit("//"), t, r)
<1>1. IsView(t, s, 1, a) /\ r = ParseAt(a + 1, c) /\ Reads(t, a, <<58>>)
  BY Zenon DEF Names
<1>2. s # None /\ s[1] = 1 /\ s[2] = a /\ s[1] <= s[2] /\ a \in 1 .. Len(t) + 1
  BY <1>1, ViewFacts, Zenon
<1>3. Len(<<58>>) = 1 /\ Len(<<47, 47>>) = 2
  OBVIOUS
<1>4. a + 1 \in 1 .. Len(t) + 1
  <2>1. a + 1 <= Len(t) + 1
    BY <1>1, <1>3, Zenon DEF Reads
  <2>2. QED
    BY <1>2, <2>1
<1>5. IsLit("//", <<47, 47>>, t)
  BY RulesFacts, Zenon
<1> HIDE DEF c
<1>6. Skips(t, u, a + 1, <<47, 47>>, c)
  BY <1>1, <1>4, <1>5, SkipFacts, Zenon
<1> HIDE DEF u
<1>7. u # ParseAt(Fail, c)
  <2>1. ASSUME u = ParseAt(Fail, c) PROVE g.at = Fail
    <3>1. Skip(lit("@"), t, Skip(userinfo, t, u)) = u /\ Raw(host, "host", t, u) = u
      BY <2>1, FailStays, Zenon
    <3>2. HostPart(t, u) = u
      BY <3>1, Zenon DEF HostPart
    <3>3. g = u
      BY <3>2, Zenon DEF u
    <3>4. u.at = Fail
      BY <2>1, AtFacts, Zenon
    <3>5. QED
      BY <3>3, <3>4, Zenon
  <2>2. QED
    BY <2>1, Zenon
<1>8. u = ParseAt((a + 1) + 2, c) /\ Reads(t, a + 1, <<47, 47>>)
  BY <1>3, <1>6, <1>7, Zenon DEF Skips
<1>9. (a + 1) + 2 = a + 3 /\ a + 3 \in 1 .. Len(t) + 1
  <2>1. (a + 1) + 2 <= Len(t) + 1
    BY <1>3, <1>8, Zenon DEF Reads
  <2>2. QED
    BY <1>2, <2>1
<1>10. g = HostPart(t, ParseAt(a + 3, Cut(s, None, None, None, None, None)))
  BY <1>8, <1>9, Zenon DEF u, c
<1>11. Failed(g) \/ \E h, i, j : Hosts(t, g, a + 3, s, h, i, j)
  BY <1>9, <1>10, HostFacts, Zenon
<1>12. ~Failed(g)
  BY FailedFacts, Zenon
<1>13. PICK h, i, j : Hosts(t, g, a + 3, s, h, i, j)
  BY <1>11, <1>12, Zenon
<1>14. g = ParseAt(j, Cut(s, h, None, None, None, None)) /\ IsView(t, h, i, j) /\ UserBetween(t, a + 3, i)
  BY <1>13, Zenon DEF Hosts
<1>15. h # None /\ h[1] = i /\ h[1] <= h[2] /\ End(h, a + 3) = j /\ j \in 1 .. Len(t) + 1
  BY <1>14, ViewFacts, Zenon
<1>16. Reads(t, a, <<58, 47, 47>>)
  <2>1. BothStand(t, a)
    BY <1>1, <1>8, Zenon DEF BothStand
  <2>2. QED
    BY <1>2, <2>1, ReadsBoth, Zenon
<1>17. Fronts(t, s, h, j)
  BY <1>2, <1>14, <1>15, <1>16, Zenon DEF Fronts
<1>18. q = Tails(t, PortPath(t, ParseAt(j, Cut(s, h, None, None, None, None))))
  BY <1>14, Zenon
<1>19. QED
  BY <1>17, <1>18, RestTiles, Zenon

\* And with an empty path.
LEMMA BareTiles ==
  ASSUME NEW t \in Seq(Nat), RulesInPlace(t), NEW s, NEW a, NEW r, Names(t, r, s, a),
         NEW q, q = Tails(t, Raw(path_empty, "path", t, r)), Whole(t, q)
  PROVE  PartsTile(t, q.parts)
<1> DEFINE c == Cut(s, None, None, None, None, None)
           g == Raw(path_empty, "path", t, r)
<1>1. IsView(t, s, 1, a) /\ r = ParseAt(a + 1, c) /\ Reads(t, a, <<58>>)
  BY Zenon DEF Names
<1>2. s # None /\ s[1] = 1 /\ s[2] = a /\ s[1] <= s[2] /\ a \in 1 .. Len(t) + 1
  BY <1>1, ViewFacts, Zenon
<1>3. a + 1 \in 1 .. Len(t) + 1
  <2>1. Len(<<58>>) = 1
    OBVIOUS
  <2>2. a + 1 <= Len(t) + 1
    BY <1>1, <2>1, Zenon DEF Reads
  <2>3. QED
    BY <1>2, <2>2
<1>4. MovesIn(path_empty, t)
  BY RulesFacts, Zenon
<1>5. \A p : [c EXCEPT !["path"] = p] = Cut(s, None, None, p, None, None)
  BY DEF Cut
<1> HIDE DEF c
<1>6. g = ParseAt(Fail, c) \/ \E p, j : Raws(t, g, a + 1, c, "path", p, j)
  BY <1>1, <1>3, <1>4, RawFacts, Zenon
<1> HIDE DEF g
<1>7. g # ParseAt(Fail, c)
  <2>1. g = ParseAt(Fail, c) => q.at = Fail
    BY TailsFail, Zenon DEF Failed, g
  <2>2. q.at = Len(t) + 1
    BY Zenon DEF Whole
  <2>3. Len(t) + 1 # Fail
    BY DEF Fail
  <2>4. QED
    BY <2>1, <2>2, <2>3, Zenon
<1>8. PICK p, j : Raws(t, g, a + 1, c, "path", p, j)
  BY <1>6, <1>7, Zenon
<1>9. IsView(t, p, a + 1, j) /\ g = ParseAt(j, Cut(s, None, None, p, None, None))
  BY <1>5, <1>8, Zenon DEF Raws
<1>10. p[1] = a + 1 /\ p[2] = j /\ p[1] <= p[2] /\ j \in 1 .. Len(t) + 1
  BY <1>9, ViewFacts, Zenon
<1>11. Fronts(t, s, None, a + 1)
  BY <1>1, <1>2, <1>3, NullFacts, Zenon DEF Fronts
<1>12. q = Tails(t, ParseAt(j, Cut(s, None, None, p, None, None)))
  BY <1>9, Zenon DEF g
<1>13. \E v, w : Tailed(t, q, j, s, None, None, p, v, w)
  BY <1>10, <1>12, TailsFacts, Zenon
<1>14. PICK v, w : Tailed(t, q, p[2], s, None, None, p, v, w)
  BY <1>10, <1>13, Zenon
<1>15. p[1] = End(None, a + 1) /\ Follows(t, None, 58, a + 1) /\ None[1] <= None[2]
  BY <1>10, NullFacts, Zenon
<1>16. QED
  BY <1>10, <1>11, <1>14, <1>15, PartsAssemble, Zenon

\* parse_uri, for any text and any rules that match in place: the parts it
\* returns account for every character of the text, each in its order and
\* behind its delimiter, but for a userinfo that ends in "@".  In particular
\* nothing is left over from the complete form when it is given up for the
\* authority form.
THEOREM PartsAreTiled ==
  ASSUME NEW t \in Seq(Nat), RulesInPlace(t), parse_uri(t) # basic_uri_parts
  PROVE  PartsTile(t, parse_uri(t))
<1> DEFINE q == parse_complete(t)
           r == Skip(lit(":"), t, Raw(scheme, "scheme", t, Start))
           g == HostPart(t, Skip(lit("//"), t, r))
<1>1. CASE Whole(t, q)
  <2>1. q = Tails(t, IF r.at = Fail THEN r
                     ELSE IF g.at # Fail THEN PortPath(t, g)
                     ELSE Raw(path_empty, "path", t, r))
    BY Zenon DEF parse_complete
  <2>2. Failed(r) \/ \E s, a : Names(t, r, s, a)
    BY SchemeFacts, Zenon
  <2>3. parse_uri(t) = q.parts
    BY <1>1, Zenon DEF parse_uri
  <2> HIDE DEF q, r, g
  <2>4. r.at # Fail
    <3>1. ASSUME r.at = Fail PROVE q.at = Fail
      <4>1. q = Tails(t, r)
        BY <2>1, <3>1, Zenon
      <4>2. CASE Failed(r)
        BY <4>1, <4>2, TailsFail, Zenon
      <4>3. CASE \E s, a : Names(t, r, s, a)
        <5>1. PICK s, a : Names(t, r, s, a)
          BY <4>3, Zenon
        <5>2. r = ParseAt(a + 1, Cut(s, None, None, None, None, None)) /\ IsView(t, s, 1, a)
          BY <5>1, Zenon DEF Names
        <5>3. a + 1 # Fail
          <6>1. a \in 1 .. Len(t) + 1
            BY <5>2, ViewFacts, Zenon
          <6>2. QED
            BY <6>1 DEF Fail
        <5>4. r.at = a + 1
          BY <5>2, AtFacts, Zenon
        <5>5. QED
          BY <3>1, <5>3, <5>4, Zenon
      <4>4. QED
        BY <2>2, <4>2, <4>3, Zenon
    <3>2. q.at = Len(t) + 1
      BY <1>1, Zenon DEF Whole
    <3>3. Len(t) + 1 # Fail
      BY DEF Fail
    <3>4. QED
      BY <3>1, <3>2, <3>3, Zenon
  <2>5. ~Failed(r)
    BY <2>4, FailedFacts, Zenon
  <2>6. PICK s, a : Names(t, r, s, a)
    BY <2>2, <2>5, Zenon
  <2>7. CASE g.at # Fail
    <3>1. q = Tails(t, PortPath(t, g)) /\ g = HostPart(t, Skip(lit("//"), t, r))
      BY <2>1, <2>4, <2>7, Zenon DEF g
    <3>2. PartsTile(t, q.parts)
      BY <1>1, <2>6, <2>7, <3>1, HostedTiles, Zenon
    <3>3. QED
      BY <2>3, <3>2, Zenon
  <2>8. CASE g.at = Fail
    <3>1. q = Tails(t, Raw(path_empty, "path", t, r))
      BY <2>1, <2>4, <2>8, Zenon
    <3>2. PartsTile(t, q.parts)
      BY <1>1, <2>6, <3>1, BareTiles, Zenon
    <3>3. QED
      BY <2>3, <3>2, Zenon
  <2>9. QED
    BY <2>7, <2>8, Zenon
<1>2. CASE ~Whole(t, q)
  <2>1. Whole(t, parse_authority(t)) /\ parse_uri(t) = parse_authority(t).parts
    BY <1>2, Zenon DEF parse_uri
  <2>2. QED
    BY <2>1, AuthorityTiles, Zenon
<1>3. QED
  BY <1>1, <1>2, Zenon

\* Behind position e of the text is nothing, or an empty query, an empty
\* fragment, or both.
EmptyTail(t, e) ==
  \/ Len(t) + 1 = e
  \/ Len(t) + 1 = e + 1 /\ (Reads(t, e, <<63>>) \/ Reads(t, e, <<35>>))
  \/ Len(t) + 1 = e + 1 + 1 /\ Reads(t, e, <<63>>) /\ Reads(t, e + 1, <<35>>)

\* is_authority, which lets the tunnel serve a CONNECT (tunnel.hpp:154), for
\* any text and any rules that match in place: the target has a host, and its
\* host and the port behind the ":" are all of it from the host on, but for the
\* "?" of an empty query and the "#" of an empty fragment.
THEOREM ConnectTargetIsWhole ==
  ASSUME NEW t \in Seq(Nat), RulesInPlace(t), is_authority(parse_uri(t))
  PROVE  /\ parse_uri(t).host # NullView
         /\ Follows(t, parse_uri(t).port, 58, parse_uri(t).host[2])
         /\ EmptyTail(t, End(parse_uri(t).port, parse_uri(t).host[2]))
<1> DEFINE p == parse_uri(t)
<1>1. ASSUME NEW v, v = NullView PROVE IsEmpty(v)
  BY <1>1 DEF NullView, IsEmpty
<1>2. ~IsEmpty(p.host) /\ IsEmpty(p.path) /\ IsEmpty(p.query) /\ IsEmpty(p.fragment)
  BY Zenon DEF is_authority
<1>3. p.host # NullView
  BY <1>1, <1>2, Zenon
<1>4. p # basic_uri_parts
  <2>1. basic_uri_parts.host = NullView
    BY DEF basic_uri_parts
  <2>2. QED
    BY <1>3, <2>1, Zenon
<1>5. PartsTile(t, p)
  BY <1>4, PartsAreTiled, Zenon
<1> HIDE DEF p
<1> DEFINE e == End(p.port, p.host[2])
           f == End(p.query, e)
<1>6. \A a : End(p.host, a) = p.host[2]
  BY <1>3, Zenon DEF End
<1>7. Follows(t, p.port, 58, p.host[2]) /\ p.path[1] = e
  BY <1>5, <1>6, Zenon DEF PartsTile
<1>8. p.path[2] = e
  BY <1>2, <1>7, Zenon DEF IsEmpty
<1>9. /\ Follows(t, p.query, 63, e) /\ Follows(t, p.fragment, 35, f)
      /\ End(p.fragment, f) = Len(t) + 1
  BY <1>5, <1>8, Zenon DEF PartsTile
<1>10. f = e \/ (f = e + 1 /\ Reads(t, e, <<63>>))
  <2> HIDE DEF e
  <2>1. QED
    BY <1>2, <1>9, Zenon DEF IsEmpty, End, Follows
<1>11. Len(t) + 1 = f \/ (Len(t) + 1 = f + 1 /\ Reads(t, f, <<35>>))
  <2> HIDE DEF e, f
  <2>1. QED
    BY <1>2, <1>9, Zenon DEF IsEmpty, End, Follows
<1>12. EmptyTail(t, e)
  <2> HIDE DEF e, f
  <2>1. CASE f = e
    BY <1>11, <2>1, Zenon DEF EmptyTail
  <2>2. CASE f = e + 1 /\ Reads(t, e, <<63>>)
    <3>1. \/ Len(t) + 1 = e + 1
          \/ Len(t) + 1 = e + 1 + 1 /\ Reads(t, e + 1, <<35>>)
      BY <1>11, <2>2, Zenon
    <3>2. QED
      BY <2>2, <3>1, Zenon DEF EmptyTail
  <2>3. QED
    BY <1>10, <2>1, <2>2, Zenon
<1>13. QED
  BY <1>3, <1>7, <1>12, Zenon DEF p
=============================================================================
