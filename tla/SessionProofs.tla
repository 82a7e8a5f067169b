--------------------------- MODULE SessionProofs ---------------------------
(***************************************************************************)
(* Proofs about Session, for any operations, overlapping or not, and any   *)
(* choice of member functions: every session is a behaviour of TimedOp, so *)
(* that what TimedOpProofs shows of the wrapper holds of each operation.   *)
(* What an operation leaves behind on the socket is shown for the users    *)
(* for whom it is true: no other operation connects anew (NoRevival), or   *)
(* there is one operation at a time (OneOp).  Last, what speak, which      *)
(* drives a client session, tells the user's handler (Speak).              *)
(***************************************************************************)
EXTENDS Session, Speak, TimedOpProofs

(* Where a coroutine is suspended tells which function it is of. *)
LEMMA PlaceFacts ==
    ASSUME StreamInv, CoroutineInv, NEW o \in Ops
    PROVE  /\ pc[o] = "transfer" => kind[o] \in {"read", "write", "detect"}
           /\ pc[o] \in {"send", "receive"} => kind[o] = "request"
           /\ pc[o] \in {"resolve", "connect"} => kind[o] = "connect"
           /\ pc[o] = "handshake" => kind[o] \in {"connect", "handshake"}
           /\ pc[o] = "sslShutdown" =>
                kind[o] = IF role = "client" THEN "clientShutdown" ELSE "serverShutdown"
           /\ pc[o] = "drain" => kind[o] = "serverShutdown"
           /\ kind[o] = "connect" => role = "client" /\ "connect" \in Kinds
           /\ kind[o] = "handshake" => role = "server" /\ ssl
<1>1. kind[o] \in Kinds \cup {"none"} /\ pc[o] \in Awaits /\ role \in {"client", "server"}
  BY DEF StreamInv, StreamTypeOK
<1>2. OpPlaced(o)
  BY DEF CoroutineInv
<1>3. kind[o] # "none" =>
        kind[o] \in IF role = "client"
                    THEN {"read", "write", "request", "connect", "clientShutdown"}
                    ELSE {"read", "write", "detect", "handshake", "serverShutdown"}
  BY <1>2 DEF OpPlaced, ClientKinds, ServerKinds
<1>4. pc[o] # "none" => pc[o] \in Suspends[kind[o]]
  BY <1>2 DEF OpPlaced
<1>5. kind[o] = "handshake" => ssl
  BY <1>2 DEF OpPlaced
<1>6. QED
  BY <1>1, <1>3, <1>4, <1>5 DEF Suspends

(* The step of one operation leaves the others where they are. *)
Others(o) ==
    \A q \in Ops \ {o} :
        /\ impl'[q] = impl[q] /\ results'[q] = results[q]
        /\ kind'[q] = kind[q] /\ pc'[q] = pc[q] /\ cut'[q] = cut[q]

(* A step of o that opens no closed socket, unless o connects, keeps the   *)
(* invariant if it does so for o.                                          *)
LEMMA StepKeeps ==
    ASSUME StreamInv, CoroutineInv, NEW o \in Ops, Others(o),
           UNCHANGED <<role, ctx>>,
           ssl => ssl', ssl' => ctx,
           OpPlaced(o)',
           sock = "closed" /\ sock' # "closed" => pc[o] \in {"resolve", "connect"},
           NoRevival => OpStaysClosed(o)',
           OneOp => OpStaysConnected(o)'
    PROVE  CoroutineInv'
<1>1. ASSUME NEW q \in Ops, q # o
      PROVE  OpPlaced(q)' /\ (NoRevival => OpStaysClosed(q)')
  <2>1. /\ impl'[q] = impl[q] /\ results'[q] = results[q]
        /\ kind'[q] = kind[q] /\ pc'[q] = pc[q] /\ cut'[q] = cut[q]
    BY <1>1 DEF Others
  <2>2. OpPlaced(q) /\ (NoRevival => OpStaysClosed(q))
    BY DEF CoroutineInv
  <2>3. OpPlaced(q)'
    BY <2>1, <2>2 DEF OpPlaced
  <2>4. ASSUME NoRevival PROVE OpStaysClosed(q)'
    <3>1. ~(sock = "closed" /\ sock' # "closed")
      BY <1>1, <2>4, PlaceFacts DEF NoRevival, OneOp
    <3>2. QED
      BY <2>1, <2>2, <2>4, <3>1 DEF OpStaysClosed
  <2>5. QED
    BY <2>3, <2>4
<1>2. OneOp => \A q \in Ops : q = o
  BY DEF OneOp
<1>3. NoRevival' = NoRevival /\ OneOp' = OneOp
  BY DEF NoRevival, OneOp
<1>4. /\ ssl' => ctx' 
      /\ role' = "client" /\ ctx' => ssl'
  BY DEF CoroutineInv
<1>5. QED
  BY <1>1, <1>2, <1>3, <1>4 DEF CoroutineInv

(* A closed socket is closed for every operation. *)
LEMMA ClosedSuffices ==
    ASSUME NEW o, sock' = "closed" PROVE OpStaysClosed(o)'
BY DEF OpStaysClosed

(* A function that starts, and goes asynchronous in one of its primitives. *)
LEMMA StartKeeps ==
    ASSUME TypeOK, Coherent, StreamInv, CoroutineInv, NEW o \in Ops,
           NEW k, NEW p, NEW i,
           Call(o, k), Initiate(o), Await(o, p, i),
           k # "none", p # "none", p \in Suspends[k],
           ssl => ssl', ssl' => ctx, k = "handshake" => ssl',
           \/ sock' = sock
           \/ sock' = HalfClosed(sock) /\ p = "drain",
           p = "handshake" /\ i \in {"pending", "ok"}
             => sock \in {"connected", "halfClosed"}
    PROVE  CoroutineInv'
<1>1. /\ impl' = [impl EXCEPT ![o] = "running"]
      /\ results' = [results EXCEPT ![o] = NoResult]
      /\ ~Pending(o)
  BY DEF Initiate, MayInitiate
<1>2. /\ kind' = [kind EXCEPT ![o] = k] /\ cut' = [cut EXCEPT ![o] = FALSE]
      /\ UNCHANGED <<role, ctx>>
      /\ k \in IF role = "client" THEN ClientKinds ELSE ServerKinds
  BY DEF Call
<1>3. pc' = [pc EXCEPT ![o] = p] /\ io' = [io EXCEPT ![o] = i]
  BY DEF Await
<1>4. /\ impl'[o] = "running" /\ kind'[o] = k /\ ~cut'[o] /\ pc'[o] = p /\ io'[o] = i
      /\ Others(o)
  BY <1>1, <1>2, <1>3 DEF TypeOK, StreamInv, StreamTypeOK, Others
<1>5. OpPlaced(o)'
  BY <1>2, <1>4 DEF OpPlaced
<1>6. OpStaysClosed(o)'
  BY <1>4 DEF OpStaysClosed
<1>7. OneOp => OpStaysConnected(o)'
  <2>1. pc[o] = "none"
    BY <1>1 DEF CoroutineInv, OpPlaced, Coherent, OpCoherent, Pending
  <2>2. OneOp => sock # "halfClosed"
    BY <2>1 DEF CoroutineInv, OpStaysConnected
  <2>3. OneOp => (sock' = "halfClosed" => p = "drain")
    BY <2>2
  <2>4. sock \in Socks
    BY DEF StreamInv, StreamTypeOK
  <2>5. OneOp => (p = "handshake" /\ i \in {"pending", "ok"} => sock' = "connected")
    BY <2>2
  <2>6. QED
    BY <1>4, <2>3, <2>5 DEF OpStaysConnected
<1>8. sock = "closed" => sock' = "closed"
  BY DEF HalfClosed
<1>9. QED
  BY <1>2, <1>4, <1>5, <1>6, <1>7, <1>8, StepKeeps

(* A coroutine that goes on to its next primitive. *)
LEMMA GoesOnKeeps ==
    ASSUME TypeOK, StreamInv, CoroutineInv, NEW o \in Ops, NEW p, NEW i,
           pc[o] # "none",
           UNCHANGED vars, UNCHANGED <<role, ctx, ssl, kind, cut>>,
           pc' = [pc EXCEPT ![o] = p],
           io' \in [Ops -> IoStates], io'[o] = i,
           p # "none", p \in Suspends[kind[o]],
           sock = "closed" /\ sock' # "closed" => pc[o] \in {"resolve", "connect"},
           OneOp => (sock' = "halfClosed" => p = "drain"),
           p = "handshake" => sock' = "connected"
    PROVE  CoroutineInv'
<1>1. UNCHANGED <<impl, results>>
  BY DEF vars
<1>2. pc'[o] = p /\ Others(o)
  BY <1>1 DEF StreamInv, StreamTypeOK, Others
<1>3. OpPlaced(o)
  BY DEF CoroutineInv
<1>4. impl'[o] = "running"
  BY <1>1, <1>3 DEF OpPlaced
<1>5. OpPlaced(o)'
  BY <1>1, <1>2, <1>3 DEF OpPlaced
<1>6. NoRevival => OpStaysClosed(o)'
  BY <1>1, <1>4, PlaceFacts DEF OpStaysClosed, CoroutineInv
<1>7. OneOp => OpStaysConnected(o)'
  BY <1>2, <1>4 DEF OpStaysConnected
<1>8. QED
  BY <1>2, <1>5, <1>6, <1>7, StepKeeps DEF CoroutineInv

(* A coroutine that ends. *)
LEMMA EndsKeeps ==
    ASSUME TypeOK, StreamInv, CoroutineInv, NEW o \in Ops, NEW r,
           Complete(o, r), UNCHANGED <<role, ctx, ssl, kind, cut>>,
           \/ sock' = "closed"
           \/ sock' = sock /\ pc[o] # "drain"
           \/ sock' = "connected" /\ pc[o] = "connect",
           pc[o] = "sslShutdown" => role = "client" /\ (r = "ok" => sock' = "closed"),
           pc[o] = "resolve" => r # "ok",
           pc[o] = "connect" /\ r = "ok" => sock' = "connected",
           pc[o] = "handshake" /\ r = "ok" => sock' = sock /\ io[o] = "ok",
           pc[o] = "handshake" /\ r = "ok" /\ role = "server" => ~peeked'
    PROVE  CoroutineInv'
<1>1. /\ impl[o] = "running"
      /\ impl' = [impl EXCEPT ![o] = "finished"]
      /\ results' = [results EXCEPT ![o] = r]
      /\ pc' = [pc EXCEPT ![o] = "none"]
  BY DEF Complete, ImplComplete
<1>2. impl'[o] = "finished" /\ results'[o] = r /\ pc'[o] = "none" /\ Others(o)
  BY <1>1 DEF TypeOK, StreamInv, StreamTypeOK, Others
<1>3. OpPlaced(o) /\ pc[o] # "none" /\ pc[o] \in Awaits
  BY <1>1 DEF CoroutineInv, OpPlaced, StreamInv, StreamTypeOK
<1>4. OpPlaced(o)'
  BY <1>1, <1>2, <1>3 DEF OpPlaced
<1>5. NoRevival => OpStaysClosed(o)'
  <2>1. NoRevival => OpStaysClosed(o)
    BY DEF CoroutineInv
  <2>2. CASE sock' = "closed"
    BY <2>2, ClosedSuffices
  <2>3. CASE sock' = sock /\ pc[o] # "drain"
    <3>1. /\ kind[o] # "serverShutdown"
          /\ kind[o] = "clientShutdown" /\ r = "ok" => sock = "closed"
      BY <1>3, <2>3, PlaceFacts DEF Awaits
    <3>2. QED
      BY <1>2, <2>1, <2>3, <3>1 DEF OpStaysClosed
  <2>4. CASE pc[o] = "connect"
    BY <2>4, PlaceFacts DEF OpStaysClosed
  <2>5. QED
    BY <2>2, <2>3, <2>4
<1>6. OneOp => OpStaysConnected(o)'
  <2> SUFFICES ASSUME OneOp PROVE OpStaysConnected(o)'
    OBVIOUS
  <2>1. OpStaysConnected(o)
    BY DEF CoroutineInv
  <2>2. sock' # "halfClosed"
    BY <2>1 DEF OpStaysConnected
  <2>3. ASSUME r = "ok", kind[o] \in {"connect", "handshake"}, ~cut[o]
        PROVE  sock' = "connected"
    <3>1. pc[o] \in {"resolve", "connect", "handshake"}
      BY <1>3, <2>3, PlaceFacts DEF Awaits
    <3>2. QED
      BY <2>1, <2>3, <3>1 DEF OpStaysConnected
  <2>4. ASSUME r = "ok", kind[o] = "handshake"
        PROVE  ~peeked'
    <3>1. pc[o] = "handshake" /\ role = "server"
      BY <1>3, <2>4, PlaceFacts DEF Awaits
    <3>2. QED
      BY <2>4, <3>1
  <2>5. QED
    BY <1>2, <2>2, <2>3, <2>4 DEF OpStaysConnected
<1>7. sock = "closed" /\ sock' # "closed" => pc[o] \in {"resolve", "connect"}
  OBVIOUS
<1>8. QED
  BY <1>2, <1>4, <1>5, <1>6, <1>7, StepKeeps DEF CoroutineInv

(* The primitives in which each function is suspended. *)
LEMMA SuspendsFacts ==
    /\ \A k \in {"read", "write", "detect"} : "transfer" \in Suspends[k]
    /\ "send" \in Suspends["request"] /\ "receive" \in Suspends["request"]
    /\ "resolve" \in Suspends["connect"] /\ "connect" \in Suspends["connect"]
    /\ "handshake" \in Suspends["connect"] /\ "handshake" \in Suspends["handshake"]
    /\ "sslShutdown" \in Suspends["clientShutdown"]
    /\ "sslShutdown" \in Suspends["serverShutdown"] /\ "drain" \in Suspends["serverShutdown"]
BY DEF Suspends

(* Every initiating function puts its coroutine where it belongs. *)
LEMMA BeginHolds ==
    ASSUME TypeOK, Coherent, StreamInv, CoroutineInv, NEW o \in Ops, Begin(o)
    PROVE  CoroutineInv'
<1>0. ssl => ctx
  BY DEF CoroutineInv
<1>1. ASSUME NEW k \in {"read", "write", "detect"}, NEW i, Transfer(o, k, i)
      PROVE  CoroutineInv'
  BY <1>0, <1>1, SuspendsFacts, StartKeeps, Zenon DEF Transfer
<1>2. CASE AsyncRead(o) \/ AsyncWrite(o) \/ AsyncDetectSsl(o)
  BY <1>1, <1>2 DEF AsyncRead, AsyncWrite, AsyncDetectSsl
<1>3. CASE AsyncRequest(o)
  BY <1>0, <1>3, SuspendsFacts, StartKeeps, Zenon DEF AsyncRequest
<1>4. CASE AsyncConnect(o)
  BY <1>0, <1>4, SuspendsFacts, StartKeeps DEF AsyncConnect
<1>5. CASE AsyncHandshake(o)
  <2>1. /\ Call(o, "handshake") /\ Initiate(o) /\ UNCHANGED sock
        /\ Await(o, "handshake", Started(sock))
    BY <1>5 DEF AsyncHandshake
  <2>2. ssl' /\ ctx
    BY <1>0, <1>5 DEF AsyncHandshake, upgrade
  <2>3. Started(sock) \in {"pending", "ok"} => sock \in {"connected", "halfClosed"}
    BY DEF Started
  <2>4. QED
    BY <2>1, <2>2, <2>3, SuspendsFacts, StartKeeps
<1>6. CASE AsyncShutdownClient(o)
  <2>1. Call(o, "clientShutdown") /\ UNCHANGED ssl
    BY <1>6 DEF AsyncShutdownClient
  <2>2. CASE ssl
    BY <1>0, <1>6, <2>1, <2>2, SuspendsFacts, StartKeeps DEF AsyncShutdownClient
  <2>3. CASE ~ssl
    <3>1. /\ InitiateInline(o, "ok") /\ sock' = "closed" /\ pc' = pc
      BY <1>6, <2>3 DEF AsyncShutdownClient
    <3>2. /\ impl' = [impl EXCEPT ![o] = "finished"]
          /\ results' = [results EXCEPT ![o] = "ok"]
          /\ ~Pending(o)
      BY <3>1 DEF InitiateInline, MayInitiate
    <3>3. /\ kind' = [kind EXCEPT ![o] = "clientShutdown"]
          /\ cut' = [cut EXCEPT ![o] = FALSE]
          /\ UNCHANGED <<role, ctx>>
          /\ "clientShutdown" \in IF role = "client" THEN ClientKinds ELSE ServerKinds
      BY <2>1 DEF Call
    <3>4. pc[o] = "none"
      BY <3>2 DEF CoroutineInv, OpPlaced, Coherent, OpCoherent, Pending
    <3>5. /\ impl'[o] = "finished" /\ kind'[o] = "clientShutdown" /\ pc'[o] = "none"
          /\ Others(o)
      BY <3>1, <3>2, <3>3, <3>4 DEF TypeOK, StreamInv, StreamTypeOK, Others
    <3>6. OpPlaced(o)'
      BY <3>3, <3>5 DEF OpPlaced
    <3>7. OpStaysClosed(o)'
      <4>1. sock' = "closed"
        BY <3>1, Zenon
      <4>2. QED
        BY <4>1, ClosedSuffices, Zenon
    <3>8. OpStaysConnected(o)'
      BY <3>1, <3>5 DEF OpStaysConnected
    <3>9. QED
      BY <1>0, <2>1, <3>1, <3>3, <3>5, <3>6, <3>7, <3>8, StepKeeps
  <2>4. QED
    BY <2>2, <2>3
<1>7. CASE AsyncShutdownServer(o)
  <2>1. Call(o, "serverShutdown") /\ UNCHANGED ssl /\ Initiate(o)
    BY <1>7 DEF AsyncShutdownServer
  <2>2. CASE ssl
    BY <1>0, <1>7, <2>1, <2>2, SuspendsFacts, StartKeeps, Zenon DEF AsyncShutdownServer
  <2>3. CASE ~ssl
    BY <1>0, <1>7, <2>1, <2>3, SuspendsFacts, StartKeeps DEF AsyncShutdownServer
  <2>4. QED
    BY <2>2, <2>3
<1>8. QED
  BY <1>2, <1>3, <1>4, <1>5, <1>6, <1>7 DEF Begin

(* So does every continuation. *)
LEMMA ResumeHolds ==
    ASSUME TypeOK, StreamInv, StreamInv', CoroutineInv, NEW o \in Ops, Resume(o)
    PROVE  CoroutineInv'
<1>0. io' \in [Ops -> IoStates] /\ io \in [Ops -> IoStates]
  BY DEF StreamInv, StreamTypeOK
<1>1. CASE OnTransfer(o) \/ OnReceive(o)
  BY <1>1, EndsKeeps DEF OnTransfer, OnReceive, Resumed, CompleteOpen
<1>2. CASE OnSend(o)
  <2>1. pc[o] = "send" /\ kind[o] = "request" /\ UNCHANGED <<role, ctx, ssl, kind, cut, sock>>
    BY <1>2, PlaceFacts DEF OnSend, Resumed, CompleteOpen
  <2>2. CASE Await(o, "receive", Started(sock)) /\ UNCHANGED vars
    <3>1. OneOp => sock # "halfClosed"
      BY <2>1 DEF CoroutineInv, OpStaysConnected
    <3>2. QED
      BY <1>0, <2>1, <2>2, <3>1, SuspendsFacts, GoesOnKeeps, Zenon DEF Await
  <2>3. CASE CompleteOpen(o, io[o])
    BY <2>1, <2>3, EndsKeeps DEF CompleteOpen
  <2>4. QED
    BY <1>2, <2>2, <2>3 DEF OnSend
<1>3. CASE OnResolve(o)
  <2>1. pc[o] = "resolve" /\ kind[o] = "connect" /\ UNCHANGED <<role, ctx, ssl, kind, cut>>
    BY <1>3, PlaceFacts DEF OnResolve, Resumed
  <2>2. CASE AwaitConnect(o) /\ UNCHANGED vars
    BY <1>0, <2>1, <2>2, SuspendsFacts, GoesOnKeeps, Zenon DEF AwaitConnect
  <2>3. CASE io[o] # "ok" /\ CompleteOpen(o, io[o])
    BY <2>1, <2>3, EndsKeeps DEF CompleteOpen
  <2>4. QED
    BY <1>3, <2>2, <2>3 DEF OnResolve
<1>4. CASE OnConnect(o)
  <2> DEFINE ec == IF sock = "closed" THEN "aborted" ELSE io[o]
  <2>1. pc[o] = "connect" /\ kind[o] = "connect" /\ UNCHANGED <<role, ctx, ssl, kind, cut>>
    BY <1>4, PlaceFacts DEF OnConnect, Resumed
  <2>2. CASE sock' = "connected" /\ Await(o, "handshake", "pending") /\ UNCHANGED vars
    BY <1>0, <2>1, <2>2, SuspendsFacts, GoesOnKeeps, Zenon DEF Await
  <2>3. CASE sock' = "connected" /\ Complete(o, "ok")
    BY <2>1, <2>3, EndsKeeps
  <2>4. CASE ec # "ok" /\ CompleteOpen(o, ec)
    <3> HIDE DEF ec
    <3>1. QED
      BY <2>1, <2>4, EndsKeeps DEF CompleteOpen
  <2>5. QED
    BY <1>4, <2>2, <2>3, <2>4 DEF OnConnect
<1>5. CASE OnHandshake(o)
  <2>1. pc[o] = "handshake" /\ UNCHANGED <<role, ctx, ssl, kind, cut, sock>> /\ Complete(o, io[o])
    BY <1>5 DEF OnHandshake, Resumed, CompleteOpen
  <2>2. io[o] = "ok" /\ role = "server" => ~peeked'
    BY <1>5, Zenon DEF OnHandshake
  <2>3. QED
    BY <2>1, <2>2, EndsKeeps
<1>6. CASE OnSslShutdownClient(o)
  <2>1. pc[o] = "sslShutdown" /\ role = "client" /\ UNCHANGED <<role, ctx, ssl, kind, cut>>
    BY <1>6 DEF OnSslShutdownClient, Resumed
  <2>2. CASE CompleteClosing(o, "ok")
    BY <2>1, <2>2, EndsKeeps DEF CompleteClosing
  <2>3. CASE io[o] # "ok" /\ CompleteOpen(o, io[o])
    BY <2>1, <2>3, EndsKeeps DEF CompleteOpen
  <2>4. QED
    BY <1>6, <2>2, <2>3 DEF OnSslShutdownClient
<1>7. CASE OnSslShutdownServer(o)
  <2>1. pc[o] = "sslShutdown" /\ kind[o] = "serverShutdown"
    BY <1>7, PlaceFacts DEF OnSslShutdownServer, Resumed
  <2>2. /\ UNCHANGED <<role, ctx, ssl, kind, cut>> /\ UNCHANGED vars
        /\ Await(o, "drain", Started(sock))
        /\ sock = "closed" => sock' = "closed"
    BY <1>7 DEF OnSslShutdownServer, HalfClosed
  <2>3. QED
    BY <1>0, <2>1, <2>2, SuspendsFacts, GoesOnKeeps, Zenon DEF Await
<1>8. CASE OnDrain(o)
  BY <1>8, EndsKeeps DEF OnDrain, Resumed, CompleteClosing
<1>9. QED
  BY <1>1, <1>2, <1>3, <1>4, <1>5, <1>6, <1>7, <1>8 DEF Resume

(* And so do the answers, the timer's close and the timer's other steps. *)
LEMMA AnswerHolds ==
    ASSUME StreamInv, CoroutineInv, NEW o \in Ops, Answer(o)
    PROVE  CoroutineInv'
<1>1. PICK r : io' = [io EXCEPT ![o] = r]
  BY Zenon DEF Answer
<1>2. /\ UNCHANGED <<role, ctx, ssl, sock, peeked, kind, pc, cut, impl, results>>
      /\ io[o] = "pending"
  BY DEF Answer, vars
<1>3. \A q \in Ops : io'[q] \in {"pending", "ok"} => io[q] \in {"pending", "ok"}
  BY <1>1, <1>2 DEF StreamInv, StreamTypeOK
<1>4. Others(o) /\ OpPlaced(o)'
  BY <1>2 DEF Others, CoroutineInv, OpPlaced
<1>5. NoRevival => OpStaysClosed(o)'
  BY <1>2 DEF CoroutineInv, OpStaysClosed
<1>6. OneOp => OpStaysConnected(o)'
  BY <1>2, <1>3 DEF CoroutineInv, OpStaysConnected
<1>7. QED
  BY <1>2, <1>4, <1>5, <1>6, StepKeeps DEF CoroutineInv

(* A timeout closes the socket and moves no coroutine. *)
LEMMA TimeOutHolds ==
    ASSUME TypeOK, Coherent, StreamInv, CoroutineInv, NEW o \in Ops, TimeOut(o)
    PROVE  CoroutineInv'
<1>1. /\ sock' = "closed" /\ cut' = [cut EXCEPT ![o] = TRUE]
      /\ UNCHANGED <<role, ctx, ssl, peeked, kind, pc, impl, results>>
      /\ ~done[o]
  BY DEF TimeOut, TimerClose
<1>2. impl[o] # "finished"
  BY <1>1 DEF Coherent, OpCoherent
<1>3. cut'[o] /\ Others(o) /\ OpPlaced(o)'
  BY <1>1 DEF Others, CoroutineInv, OpPlaced, StreamInv, StreamTypeOK
<1>4. OpStaysClosed(o)'
  <2>1. sock' = "closed"
    BY <1>1, Zenon
  <2>2. QED
    BY <2>1, ClosedSuffices, Zenon
<1>5. OpStaysConnected(o)'
  BY <1>1, <1>2, <1>3 DEF OpStaysConnected
<1>6. QED
  BY <1>1, <1>3, <1>4, <1>5, StepKeeps DEF CoroutineInv

(* CoroutineInv is inductive, given what the wrapper and the stream keep. *)
LEMMA CoroutineStep ==
    ASSUME TypeOK, Coherent, StreamInv, StreamInv', CoroutineInv, [SessionNext]_allVars
    PROVE  CoroutineInv'
<1>1. CASE TimerOnly \/ UNCHANGED allVars
  <2>1. UNCHANGED <<impl, results>> /\ UNCHANGED sessionVars
    BY <1>1 DEF TimerOnly, allVars, sessionVars, Tick, Expire, ElongateTimer,
                TimerRearm, TimerDeliver
  <2>2. ASSUME NEW q \in Ops
        PROVE  /\ OpPlaced(q)' = OpPlaced(q)
               /\ OpStaysClosed(q)' = OpStaysClosed(q)
               /\ OpStaysConnected(q)' = OpStaysConnected(q)
    BY <2>1 DEF sessionVars, OpPlaced, OpStaysClosed, OpStaysConnected
  <2>3. NoRevival' = NoRevival /\ OneOp' = OneOp
    BY <2>1 DEF sessionVars, NoRevival, OneOp
  <2>4. QED
    BY <2>1, <2>2, <2>3 DEF CoroutineInv, sessionVars
<1>2. ASSUME NEW o \in Ops, Resume(o) PROVE CoroutineInv'
  BY <1>2, ResumeHolds
<1>3. QED
  BY <1>1, <1>2, BeginHolds, AnswerHolds, TimeOutHolds DEF SessionNext

(* Closing the socket aborts pending primitives and leaves the rest. *)
LEMMA ClosedFacts ==
    ASSUME StreamTypeOK
    PROVE  /\ Closed(io) \in [Ops -> IoStates]
           /\ \A q \in Ops : Closed(io)[q] = "truncated" => io[q] = "truncated"
BY ResultCodes DEF StreamTypeOK, Closed, IoStates

(* A coroutine that goes from one primitive to the next, or ends, keeps    *)
(* the invariant.                                                          *)
LEMMA MoveKeeps ==
    ASSUME StreamInv, NEW o \in Ops,
           NEW p \in Awaits, NEW i \in IoStates, i # "truncated",
           pc' = [pc EXCEPT ![o] = p],
           \/ io' = [io EXCEPT ![o] = i]
           \/ io' = [Closed(io) EXCEPT ![o] = i],
           sock' \in Socks, ssl' \in BOOLEAN, peeked' \in BOOLEAN,
           kind' \in [Ops -> Kinds \cup {"none"}], cut' \in [Ops -> BOOLEAN],
           UNCHANGED <<role, ctx>>,
           role = "server" =>
             /\ p \notin {"resolve", "connect"}
             /\ p = "drain" => sock' # "connected"
             /\ sock' = "connected" => sock = "connected"
    PROVE  StreamInv'
<1>1. /\ io' \in [Ops -> IoStates] /\ io'[o] = i
      /\ \A q \in Ops \ {o} : io'[q] = "truncated" => io[q] = "truncated"
  BY ClosedFacts DEF StreamInv, StreamTypeOK
<1>2. /\ pc' \in [Ops -> Awaits] /\ pc'[o] = p
      /\ \A q \in Ops \ {o} : pc'[q] = pc[q]
  BY DEF StreamInv, StreamTypeOK
<1>3. StreamTypeOK'
  BY <1>1, <1>2 DEF StreamInv, StreamTypeOK
<1>4. ASSUME NEW q \in Ops
      PROVE  /\ io'[q] = "truncated" => pc'[q] = "sslShutdown"
             /\ role = "server" => pc'[q] \notin {"resolve", "connect"}
             /\ role = "server" /\ pc'[q] = "drain" => sock' # "connected"
  <2>1. CASE q = o
    BY <1>1, <1>2, <2>1
  <2>2. CASE q # o
    BY <1>1, <1>2, <2>2 DEF StreamInv
  <2>3. QED
    BY <2>1, <2>2
<1>5. QED
  BY <1>3, <1>4 DEF StreamInv

(* A call is one of a member function that the session has. *)
LEMMA CallFacts ==
    ASSUME StreamInv, NEW o \in Ops, NEW k, Call(o, k)
    PROVE  /\ kind' \in [Ops -> Kinds \cup {"none"}] /\ cut' \in [Ops -> BOOLEAN]
           /\ UNCHANGED <<role, ctx, peeked>> /\ peeked \in BOOLEAN
           /\ k = "connect" => role = "client"
           /\ k = "clientShutdown" => role = "client"
BY DEF StreamInv, StreamTypeOK, Call, ServerKinds, ClientKinds

(* What a primitive starts with. *)
LEMMA StartedFacts == \A s : Started(s) \in IoStates /\ Started(s) # "truncated"
BY ResultCodes DEF Started, IoStates

(* Every initiating function keeps the invariant and starts a TimedOp. *)
LEMMA BeginStep ==
    ASSUME StreamInv, NEW o \in Ops, Begin(o)
    PROVE  /\ StreamInv'
           /\ Initiate(o) \/ \E r \in Results : InitiateInline(o, r)
<1>0. /\ ssl \in BOOLEAN /\ sock \in Socks /\ pc \in [Ops -> Awaits]
      /\ TRUE \in BOOLEAN
  BY DEF StreamInv, StreamTypeOK
<1>1. ASSUME NEW k, NEW i \in IoStates, i # "truncated", Transfer(o, k, i)
      PROVE  StreamInv' /\ Initiate(o)
  BY <1>0, <1>1, CallFacts, MoveKeeps, Zenon DEF Transfer, Await, Awaits
<1>2. CASE AsyncRead(o)
  BY <1>1, <1>2, StartedFacts DEF AsyncRead
<1>3. CASE AsyncWrite(o)
  BY <1>1, <1>3, StartedFacts, ResultCodes DEF AsyncWrite, IoStates
<1>4. CASE AsyncDetectSsl(o)
  BY <1>1, <1>4, StartedFacts DEF AsyncDetectSsl
<1>5. CASE AsyncRequest(o)
  BY <1>0, <1>5, CallFacts, StartedFacts, MoveKeeps, Zenon DEF AsyncRequest, Await, Awaits
<1>6. CASE AsyncConnect(o)
  BY <1>0, <1>6, CallFacts, MoveKeeps, Zenon DEF AsyncConnect, Await, Awaits, IoStates
<1>7. CASE AsyncHandshake(o)
  BY <1>0, <1>7, CallFacts, StartedFacts, MoveKeeps, Zenon
     DEF AsyncHandshake, upgrade, Await, Awaits
<1>8. CASE AsyncShutdownClient(o)
  <2>1. Call(o, "clientShutdown") /\ UNCHANGED ssl
    BY <1>8 DEF AsyncShutdownClient
  <2>2. CASE ssl
    BY <1>0, <1>8, <2>1, <2>2, CallFacts, StartedFacts, MoveKeeps
       DEF AsyncShutdownClient, Await, Awaits
  <2>3. CASE ~ssl
    <3>1. /\ InitiateInline(o, "ok") /\ sock' = "closed" /\ pc' = pc
          /\ io' = [Closed(io) EXCEPT ![o] = "none"]
      BY <1>8, <2>3 DEF AsyncShutdownClient
    <3>2. pc' = [pc EXCEPT ![o] = pc[o]] /\ pc[o] \in Awaits
      BY <1>0, <3>1
    <3>3. "none" \in IoStates /\ "ok" \in Results /\ sock' \in Socks
      BY <3>1, ResultCodes DEF IoStates, Socks
    <3>4. role = "client"
      BY <2>1, CallFacts
    <3>5. StreamInv'
      BY <1>0, <2>1, <3>1, <3>2, <3>3, <3>4, CallFacts, MoveKeeps, Zenon
    <3>6. QED
      BY <3>1, <3>3, <3>5
  <2>4. QED
    BY <2>2, <2>3
<1>9. CASE AsyncShutdownServer(o)
  <2>1. Call(o, "serverShutdown") /\ UNCHANGED ssl /\ Initiate(o)
    BY <1>9 DEF AsyncShutdownServer
  <2>2. CASE ssl
    BY <1>0, <1>9, <2>1, <2>2, CallFacts, StartedFacts, MoveKeeps
       DEF AsyncShutdownServer, Await, Awaits
  <2>3. CASE ~ssl
    <3>1. sock' \in Socks /\ sock' # "connected"
      BY <1>0, <1>9, <2>3 DEF AsyncShutdownServer, HalfClosed, Socks
    <3>2. QED
      BY <1>0, <1>9, <2>1, <2>3, <3>1, CallFacts, StartedFacts, MoveKeeps
         DEF AsyncShutdownServer, Await, Awaits
  <2>4. QED
    BY <2>2, <2>3
<1>10. QED
  BY <1>2, <1>3, <1>4, <1>5, <1>6, <1>7, <1>8, <1>9 DEF Begin

(* Resumed in any primitive but a TLS shutdown, a coroutine holds one of   *)
(* the results an operation may report.                                    *)
LEMMA ResumedFacts ==
    ASSUME StreamInv, NEW o \in Ops, NEW p, Resumed(o, p)
    PROVE  /\ pc[o] = p /\ io[o] \in Results \cup {"truncated"}
           /\ p # "sslShutdown" => io[o] \in Results
BY DEF StreamInv, StreamTypeOK, IoStates, Resumed

(* A coroutine that ends keeps the invariant, and completes its TimedOp. *)
LEMMA CompleteKeeps ==
    ASSUME StreamInv, NEW o \in Ops, NEW r \in Results,
           CompleteOpen(o, r) \/ CompleteClosing(o, r),
           peeked' \in BOOLEAN, UNCHANGED <<role, ctx, ssl, kind, cut>>
    PROVE  StreamInv' /\ ImplComplete(o, r)
<1>1. ImplComplete(o, r) /\ pc' = [pc EXCEPT ![o] = "none"]
  BY DEF CompleteOpen, CompleteClosing, Complete
<1>2. /\ io' = [io EXCEPT ![o] = "none"] \/ io' = [Closed(io) EXCEPT ![o] = "none"]
      /\ sock' \in Socks /\ (sock' = "connected" => sock = "connected")
  BY DEF CompleteOpen, CompleteClosing, StreamInv, StreamTypeOK, Socks
<1>3. "none" \in Awaits /\ "none" \in IoStates
  BY DEF Awaits, IoStates
<1>4. StreamInv'
  BY <1>1, <1>2, <1>3, MoveKeeps, Zenon DEF StreamInv, StreamTypeOK
<1>5. QED
  BY <1>1, <1>4

(* Every continuation keeps the invariant, and completes its TimedOp or    *)
(* leaves the wrapper alone.                                               *)
LEMMA ResumeStep ==
    ASSUME StreamInv, NEW o \in Ops, Resume(o)
    PROVE  /\ StreamInv'
           /\ UNCHANGED vars \/ \E r \in Results : ImplComplete(o, r)
<1>0. /\ ssl \in BOOLEAN /\ sock \in Socks /\ peeked \in BOOLEAN
      /\ kind \in [Ops -> Kinds \cup {"none"}] /\ cut \in [Ops -> BOOLEAN]
      /\ "ok" \in Results /\ "aborted" \in Results
      /\ "pending" \in IoStates /\ "none" \in IoStates
  BY ResultCodes DEF StreamInv, StreamTypeOK, IoStates
<1>1. CASE OnTransfer(o)
  <2>1. io[o] \in Results
    BY <1>1, ResumedFacts DEF OnTransfer
  <2>2. peeked' \in BOOLEAN
    BY <1>0, <1>1 DEF OnTransfer
  <2>3. QED
    BY <1>1, <2>1, <2>2, CompleteKeeps DEF OnTransfer
<1>2. CASE OnSend(o)
  <2>1. io[o] \in Results
    BY <1>2, ResumedFacts DEF OnSend
  <2>2. CASE Await(o, "receive", Started(sock)) /\ UNCHANGED <<vars, sock>>
    BY <1>0, <1>2, <2>2, StartedFacts, MoveKeeps, Zenon DEF OnSend, Await, Awaits
  <2>3. CASE CompleteOpen(o, io[o])
    BY <1>0, <1>2, <2>1, <2>3, CompleteKeeps DEF OnSend
  <2>4. QED
    BY <1>2, <2>2, <2>3 DEF OnSend
<1>3. CASE OnReceive(o)
  <2>1. io[o] \in Results
    <3>1. Resumed(o, "receive")
      BY <1>3 DEF OnReceive
    <3>2. QED
      BY <3>1, ResumedFacts
  <2>2. QED
    BY <1>0, <1>3, <2>1, CompleteKeeps DEF OnReceive
<1>4. CASE OnResolve(o)
  <2>1. io[o] \in Results /\ role # "server"
    BY <1>4, ResumedFacts DEF OnResolve, StreamInv
  <2>2. CASE AwaitConnect(o) /\ UNCHANGED vars
    BY <1>0, <1>4, <2>1, <2>2, MoveKeeps, Zenon DEF OnResolve, AwaitConnect, Awaits, Socks
  <2>3. CASE CompleteOpen(o, io[o])
    BY <1>0, <1>4, <2>1, <2>3, CompleteKeeps DEF OnResolve
  <2>4. QED
    BY <1>4, <2>2, <2>3 DEF OnResolve
<1>5. CASE OnConnect(o)
  <2> DEFINE ec == IF sock = "closed" THEN "aborted" ELSE io[o]
  <2>1. ec \in Results /\ role # "server"
    BY <1>0, <1>5, ResumedFacts DEF OnConnect, StreamInv
  <2>2. UNCHANGED <<role, ctx, ssl, peeked, kind, cut>>
    BY <1>5 DEF OnConnect
  <2>3. CASE /\ sock' = "connected"
             /\ Await(o, "handshake", "pending")
             /\ UNCHANGED vars
    BY <1>0, <2>1, <2>2, <2>3, MoveKeeps, Zenon DEF Await, Awaits, Socks
  <2>4. CASE /\ sock' = "connected"
             /\ Complete(o, "ok")
             /\ io' = [io EXCEPT ![o] = "none"]
    BY <1>0, <2>1, <2>2, <2>4, MoveKeeps, Zenon DEF Complete, Awaits, Socks
  <2>5. CASE CompleteOpen(o, ec)
    <3> HIDE DEF ec
    <3>1. QED
      BY <1>0, <2>1, <2>2, <2>5, CompleteKeeps
  <2>6. QED
    BY <1>5, <2>3, <2>4, <2>5 DEF OnConnect
<1>6. CASE OnHandshake(o)
  <2>1. io[o] \in Results
    BY <1>6, ResumedFacts DEF OnHandshake
  <2>2. peeked' \in BOOLEAN
    BY <1>0, <1>6 DEF OnHandshake
  <2>3. QED
    BY <1>6, <2>1, <2>2, CompleteKeeps DEF OnHandshake
<1>7. CASE OnSslShutdownClient(o)
  <2>1. io[o] \in Results \cup {"truncated"} /\ UNCHANGED <<role, ctx, ssl, peeked, kind, cut>>
    BY <1>7, ResumedFacts DEF OnSslShutdownClient
  <2>2. CASE CompleteClosing(o, "ok")
    BY <1>0, <2>1, <2>2, CompleteKeeps
  <2>3. CASE io[o] \notin {"ok", "truncated"} /\ CompleteOpen(o, io[o])
    BY <1>0, <2>1, <2>3, CompleteKeeps
  <2>4. QED
    BY <1>7, <2>2, <2>3 DEF OnSslShutdownClient
<1>8. CASE OnSslShutdownServer(o)
  <2>1. sock' \in Socks /\ sock' # "connected"
    BY <1>0, <1>8 DEF OnSslShutdownServer, HalfClosed, Socks
  <2>2. QED
    BY <1>0, <1>8, <2>1, StartedFacts, MoveKeeps, Zenon DEF OnSslShutdownServer, Await, Awaits
<1>9. CASE OnDrain(o)
  BY <1>0, <1>9, CompleteKeeps DEF OnDrain
<1>10. QED
  BY <1>1, <1>2, <1>3, <1>4, <1>5, <1>6, <1>7, <1>8, <1>9 DEF Resume

(* An answer keeps the invariant and leaves the wrapper alone. *)
LEMMA AnswerStep ==
    ASSUME StreamInv, NEW o \in Ops, Answer(o)
    PROVE  StreamInv' /\ UNCHANGED vars
<1>1. PICK r \in {"ok", "error"} \cup (IF pc[o] = "sslShutdown" THEN {"truncated"} ELSE {}) :
        io' = [io EXCEPT ![o] = r]
  BY Zenon DEF Answer
<1>2. io' \in [Ops -> IoStates] /\ io'[o] = r /\ \A q \in Ops \ {o} : io'[q] = io[q]
  BY <1>1, ResultCodes DEF StreamInv, StreamTypeOK, IoStates
<1>3. UNCHANGED <<role, ctx, ssl, sock, peeked, kind, pc, cut>> /\ UNCHANGED vars
  BY DEF Answer
<1>4. \A q \in Ops : io'[q] = "truncated" => pc[q] = "sslShutdown"
  BY <1>1, <1>2 DEF StreamInv
<1>5. QED
  BY <1>2, <1>3, <1>4 DEF StreamInv, StreamTypeOK

(* The timer's close keeps the invariant. *)
LEMMA TimeOutStep ==
    ASSUME StreamInv, NEW o \in Ops, TimeOut(o)
    PROVE  StreamInv' /\ TimerClose(o)
<1>1. /\ io' = Closed(io) /\ sock' = "closed" /\ cut' = [cut EXCEPT ![o] = TRUE]
      /\ UNCHANGED <<role, ctx, ssl, peeked, kind, pc>> /\ TimerClose(o)
  BY DEF TimeOut
<1>2. sock' \in Socks /\ sock' # "connected" /\ cut' \in [Ops -> BOOLEAN]
  BY <1>1 DEF Socks, StreamInv, StreamTypeOK
<1>3. QED
  BY <1>1, <1>2, ClosedFacts DEF StreamInv, StreamTypeOK

(* Every step keeps the invariant, and is one of TimedOp's or leaves the   *)
(* wrapper alone.                                                          *)
LEMMA SessionStep ==
    ASSUME StreamInv, [SessionNext]_allVars
    PROVE  StreamInv' /\ [Next]_vars
<1>1. CASE TimerOnly
  <2>1. StreamInv'
    BY <1>1 DEF TimerOnly, sessionVars, StreamInv, StreamTypeOK
  <2>2. QED
    BY <1>1, <2>1 DEF TimerOnly, Next, OnTimer
<1>2. ASSUME NEW o \in Ops, Begin(o) PROVE StreamInv' /\ Next
  BY <1>2, BeginStep DEF Next
<1>3. ASSUME NEW o \in Ops, Resume(o) PROVE StreamInv' /\ [Next]_vars
  BY <1>3, ResumeStep DEF Next
<1>4. ASSUME NEW o \in Ops, Answer(o) PROVE StreamInv' /\ UNCHANGED vars
  BY <1>4, AnswerStep
<1>5. ASSUME NEW o \in Ops, TimeOut(o) PROVE StreamInv' /\ Next
  BY <1>5, TimeOutStep DEF Next, OnTimer
<1>6. CASE UNCHANGED allVars
  BY <1>6 DEF allVars, vars, StreamInv, StreamTypeOK
<1>7. QED
  BY <1>1, <1>2, <1>3, <1>4, <1>5, <1>6 DEF SessionNext

(* The constructor establishes the invariant. *)
LEMMA SessionStarts == SessionInit => StreamInv /\ Init
<1> SUFFICES ASSUME SessionInit PROVE StreamInv
  BY Zenon DEF SessionInit
<1>1. StreamTypeOK
  <2>1. role \in {"client", "server"} /\ ctx \in BOOLEAN /\ ssl \in BOOLEAN /\ peeked \in BOOLEAN
    BY Zenon DEF SessionInit
  <2>2. sock \in Socks
    BY DEF SessionInit, Socks
  <2>3. /\ kind \in [Ops -> Kinds \cup {"none"}] /\ pc \in [Ops -> Awaits]
        /\ io \in [Ops -> IoStates] /\ cut \in [Ops -> BOOLEAN]
    BY DEF SessionInit, Awaits, IoStates
  <2>4. QED
    BY <2>1, <2>2, <2>3 DEF StreamTypeOK
<1>2. QED
  BY <1>1 DEF SessionInit, StreamInv

-----------------------------------------------------------------------------
(* Every operation of a session runs under the session's timer as a        *)
(* TimedOp does, whatever its coroutine goes through and whoever completes *)
(* first.                                                                  *)
THEOREM SessionRunsUnderTimer == SessionSpec => RunsUnderTimer
BY SessionStarts, SessionStep, PTL DEF SessionSpec, RunsUnderTimer, Spec

(* Each member function calls its handler exactly once, with what its      *)
(* coroutine produced: the wrapper's promise carries over.                 *)
THEOREM SessionKeepsPromise == SessionSpec => KeepsPromise
BY SessionRunsUnderTimer, WrapperKeepsPromise, PTL DEF RunsUnderTimer

(* The timer takes the stream only from an operation in flight, and no     *)
(* operation of a session is reported before its wait has been collected.  *)
THEOREM SessionClosesOnlyInFlight == SessionSpec => CloseOnlyInFlight
BY SessionRunsUnderTimer, ClosesOnlyInFlight, PTL DEF RunsUnderTimer

(* A reported operation is a finished one. *)
LEMMA ReportedFacts ==
    ASSUME Coherent, CoroutineInv, NEW o \in Ops, Reported(o)
    PROVE  impl[o] = "finished"
BY DEF Coherent, OpCoherent, CoroutineInv, OpPlaced, Reported, Pending

(* No operation but a TLS shutdown is told of a truncated stream, so that  *)
(* every result is one the callers know; a server's last read follows the  *)
(* half close; and every coroutine is suspended where its member function  *)
(* can be, with the socket as its steps so far have left it.               *)
THEOREM SessionKeepsInvariant == SessionSpec => []SessionInv
<1>1. SessionSpec => []StreamInv
  BY SessionStarts, SessionStep, PTL DEF SessionSpec
<1>2. SessionSpec => [](TypeOK /\ Coherent)
  BY SessionRunsUnderTimer, TypeCorrect, AlwaysCoherent, PTL DEF RunsUnderTimer
<1>3. SessionInit => CoroutineInv
  <2> SUFFICES ASSUME SessionInit PROVE CoroutineInv
    OBVIOUS
  <2>1. (ssl => ctx) /\ (role = "client" /\ ctx => ssl) /\ sock # "halfClosed"
    BY Zenon DEF SessionInit
  <2>2. ASSUME NEW o \in Ops
        PROVE  impl[o] = "idle" /\ kind[o] = "none" /\ pc[o] = "none" /\ ~cut[o]
    BY <2>2, Zenon DEF SessionInit, Init
  <2>3. QED
    BY <2>1, <2>2 DEF CoroutineInv, OpPlaced, OpStaysClosed, OpStaysConnected
<1>4. SessionSpec => []CoroutineInv
  BY <1>1, <1>2, <1>3, CoroutineStep, PTL DEF SessionSpec
<1>5. QED
  BY <1>1, <1>2, <1>4, PTL DEF SessionInv

(* A server never closes a live connection at one stroke, however its      *)
(* operations overlap: the sending side goes first, unless the timer cuts  *)
(* the connection.                                                         *)
THEOREM ServerTeardownStaged == SessionSpec => StagedTeardown
<1> DEFINE Step == role = "server" /\ sock = "connected" /\ sock' = "closed"
                     => \E o \in Ops : TimerClose(o)
<1>1. ASSUME StreamInv, [SessionNext]_allVars PROVE [Step]_allVars
  <2> SUFFICES ASSUME SessionNext, role = "server", sock = "connected", sock' = "closed"
               PROVE  \E o \in Ops : TimerClose(o)
    BY <1>1
  <2>1. CASE TimerOnly
    BY <2>1 DEF TimerOnly, sessionVars
  <2>2. ASSUME NEW o \in Ops, Begin(o) PROVE FALSE
    <3>1. CASE AsyncShutdownClient(o)
      BY <1>1, <3>1, CallFacts DEF AsyncShutdownClient
    <3>2. CASE AsyncShutdownServer(o)
      BY <3>2 DEF AsyncShutdownServer, HalfClosed
    <3>3. QED
      BY <2>2, <3>1, <3>2 DEF Begin, AsyncRead, AsyncWrite, AsyncDetectSsl, Transfer,
                              AsyncRequest, AsyncConnect, AsyncHandshake
  <2>3. ASSUME NEW o \in Ops, Resume(o) PROVE FALSE
    <3>1. CASE OnDrain(o)
      BY <1>1, <3>1 DEF OnDrain, Resumed, StreamInv
    <3>2. CASE OnSslShutdownClient(o)
      BY <3>2 DEF OnSslShutdownClient
    <3>3. CASE OnSslShutdownServer(o)
      <4>1. sock' = HalfClosed(sock)
        BY <3>3 DEF OnSslShutdownServer
      <4>2. QED
        BY <4>1 DEF HalfClosed
    <3>4. CASE OnConnect(o) \/ OnResolve(o)
      BY <1>1, <3>4, Zenon DEF OnConnect, OnResolve, Resumed, StreamInv
    <3>5. QED
      BY <2>3, <3>1, <3>2, <3>3, <3>4
         DEF Resume, OnTransfer, OnSend, OnReceive, OnHandshake, CompleteOpen
  <2>4. ASSUME NEW o \in Ops, Answer(o) PROVE FALSE
    BY <2>4 DEF Answer
  <2>5. QED
    BY <2>1, <2>2, <2>3, <2>4, TimeOutStep, <1>1 DEF SessionNext
<1>2. SessionSpec => []StreamInv
  BY SessionKeepsInvariant, PTL DEF SessionInv
<1>3. QED
  BY <1>1, <1>2, PTL DEF SessionSpec, StagedTeardown

(* Where no other operation may connect the socket anew, an operation that *)
(* the timer cut off leaves it closed, whatever is still queued for it.    *)
THEOREM CutStaysClosed == SessionSpec => [](NoRevival => CutLeavesClosed)
<1>1. CoroutineInv => (NoRevival => CutLeavesClosed)
  BY DEF CoroutineInv, OpStaysClosed, CutLeavesClosed
<1>2. QED
  BY <1>1, SessionKeepsInvariant, PTL DEF SessionInv

(* Under the same condition, which every server session meets, a shutdown  *)
(* leaves the socket closed: a server's in any case, a client's if it      *)
(* reports success, however many operations overlap with it.               *)
THEOREM ShutdownStaysClosed == SessionSpec => [](NoRevival => ShutdownCloses)
<1>1. Coherent /\ CoroutineInv => (NoRevival => ShutdownCloses)
  BY ReportedFacts, Zenon DEF CoroutineInv, OpStaysClosed, ShutdownCloses, ReportedOk
<1>2. SessionSpec => []Coherent
  BY SessionRunsUnderTimer, AlwaysCoherent, PTL DEF RunsUnderTimer
<1>3. QED
  BY <1>1, <1>2, SessionKeepsInvariant, PTL DEF SessionInv

(* One operation at a time, over any number of them: a connect or a        *)
(* handshake that reports success, and that the timer did not cut off,     *)
(* leaves a connection of the kind the options ask for.                    *)
THEOREM OkIsConnected == SessionSpec => [](OneOp => OkMeansConnected)
<1>1. ASSUME StreamInv, Coherent, CoroutineInv, OneOp, NEW o \in Ops,
             ReportedOk(o), kind[o] \in {"connect", "handshake"}, ~cut[o]
      PROVE  sock = "connected" /\ ssl = ctx
  <2>1. impl[o] = "finished" /\ results[o] = "ok"
    BY <1>1, ReportedFacts DEF ReportedOk
  <2>2. sock = "connected"
    BY <1>1, <2>1 DEF CoroutineInv, OpStaysConnected
  <2>3. kind[o] = "connect" => role = "client"
    BY <1>1, PlaceFacts
  <2>4. kind[o] = "handshake" => ssl
    BY <1>1, PlaceFacts
  <2>5. ssl \in BOOLEAN /\ ctx \in BOOLEAN
    BY <1>1 DEF StreamInv, StreamTypeOK
  <2>6. (ssl => ctx) /\ (role = "client" /\ ctx => ssl)
    BY <1>1 DEF CoroutineInv
  <2>7. kind[o] = "connect" \/ kind[o] = "handshake"
    BY <1>1
  <2>8. ssl <=> ctx
    BY <2>3, <2>4, <2>6, <2>7, Zenon
  <2>9. ssl = ctx
    BY <2>5, <2>8
  <2>10. QED
    BY <2>2, <2>9, Zenon
<1>2. StreamInv /\ Coherent /\ CoroutineInv => (OneOp => OkMeansConnected)
  BY <1>1 DEF OkMeansConnected
<1>3. SessionSpec => []Coherent
  BY SessionRunsUnderTimer, AlwaysCoherent, PTL DEF RunsUnderTimer
<1>4. QED
  BY <1>2, <1>3, SessionKeepsInvariant, PTL DEF SessionInv

-----------------------------------------------------------------------------
(* speak: until it ends, the handler knows of a failed connect.  The code  *)
(* the handler was last told is the result of the connect, once there is   *)
(* one, since every later call is bound to it.                             *)
SpeakInv == SpeakTypeOK /\ (at \notin {"posted", "connect"} => told = connectEc)

(* speak keeps SpeakInv: its state is typed, and from the first call of    *)
(* the handler on the handler has been told the result of the connect.     *)
THEOREM SpeakKeepsInvariant == SpeakSpec => []SpeakInv
<1>1. SpeakInit => SpeakInv
  BY CodesAssumption, MaxOpsAssumption DEF SpeakInit, SpeakInv, SpeakTypeOK
<1>2. SpeakInv /\ [SpeakNext]_speakVars => SpeakInv'
  <2> SUFFICES ASSUME SpeakInv, [SpeakNext]_speakVars
               PROVE  SpeakInv'
    OBVIOUS
  <2> USE DEF SpeakInv, SpeakTypeOK
  <2>1. CASE BeginSpeak
    BY <2>1 DEF BeginSpeak
  <2>2. ASSUME NEW ec \in Codes, OnConnected(ec)
        PROVE  SpeakInv'
    BY <2>2 DEF OnConnected, CallHandler
  <2>3. ASSUME NEW ec \in Codes, OnOp(ec)
        PROVE  SpeakInv'
    BY <2>3 DEF OnOp, CallHandler
  <2>4. CASE StartOp
    BY <2>4, MaxOpsAssumption DEF StartOp
  <2>5. CASE HandlerCompletes
    BY <2>5 DEF HandlerCompletes
  <2>6. CASE OnShutdown
    BY <2>6 DEF OnShutdown
  <2>7. CASE UNCHANGED speakVars
    BY <2>7 DEF speakVars
  <2> HIDE DEF SpeakInv
  <2>8. QED
    BY <2>1, <2>2, <2>3, <2>4, <2>5, <2>6, <2>7, Zenon DEF SpeakNext, Proceed
<1>3. QED
  BY <1>1, <1>2, PTL DEF SpeakSpec
=============================================================================
