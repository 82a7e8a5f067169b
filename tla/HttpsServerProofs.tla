-------------------------- MODULE HttpsServerProofs --------------------------
(***************************************************************************)
(* Proofs about Listener, for any set of connections and any number of     *)
(* shutdowns: ListenerInv is inductive.  Then about the program around a   *)
(* listener, for any finite set of clients and any number of requests      *)
(* each: the program uses the listener by its own steps only, and keeps    *)
(* ProgramInv.                                                             *)
(***************************************************************************)
EXTENDS HttpsServer, FiniteSetTheorems, TLAPS

(* The completion of an accept that waits on the strand. *)
Accepted(c) == [run |-> "accepted", conn |-> c]
(* The connection waits for its completion to run. *)
Waiting(c) == \E i \in Turns : strand[i] = Accepted(c)

-----------------------------------------------------------------------------
(* The strand.                                                             *)

(* The handlers, by what they run. *)
LEMMA HandlerKinds ==
    /\ \A r \in {"begin", "shutdown", "failed", "aborted"} :
         [run |-> r] \in Handlers /\ [run |-> r].run = r /\ \A c : [run |-> r] # Accepted(c)
    /\ \A c \in Conns : Accepted(c) \in Handlers /\ Accepted(c).run = "accepted"
    /\ \A c, d : Accepted(c) = Accepted(d) => c = d
    /\ \A h \in Handlers : h.run = "accepted" => h.conn \in Conns /\ h = Accepted(h.conn)
<1>1. ASSUME NEW r \in {"begin", "shutdown", "failed", "aborted"}, NEW c
      PROVE  [run |-> r] \in Handlers /\ [run |-> r].run = r /\ [run |-> r] # Accepted(c)
  <2>1. [run |-> r] \in Handlers
    BY Zenon DEF Handlers
  <2>2. [run |-> r].run = r /\ Accepted(c).run = "accepted" /\ r # "accepted"
    BY DEF Accepted
  <2>3. QED
    BY <2>1, <2>2
<1>2. ASSUME NEW c \in Conns
      PROVE  Accepted(c) \in Handlers /\ Accepted(c).run = "accepted"
  BY DEF Handlers, Accepted
<1>3. ASSUME NEW c, NEW d, Accepted(c) = Accepted(d)
      PROVE  c = d
  <2>1. Accepted(c).conn = c /\ Accepted(d).conn = d
    BY DEF Accepted
  <2>2. QED
    BY <1>3, <2>1
<1>4. ASSUME NEW h \in Handlers, h.run = "accepted"
      PROVE  h.conn \in Conns /\ h = Accepted(h.conn)
  <2>1. CASE \E r \in {"begin", "shutdown", "failed", "aborted"} : h = [run |-> r]
    BY <1>4, <2>1
  <2>2. CASE \E c \in Conns : h = Accepted(c)
    BY <2>2 DEF Accepted
  <2>3. QED
    BY <2>1, <2>2 DEF Handlers, Accepted
<1>5. QED
  BY <1>1, <1>2, <1>3, <1>4

(* A handler posted to the strand stands behind the others. *)
LEMMA Posted ==
    ASSUME strand \in Seq(Handlers), NEW h \in Handlers, strand' = Append(strand, h)
    PROVE  /\ strand' \in Seq(Handlers)
           /\ Turns' = Turns \cup (IF h.run = "shutdown" THEN {} ELSE {Len(strand) + 1})
           /\ \A c \in Conns : Waiting(c)' <=> Waiting(c) \/ h = Accepted(c)
<1>1. /\ strand' \in Seq(Handlers) /\ Len(strand') = Len(strand) + 1
      /\ strand'[Len(strand) + 1] = h /\ Len(strand) \in Nat
      /\ \A i \in 1..Len(strand) : strand'[i] = strand[i]
  OBVIOUS
<1>2. Turns' = Turns \cup (IF h.run = "shutdown" THEN {} ELSE {Len(strand) + 1})
  BY <1>1 DEF Turns
<1>3. ASSUME NEW c \in Conns
      PROVE  Waiting(c)' <=> Waiting(c) \/ h = Accepted(c)
  <2>1. Waiting(c)' <=> \E i \in Turns' : strand'[i] = Accepted(c)
    BY DEF Waiting, Accepted
  <2>2. \A i \in Turns : strand'[i] = strand[i]
    BY <1>1 DEF Turns
  <2>3. Waiting(c) => Waiting(c)'
    BY <1>2, <2>1, <2>2, Zenon DEF Waiting
  <2>4. h = Accepted(c) => Waiting(c)'
    <3>1. h = Accepted(c) => h.run # "shutdown"
      BY HandlerKinds
    <3>2. QED
      BY <1>1, <1>2, <2>1, <3>1
  <2>5. Waiting(c)' => Waiting(c) \/ h = Accepted(c)
    BY <1>1, <1>2, <2>1, <2>2, Zenon DEF Waiting
  <2>6. QED
    BY <2>3, <2>4, <2>5
<1>4. QED
  BY <1>1, <1>2, <1>3

(* A handler that is run leaves the strand, and the others move up. *)
LEMMA Popped ==
    ASSUME strand \in Seq(Handlers), strand # <<>>
    PROVE  /\ Tail(strand) \in Seq(Handlers)
           /\ Len(Tail(strand)) = Len(strand) - 1
           /\ \A i \in 1..Len(strand) - 1 : Tail(strand)[i] = strand[i + 1]
           /\ Len(strand) \in Nat \ {0} /\ 1 \in 1..Len(strand) /\ Head(strand) = strand[1]
           /\ Head(strand) \in Handlers
OBVIOUS

LoopInv ==
    /\ strand \in Seq(Handlers)
    /\ OneAccept
    /\ \A c \in Conns : session[c] = "arrived" <=> Waiting(c)

(* A turn of the loop is the only one queued: nothing else is behind it.   *)
LEMMA TurnRun ==
    ASSUME LoopInv, strand # <<>>, Head(strand).run # "shutdown", strand' = Tail(strand)
    PROVE  /\ strand' \in Seq(Handlers)
           /\ Turns' = {} /\ ~accepting /\ loop = "started"
           /\ \A c \in Conns : /\ ~Waiting(c)'
                               /\ session[c] = "arrived" <=> Head(strand) = Accepted(c)
<1> strand \in Seq(Handlers)
  BY DEF LoopInv
<1>1. 1 \in Turns
  BY Popped DEF Turns
<1>2. Turns = {1}
  BY <1>1 DEF LoopInv, OneAccept
<1>3. ~accepting /\ loop = "started"
  BY <1>2 DEF LoopInv, OneAccept
<1>4. ASSUME NEW i \in 1..Len(strand) - 1 PROVE strand'[i].run = "shutdown"
  <2>1. i + 1 \in 1..Len(strand) /\ i + 1 # 1 /\ strand'[i] = strand[i + 1]
    BY Popped
  <2>2. i + 1 \notin Turns
    BY <1>2, <2>1
  <2>3. QED
    BY <2>1, <2>2 DEF Turns
<1>5. strand' \in Seq(Handlers) /\ Len(strand') = Len(strand) - 1
  BY Popped
<1>6. Turns' = {}
  BY <1>4, <1>5 DEF Turns
<1>7. ASSUME NEW c \in Conns
      PROVE  ~Waiting(c)' /\ (session[c] = "arrived" <=> Head(strand) = Accepted(c))
  <2>1. ~Waiting(c)'
    BY <1>6 DEF Waiting
  <2>2. Waiting(c) <=> Head(strand) = Accepted(c)
    BY <1>2, Popped DEF Waiting
  <2>3. QED
    BY <2>1, <2>2 DEF LoopInv
<1>8. QED
  BY <1>3, <1>5, <1>6, <1>7

(* A shutdown that is run leaves the turns as they are, one place further  *)
(* up, and turns a pending accept into an aborted one.                     *)
LEMMA ShutdownRun ==
    ASSUME LoopInv, RunShutdown
    PROVE  LoopInv'
<1> DEFINE rest == Tail(strand)
           more == IF accepting THEN <<[run |-> "aborted"]>> ELSE <<>>
<1> strand \in Seq(Handlers)
  BY DEF LoopInv
<1>1. /\ strand # <<>> /\ Head(strand).run = "shutdown" /\ strand' = rest \o more
      /\ accepting' = FALSE /\ UNCHANGED <<loop, session>>
  BY DEF RunShutdown, Runs
<1>2. /\ rest \in Seq(Handlers) /\ more \in Seq(Handlers)
      /\ Len(rest) = Len(strand) - 1 /\ Len(strand) \in Nat \ {0}
      /\ strand[1].run = "shutdown"
      /\ \A i \in 1..Len(strand) - 1 : rest[i] = strand[i + 1]
  <2>1. [run |-> "aborted"] \in Handlers
    BY HandlerKinds
  <2>2. <<[run |-> "aborted"]>> \in Seq(Handlers) /\ <<>> \in Seq(Handlers)
    BY <2>1
  <2>3. more \in Seq(Handlers)
    BY <2>2
  <2>4. QED
    BY <1>1, <2>3, Popped
<1> HIDE DEF rest, more
<1>3. strand' \in Seq(Handlers)
  BY <1>1, <1>2
<1>4. CASE accepting
  <2>1. /\ Len(strand') = Len(strand) /\ strand'[Len(strand)] = [run |-> "aborted"]
        /\ \A i \in 1..Len(strand) - 1 : strand'[i] = strand[i + 1]
    <3>1. more = <<[run |-> "aborted"]>> /\ Len(more) = 1 /\ more[1] = [run |-> "aborted"]
      BY <1>4 DEF more
    <3>2. /\ Len(rest \o more) = Len(rest) + 1
          /\ \A i \in 1..Len(rest) + 1 :
                (rest \o more)[i] = IF i <= Len(rest) THEN rest[i] ELSE more[i - Len(rest)]
      BY <1>2, <3>1
    <3>3. Len(strand') = Len(strand)
      BY <1>1, <1>2, <3>2
    <3>4. strand'[Len(strand)] = [run |-> "aborted"]
      BY <1>1, <1>2, <3>1, <3>2
    <3>5. ASSUME NEW i \in 1..Len(strand) - 1 PROVE strand'[i] = strand[i + 1]
      BY <1>1, <1>2, <3>2
    <3>6. QED
      BY <3>3, <3>4, <3>5
  <2>2. \A i \in 1..Len(strand) : strand[i].run = "shutdown"
    BY <1>4 DEF LoopInv, OneAccept, Turns
  <2>3. \A i \in 1..Len(strand) - 1 : strand'[i].run = "shutdown"
    BY <1>2, <2>1, <2>2
  <2>4. Turns' = {Len(strand)}
    <3>1. strand'[Len(strand)].run # "shutdown"
      BY <2>1
    <3>2. QED
      BY <1>2, <2>1, <2>3, <3>1 DEF Turns
  <2>5. ASSUME NEW c \in Conns PROVE ~Waiting(c) /\ ~Waiting(c)'
    <3>1. ~Waiting(c)
      BY <1>4 DEF Waiting, LoopInv, OneAccept
    <3>2. strand'[Len(strand)] # Accepted(c)
      BY <2>1, HandlerKinds
    <3>3. Accepted(c)' = Accepted(c)
      BY DEF Accepted
    <3>4. QED
      BY <2>4, <3>1, <3>2, <3>3 DEF Waiting
  <2>6. QED
    BY <1>1, <1>3, <1>4, <2>4, <2>5 DEF LoopInv, OneAccept
<1>5. CASE ~accepting
  <2>1. strand' = rest
    BY <1>1, <1>2, <1>5 DEF more
  <2>2. \A i \in 1..Len(strand) - 1 : i \in Turns' <=> i + 1 \in Turns
    BY <1>2, <2>1 DEF Turns
  <2>3. Turns' \subseteq 1..Len(strand) - 1 /\ Turns \subseteq 2..Len(strand)
    BY <1>2, <2>1 DEF Turns
  <2>4. ASSUME NEW j \in Turns PROVE j - 1 \in Turns' /\ strand'[j - 1] = strand[j]
    <3>1. j \in 2..Len(strand) /\ j - 1 \in 1..Len(strand) - 1 /\ (j - 1) + 1 = j
      BY <1>2, <2>3
    <3>2. QED
      BY <1>2, <2>1, <2>2, <3>1
  <2>5. ASSUME NEW j \in Turns' PROVE j + 1 \in Turns /\ strand[j + 1] = strand'[j]
    BY <1>2, <2>1, <2>2, <2>3
  <2>6. Turns' = {} <=> Turns = {}
    BY <2>4, <2>5
  <2>7. ASSUME NEW i \in Turns', NEW j \in Turns' PROVE i = j
    <3>1. i \in 1..Len(strand) - 1 /\ j \in 1..Len(strand) - 1
      BY <2>3
    <3>2. i + 1 = j + 1
      BY <2>5 DEF LoopInv, OneAccept
    <3>3. QED
      BY <1>2, <3>1, <3>2
  <2>8. ASSUME NEW c \in Conns PROVE Waiting(c)' <=> Waiting(c)
    <3>1. Accepted(c)' = Accepted(c)
      BY DEF Accepted
    <3>2. QED
      BY <2>4, <2>5, <3>1 DEF Waiting
  <2>9. QED
    BY <1>1, <1>3, <1>5, <2>6, <2>7, <2>8 DEF LoopInv, OneAccept
<1>6. QED
  BY <1>4, <1>5

(* The end of a turn: the loop accepts again, or it ends. *)
LEMMA TurnEnds ==
    ASSUME LoopInv, strand # <<>>, Head(strand).run # "shutdown", strand' = Tail(strand),
           \/ accepting' = open /\ loop' = IF open THEN loop ELSE "ended"
           \/ UNCHANGED accepting /\ loop' = "ended",
           UNCHANGED open, open \in BOOLEAN,
           \A c \in Conns : session'[c] # "arrived"
    PROVE  LoopInv'
<1>1. /\ strand' \in Seq(Handlers) /\ Turns' = {} /\ ~accepting /\ loop = "started"
      /\ \A c \in Conns : ~Waiting(c)'
  BY TurnRun
<1>2. OneAccept'
  BY <1>1 DEF OneAccept
<1>3. QED
  BY <1>1, <1>2 DEF LoopInv

-----------------------------------------------------------------------------
(* The listener.                                                           *)

FlagsOK ==
    /\ tls \in BOOLEAN /\ open \in BOOLEAN /\ accepting \in BOOLEAN
    /\ loop \in {"new", "started", "ended"}
    /\ shutdowns \in 0..MaxShutdowns

SessionsInv ==
    /\ session \in [Conns -> {"away", "arrived", "posted", "handshake",
                              "handler", "shutdown", "ended"}]
    /\ secured \in [Conns -> {FALSE, tls}]
    /\ HandlerIsSecured

LEMMA Parts == ListenerInv <=> FlagsOK /\ SessionsInv /\ LoopInv
BY Zenon DEF ListenerInv, ListenerTypeOK, ArrivedIsQueued, FlagsOK, SessionsInv, LoopInv,
       Waiting, Accepted

LEMMA PartsNext == (ListenerInv <=> FlagsOK /\ SessionsInv /\ LoopInv)'
BY Zenon DEF ListenerInv, ListenerTypeOK, ArrivedIsQueued, FlagsOK, SessionsInv, LoopInv,
       Waiting, Accepted

LEMMA SessionsFrame ==
    ASSUME SessionsInv, UNCHANGED <<tls, session, secured>>
    PROVE  SessionsInv'
BY Zenon DEF SessionsInv, HandlerIsSecured

(* The user's calls and the acceptor's completions. *)
LEMMA PostKeeps ==
    ASSUME ListenerInv, AsyncAccept \/ Shutdown \/ FailAccept
    PROVE  ListenerInv'
<1>1. FlagsOK /\ SessionsInv /\ LoopInv /\ strand \in Seq(Handlers) /\ Len(strand) \in Nat
  BY Parts DEF LoopInv
<1>2. CASE AsyncAccept
  <2>1. strand' = Append(strand, [run |-> "begin"]) /\ Turns = {} /\ ~accepting
    BY <1>1, <1>2 DEF AsyncAccept, LoopInv, OneAccept
  <2>2. /\ strand' \in Seq(Handlers) /\ Turns' = {Len(strand) + 1}
        /\ \A c \in Conns : Waiting(c)' <=> Waiting(c)
    BY <1>1, <2>1, Posted, HandlerKinds
  <2>3. OneAccept'
    BY <1>2, <2>1, <2>2 DEF AsyncAccept, OneAccept
  <2>4. LoopInv'
    BY <1>1, <1>2, <2>2, <2>3 DEF AsyncAccept, LoopInv
  <2>5. FlagsOK' /\ SessionsInv'
    BY <1>1, <1>2, SessionsFrame DEF AsyncAccept, FlagsOK
  <2>6. QED
    BY <2>4, <2>5, PartsNext
<1>3. CASE Shutdown
  <2>1. strand' = Append(strand, [run |-> "shutdown"])
    BY <1>3 DEF Shutdown
  <2>2. /\ strand' \in Seq(Handlers) /\ Turns' = Turns
        /\ \A c \in Conns : Waiting(c)' <=> Waiting(c)
    BY <1>1, <2>1, Posted, HandlerKinds, Zenon
  <2>3. OneAccept'
    BY <1>1, <1>3, <2>2 DEF Shutdown, OneAccept, LoopInv
  <2>4. LoopInv'
    BY <1>1, <1>3, <2>2, <2>3 DEF Shutdown, LoopInv
  <2>5. shutdowns' \in 0..MaxShutdowns
    BY <1>1, <1>3, MaxShutdownsAssumption DEF Shutdown, FlagsOK
  <2>6. FlagsOK' /\ SessionsInv'
    BY <1>1, <1>3, <2>5, SessionsFrame DEF Shutdown, FlagsOK
  <2>7. QED
    BY <2>4, <2>6, PartsNext
<1>4. CASE FailAccept
  <2>1. strand' = Append(strand, [run |-> "failed"]) /\ Turns = {} /\ loop = "started"
    BY <1>1, <1>4 DEF FailAccept, LoopInv, OneAccept
  <2>2. /\ strand' \in Seq(Handlers) /\ Turns' = {Len(strand) + 1}
        /\ \A c \in Conns : Waiting(c)' <=> Waiting(c)
    BY <1>1, <2>1, Posted, HandlerKinds
  <2>3. OneAccept'
    BY <1>4, <2>1, <2>2 DEF FailAccept, OneAccept
  <2>4. LoopInv'
    BY <1>1, <1>4, <2>2, <2>3 DEF FailAccept, LoopInv
  <2>5. FlagsOK' /\ SessionsInv'
    BY <1>1, <1>4, SessionsFrame, Zenon DEF FailAccept, FlagsOK
  <2>6. QED
    BY <2>4, <2>5, PartsNext
<1>5. QED
  BY <1>2, <1>3, <1>4

(* A connection arrives. *)
LEMMA ArriveKeeps ==
    ASSUME ListenerInv, NEW c \in Conns, Arrive(c)
    PROVE  ListenerInv'
<1>1. FlagsOK /\ SessionsInv /\ LoopInv /\ strand \in Seq(Handlers) /\ Len(strand) \in Nat
  BY Parts DEF LoopInv
<1>2. /\ strand' = Append(strand, Accepted(c)) /\ Turns = {} /\ loop = "started"
      /\ session' = [session EXCEPT ![c] = "arrived"] /\ accepting' = FALSE
      /\ UNCHANGED <<tls, open, loop, shutdowns, secured>>
  BY <1>1 DEF Arrive, LoopInv, OneAccept, Accepted
<1>3. /\ strand' \in Seq(Handlers) /\ Turns' = {Len(strand) + 1}
      /\ \A d \in Conns : Waiting(d)' <=> Waiting(d) \/ c = d
  BY <1>1, <1>2, Posted, HandlerKinds
<1>4. \A d \in Conns : session'[d] = IF d = c THEN "arrived" ELSE session[d]
  BY <1>1, <1>2 DEF SessionsInv
<1>5. LoopInv'
  <2>1. OneAccept'
    BY <1>2, <1>3 DEF OneAccept
  <2>2. QED
    BY <1>1, <1>3, <1>4, <2>1 DEF LoopInv
<1>6. FlagsOK'
  BY <1>1, <1>2, Zenon DEF FlagsOK
<1>7. SessionsInv'
  BY <1>1, <1>2, <1>4, Zenon DEF SessionsInv, HandlerIsSecured
<1>8. QED
  BY <1>5, <1>6, <1>7, PartsNext

(* The strand runs its first handler. *)
LEMMA StrandKeeps ==
    ASSUME ListenerInv, RunStrand
    PROVE  ListenerInv'
<1>1. FlagsOK /\ SessionsInv /\ LoopInv /\ strand \in Seq(Handlers)
  BY Parts DEF LoopInv
<1>2. CASE RunBegin \/ RunError
  <2>1. /\ strand # <<>> /\ Head(strand).run \in {"begin", "failed", "aborted"}
        /\ strand' = Tail(strand)
        /\ \/ accepting' = open /\ loop' = IF open THEN loop ELSE "ended"
           \/ UNCHANGED accepting /\ loop' = "ended"
        /\ UNCHANGED <<tls, open, shutdowns, session, secured>>
    BY <1>2 DEF RunBegin, RunError, Runs, LoopTurn
  <2>2. \A c \in Conns : session'[c] # "arrived"
    <3>1. \A c \in Conns : Head(strand) # Accepted(c)
      BY <2>1, HandlerKinds
    <3>2. \A c \in Conns : session[c] # "arrived"
      BY <1>1, <2>1, <3>1, TurnRun
    <3>3. QED
      BY <2>1, <3>2
  <2>3. open \in BOOLEAN
    BY <1>1 DEF FlagsOK
  <2>4. LoopInv'
    BY <1>1, <2>1, <2>2, <2>3, TurnEnds
  <2>5. FlagsOK' /\ SessionsInv'
    BY <1>1, <2>1, SessionsFrame DEF FlagsOK
  <2>6. QED
    BY <2>4, <2>5, PartsNext
<1>3. CASE RunAccepted
  <2>1. /\ strand # <<>> /\ Head(strand).run = "accepted" /\ strand' = Tail(strand)
        /\ accepting' = open /\ loop' = IF open THEN loop ELSE "ended"
        /\ session' = [session EXCEPT ![Head(strand).conn] = "posted"]
        /\ UNCHANGED <<tls, open, shutdowns, secured>>
    BY <1>3 DEF RunAccepted, Runs, LoopTurn
  <2>2. PICK c \in Conns : Head(strand).conn = c /\ Head(strand) = Accepted(c)
    BY <1>1, <2>1, Popped, HandlerKinds
  <2>3. \A d \in Conns : session'[d] = IF d = c THEN "posted" ELSE session[d]
    BY <1>1, <2>1, <2>2 DEF SessionsInv
  <2>4. \A d \in Conns : session'[d] # "arrived"
    <3>1. \A d \in Conns : session[d] = "arrived" => d = c
      BY <1>1, <2>1, <2>2, TurnRun, HandlerKinds
    <3>2. QED
      BY <2>3, <3>1
  <2>5. open \in BOOLEAN
    BY <1>1 DEF FlagsOK
  <2>6. LoopInv'
    BY <1>1, <2>1, <2>4, <2>5, TurnEnds
  <2>7. FlagsOK'
    BY <1>1, <2>1 DEF FlagsOK
  <2>8. SessionsInv'
    BY <1>1, <2>1, <2>2, <2>3, Zenon DEF SessionsInv, HandlerIsSecured
  <2>9. QED
    BY <2>6, <2>7, <2>8, PartsNext
<1>4. CASE RunShutdown
  <2>1. LoopInv'
    BY <1>1, <1>4, ShutdownRun
  <2>2. FlagsOK' /\ SessionsInv'
    BY <1>1, <1>4, SessionsFrame, Zenon DEF RunShutdown, FlagsOK
  <2>3. QED
    BY <2>1, <2>2, PartsNext
<1>5. QED
  BY <1>2, <1>3, <1>4 DEF RunStrand

(* A step of a session. *)
LEMMA SessionKeeps ==
    ASSUME ListenerInv, NEW c \in Conns, RunSession(c)
    PROVE  ListenerInv'
<1>1. FlagsOK /\ SessionsInv /\ LoopInv
  BY Parts
<1>2. /\ session[c] \in {"posted", "handshake", "handler", "shutdown"}
      /\ UNCHANGED <<tls, open, strand, loop, accepting, shutdowns>>
  BY DEF RunSession, Serve, OnHandshake, OnHandler, OnShutdown, Moves
<1>3. PICK to \in {"handshake", "handler", "shutdown", "ended"} :
        session' = [session EXCEPT ![c] = to]
  BY DEF RunSession, Serve, OnHandshake, OnHandler, OnShutdown, Moves
<1>4. \A d \in Conns : session'[d] = IF d = c THEN to ELSE session[d]
  BY <1>1, <1>3 DEF SessionsInv
<1>5. LoopInv'
  <2>1. Turns' = Turns /\ \A d \in Conns : Waiting(d)' <=> Waiting(d)
    BY <1>2 DEF Turns, Waiting, Accepted
  <2>2. OneAccept'
    BY <1>1, <1>2, <2>1 DEF LoopInv, OneAccept
  <2>3. Handlers' = Handlers
    BY DEF Handlers
  <2>4. QED
    BY <1>1, <1>2, <1>4, <2>1, <2>2, <2>3 DEF LoopInv
<1>6. FlagsOK'
  BY <1>1, <1>2 DEF FlagsOK
<1>7. SessionsInv'
  <2>1. session' \in [Conns -> {"away", "arrived", "posted", "handshake",
                                "handler", "shutdown", "ended"}]
    BY <1>1, <1>3 DEF SessionsInv
  <2>2. CASE Serve(c)
    <3>1. to = (IF tls THEN "handshake" ELSE "handler") /\ UNCHANGED secured
      BY <1>1, <1>3, <1>4, <2>2 DEF Serve, Moves, SessionsInv
    <3>2. CASE tls = TRUE
      <4>1. to = "handshake"
        BY <3>1, <3>2
      <4>2. QED
        BY <1>1, <1>2, <1>4, <2>1, <3>1, <3>2, <4>1, Zenon DEF SessionsInv, HandlerIsSecured
    <3>3. CASE tls = FALSE
      <4>1. to = "handler" /\ secured[c] = tls
        BY <1>1, <3>1, <3>3, Zenon DEF SessionsInv
      <4>2. QED
        BY <1>1, <1>2, <1>4, <2>1, <3>1, <4>1, Zenon DEF SessionsInv, HandlerIsSecured
    <3>4. QED
      BY <1>1, <3>2, <3>3, Zenon DEF FlagsOK
  <2>3. CASE Moves(c, "handshake", "shutdown") /\ UNCHANGED secured
    <3>1. to = "shutdown"
      BY <1>1, <1>3, <1>4, <2>3 DEF Moves, SessionsInv
    <3>2. QED
      BY <1>1, <1>2, <1>4, <2>1, <2>3, <3>1, Zenon DEF SessionsInv, HandlerIsSecured
  <2>4. CASE OnHandshake(c) /\ secured' = [secured EXCEPT ![c] = TRUE]
    <3>1. session[c] = "handshake" /\ tls = TRUE
      BY <1>1, <2>4 DEF OnHandshake, Moves, SessionsInv, HandlerIsSecured, FlagsOK
    <3>2. /\ secured' \in [Conns -> {FALSE, tls}] /\ secured'[c] = TRUE
          /\ \A d \in Conns : d # c => secured'[d] = secured[d]
      BY <1>1, <2>4, <3>1, Zenon DEF SessionsInv
    <3>3. QED
      BY <1>1, <1>2, <1>4, <2>1, <3>1, <3>2, Zenon DEF SessionsInv, HandlerIsSecured
  <2>5. CASE OnHandler(c) \/ OnShutdown(c)
    <3>1. to \in {"shutdown", "ended"} /\ UNCHANGED secured
      BY <1>1, <1>3, <1>4, <2>5 DEF OnHandler, OnShutdown, Moves, SessionsInv
    <3>2. QED
      BY <1>1, <1>2, <1>4, <2>1, <3>1, Zenon DEF SessionsInv, HandlerIsSecured
  <2>6. QED
    BY <2>2, <2>3, <2>4, <2>5 DEF RunSession, OnHandshake
<1>8. QED
  BY <1>5, <1>6, <1>7, PartsNext

LEMMA ListenerInitInv == ListenerInit => ListenerInv
<1> SUFFICES ASSUME ListenerInit PROVE ListenerInv
  OBVIOUS
<1>1. strand = <<>> /\ Len(strand) = 0 /\ strand \in Seq(Handlers) /\ Turns = {}
  BY DEF ListenerInit, Turns
<1>2. OneAccept
  BY <1>1 DEF ListenerInit, OneAccept
<1>3. \A c \in Conns : session[c] = "away" /\ ~Waiting(c)
  BY <1>1, Zenon DEF ListenerInit, Waiting
<1>4. LoopInv
  BY <1>1, <1>2, <1>3 DEF LoopInv
<1>5. SessionsInv
  BY <1>3 DEF ListenerInit, SessionsInv, HandlerIsSecured
<1>6. 0 \in 0..MaxShutdowns
  BY MaxShutdownsAssumption
<1>7. FlagsOK
  BY <1>6, Zenon DEF ListenerInit, FlagsOK
<1>8. QED
  BY <1>4, <1>5, <1>7, Parts

LEMMA ListenerNextInv == ListenerInv /\ [ListenerNext]_listenerVars => ListenerInv'
<1> SUFFICES ASSUME ListenerInv, [ListenerNext]_listenerVars PROVE ListenerInv'
  OBVIOUS
<1>1. CASE UNCHANGED listenerVars
  <2>0. Turns' = Turns
    BY <1>1, Zenon DEF listenerVars, Turns
  <2>1. ListenerTypeOK'
    BY <1>1, Zenon DEF listenerVars, ListenerInv, ListenerTypeOK, Handlers
  <2>2. OneAccept'
    BY <1>1, <2>0 DEF listenerVars, ListenerInv, OneAccept
  <2>3. ArrivedIsQueued' /\ HandlerIsSecured'
    BY <1>1, <2>0 DEF listenerVars, ListenerInv, ArrivedIsQueued, HandlerIsSecured
  <2>4. QED
    BY <2>1, <2>2, <2>3 DEF ListenerInv
<1>2. QED
  BY <1>1, PostKeeps, ArriveKeeps, StrandKeeps, SessionKeeps DEF ListenerNext

(* However shutdown, accepts and failures interleave, the accept loop has  *)
(* one accept under way until it ends, a connection that has arrived is    *)
(* queued for it exactly once, and a TLS listener's handlers run behind a  *)
(* handshake, whatever the connections and the number of shutdowns.        *)
THEOREM ListenerKeepsInvariant == ListenerSpec => []ListenerInv
<1>1. QED
  BY ListenerInitInv, ListenerNextInv, PTL DEF ListenerSpec

-----------------------------------------------------------------------------
(* The program: it drives the listener by the listener's own steps.        *)

LEMMA ListenerStepOrStutter ==
    ASSUME [ProgramNext]_serverVars
    PROVE  [ListenerNext]_listenerVars
<1>1. CASE UNCHANGED serverVars
  BY <1>1 DEF serverVars, listenerVars
<1>2. CASE ListenerStep \/ OwnShutdown \/ (FailAccept /\ UNCHANGED programVars)
  BY <1>2 DEF ListenerStep, OwnShutdown, ListenerNext
<1>3. ASSUME NEW c \in Conns, Accept(c)
      PROVE  ListenerNext
  BY <1>3 DEF Accept, ListenerNext
<1>4. ASSUME NEW c \in Conns, ClientStep(c)
      PROVE  [ListenerNext]_listenerVars
  BY <1>4 DEF ClientStep, StartConnect, OnClientConnect, OnClientConnectError, OnResponse,
              OnRequestError, OnClientShutdown, ListenerNext
<1>5. ASSUME NEW c \in Conns, ServerStep(c)
      PROVE  UNCHANGED listenerVars \/ RunSession(c)
  BY <1>5 DEF ServerStep, OnRequest, OnWritten, OnHandlerError, EnterHandler, ServeOther,
              FailHandshake, RunSession
<1>6. QED
  BY <1>1, <1>2, <1>3, <1>4, <1>5 DEF ProgramNext, ListenerNext

(* The program's listener is the listener: whatever clients, handlers and  *)
(* failures do, they reach it only by calls of async_accept and shutdown,  *)
(* connections, and the completions of its own operations.                 *)
THEOREM ProgramImplementsListener == ProgramSpec => ListenerSpec
<1>1. ProgramInit => ListenerInit
  BY DEF ProgramInit
<1>2. [ProgramNext]_serverVars => [ListenerNext]_listenerVars
  BY ListenerStepOrStutter
<1>3. QED
  BY <1>1, <1>2, PTL DEF ProgramSpec, ListenerSpec

-----------------------------------------------------------------------------
(* Both ends of a connection.                                              *)

Paired(c) ==
    /\ handler[c] # "none" <=> session[c] = "handler"
    /\ client[c] \notin {"shutdown", "ended"} => answered[c] < num_client_requests
    /\ ~fault[c] => InTurn(c)

ProgInv == ProgramTypeOK /\ ListenerInv /\ \A c \in Conns : Paired(c)

LEMMA ProgInvIs == ProgramInv <=> ProgInv /\ CountInv
BY DEF ProgramInv, ProgInv, Paired

LEMMA ProgInvIsNext == (ProgramInv <=> ProgInv /\ CountInv)'
BY DEF ProgramInv, ProgInv, Paired

(* What a step does not touch stays paired. *)
LEMMA Untouched ==
    ASSUME NEW c, Paired(c),
           client'[c] = client[c], answered'[c] = answered[c], wire'[c] = wire[c],
           handler'[c] = handler[c], keep'[c] = keep[c], fault'[c] = fault[c],
           \/ session'[c] = session[c]
           \/ /\ session[c] \notin {"handler", "shutdown", "ended"}
              /\ session'[c] \notin {"handler", "shutdown", "ended"}
           \/ session[c] = "shutdown" /\ session'[c] = "ended"
    PROVE  Paired(c)'
BY DEF Paired, InTurn

(* The listener's steps bring a connection at most up to its session. *)
LEMMA BeforeSession ==
    ASSUME ListenerInv,
           \/ AsyncAccept \/ Shutdown \/ FailAccept \/ RunStrand
           \/ \E c \in Conns : Arrive(c),
           NEW d \in Conns
    PROVE  \/ session'[d] = session[d]
           \/ session[d] \in {"away", "arrived"} /\ session'[d] \in {"arrived", "posted"}
<1>1. session \in [Conns -> {"away", "arrived", "posted", "handshake",
                             "handler", "shutdown", "ended"}]
  BY DEF ListenerInv, ListenerTypeOK
<1>2. CASE UNCHANGED session
  BY <1>2
<1>3. ASSUME NEW c \in Conns, Arrive(c)
      PROVE  \/ session'[d] = session[d]
             \/ session[d] = "away" /\ session'[d] = "arrived"
  BY <1>1, <1>3 DEF Arrive
<1>4. CASE RunAccepted
  <2>1. LoopInv /\ strand # <<>> /\ Head(strand).run = "accepted" /\ strand' = Tail(strand)
        /\ session' = [session EXCEPT ![Head(strand).conn] = "posted"]
        /\ strand \in Seq(Handlers)
    BY <1>4, Parts DEF RunAccepted, Runs, LoopTurn, LoopInv
  <2>2. PICK c \in Conns : Head(strand).conn = c /\ Head(strand) = Accepted(c)
    BY <2>1, Popped, HandlerKinds
  <2>3. session[c] = "arrived"
    BY <2>1, <2>2, TurnRun
  <2>4. QED
    BY <1>1, <2>1, <2>2, <2>3
<1>5. QED
  BY <1>2, <1>3, <1>4, Zenon DEF AsyncAccept, Shutdown, FailAccept, RunStrand, RunBegin,
                                 RunError, RunShutdown

LEMMA ListenerKeepsPairs ==
    ASSUME ProgInv, UNCHANGED programVars,
           \/ AsyncAccept \/ Shutdown \/ FailAccept \/ RunStrand
           \/ \E c \in Conns : Arrive(c)
    PROVE  ProgramTypeOK' /\ \A c \in Conns : Paired(c)'
<1>1. ProgramTypeOK'
  BY DEF ProgInv, ProgramTypeOK, programVars
<1>2. ASSUME NEW d \in Conns
      PROVE  \/ session'[d] = session[d]
             \/ session[d] \in {"away", "arrived"} /\ session'[d] \in {"arrived", "posted"}
  BY BeforeSession DEF ProgInv
<1>3. ASSUME NEW d \in Conns PROVE Paired(d)'
  BY <1>2, Untouched DEF ProgInv, programVars
<1>4. QED
  BY <1>1, <1>3

(* The step leaves the other connections alone. *)
Elsewhere(c) ==
    \A d \in Conns : d # c =>
        /\ client'[d] = client[d] /\ answered'[d] = answered[d] /\ wire'[d] = wire[d]
        /\ handler'[d] = handler[d] /\ keep'[d] = keep[d] /\ fault'[d] = fault[d]
        /\ session'[d] = session[d]

LEMMA OnlyHere ==
    ASSUME ProgInv, NEW c \in Conns, Elsewhere(c), Paired(c)'
    PROVE  \A d \in Conns : Paired(d)'
<1>1. ASSUME NEW d \in Conns, d # c PROVE Paired(d)'
  BY <1>1, Untouched DEF Elsewhere, ProgInv
<1>2. QED
  BY <1>1

(* A client's steps but for a response. *)
LEMMA ClientKeepsPairs ==
    ASSUME ProgInv, NEW c \in Conns,
           \/ StartConnect(c) \/ OnClientConnect(c) \/ OnClientConnectError(c)
           \/ OnRequestError(c) \/ OnClientShutdown(c)
    PROVE  ProgramTypeOK' /\ \A d \in Conns : Paired(d)'
<1> USE RequestsAssumption
<1>1. ProgramTypeOK /\ Paired(c)
  BY DEF ProgInv
<1>2. session' = session /\ answered' = answered /\ handler' = handler
  BY DEF StartConnect, OnClientConnect, OnClientConnectError, OnRequestError,
         OnClientShutdown, listenerVars
<1>3. CASE StartConnect(c)
  <2>1. ProgramTypeOK' /\ Elsewhere(c) /\ client[c] = "posted" /\ client'[c] = "connect"
    BY <1>1, <1>2, <1>3 DEF StartConnect, ProgramTypeOK, Elsewhere
  <2>2. Paired(c)'
    BY <1>1, <1>2, <1>3, <2>1, Zenon DEF StartConnect, Paired, InTurn
  <2>3. QED
    BY <2>1, <2>2, OnlyHere
<1>4. CASE OnClientConnect(c)
  <2> DEFINE first == 0 < num_client_requests - 1
  <2>1. /\ client[c] = "connect" /\ client' = [client EXCEPT ![c] = "request"]
        /\ wire' = [wire EXCEPT ![c] = "request"] /\ keep' = [keep EXCEPT ![c] = first]
        /\ UNCHANGED <<answered, req_count, handler, fault, stops>>
    BY <1>4 DEF OnClientConnect, SendRequest
  <2>2. first \in BOOLEAN
    OBVIOUS
  <2> HIDE DEF first
  <2>3. ProgramTypeOK'
    BY <1>1, <2>1, <2>2 DEF ProgramTypeOK
  <2>4. /\ Elsewhere(c) /\ client'[c] = "request" /\ wire'[c] = "request"
        /\ keep'[c] = first
    BY <1>1, <1>2, <2>1 DEF ProgramTypeOK, Elsewhere
  <2>5. Paired(c)'
    BY <1>1, <1>2, <2>1, <2>4, Zenon DEF Paired, InTurn, first
  <2>6. QED
    BY <2>3, <2>4, <2>5, OnlyHere
<1>5. CASE OnClientConnectError(c)
  <2>1. ProgramTypeOK' /\ Elsewhere(c) /\ client'[c] = "ended" /\ fault'[c] = TRUE
    BY <1>1, <1>2, <1>5 DEF OnClientConnectError, ProgramTypeOK, Elsewhere
  <2>2. Paired(c)'
    BY <1>1, <1>2, <2>1 DEF Paired
  <2>3. QED
    BY <2>1, <2>2, OnlyHere
<1>6. CASE OnRequestError(c)
  <2>1. ProgramTypeOK' /\ Elsewhere(c) /\ client'[c] = "shutdown" /\ fault'[c] = TRUE
    BY <1>1, <1>2, <1>6 DEF OnRequestError, ProgramTypeOK, Elsewhere
  <2>2. Paired(c)'
    BY <1>1, <1>2, <2>1 DEF Paired
  <2>3. QED
    BY <2>1, <2>2, OnlyHere
<1>7. CASE OnClientShutdown(c)
  <2>1. ProgramTypeOK' /\ Elsewhere(c) /\ client[c] = "shutdown" /\ client'[c] = "ended"
    BY <1>1, <1>2, <1>7 DEF OnClientShutdown, ProgramTypeOK, Elsewhere
  <2>2. Paired(c)'
    BY <1>1, <1>2, <1>7, <2>1 DEF OnClientShutdown, Paired, InTurn
  <2>3. QED
    BY <2>1, <2>2, OnlyHere
<1>8. QED
  BY <1>3, <1>4, <1>5, <1>6, <1>7

(* A response: the next request goes into a handler that reads, and after  *)
(* the last response the session has left its handler.                     *)
LEMMA ResponseKeepsPairs ==
    ASSUME ProgInv, NEW c \in Conns, OnResponse(c)
    PROVE  ProgramTypeOK' /\ \A d \in Conns : Paired(d)'
<1> USE RequestsAssumption
<1>1. /\ ProgramTypeOK /\ Paired(c) /\ answered[c] \in 0..num_client_requests
      /\ answered[c] < num_client_requests
  BY DEF ProgInv, Paired, OnResponse, ProgramTypeOK
<1>2. /\ client[c] = "request" /\ wire[c] = "response" /\ req_count' = req_count + 1
      /\ answered' = [answered EXCEPT ![c] = answered[c] + 1]
      /\ session' = session /\ handler' = handler /\ fault' = fault
      /\ stops' = stops + 1 \/ stops' = stops
  BY DEF OnResponse, Shutdown, listenerVars
<1>3. /\ req_count' \in Nat /\ stops' \in Nat
      /\ answered' \in [Conns -> 0..num_client_requests]
      /\ answered'[c] = answered[c] + 1
  BY <1>1, <1>2 DEF ProgramTypeOK
<1>4. CASE answered[c] + 1 < num_client_requests
  <2>1. /\ wire' = [wire EXCEPT ![c] = "request"] /\ client' = client
        /\ keep' = [keep EXCEPT ![c] = answered[c] + 1 < num_client_requests - 1]
    BY <1>4 DEF OnResponse, SendRequest
  <2>2. ProgramTypeOK'
    <3> DEFINE more == answered[c] + 1 < num_client_requests - 1
    <3>1. more \in BOOLEAN /\ keep' = [keep EXCEPT ![c] = more]
      BY <2>1
    <3> HIDE DEF more
    <3>2. /\ keep' \in [Conns -> BOOLEAN]
          /\ wire' \in [Conns -> {"none", "request", "response"}]
      BY <1>1, <2>1, <3>1 DEF ProgramTypeOK
    <3>3. QED
      BY <1>1, <1>2, <1>3, <2>1, <3>2, Zenon DEF ProgramTypeOK
  <2>3. /\ Elsewhere(c) /\ wire'[c] = "request"
        /\ keep'[c] = (answered'[c] < num_client_requests - 1)
    BY <1>1, <1>2, <1>3, <2>1 DEF ProgramTypeOK, Elsewhere
  <2>4. ~fault[c] => handler[c] = "read" /\ session[c] = "handler"
    <3>1. answered[c] < num_client_requests - 1
      BY <1>1, <1>4
    <3>2. QED
      BY <1>1, <1>2, <3>1, Zenon DEF Paired, InTurn
  <2>5. Paired(c)'
    BY <1>1, <1>2, <1>3, <1>4, <2>1, <2>3, <2>4, Zenon DEF Paired, InTurn
  <2>6. QED
    BY <2>2, <2>3, <2>5, OnlyHere
<1>5. CASE ~(answered[c] + 1 < num_client_requests)
  <2>1. /\ wire' = [wire EXCEPT ![c] = "none"] /\ client' = [client EXCEPT ![c] = "shutdown"]
        /\ keep' = keep
    BY <1>5 DEF OnResponse
  <2>2. ProgramTypeOK'
    BY <1>1, <1>2, <1>3, <2>1 DEF ProgramTypeOK
  <2>3. Elsewhere(c) /\ wire'[c] = "none" /\ client'[c] = "shutdown"
    BY <1>1, <1>2, <1>3, <2>1 DEF ProgramTypeOK, Elsewhere
  <2>4. ~fault[c] => session[c] \in {"shutdown", "ended"}
    <3>1. ~(answered[c] < num_client_requests - 1)
      BY <1>1, <1>5
    <3>2. QED
      BY <1>1, <1>2, <3>1, Zenon DEF Paired, InTurn
  <2>5. Paired(c)'
    BY <1>1, <1>2, <2>3, <2>4 DEF Paired, InTurn
  <2>6. QED
    BY <2>2, <2>3, <2>5, OnlyHere
<1>6. QED
  BY <1>4, <1>5

(* The steps of a session and of its handler. *)
LEMMA ServerKeepsPairs ==
    ASSUME ProgInv, NEW c \in Conns, ServerStep(c)
    PROVE  ProgramTypeOK' /\ \A d \in Conns : Paired(d)'
<1>1. /\ ProgramTypeOK /\ Paired(c)
      /\ session \in [Conns -> {"away", "arrived", "posted", "handshake",
                                "handler", "shutdown", "ended"}]
  BY DEF ProgInv, ListenerInv, ListenerTypeOK
<1>2. CASE OnRequest(c)
  <2>1. /\ ProgramTypeOK' /\ Elsewhere(c) /\ session' = session
        /\ handler[c] = "read" /\ handler'[c] = "write"
        /\ wire[c] = "request" /\ wire'[c] = "none"
        /\ UNCHANGED <<client, answered, keep, fault>>
    BY <1>1, <1>2 DEF OnRequest, listenerVars, ProgramTypeOK, Elsewhere
  <2>2. ~fault[c] => client[c] = "request"
    BY <1>1, <2>1 DEF Paired, InTurn, ProgramTypeOK
  <2>3. Paired(c)'
    BY <1>1, <2>1, <2>2 DEF Paired, InTurn
  <2>4. QED
    BY <2>1, <2>3, OnlyHere
<1>3. CASE OnWritten(c)
  <2>1. /\ handler[c] = "write" /\ session[c] = "handler"
        /\ wire' = [wire EXCEPT ![c] = "response"]
        /\ UNCHANGED <<client, answered, req_count, keep, fault, stops>>
    BY <1>1, <1>3 DEF OnWritten, Paired
  <2>2. ~fault[c] => client[c] = "request"
    BY <1>1, <2>1 DEF Paired, InTurn, ProgramTypeOK
  <2>3. CASE keep[c] /\ handler' = [handler EXCEPT ![c] = "read"] /\ session' = session
    <3>1. ProgramTypeOK' /\ Elsewhere(c) /\ handler'[c] = "read" /\ wire'[c] = "response"
      BY <1>1, <2>1, <2>3 DEF ProgramTypeOK, Elsewhere
    <3>2. Paired(c)'
      BY <1>1, <2>1, <2>2, <2>3, <3>1 DEF Paired, InTurn
    <3>3. QED
      BY <3>1, <3>2, OnlyHere
  <2>4. CASE /\ ~keep[c] /\ handler' = [handler EXCEPT ![c] = "none"]
             /\ session' = [session EXCEPT ![c] = "shutdown"]
    <3>1. /\ ProgramTypeOK' /\ Elsewhere(c) /\ handler'[c] = "none"
          /\ wire'[c] = "response" /\ session'[c] = "shutdown"
      BY <1>1, <2>1, <2>4 DEF ProgramTypeOK, Elsewhere
    <3>2. Paired(c)'
      BY <1>1, <2>1, <2>2, <2>4, <3>1 DEF Paired, InTurn
    <3>3. QED
      BY <3>1, <3>2, OnlyHere
  <2>5. QED
    BY <1>3, <2>3, <2>4 DEF OnWritten, OnHandler, Moves, listenerVars
<1>4. CASE OnHandlerError(c)
  <2>1. /\ handler' = [handler EXCEPT ![c] = "none"]
        /\ session' = [session EXCEPT ![c] = "shutdown"]
        /\ wire' = wire \/ wire' = [wire EXCEPT ![c] = "response"]
        /\ fault' = [fault EXCEPT ![c] = TRUE]
        /\ UNCHANGED <<client, answered, req_count, keep, stops>>
    BY <1>4 DEF OnHandlerError, OnHandler, Moves
  <2>2. /\ ProgramTypeOK' /\ Elsewhere(c) /\ handler'[c] = "none"
        /\ fault'[c] = TRUE /\ session'[c] = "shutdown"
    <3>1. ProgramTypeOK'
      BY <1>1, <2>1 DEF ProgramTypeOK
    <3>2. /\ Elsewhere(c) /\ handler'[c] = "none"
          /\ fault'[c] = TRUE /\ session'[c] = "shutdown"
      BY <1>1, <2>1 DEF ProgramTypeOK, Elsewhere
    <3>3. QED
      BY <3>1, <3>2
  <2>3. Paired(c)'
    BY <1>1, <2>1, <2>2 DEF Paired
  <2>4. QED
    BY <2>2, <2>3, OnlyHere
<1>5. CASE EnterHandler(c)
  <2>1. /\ session[c] \in {"posted", "handshake"}
        /\ session' = [session EXCEPT ![c] = "handler"]
        /\ handler' = [handler EXCEPT ![c] = "read"]
        /\ UNCHANGED <<client, answered, req_count, wire, keep, fault, stops>>
    BY <1>1, <1>5 DEF EnterHandler, Serve, OnHandshake, Moves
  <2>2. ProgramTypeOK' /\ Elsewhere(c) /\ handler'[c] = "read" /\ session'[c] = "handler"
    BY <1>1, <2>1 DEF ProgramTypeOK, Elsewhere
  <2>3. handler[c] = "none"
    BY <1>1, <2>1 DEF Paired
  <2>4. Paired(c)'
    BY <1>1, <2>1, <2>2, <2>3 DEF Paired, InTurn, ProgramTypeOK
  <2>5. QED
    BY <2>2, <2>4, OnlyHere
<1>6. CASE ServeOther(c)
  <2>1. /\ UNCHANGED programVars
        /\ \/ session[c] = "posted" /\ session' = [session EXCEPT ![c] = "handshake"]
           \/ session[c] = "shutdown" /\ session' = [session EXCEPT ![c] = "ended"]
    BY <1>6 DEF ServeOther, Serve, OnShutdown, Moves
  <2>2. ProgramTypeOK' /\ Elsewhere(c)
    BY <1>1, <2>1 DEF programVars, ProgramTypeOK, Elsewhere
  <2>3. \/ session[c] = "posted" /\ session'[c] = "handshake"
        \/ session[c] = "shutdown" /\ session'[c] = "ended"
    BY <1>1, <2>1
  <2>4. Paired(c)'
    BY <1>1, <2>1, <2>3, Untouched, Zenon DEF programVars
  <2>5. QED
    BY <2>2, <2>4, OnlyHere
<1>7. CASE FailHandshake(c)
  <2>1. /\ session[c] = "handshake" /\ session' = [session EXCEPT ![c] = "shutdown"]
        /\ fault' = [fault EXCEPT ![c] = TRUE]
        /\ UNCHANGED <<client, answered, req_count, wire, handler, keep, stops>>
    BY <1>1, <1>7 DEF FailHandshake, OnHandshake, Moves
  <2>2. /\ ProgramTypeOK' /\ Elsewhere(c) /\ fault'[c] = TRUE /\ session'[c] = "shutdown"
    BY <1>1, <2>1 DEF ProgramTypeOK, Elsewhere
  <2>3. Paired(c)'
    BY <1>1, <2>1, <2>2 DEF Paired
  <2>4. QED
    BY <2>2, <2>3, OnlyHere
<1>8. QED
  BY <1>2, <1>3, <1>4, <1>5, <1>6, <1>7 DEF ServerStep

-----------------------------------------------------------------------------
(* The counter.                                                            *)

(* The responses counted so far, as a finite set. *)
LEMMA ResponsesFinite ==
    /\ IsFiniteSet(Responses)
    /\ Responses \subseteq Conns \X (1..num_client_requests)
    /\ IsFiniteSet(Conns \X (1..num_client_requests))
    /\ Cardinality(Conns \X (1..num_client_requests)) = Total
<1>1. /\ IsFiniteSet(1..num_client_requests)
      /\ Cardinality(1..num_client_requests) = num_client_requests
  BY RequestsAssumption, FS_Interval
<1>2. /\ IsFiniteSet(Conns \X (1..num_client_requests))
      /\ Cardinality(Conns \X (1..num_client_requests)) = Total
  BY <1>1, ClientsAssumption, FS_Product, Zenon DEF Total
<1>3. Responses \subseteq Conns \X (1..num_client_requests)
  BY DEF Responses
<1>4. QED
  BY <1>2, <1>3, FS_Subset

(* A full counter: every client has had all its responses. *)
LEMMA AllAnswered ==
    ASSUME ProgramTypeOK, Cardinality(Responses) = Total, NEW c \in Conns
    PROVE  answered[c] = num_client_requests
<1>1. Responses = Conns \X (1..num_client_requests)
  BY ResponsesFinite, FS_Subset
<1>2. <<c, num_client_requests>> \in Responses
  BY <1>1, RequestsAssumption
<1>3. num_client_requests <= answered[c]
  BY <1>2 DEF Responses
<1>4. answered[c] \in 0..num_client_requests
  BY DEF ProgramTypeOK
<1>5. QED
  BY <1>3, <1>4, RequestsAssumption

(* One more response. *)
LEMMA CountsOne ==
    ASSUME ProgramTypeOK, NEW c \in Conns, answered[c] < num_client_requests,
           answered' = [answered EXCEPT ![c] = answered[c] + 1]
    PROVE  Cardinality(Responses') = Cardinality(Responses) + 1
<1> DEFINE new == <<c, answered[c] + 1>>
<1>1. \A d \in Conns : answered[d] \in 0..num_client_requests
  BY DEF ProgramTypeOK
<1>2. \A d \in Conns : answered'[d] = IF d = c THEN answered[c] + 1 ELSE answered[d]
  BY DEF ProgramTypeOK
<1>3. new \in Conns \X (1..num_client_requests) /\ new \notin Responses
  BY <1>1, RequestsAssumption DEF Responses
<1>4. ASSUME NEW d \in Conns, NEW n \in 1..num_client_requests
      PROVE  n <= answered'[d] <=> n <= answered[d] \/ <<d, n>> = new
  BY <1>1, <1>2, RequestsAssumption
<1>5. Responses' = {p \in Conns \X (1..num_client_requests) : p[2] <= answered'[p[1]]}
  BY DEF Responses
<1>6. Responses' = Responses \cup {new}
  <2> HIDE DEF new
  <2>1. ASSUME NEW d \in Conns, NEW n \in 1..num_client_requests
        PROVE  <<d, n>> \in Responses' <=> <<d, n>> \in Responses \cup {new}
    BY <1>4, <1>5 DEF Responses
  <2>2. \A p \in Conns \X (1..num_client_requests) :
           \E d \in Conns, n \in 1..num_client_requests : p = <<d, n>>
    OBVIOUS
  <2>3. \A p \in Conns \X (1..num_client_requests) :
           p \in Responses' <=> p \in Responses \cup {new}
    BY <2>1, <2>2
  <2>4. QED
    BY <1>3, <1>5, <2>3 DEF Responses
<1>7. QED
  BY <1>3, <1>6, ResponsesFinite, FS_AddElement, Zenon

(* A response counts one, and the client that fills the counter is the     *)
(* only one to stop the listener.                                          *)
LEMMA ResponseCounts ==
    ASSUME ProgInv, CountInv, NEW c \in Conns, OnResponse(c)
    PROVE  /\ req_count' = Cardinality(Responses')
           /\ stops' > 0 => req_count' = Total
<1>1. ProgramTypeOK /\ client[c] = "request" /\ answered[c] < num_client_requests
  BY Zenon DEF ProgInv, Paired, OnResponse
<1>2. /\ req_count' = req_count + 1 /\ req_count \in Nat /\ stops \in Nat
      /\ \/ req_count + 1 = Total
         \/ stops' = stops
  BY <1>1 DEF ProgramTypeOK, OnResponse, IsLast
<1>3. Cardinality(Responses') = Cardinality(Responses) + 1
  BY <1>1, CountsOne, Zenon DEF OnResponse
<1>4. req_count = Cardinality(Responses) /\ (stops > 0 => req_count = Total)
  BY DEF CountInv
<1>5. ~(stops > 0)
  <2> SUFFICES ASSUME stops > 0 PROVE FALSE
    OBVIOUS
  <2>1. answered[c] = num_client_requests
    BY <1>1, <1>4, AllAnswered
  <2>2. QED
    BY <1>1, <2>1, RequestsAssumption
<1>6. QED
  BY <1>2, <1>3, <1>4, <1>5

(* Nothing but a response changes the counts. *)
LEMMA OthersCountNone ==
    ASSUME [ProgramNext]_serverVars, \A c \in Conns : ~OnResponse(c)
    PROVE  UNCHANGED <<answered, req_count, stops>>
<1>1. CASE UNCHANGED serverVars
  BY <1>1 DEF serverVars
<1>2. CASE ListenerStep \/ OwnShutdown \/ (FailAccept /\ UNCHANGED programVars)
  BY <1>2 DEF ListenerStep, OwnShutdown, programVars
<1>3. ASSUME NEW c \in Conns, Accept(c) PROVE UNCHANGED <<answered, req_count, stops>>
  BY <1>3 DEF Accept, programVars
<1>4. ASSUME NEW c \in Conns, ClientStep(c) PROVE UNCHANGED <<answered, req_count, stops>>
  BY <1>4 DEF ClientStep, StartConnect, OnClientConnect, OnClientConnectError,
              OnRequestError, OnClientShutdown
<1>5. ASSUME NEW c \in Conns, ServerStep(c) PROVE UNCHANGED <<answered, req_count, stops>>
  BY <1>5 DEF ServerStep, OnRequest, OnWritten, OnHandlerError, EnterHandler, ServeOther,
              FailHandshake, programVars
<1>6. QED
  BY <1>1, <1>2, <1>3, <1>4, <1>5 DEF ProgramNext

Reached == {"handler", "shutdown", "ended"}

(* A session that has reached its handler stays behind it. *)
LEMMA ReachedStays ==
    ASSUME ProgInv, [ProgramNext]_serverVars, NEW d \in Conns, session[d] \in Reached
    PROVE  session'[d] \in Reached
<1>0. session \in [Conns -> {"away", "arrived", "posted", "handshake",
                             "handler", "shutdown", "ended"}]
  BY DEF ProgInv, ListenerInv, ListenerTypeOK
<1>1. [ListenerNext]_listenerVars /\ ListenerInv
  BY ListenerStepOrStutter DEF ProgInv
<1>2. CASE UNCHANGED listenerVars
  BY <1>2 DEF listenerVars
<1>3. CASE \/ AsyncAccept \/ Shutdown \/ FailAccept \/ RunStrand
           \/ \E c \in Conns : Arrive(c)
  BY <1>1, <1>3, BeforeSession DEF Reached
<1>4. ASSUME NEW c \in Conns, RunSession(c) PROVE session'[d] \in Reached
  <2>1. \E to \in Reached \cup {"handshake"} :
          /\ session' = [session EXCEPT ![c] = to]
          /\ to = "handshake" => session[c] = "posted"
    BY <1>4 DEF RunSession, Serve, OnHandshake, OnHandler, OnShutdown, Moves, Reached
  <2>2. QED
    BY <1>0, <2>1 DEF Reached
<1>5. QED
  BY <1>1, <1>2, <1>3, <1>4 DEF ListenerNext

(* A response is first seen on a connection whose session runs its handler. *)
LEMMA AnswersFromHandler ==
    ASSUME ProgInv, [ProgramNext]_serverVars, NEW d \in Conns,
           wire'[d] = "response" \/ answered'[d] > 0
    PROVE  wire[d] = "response" \/ answered[d] > 0 \/ session[d] = "handler"
<1>1. /\ wire \in [Conns -> {"none", "request", "response"}]
      /\ answered \in [Conns -> 0..num_client_requests]
      /\ handler[d] # "none" => session[d] = "handler"
  BY DEF ProgInv, ProgramTypeOK, Paired
<1>2. CASE UNCHANGED <<wire, answered>>
  BY <1>2, Zenon
<1>3. CASE UNCHANGED serverVars \/ ListenerStep \/ OwnShutdown
           \/ (FailAccept /\ UNCHANGED programVars)
  <2>1. UNCHANGED <<wire, answered>>
    BY <1>3 DEF serverVars, ListenerStep, OwnShutdown, programVars
  <2>2. QED
    BY <1>2, <2>1
<1>4. ASSUME NEW c \in Conns, Accept(c)
      PROVE  wire[d] = "response" \/ answered[d] > 0 \/ session[d] = "handler"
  BY <1>2, <1>4 DEF Accept, programVars
<1>5. ASSUME NEW c \in Conns, ClientStep(c)
      PROVE  wire[d] = "response" \/ answered[d] > 0 \/ session[d] = "handler"
  <2>1. CASE OnResponse(c)
    <3>1. wire[c] = "response" /\ answered' = [answered EXCEPT ![c] = answered[c] + 1]
      BY <2>1 DEF OnResponse
    <3>2. wire' = [wire EXCEPT ![c] = "request"] \/ wire' = [wire EXCEPT ![c] = "none"]
      BY <2>1 DEF OnResponse, SendRequest
    <3>3. QED
      BY <1>1, <3>1, <3>2
  <2>2. CASE OnClientConnect(c)
    <3>1. wire' = [wire EXCEPT ![c] = "request"] /\ answered' = answered
      BY <2>2 DEF OnClientConnect, SendRequest
    <3>2. QED
      BY <1>1, <3>1
  <2>3. CASE StartConnect(c) \/ OnClientConnectError(c) \/ OnRequestError(c)
             \/ OnClientShutdown(c)
    BY <1>2, <2>3 DEF StartConnect, OnClientConnectError, OnRequestError, OnClientShutdown
  <2>4. QED
    BY <1>5, <2>1, <2>2, <2>3 DEF ClientStep
<1>6. ASSUME NEW c \in Conns, ServerStep(c)
      PROVE  wire[d] = "response" \/ answered[d] > 0 \/ session[d] = "handler"
  <2>1. /\ answered' = answered
        /\ \/ wire' = wire
           \/ wire' = [wire EXCEPT ![c] = "none"]
           \/ wire' = [wire EXCEPT ![c] = "response"] /\ handler[c] # "none"
    BY <1>6 DEF ServerStep, OnRequest, OnWritten, OnHandlerError, EnterHandler, ServeOther,
                FailHandshake, programVars
  <2>2. QED
    BY <1>1, <2>1
<1>7. QED
  BY <1>3, <1>4, <1>5, <1>6 DEF ProgramNext

LEMMA CountStep ==
    ASSUME ProgInv, CountInv, [ProgramNext]_serverVars
    PROVE  CountInv'
<1>1. ASSUME NEW d \in Conns, wire'[d] = "response" \/ answered'[d] > 0
      PROVE  session'[d] \in {"handler", "shutdown", "ended"}
  <2>1. session[d] \in Reached
    BY <1>1, AnswersFromHandler DEF CountInv, Reached
  <2>2. QED
    BY <2>1, ReachedStays DEF Reached
<1>2. /\ req_count' = Cardinality(Responses')
      /\ stops' > 0 => req_count' = Total
  <2>1. CASE \E c \in Conns : OnResponse(c)
    BY <2>1, ResponseCounts
  <2>2. CASE \A c \in Conns : ~OnResponse(c)
    <3>1. Responses' = Responses /\ req_count' = req_count /\ stops' = stops
      BY <2>2, OthersCountNone DEF Responses
    <3>2. QED
      BY <3>1 DEF CountInv
  <2>3. QED
    BY <2>1, <2>2
<1>3. QED
  BY <1>1, <1>2 DEF CountInv, Total

LEMMA ProgramInitInv == ProgramInit => ProgramInv
<1> SUFFICES ASSUME ProgramInit PROVE ProgramInv
  OBVIOUS
<1>1. 0 \in 0..num_client_requests /\ 0 \in Nat /\ 0 < num_client_requests
  BY RequestsAssumption
<1>2. ProgramTypeOK
  BY <1>1, Zenon DEF ProgramInit, ProgramTypeOK
<1>3. ListenerInv
  BY ListenerInitInv DEF ProgramInit
<1>4. ASSUME NEW c \in Conns PROVE Paired(c)
  BY <1>1 DEF ProgramInit, ListenerInit, Paired, InTurn
<1>5. ProgInv
  BY <1>2, <1>3, <1>4, Zenon DEF ProgInv
<1>6. CountInv
  <2>1. Responses = {}
    BY RequestsAssumption DEF ProgramInit, Responses
  <2>2. Cardinality(Responses) = 0
    BY <2>1, FS_EmptySet
  <2>3. QED
    BY <2>2 DEF ProgramInit, CountInv
<1>7. QED
  BY <1>5, <1>6, ProgInvIs

LEMMA PairsStep ==
    ASSUME ProgInv, [ProgramNext]_serverVars
    PROVE  ProgInv'
<1>1. ListenerInv'
  BY ListenerStepOrStutter, ListenerNextInv DEF ProgInv
<1>2. CASE UNCHANGED serverVars
  <2>1. ProgramTypeOK'
    BY <1>2 DEF serverVars, ProgInv, ProgramTypeOK
  <2>2. \A c \in Conns : Paired(c)'
    BY <1>2, Untouched DEF serverVars, ProgInv
  <2>3. QED
    BY <1>1, <2>1, <2>2 DEF ProgInv
<1>3. CASE ListenerStep \/ OwnShutdown \/ (FailAccept /\ UNCHANGED programVars)
  BY <1>1, <1>3, ListenerKeepsPairs DEF ListenerStep, OwnShutdown, ProgInv
<1>4. ASSUME NEW c \in Conns, Accept(c) PROVE ProgInv'
  BY <1>1, <1>4, ListenerKeepsPairs DEF Accept, ProgInv
<1>5. ASSUME NEW c \in Conns, ClientStep(c) PROVE ProgInv'
  <2>1. ProgramTypeOK' /\ \A d \in Conns : Paired(d)'
    BY <1>5, ClientKeepsPairs, ResponseKeepsPairs DEF ClientStep
  <2>2. QED
    BY <1>1, <2>1 DEF ProgInv
<1>6. ASSUME NEW c \in Conns, ServerStep(c) PROVE ProgInv'
  <2>1. ProgramTypeOK' /\ \A d \in Conns : Paired(d)'
    BY <1>6, ServerKeepsPairs
  <2>2. QED
    BY <1>1, <2>1 DEF ProgInv
<1>7. QED
  BY <1>2, <1>3, <1>4, <1>5, <1>6 DEF ProgramNext

LEMMA ProgramNextInv == ProgramInv /\ [ProgramNext]_serverVars => ProgramInv'
BY PairsStep, CountStep, ProgInvIs, ProgInvIsNext, Zenon

(* For any connections, requests and shutdowns: the listener's invariant   *)
(* holds in the program, a handler runs exactly while its session is in    *)
(* it, client and handler take turns until an operation of one fails, and  *)
(* the shared counter holds the responses that the clients have had.       *)
THEOREM ProgramKeepsInvariant == ProgramSpec => []ProgramInv
<1>1. QED
  BY ProgramInitInv, ProgramNextInv, PTL DEF ProgramSpec

(* client_op and request_handler agree on the last request, for any number *)
(* of requests: without a failure no request meets a session that has left *)
(* its handler, and no session outlives its client's requests.             *)
THEOREM EndsAgreeOnLast == ProgramSpec => []LastIsAgreed
<1>1. ProgramInv => LastIsAgreed
  <2> SUFFICES ASSUME ProgramInv, NEW c \in Conns, ~fault[c]
               PROVE  /\ wire[c] = "request" => session[c] \notin {"shutdown", "ended"}
                      /\ client[c] \in {"shutdown", "ended"} =>
                           session[c] \in {"shutdown", "ended"}
    BY DEF LastIsAgreed
  <2>1. InTurn(c) /\ client[c] \in {"posted", "connect", "request", "shutdown", "ended"}
    BY DEF ProgramInv, ProgramTypeOK
  <2>2. QED
    BY <2>1 DEF InTurn
<1>2. QED
  BY <1>1, ProgramKeepsInvariant, PTL

(* The clients shut the listener down only behind the last response of all *)
(* of them, however many they are and in whatever order they end.          *)
THEOREM StopsBehindLast == ProgramSpec => []StopsAfterLast
<1>1. ProgramInv => StopsAfterLast
  <2> SUFFICES ASSUME ProgramInv, stops > 0, NEW c \in Conns
               PROVE  /\ answered[c] = num_client_requests
                      /\ session[c] \in {"handler", "shutdown", "ended"}
    BY Zenon DEF StopsAfterLast
  <2>1. ProgramTypeOK /\ CountInv
    BY DEF ProgramInv
  <2>2. Cardinality(Responses) = Total
    BY <2>1 DEF CountInv
  <2>3. answered[c] = num_client_requests
    BY <2>1, <2>2, AllAnswered
  <2>4. answered[c] > 0
    BY <2>3, RequestsAssumption
  <2>5. QED
    BY <2>1, <2>3, <2>4 DEF CountInv
<1>2. QED
  BY <1>1, ProgramKeepsInvariant, PTL
=============================================================================
