--------------------------- MODULE TimedOpProofs ---------------------------
(***************************************************************************)
(* Proofs about TimedOp, for any set of operations, any set of results and *)
(* any timeout.                                                            *)
(***************************************************************************)
EXTENDS TimedOp, TLAPS

(* expires_after and cancel only turn armed waits into aborted ones. *)
LEMMA AbortWaitsEffect ==
    ASSUME NEW w \in [Ops -> {"none", "armed", "aborted", "expired"}]
    PROVE  /\ AbortWaits(w) \in [Ops -> {"none", "aborted", "expired"}]
           /\ \A p \in Ops : (AbortWaits(w)[p] = "none" <=> w[p] = "none")
           /\ \A p \in Ops : w[p] # "armed" => AbortWaits(w)[p] = w[p]
BY DEF AbortWaits

(* Arming a wait for o leaves the other ops with a wait, or without one. *)
LEMMA ArmedForEffect ==
    ASSUME NEW w \in [Ops -> {"none", "armed", "aborted", "expired"}],
           NEW o \in Ops
    PROVE  /\ ArmedFor(o, w) \in [Ops -> {"none", "armed", "aborted", "expired"}]
           /\ ArmedFor(o, w)[o] = "armed"
           /\ \A p \in Ops \ {o} : /\ ArmedFor(o, w)[p] # "armed"
                                   /\ ArmedFor(o, w)[p] = "none" <=> w[p] = "none"
                                   /\ w[p] # "armed" => ArmedFor(o, w)[p] = w[p]
BY AbortWaitsEffect, Zenon DEF ArmedFor, AbortWaits

(* Every variable keeps its type: the values the wrapper's state, its      *)
(* waits and its timer can take.                                           *)
THEOREM TypeCorrect == Spec => []TypeOK
<1>1. Init => TypeOK
  BY TimeoutAssumption DEF Init, TypeOK
<1>2. TypeOK /\ [Next]_vars => TypeOK'
  <2> SUFFICES ASSUME TypeOK, [Next]_vars PROVE TypeOK'
    OBVIOUS
  <2> USE TimeoutAssumption DEF TypeOK
  <2>1. CASE Tick
    BY <2>1 DEF Tick
  <2>2. CASE Expire
    BY <2>2 DEF Expire
  <2>3. CASE ElongateTimer
    BY <2>3, AbortWaitsEffect DEF ElongateTimer
  <2>4. ASSUME NEW o \in Ops, Initiate(o) PROVE TypeOK'
    BY <2>4, ArmedForEffect DEF Initiate
  <2>5. ASSUME NEW o \in Ops, NEW r \in Results, InitiateInline(o, r)
        PROVE  TypeOK'
    BY <2>5, ArmedForEffect, AbortWaitsEffect DEF InitiateInline
  <2>6. ASSUME NEW o \in Ops, NEW r \in Results, ImplComplete(o, r)
        PROVE  TypeOK'
    <3>1. CASE done[o]
      BY <2>6, <3>1 DEF ImplComplete
    <3>2. CASE ~done[o]
      <4>1. /\ done' = [done EXCEPT ![o] = TRUE]
            /\ wait' = AbortWaits(wait)
            /\ UNCHANGED <<calls, expiry, elapsed>>
            /\ impl' = [impl EXCEPT ![o] = "finished"]
            /\ results' = [results EXCEPT ![o] = r]
        BY <2>6, <3>2 DEF ImplComplete
      <4>2. QED
        BY <4>1, AbortWaitsEffect
    <3>3. QED
      BY <3>1, <3>2
  <2>7. ASSUME NEW o \in Ops, OnTimer(o) PROVE TypeOK'
    <3>1. CASE TimerRearm(o)
      BY <3>1, ArmedForEffect DEF TimerRearm
    <3>2. CASE TimerDeliver(o)
      BY <3>2 DEF TimerDeliver
    <3>3. CASE TimerClose(o)
      BY <3>3 DEF TimerClose
    <3>4. QED
      BY <2>7, <3>1, <3>2, <3>3 DEF OnTimer
  <2>8. CASE UNCHANGED vars
    BY <2>8 DEF vars
  <2>9. QED
    BY <2>1, <2>2, <2>3, <2>4, <2>5, <2>6, <2>7, <2>8 DEF Next
<1>3. QED
  BY <1>1, <1>2, PTL DEF Spec

(* The two halves of every operation stay coherent through every           *)
(* interleaving of the implementation's completion, the timer's handler,   *)
(* other operations and the user's own use of the timer.                   *)
THEOREM AlwaysCoherent == Spec => []Coherent
<1>1. Init => Coherent
  BY Zenon DEF Init, Coherent, OpCoherent
<1>2. TypeOK /\ Coherent /\ [Next]_vars => Coherent'
  <2> SUFFICES ASSUME TypeOK, Coherent, [Next]_vars, NEW q \in Ops
               PROVE  OpCoherent(q)'
    BY DEF Coherent
  <2>0. OpCoherent(q)
    BY DEF Coherent
  <2> USE DEF TypeOK, OpCoherent
  <2>1. CASE Tick
    BY <2>0, <2>1 DEF Tick
  <2>2. CASE Expire
    BY <2>0, <2>2 DEF Expire
  <2>3. CASE ElongateTimer
    BY <2>0, <2>3 DEF ElongateTimer, AbortWaits
  <2>4. ASSUME NEW o \in Ops, Initiate(o) PROVE OpCoherent(q)'
    BY <2>0, <2>4, ArmedForEffect DEF Initiate
  <2>5. ASSUME NEW o \in Ops, NEW r \in Results, InitiateInline(o, r)
        PROVE  OpCoherent(q)'
    BY <2>0, <2>5, ResultsAssumption DEF InitiateInline, ArmedFor, AbortWaits
  <2>6. ASSUME NEW o \in Ops, NEW r \in Results, ImplComplete(o, r)
        PROVE  OpCoherent(q)'
    BY <2>0, <2>6, ResultsAssumption DEF ImplComplete, AbortWaits
  <2>7. ASSUME NEW o \in Ops, OnTimer(o) PROVE OpCoherent(q)'
    <3>1. CASE TimerRearm(o)
      BY <2>0, <3>1, ArmedForEffect DEF TimerRearm
    <3>2. CASE TimerDeliver(o)
      BY <2>0, <3>2 DEF TimerDeliver
    <3>3. CASE TimerClose(o)
      BY <2>0, <3>3 DEF TimerClose
    <3>4. QED
      BY <2>7, <3>1, <3>2, <3>3 DEF OnTimer
  <2>8. CASE UNCHANGED vars
    BY <2>0, <2>8 DEF vars
  <2>9. QED
    BY <2>1, <2>2, <2>3, <2>4, <2>5, <2>6, <2>7, <2>8 DEF Next
<1>3. QED
  BY <1>1, <1>2, TypeCorrect, PTL DEF Spec

(* The handler is invoked at most once, after the implementation reported. *)
THEOREM HandlerCalledOnce == Spec => []HandlerOnce
<1>1. TypeOK /\ Coherent => HandlerOnce
  BY DEF TypeOK, Coherent, OpCoherent, HandlerOnce
<1>2. QED
  BY <1>1, TypeCorrect, AlwaysCoherent, PTL

(* An operation that is not pending has left nothing behind: no wait and   *)
(* no running implementation still refers to its state.                    *)
THEOREM StateFreed == Spec => []FreedBeforeUpcall
<1>1. TypeOK /\ Coherent => FreedBeforeUpcall
  BY DEF TypeOK, Coherent, OpCoherent, FreedBeforeUpcall, Pending
<1>2. QED
  BY <1>1, TypeCorrect, AlwaysCoherent, PTL

(* The timer closes the stream only under an operation in flight, and the  *)
(* step that calls the handler leaves no wait of that operation behind.    *)
THEOREM ClosesOnlyInFlight == Spec => CloseOnlyInFlight
<1> DEFINE Step ==
      \A o \in Ops : /\ TimerClose(o) => Pending(o) /\ impl[o] = "running"
                     /\ calls'[o] > calls[o] => wait'[o] = "none"
<1>1. TypeOK /\ Coherent /\ TypeOK' /\ Coherent' => Step
  BY DEF TypeOK, Coherent, OpCoherent, Pending, TimerClose
<1>2. TypeOK /\ Coherent /\ TypeOK' /\ Coherent' /\ [Next]_vars => [Step]_vars
  BY <1>1
<1>3. QED
  BY <1>2, TypeCorrect, AlwaysCoherent, PTL DEF Spec, CloseOnlyInFlight

(* A user that runs one operation at a time never has two pending. *)
LEMMA OneAtATime == Spec => []OnePending
<1>1. Init => OnePending
  BY DEF Init, OnePending, Pending
<1>2. TypeOK /\ Coherent /\ OnePending /\ [Next]_vars => OnePending'
  <2> SUFFICES ASSUME TypeOK, Coherent, OnePending, [Next]_vars, ~Overlap
               PROVE  \A o, p \in Ops : Pending(o)' /\ Pending(p)' => o = p
    BY DEF OnePending
  <2>1. \A o, p \in Ops : Pending(o) /\ Pending(p) => o = p
    BY DEF OnePending
  <2> USE DEF TypeOK, Pending
  <2>2. ASSUME NEW o \in Ops, Initiate(o)
        PROVE  \A q, p \in Ops : Pending(q)' /\ Pending(p)' => q = p
    BY <2>2 DEF Initiate, MayInitiate
  <2>3. ASSUME NEW o \in Ops, NEW r \in Results, InitiateInline(o, r)
        PROVE  \A q, p \in Ops : Pending(q)' /\ Pending(p)' => q = p
    BY <2>3 DEF InitiateInline, MayInitiate
  <2>4. ASSUME NEW o \in Ops, NEW r \in Results, ImplComplete(o, r)
        PROVE  \A p \in Ops : Pending(p)' => Pending(p)
    BY <2>4 DEF ImplComplete
  <2>5. ASSUME NEW o \in Ops, OnTimer(o)
        PROVE  \A p \in Ops : Pending(p)' => Pending(p)
    BY <2>5 DEF OnTimer, TimerRearm, TimerDeliver, TimerClose
  <2>6. CASE Tick \/ Expire \/ ElongateTimer \/ UNCHANGED vars
    BY <2>1, <2>6 DEF Tick, Expire, ElongateTimer, vars
  <2>7. QED
    BY <2>1, <2>2, <2>3, <2>4, <2>5, <2>6 DEF Next
<1>3. QED
  BY <1>1, <1>2, TypeCorrect, AlwaysCoherent, PTL DEF Spec

(* With one pending operation, no other operation has a wait to disturb. *)
LEMMA OtherWaitsNone ==
    ASSUME TypeOK, Coherent, OnePending, ~Overlap,
           NEW o \in Ops, Pending(o)
    PROVE  \A p \in Ops \ {o} : wait[p] = "none"
BY DEF TypeOK, Coherent, OpCoherent, OnePending, Pending

(* With no pending operation, the timer has no waits at all. *)
LEMMA NoWaits ==
    ASSUME TypeOK, Coherent, \A o \in Ops : ~Pending(o)
    PROVE  \A p \in Ops : wait[p] = "none"
BY DEF TypeOK, Coherent, OpCoherent, Pending

(* For a user that runs one operation at a time and leaves the timer       *)
(* alone, a wait is aborted only by the completion of its own operation,   *)
(* so it is never re-armed, and fires opts.timeout after the initiation.   *)
THEOREM DeadlineIsKept == Spec => []DeadlineKept
<1> DEFINE Clock == DeadlineKept /\ AbortedOnlyWhenDone
<1>1. Init => Clock
  BY DEF Init, DeadlineKept, AbortedOnlyWhenDone
<1>2. TypeOK /\ Coherent /\ OnePending /\ Clock /\ [Next]_vars => Clock'
  <2> SUFFICES ASSUME TypeOK, Coherent, OnePending, Clock, [Next]_vars,
                      ~Overlap, ~Elongate, NEW q \in Ops
               PROVE  /\ wait'[q] = "armed" => elapsed'[q] + expiry' = Timeout
                      /\ wait'[q] = "aborted" => done'[q]
    BY DEF DeadlineKept, AbortedOnlyWhenDone
  <2> USE TimeoutAssumption DEF TypeOK
  <2>0. /\ wait[q] = "armed" => elapsed[q] + expiry = Timeout
        /\ wait[q] = "aborted" => done[q]
    BY DEF DeadlineKept, AbortedOnlyWhenDone
  <2>1. CASE Tick
    BY <2>0, <2>1 DEF Tick
  <2>2. CASE Expire
    BY <2>0, <2>2 DEF Expire
  <2>3. CASE ElongateTimer
    BY <2>3 DEF ElongateTimer
  <2>4. ASSUME NEW o \in Ops, Initiate(o)
        PROVE  /\ wait'[q] = "armed" => elapsed'[q] + expiry' = Timeout
               /\ wait'[q] = "aborted" => done'[q]
    <3>1. \A p \in Ops : wait[p] = "none"
      BY <2>4, NoWaits DEF Initiate, MayInitiate
    <3>2. CASE q = o
      BY <2>4, <3>2, ArmedForEffect DEF Initiate
    <3>3. CASE q # o
      <4>1. wait'[q] = "none"
        BY <2>4, <3>1, <3>3, ArmedForEffect DEF Initiate
      <4>2. QED
        BY <4>1
    <3>4. QED
      BY <3>2, <3>3
  <2>5. ASSUME NEW o \in Ops, NEW r \in Results, InitiateInline(o, r)
        PROVE  /\ wait'[q] = "armed" => elapsed'[q] + expiry' = Timeout
               /\ wait'[q] = "aborted" => done'[q]
    <3>1. \A p \in Ops : wait[p] = "none"
      BY <2>5, NoWaits DEF InitiateInline, MayInitiate
    <3>2. QED
      BY <2>5, <3>1 DEF InitiateInline, ArmedFor, AbortWaits
  <2>6. ASSUME NEW o \in Ops, NEW r \in Results, ImplComplete(o, r)
        PROVE  /\ wait'[q] = "armed" => elapsed'[q] + expiry' = Timeout
               /\ wait'[q] = "aborted" => done'[q]
    <3>1. Pending(o)
      BY <2>6 DEF ImplComplete, Pending, Coherent, OpCoherent
    <3>2. \A p \in Ops \ {o} : wait[p] = "none"
      BY <3>1, OtherWaitsNone
    <3>3. CASE done[o]
      BY <2>0, <2>6, <3>3 DEF ImplComplete
    <3>4. CASE ~done[o]
      <4>1. /\ done' = [done EXCEPT ![o] = TRUE]
            /\ wait' = AbortWaits(wait)
        BY <2>6, <3>4 DEF ImplComplete
      <4>2. wait'[q] # "armed" /\ (q # o => wait'[q] = "none")
        BY <3>2, <4>1, AbortWaitsEffect
      <4>3. QED
        BY <4>1, <4>2
    <3>5. QED
      BY <3>3, <3>4
  <2>7. ASSUME NEW o \in Ops, OnTimer(o)
        PROVE  /\ wait'[q] = "armed" => elapsed'[q] + expiry' = Timeout
               /\ wait'[q] = "aborted" => done'[q]
    <3>1. ~TimerRearm(o)
      BY DEF TimerRearm, AbortedOnlyWhenDone
    <3>2. QED
      BY <2>0, <2>7, <3>1 DEF OnTimer, TimerDeliver, TimerClose
  <2>8. CASE UNCHANGED vars
    BY <2>0, <2>8 DEF vars
  <2>9. QED
    BY <2>1, <2>2, <2>3, <2>4, <2>5, <2>6, <2>7, <2>8 DEF Next
<1>3. QED
  BY <1>1, <1>2, TypeCorrect, AlwaysCoherent, OneAtATime, PTL DEF Spec

(* However many operations share the timer and whatever the user does to   *)
(* it, no wait fires before the full timeout since its own operation was   *)
(* initiated: whoever moves the deadline aborts every armed wait, and an   *)
(* aborted wait is armed again with the full timeout.                      *)
THEOREM NeverTimedOutEarly == Spec => []NeverEarly
<1> DEFINE Late(o) == /\ wait[o] = "armed" => elapsed[o] + expiry >= Timeout
                      /\ wait[o] = "expired" => elapsed[o] >= Timeout
<1>1. Init => NeverEarly
  BY Zenon DEF Init, NeverEarly
<1>2. TypeOK /\ NeverEarly /\ [Next]_vars => NeverEarly'
  <2> SUFFICES ASSUME TypeOK, NeverEarly, [Next]_vars, NEW q \in Ops
               PROVE  Late(q)'
    BY DEF NeverEarly
  <2> USE TimeoutAssumption DEF TypeOK
  <2>0. Late(q)
    BY DEF NeverEarly
  <2>1. CASE Tick
    BY <2>0, <2>1 DEF Tick
  <2>2. CASE Expire
    BY <2>0, <2>2 DEF Expire
  <2>3. ASSUME wait' = AbortWaits(wait), UNCHANGED elapsed PROVE Late(q)'
    <3>1. wait'[q] # "armed" /\ (wait'[q] = "expired" => wait[q] = "expired")
      BY <2>3 DEF AbortWaits
    <3>2. QED
      BY <2>0, <2>3, <3>1
  <2>4. ASSUME NEW o \in Ops, wait' = ArmedFor(o, wait), expiry' = Timeout,
               elapsed' = elapsed \/ elapsed' = [elapsed EXCEPT ![o] = 0]
        PROVE  Late(q)'
    <3>1. CASE q = o
      BY <2>4, <3>1, ArmedForEffect
    <3>2. CASE q # o
      <4>1. /\ wait'[q] # "armed" /\ (wait'[q] = "expired" => wait[q] = "expired")
            /\ elapsed'[q] = elapsed[q]
        BY <2>4, <3>2 DEF ArmedFor, AbortWaits
      <4>2. QED
        BY <2>0, <4>1
    <3>3. QED
      BY <3>1, <3>2
  <2>5. ASSUME NEW o \in Ops, NEW r \in Results, InitiateInline(o, r)
        PROVE  Late(q)'
    BY <2>0, <2>5 DEF InitiateInline, ArmedFor, AbortWaits
  <2>6. ASSUME NEW o \in Ops, NEW r \in Results, ImplComplete(o, r)
        PROVE  Late(q)'
    BY <2>0, <2>3, <2>6 DEF ImplComplete
  <2>7. ASSUME NEW o \in Ops, TimerDeliver(o) \/ TimerClose(o) PROVE Late(q)'
    BY <2>0, <2>7 DEF TimerDeliver, TimerClose
  <2>8. CASE UNCHANGED vars
    BY <2>0, <2>8 DEF vars
  <2>9. QED
    BY <2>1, <2>2, <2>3, <2>4, <2>5, <2>6, <2>7, <2>8
       DEF Next, OnTimer, ElongateTimer, Initiate, TimerRearm
<1>3. QED
  BY <1>1, <1>2, TypeCorrect, PTL DEF Spec

(* The wrapper implements AsyncOp: every step of the two handlers and of   *)
(* the timer is a step of the promise, or leaves it unchanged.             *)
THEOREM WrapperKeepsPromise == Spec => KeepsPromise
<1> DEFINE st == [o \in Ops |-> IF impl[o] = "idle" THEN "idle"
                               ELSE IF calls[o] = 0 THEN "pending" ELSE "called"]
           va == [o \in Ops |-> IF calls[o] = 0 THEN NoResult ELSE results[o]]
<1>1. Init => Promise!Init
  BY DEF Init, Promise!Init
<1>2. TypeOK /\ Coherent /\ [Next]_vars => [Promise!Next]_(Promise!abstractVars)
  <2> SUFFICES ASSUME TypeOK, Coherent, [Next]_vars
               PROVE  Promise!Next \/ UNCHANGED <<st, results, va, calls>>
    BY DEF Promise!abstractVars
  <2> USE ResultsAssumption DEF TypeOK
  <2>1. CASE Tick \/ Expire \/ ElongateTimer \/ UNCHANGED vars
    BY <2>1 DEF Tick, Expire, ElongateTimer, vars
  <2>2. ASSUME NEW o \in Ops, Initiate(o) PROVE Promise!Start(o, NoResult)
    <3>1. st[o] # "pending" /\ (Overlap \/ \A p \in Ops : st[p] # "pending")
      BY <2>2 DEF Initiate, MayInitiate, Pending
    <3>2. st' = [st EXCEPT ![o] = "pending"] /\ va' = [va EXCEPT ![o] = NoResult]
      BY <2>2, Zenon DEF Initiate
    <3>3. /\ results' = [results EXCEPT ![o] = NoResult]
          /\ calls' = [calls EXCEPT ![o] = 0]
      BY <2>2 DEF Initiate
    <3>4. QED
      BY <3>1, <3>2, <3>3 DEF Promise!Start
  <2>3. ASSUME NEW o \in Ops, NEW r \in Results, InitiateInline(o, r)
        PROVE  Promise!Start(o, r)
    <3>1. st[o] # "pending" /\ (Overlap \/ \A p \in Ops : st[p] # "pending")
      BY <2>3 DEF InitiateInline, MayInitiate, Pending
    <3>2. st' = [st EXCEPT ![o] = "pending"] /\ va' = [va EXCEPT ![o] = NoResult]
      BY <2>3, Zenon DEF InitiateInline
    <3>3. /\ results' = [results EXCEPT ![o] = r]
          /\ calls' = [calls EXCEPT ![o] = 0]
      BY <2>3 DEF InitiateInline
    <3>4. QED
      BY <3>1, <3>2, <3>3 DEF Promise!Start
  <2>4. ASSUME NEW o \in Ops, NEW r \in Results, ImplComplete(o, r)
        PROVE  Promise!Produce(o, r) \/ Promise!ProduceAndReport(o, r)
    <3>1. /\ st[o] = "pending" /\ results[o] = NoResult /\ calls[o] = 0
          /\ results' = [results EXCEPT ![o] = r]
          /\ impl' = [impl EXCEPT ![o] = "finished"]
      BY <2>4 DEF ImplComplete, Coherent, OpCoherent
    <3>2. CASE done[o]
      <4>1. calls' = [calls EXCEPT ![o] = calls[o] + 1]
        BY <2>4, <3>2 DEF ImplComplete
      <4>2. calls' = [calls EXCEPT ![o] = 1]
        BY <3>1, <4>1
      <4>3. ASSUME NEW p \in Ops
            PROVE  /\ st'[p] = [st EXCEPT ![o] = "called"][p]
                   /\ va'[p] = [va EXCEPT ![o] = r][p]
        BY <3>1, <4>2
      <4>4. st' = [st EXCEPT ![o] = "called"] /\ va' = [va EXCEPT ![o] = r]
        BY <4>3, Zenon
      <4>5. QED
        BY <3>1, <4>2, <4>4 DEF Promise!ProduceAndReport
    <3>3. CASE ~done[o]
      <4>1. calls' = calls
        BY <2>4, <3>3 DEF ImplComplete
      <4>2. st' = st /\ va' = va
        BY <2>4, <3>1, <4>1 DEF ImplComplete
      <4>3. QED
        BY <3>1, <4>1, <4>2 DEF Promise!Produce
    <3>4. QED
      BY <3>2, <3>3
  <2>5. ASSUME NEW o \in Ops, TimerDeliver(o) PROVE Promise!Report(o)
    <3>1. st[o] = "pending" /\ results[o] # NoResult /\ calls[o] = 0
      BY <2>5 DEF TimerDeliver, Coherent, OpCoherent
    <3>2. calls' = [calls EXCEPT ![o] = calls[o] + 1] /\ UNCHANGED <<impl, results>>
      BY <2>5 DEF TimerDeliver
    <3>3. impl[o] # "idle" /\ calls' = [calls EXCEPT ![o] = 1]
      BY <3>1, <3>2
    <3>4. ASSUME NEW p \in Ops
          PROVE  /\ st'[p] = [st EXCEPT ![o] = "called"][p]
                 /\ va'[p] = [va EXCEPT ![o] = results[o]][p]
      BY <3>2, <3>3
    <3>5. st' = [st EXCEPT ![o] = "called"] /\ va' = [va EXCEPT ![o] = results[o]]
      BY <3>4, Zenon
    <3>6. QED
      BY <3>1, <3>2, <3>3, <3>5 DEF Promise!Report
  <2>6. ASSUME NEW o \in Ops, TimerRearm(o) \/ TimerClose(o)
        PROVE  UNCHANGED <<st, results, va, calls>>
    BY <2>6 DEF TimerRearm, TimerClose
  <2>7. QED
    BY <2>1, <2>2, <2>3, <2>4, <2>5, <2>6 DEF Next, OnTimer, Promise!Next
<1>3. QED
  BY <1>1, <1>2, TypeCorrect, AlwaysCoherent, PTL
     DEF Spec, KeepsPromise, Promise!Spec
=============================================================================
