------------------------------ MODULE TimedOp ------------------------------
(***************************************************************************)
(* detail::async_timer: the wrapper that puts every asynchronous operation *)
(* of a foxy session under the session's one steady_timer.                 *)
(*                                                                         *)
(* An operation has two asynchronous halves.  The implementation is the    *)
(* composed operation itself (a read, a connect, ...).  The wait is an     *)
(* async_wait on session.timer.  Both hold the shared `state`; whichever   *)
(* half finishes last frees it and invokes the user's handler.  If the     *)
(* wait finishes first, by reaching its deadline, it closes the stream so  *)
(* that the implementation has to give up.                                 *)
(*                                                                         *)
(* All handlers run on the handler's executor, one at a time and in any    *)
(* order among those that are ready.                                       *)
(***************************************************************************)
EXTENDS Naturals

CONSTANTS
    Ops,       \* the operations a user runs on one session
    Results,   \* what an implementation may report
    NoResult,  \* the empty boost::optional
    Timeout,   \* session.opts.timeout, in ticks
    Overlap,   \* whether the user starts an operation while another runs
    Elongate   \* whether the user touches the public session.timer meanwhile

ASSUME TimeoutAssumption == Timeout \in Nat
ASSUME ResultsAssumption == NoResult \notin Results
ASSUME UserAssumption == Overlap \in BOOLEAN /\ Elongate \in BOOLEAN

VARIABLES
    impl,      \* the composed operation of each op
    results,   \* state::results
    done,      \* state::done
    calls,     \* how often the user's handler ran since the op was initiated
    wait,      \* the async_wait of each op, "aborted" and "expired" are queued
    expiry,    \* ticks left until the timer's deadline
    elapsed    \* ticks since the op was initiated, while its wait is armed

vars == <<impl, results, done, calls, wait, expiry, elapsed>>

TypeOK ==
    /\ impl \in [Ops -> {"idle", "running", "finished"}]
    /\ results \in [Ops -> Results \cup {NoResult}]
    /\ done \in [Ops -> BOOLEAN]
    /\ calls \in [Ops -> Nat]
    /\ wait \in [Ops -> {"none", "armed", "aborted", "expired"}]
    /\ expiry \in 0..Timeout
    /\ elapsed \in [Ops -> 0..Timeout + 1]

Init ==
    /\ impl = [o \in Ops |-> "idle"]
    /\ results = [o \in Ops |-> NoResult]
    /\ done = [o \in Ops |-> FALSE]
    /\ calls = [o \in Ops |-> 0]
    /\ wait = [o \in Ops |-> "none"]
    /\ expiry = Timeout
    /\ elapsed = [o \in Ops |-> 0]

(* The op has been initiated and its handler has not run yet. *)
Pending(o) == impl[o] # "idle" /\ calls[o] = 0

-----------------------------------------------------------------------------
(* The steady_timer.                                                       *)

(* cancel() and expires_after() abort the waits that are still armed; a    *)
(* wait whose completion is already queued is out of their reach.          *)
AbortWaits(w) == [p \in Ops |-> IF w[p] = "armed" THEN "aborted" ELSE w[p]]

(* expires_after(opts.timeout) followed by async_wait for o. *)
ArmedFor(o, w) == [AbortWaits(w) EXCEPT ![o] = "armed"]

(* Time passes. *)
Tick ==
    /\ expiry > 0
    /\ expiry' = expiry - 1
    /\ elapsed' = [o \in Ops |-> IF wait[o] = "armed" /\ elapsed[o] <= Timeout
                                 THEN elapsed[o] + 1 ELSE elapsed[o]]
    /\ UNCHANGED <<impl, results, done, calls, wait>>

(* The deadline is reached: every armed wait is queued with success. *)
Expire ==
    /\ expiry = 0
    /\ \E o \in Ops : wait[o] = "armed"
    /\ wait' = [o \in Ops |-> IF wait[o] = "armed" THEN "expired" ELSE wait[o]]
    /\ UNCHANGED <<impl, results, done, calls, expiry, elapsed>>

(* The user moves the deadline of a running operation through the public   *)
(* session.timer.                                                          *)
ElongateTimer ==
    /\ Elongate
    /\ \E o \in Ops : wait[o] = "armed"
    /\ wait' = AbortWaits(wait)
    /\ expiry' = Timeout
    /\ UNCHANGED <<impl, results, done, calls, elapsed>>

-----------------------------------------------------------------------------
(* async_timer and the two call operators of its completion handler.       *)

MayInitiate(o) ==
    /\ ~Pending(o)
    /\ Overlap \/ \A p \in Ops : ~Pending(p)

(* Mutant of Initiate: no expires_after. *)
InitiateOldDeadline(o) ==
    /\ MayInitiate(o)
    /\ impl' = [impl EXCEPT ![o] = "running"]
    /\ results' = [results EXCEPT ![o] = NoResult]
    /\ done' = [done EXCEPT ![o] = FALSE]
    /\ calls' = [calls EXCEPT ![o] = 0]
    /\ wait' = [wait EXCEPT ![o] = "armed"]
    /\ elapsed' = [elapsed EXCEPT ![o] = 0]
    /\ UNCHANGED expiry

(* The initiating function arms the timer and starts the implementation,   *)
(* which goes asynchronous.                                                *)
Initiate(o) ==
    /\ MayInitiate(o)
    /\ impl' = [impl EXCEPT ![o] = "running"]
    /\ results' = [results EXCEPT ![o] = NoResult]
    /\ done' = [done EXCEPT ![o] = FALSE]
    /\ calls' = [calls EXCEPT ![o] = 0]
    /\ wait' = ArmedFor(o, wait)
    /\ expiry' = Timeout
    /\ elapsed' = [elapsed EXCEPT ![o] = 0]

(* The same, with an implementation that completes before the initiating   *)
(* function returns: done is set and the fresh wait cancelled at once.     *)
InitiateInline(o, r) ==
    /\ MayInitiate(o)
    /\ impl' = [impl EXCEPT ![o] = "finished"]
    /\ results' = [results EXCEPT ![o] = r]
    /\ done' = [done EXCEPT ![o] = TRUE]
    /\ calls' = [calls EXCEPT ![o] = 0]
    /\ wait' = AbortWaits(ArmedFor(o, wait))
    /\ expiry' = Timeout
    /\ elapsed' = [elapsed EXCEPT ![o] = 0]

(* Mutants of ImplComplete: done is not set; the handler is called although *)
(* the wait is outstanding.                                                 *)
ImplCompleteUnmarked(o, r) ==
    /\ impl[o] = "running"
    /\ impl' = [impl EXCEPT ![o] = "finished"]
    /\ results' = [results EXCEPT ![o] = r]
    /\ calls' = IF done[o] THEN [calls EXCEPT ![o] = @ + 1] ELSE calls
    /\ wait' = IF done[o] THEN wait ELSE AbortWaits(wait)
    /\ UNCHANGED <<done, expiry, elapsed>>

ImplCompleteEager(o, r) ==
    /\ impl[o] = "running"
    /\ impl' = [impl EXCEPT ![o] = "finished"]
    /\ results' = [results EXCEPT ![o] = r]
    /\ calls' = [calls EXCEPT ![o] = @ + 1]
    /\ done' = [done EXCEPT ![o] = TRUE]
    /\ wait' = IF done[o] THEN wait ELSE AbortWaits(wait)
    /\ UNCHANGED <<expiry, elapsed>>

(* operator()(Args...): the implementation completes with result r.        *)
ImplComplete(o, r) ==
    /\ impl[o] = "running"
    /\ impl' = [impl EXCEPT ![o] = "finished"]
    /\ results' = [results EXCEPT ![o] = r]
    /\ IF done[o]
       THEN /\ calls' = [calls EXCEPT ![o] = @ + 1]
            /\ UNCHANGED <<done, wait>>
       ELSE /\ done' = [done EXCEPT ![o] = TRUE]
            /\ wait' = AbortWaits(wait)
            /\ UNCHANGED calls
    /\ UNCHANGED <<expiry, elapsed>>

(* operator()(on_timer_t, ec), three ways.  The wait was aborted while the *)
(* implementation runs: arm it again with the full timeout.                *)
TimerRearm(o) ==
    /\ wait[o] = "aborted"
    /\ ~done[o]
    /\ wait' = ArmedFor(o, wait)
    /\ expiry' = Timeout
    /\ UNCHANGED <<impl, results, done, calls, elapsed>>

(* The implementation is done: hand its results to the user. *)
TimerDeliver(o) ==
    /\ wait[o] \in {"aborted", "expired"}
    /\ done[o]
    /\ wait' = [wait EXCEPT ![o] = "none"]
    /\ calls' = [calls EXCEPT ![o] = @ + 1]
    /\ UNCHANGED <<impl, results, done, expiry, elapsed>>

(* Mutant of TimerClose: done is not consulted. *)
TimerCloseUnchecked(o) ==
    /\ wait[o] = "expired"
    /\ wait' = [wait EXCEPT ![o] = "none"]
    /\ done' = [done EXCEPT ![o] = TRUE]
    /\ UNCHANGED <<impl, results, calls, expiry, elapsed>>

(* The time ran out: mark the op and close the stream. *)
TimerClose(o) ==
    /\ wait[o] = "expired"
    /\ ~done[o]
    /\ wait' = [wait EXCEPT ![o] = "none"]
    /\ done' = [done EXCEPT ![o] = TRUE]
    /\ UNCHANGED <<impl, results, calls, expiry, elapsed>>

OnTimer(o) == TimerRearm(o) \/ TimerDeliver(o) \/ TimerClose(o)

-----------------------------------------------------------------------------
Next ==
    \/ Tick
    \/ Expire
    \/ ElongateTimer
    \/ \E o \in Ops :
        \/ Initiate(o)
        \/ OnTimer(o)
        \/ \E r \in Results : InitiateInline(o, r) \/ ImplComplete(o, r)

Spec == Init /\ [][Next]_vars

(* The executor runs what is queued and time passes.  The peer owes        *)
(* nothing, but an implementation whose stream the timer closed does       *)
(* complete: the sockets abort their pending operations.                   *)
Fairness ==
    /\ WF_vars(Tick)
    /\ WF_vars(Expire)
    /\ \A o \in Ops :
        /\ WF_vars(OnTimer(o))
        /\ WF_vars(done[o] /\ \E r \in Results : ImplComplete(o, r))

FairSpec == Spec /\ Fairness

-----------------------------------------------------------------------------
(* Properties.                                                             *)

(* The states of the two halves of one operation, jointly.  Until the      *)
(* operation is reported exactly one side still has to act: a wait, armed  *)
(* or queued, or, once the timer has closed the stream, the running        *)
(* implementation alone.                                                   *)
OpCoherent(o) ==
    \/ /\ impl[o] = "idle" /\ results[o] = NoResult
       /\ calls[o] = 0 /\ wait[o] = "none"
    \/ /\ impl[o] = "running" /\ results[o] = NoResult
       /\ calls[o] = 0 /\ (done[o] <=> wait[o] = "none")
    \/ /\ impl[o] = "finished" /\ results[o] # NoResult /\ done[o]
       /\ \/ calls[o] = 0 /\ wait[o] \in {"aborted", "expired"}
          \/ calls[o] = 1 /\ wait[o] = "none"

(* The invariant behind the three that follow: the two call operators      *)
(* never see a combination of done, results and wait in which both, or     *)
(* neither, would deliver the results.                                     *)
Coherent == \A o \in Ops : OpCoherent(o)

(* A user that runs one operation at a time has at most one pending, and   *)
(* if the timer is left alone too, its wait is aborted only by its own     *)
(* completion.                                                             *)
OnePending ==
    ~Overlap => \A o, p \in Ops : Pending(o) /\ Pending(p) => o = p

AbortedOnlyWhenDone ==
    ~Overlap /\ ~Elongate => \A o \in Ops : wait[o] = "aborted" => done[o]

(* The handler runs at most once per operation, and only after the         *)
(* implementation reported: the two call operators, which race, agree      *)
(* through `done` on which of them delivers.                               *)
HandlerOnce ==
    \A o \in Ops : calls[o] > 0 => /\ calls[o] = 1
                                   /\ impl[o] = "finished"
                                   /\ results[o] # NoResult

(* When the handler runs, nothing else refers to the operation: neither a  *)
(* wait, armed or queued, nor a running implementation holds the state     *)
(* that has just been freed, and no stale wait can fire into what the      *)
(* handler starts next on the session.                                     *)
FreedBeforeUpcall ==
    \A o \in Ops : ~Pending(o) => wait[o] = "none" /\ impl[o] # "running"

(* As long as the user runs one operation at a time and leaves the timer   *)
(* alone, an armed wait fires exactly opts.timeout after the operation was *)
(* initiated: nothing in the wrapper restarts the clock.                   *)
DeadlineKept ==
    ~Overlap /\ ~Elongate =>
        \A o \in Ops : wait[o] = "armed" => elapsed[o] + expiry = Timeout

(* However operations that share the timer abort and re-arm one another's  *)
(* waits, and however the user moves its deadline, no operation is timed   *)
(* out before opts.timeout has passed since its own initiation.            *)
NeverEarly ==
    \A o \in Ops : /\ wait[o] = "armed" => elapsed[o] + expiry >= Timeout
                   /\ wait[o] = "expired" => elapsed[o] >= Timeout

(* The timer takes the stream away only from an operation that is still in *)
(* flight, never from one that has reported, and an operation it did not   *)
(* time out is never reported before its wait has been collected.          *)
CloseOnlyInFlight ==
    [][\A o \in Ops :
        /\ TimerClose(o) => Pending(o) /\ impl[o] = "running"
        /\ calls'[o] > calls[o] => wait'[o] = "none"]_vars

(* When every operation of the session is pending, at least one of them is *)
(* eventually reported: opts.timeout bounds them even if no peer answers.  *)
SomeOpReported ==
    (\A o \in Ops : Pending(o)) ~> (\E o \in Ops : ~Pending(o))

(* The wrapper implements the promise a session makes for its operations:  *)
(* the state's results are what has been produced, and the handler is      *)
(* called with them exactly once.                                          *)
Promise == INSTANCE AsyncOp WITH
    status <- [o \in Ops |-> IF impl[o] = "idle" THEN "idle"
                             ELSE IF calls[o] = 0 THEN "pending" ELSE "called"],
    produced <- results,
    value <- [o \in Ops |-> IF calls[o] = 0 THEN NoResult ELSE results[o]],
    reports <- calls

KeepsPromise == Promise!Spec
=============================================================================
