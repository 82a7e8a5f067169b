---------------------------- MODULE ProxyServer ----------------------------
(***************************************************************************)
(* foxy::proxy: the loop that accepts connections into the one member      *)
(* stream_ and hands each of them to a connection of its own, and cancel.  *)
(* Everything runs on the proxy's strand, first in, first out; an accept   *)
(* that completes, or is cancelled, queues its completion there.           *)
(***************************************************************************)
EXTENDS Naturals, Sequences

CONSTANT MaxArrivals   \* bound: connections that arrive

ASSUME MaxArrivalsAssumption == MaxArrivals \in Nat

VARIABLES
    strand,      \* the handlers queued
    loop,        \* accept_coro_: "new", "started", "ended"
    accepting,   \* an async_accept is pending
    stream,      \* stream_ holds an accepted connection
    arrivals,    \* connections the acceptor has taken
    spawned,     \* connections posted
    cancelled    \* cancel() has been called

proxyServerVars ==
    <<strand, loop, accepting, stream, arrivals, spawned, cancelled>>

Handlers == {"start", "cancel", "accepted", "failed", "aborted"}

ProxyServerTypeOK ==
    /\ strand \in Seq(Handlers)
    /\ loop \in {"new", "started", "ended"}
    /\ accepting \in BOOLEAN /\ stream \in BOOLEAN /\ cancelled \in BOOLEAN
    /\ arrivals \in 0..MaxArrivals
    /\ spawned \in 0..MaxArrivals

ProxyServerInit ==
    /\ strand = <<>>
    /\ loop = "new"
    /\ accepting = FALSE
    /\ stream = FALSE
    /\ arrivals = 0
    /\ spawned = 0
    /\ cancelled = FALSE

-----------------------------------------------------------------------------
(* async_accept(), which is meant to be called once: the coroutine posts   *)
(* itself to the strand.                                                   *)
AsyncAccept ==
    /\ loop = "new"
    /\ loop' = "started"
    /\ strand' = Append(strand, "start")
    /\ UNCHANGED <<accepting, stream, arrivals, spawned, cancelled>>

(* cancel(), once and after async_accept. *)
Cancel ==
    /\ loop # "new"
    /\ ~cancelled
    /\ cancelled' = TRUE
    /\ strand' = Append(strand, "cancel")
    /\ UNCHANGED <<loop, accepting, stream, arrivals, spawned>>

(* The acceptor completes the pending accept. *)
Arrive ==
    /\ accepting
    /\ arrivals < MaxArrivals
    /\ arrivals' = arrivals + 1
    /\ accepting' = FALSE
    /\ stream' = TRUE
    /\ strand' = Append(strand, "accepted")
    /\ UNCHANGED <<loop, spawned, cancelled>>

FailAccept ==
    /\ accepting
    /\ accepting' = FALSE
    /\ strand' = Append(strand, "failed")
    /\ UNCHANGED <<loop, stream, arrivals, spawned, cancelled>>

(* The strand runs its first handler, which is h. *)
Runs(h) == strand # <<>> /\ Head(strand) = h

(* self->acceptor_.cancel() reaches a pending accept, not a completed one. *)
RunCancel ==
    /\ Runs("cancel")
    /\ strand' = Tail(strand) \o (IF accepting THEN <<"aborted">> ELSE <<>>)
    /\ accepting' = FALSE
    /\ UNCHANGED <<loop, stream, arrivals, spawned, cancelled>>

(* The next turn of the loop. *)
AcceptNext ==
    /\ accepting' = TRUE
    /\ strand' = Tail(strand)

RunStart ==
    /\ Runs("start")
    /\ AcceptNext
    /\ UNCHANGED <<loop, stream, arrivals, spawned, cancelled>>

RunAborted ==
    /\ Runs("aborted")
    /\ strand' = Tail(strand)
    /\ loop' = "ended"
    /\ UNCHANGED <<accepting, stream, arrivals, spawned, cancelled>>

(* Mutant of RunFailed: the coroutine returns. *)
RunFailedReturns ==
    /\ Runs("failed")
    /\ strand' = Tail(strand)
    /\ UNCHANGED <<loop, accepting, stream, arrivals, spawned, cancelled>>

RunFailed ==
    /\ Runs("failed")
    /\ AcceptNext
    /\ UNCHANGED <<loop, stream, arrivals, spawned, cancelled>>

(* The stream is moved into a new connection. *)
RunAccepted ==
    /\ Runs("accepted")
    /\ spawned' = spawned + 1
    /\ stream' = FALSE
    /\ AcceptNext
    /\ UNCHANGED <<loop, arrivals, cancelled>>

(* The other handlers. *)
RunOther == RunCancel \/ RunStart \/ RunAborted \/ RunFailed

ServerStep ==
    \/ AsyncAccept
    \/ Cancel
    \/ Arrive
    \/ FailAccept
    \/ RunOther

-----------------------------------------------------------------------------
(* Properties.                                                             *)

(* The places in the queue of the handlers that resume the loop. *)
Turns == {i \in 1..Len(strand) : strand[i] # "cancel"}
Queued(h) == \E i \in 1..Len(strand) : strand[i] = h

(* The single stream_ is never shared: at most one accept is under way, to *)
(* be started, pending or with its completion queued, so that a connection *)
(* that has arrived is neither overwritten by the next nor lost to a       *)
(* cancel before it is handed on.                                          *)
StreamOwnedOnce ==
    /\ \A i, j \in Turns : i = j
    /\ accepting => Turns = {}
    /\ stream <=> Queued("accepted")
    /\ arrivals = spawned + (IF stream THEN 1 ELSE 0)

(* While the loop runs it is never stuck: an accept is pending or a        *)
(* handler that starts or ends one is queued; once ended it stays so.      *)
LoopAlive ==
    loop = "started" <=> accepting \/ Turns # {}

(* cancel() terminates the acceptance loop. *)
CancelStops == cancelled ~> loop = "ended"
=============================================================================
