------------------------------ MODULE Listener ------------------------------
(***************************************************************************)
(* foxy::listener: the accept loop (accept_op) and shutdown run on the     *)
(* listener's strand, first in, first out; each accepted connection is     *)
(* served by a coroutine of its own (server_op) on its own strand.  The    *)
(* user keeps the listener alive until its loop has ended.                 *)
(***************************************************************************)
EXTENDS Naturals, Sequences

CONSTANTS
    Conns,         \* the connections that arrive
    MaxShutdowns   \* bound: calls of shutdown()

ASSUME MaxShutdownsAssumption == MaxShutdowns \in Nat

VARIABLES
    tls,         \* the listener was given an ssl::context
    open,        \* acceptor_.is_open()
    strand,      \* the handlers queued on the listener's strand
    loop,        \* accept_op: "new", "started", "ended"
    accepting,   \* an async_accept is pending
    shutdowns,   \* calls of shutdown() so far
    session,     \* where each connection is
    secured      \* its TLS handshake succeeded

listenerVars ==
    <<tls, open, strand, loop, accepting, shutdowns, session, secured>>

Handlers == {[run |-> r] : r \in {"begin", "shutdown", "failed", "aborted"}}
            \cup {[run |-> "accepted", conn |-> c] : c \in Conns}

ListenerTypeOK ==
    /\ tls \in BOOLEAN /\ open \in BOOLEAN /\ accepting \in BOOLEAN
    /\ strand \in Seq(Handlers)
    /\ loop \in {"new", "started", "ended"}
    /\ shutdowns \in 0..MaxShutdowns
    /\ session \in [Conns -> {"away", "arrived", "posted", "handshake",
                              "handler", "shutdown", "ended"}]
    /\ secured \in [Conns -> {FALSE, tls}]

ListenerInit ==
    /\ tls \in BOOLEAN
    /\ open = TRUE
    /\ strand = <<>>
    /\ loop = "new"
    /\ accepting = FALSE
    /\ shutdowns = 0
    /\ session = [c \in Conns |-> "away"]
    /\ secured = [c \in Conns |-> FALSE]

-----------------------------------------------------------------------------
(* The user.                                                               *)

(* async_accept posts the loop. *)
AsyncAccept ==
    /\ loop = "new"
    /\ loop' = "started"
    /\ strand' = Append(strand, [run |-> "begin"])
    /\ UNCHANGED <<tls, open, accepting, shutdowns, session, secured>>

(* shutdown() may come at any time, before async_accept too. *)
Shutdown ==
    /\ shutdowns < MaxShutdowns
    /\ shutdowns' = shutdowns + 1
    /\ strand' = Append(strand, [run |-> "shutdown"])
    /\ UNCHANGED <<tls, open, loop, accepting, session, secured>>

-----------------------------------------------------------------------------
(* The acceptor completes the pending accept. *)

Arrive(c) ==
    /\ accepting /\ session[c] = "away"
    /\ accepting' = FALSE
    /\ session' = [session EXCEPT ![c] = "arrived"]
    /\ strand' = Append(strand, [run |-> "accepted", conn |-> c])
    /\ UNCHANGED <<tls, open, loop, shutdowns, secured>>

FailAccept ==
    /\ accepting
    /\ accepting' = FALSE
    /\ strand' = Append(strand, [run |-> "failed"])
    /\ UNCHANGED <<tls, open, loop, shutdowns, session, secured>>

-----------------------------------------------------------------------------
(* The listener's strand.                                                  *)

Runs(r) == strand # <<>> /\ Head(strand).run = r

(* Mutant of LoopTurn: the acceptor is taken to be open. *)
LoopTurnUnchecked ==
    /\ strand' = Tail(strand)
    /\ accepting' = TRUE
    /\ UNCHANGED loop

(* while (acceptor.is_open()) *)
LoopTurn ==
    /\ strand' = Tail(strand)
    /\ accepting' = open
    /\ loop' = IF open THEN loop ELSE "ended"

RunBegin ==
    /\ Runs("begin")
    /\ LoopTurn
    /\ UNCHANGED <<tls, open, shutdowns, session, secured>>

(* Any error ends the loop. *)
RunError ==
    /\ Runs("failed") \/ Runs("aborted")
    /\ strand' = Tail(strand)
    /\ loop' = "ended"
    /\ UNCHANGED <<tls, open, accepting, shutdowns, session, secured>>

(* Mutant of RunAccepted: a connection that meets a closed acceptor is     *)
(* dropped.                                                                *)
RunAcceptedDrops ==
    /\ Runs("accepted")
    /\ session' = IF open THEN [session EXCEPT ![Head(strand).conn] = "posted"]
                  ELSE session
    /\ LoopTurn
    /\ UNCHANGED <<tls, open, shutdowns, secured>>

(* The session is made, the factory called and the server_op posted. *)
RunAccepted ==
    /\ Runs("accepted")
    /\ session' = [session EXCEPT ![Head(strand).conn] = "posted"]
    /\ LoopTurn
    /\ UNCHANGED <<tls, open, shutdowns, secured>>

(* Mutant of RunShutdown: the acceptor is cancelled and not closed. *)
RunShutdownCancels ==
    /\ Runs("shutdown")
    /\ strand' = Tail(strand) \o (IF accepting THEN <<[run |-> "aborted"]>> ELSE <<>>)
    /\ accepting' = FALSE
    /\ UNCHANGED <<tls, open, loop, shutdowns, session, secured>>

(* cancel() and close(): the pending accept is aborted. *)
RunShutdown ==
    /\ Runs("shutdown")
    /\ strand' = Tail(strand) \o (IF accepting THEN <<[run |-> "aborted"]>> ELSE <<>>)
    /\ accepting' = FALSE
    /\ open' = FALSE
    /\ UNCHANGED <<tls, loop, shutdowns, session, secured>>

RunStrand == RunBegin \/ RunError \/ RunAccepted \/ RunShutdown

-----------------------------------------------------------------------------
(* server_op.                                                              *)

Moves(c, from, to) ==
    /\ session[c] = from
    /\ session' = [session EXCEPT ![c] = to]
    /\ UNCHANGED <<tls, open, strand, loop, accepting, shutdowns>>

(* if (stream.is_ssl()): the handshake comes first. *)
Serve(c) ==
    /\ Moves(c, "posted", IF tls THEN "handshake" ELSE "handler")
    /\ UNCHANGED secured

(* A failed handshake goes straight to the shutdown. *)
OnHandshake(c) ==
    \/ /\ Moves(c, "handshake", "handler")
       /\ secured' = [secured EXCEPT ![c] = TRUE]
    \/ /\ Moves(c, "handshake", "shutdown")
       /\ UNCHANGED secured

(* The user's handler completes, with or without an error. *)
OnHandler(c) == Moves(c, "handler", "shutdown") /\ UNCHANGED secured

OnShutdown(c) == Moves(c, "shutdown", "ended") /\ UNCHANGED secured

RunSession(c) == Serve(c) \/ OnHandshake(c) \/ OnHandler(c) \/ OnShutdown(c)

ListenerNext ==
    \/ AsyncAccept
    \/ Shutdown
    \/ FailAccept
    \/ RunStrand
    \/ \E c \in Conns : Arrive(c) \/ RunSession(c)

ListenerSpec == ListenerInit /\ [][ListenerNext]_listenerVars

(* The strands run what is queued and the sessions' operations complete,   *)
(* if only by their timeout of 30 seconds; the user's handlers complete.   *)
FairListenerSpec ==
    /\ ListenerSpec
    /\ WF_listenerVars(RunStrand)
    /\ \A c \in Conns : WF_listenerVars(RunSession(c))

-----------------------------------------------------------------------------
(* Properties.                                                             *)

(* shutdown() ends the loop for good, whatever it races with: a pending    *)
(* accept, one whose completion is queued, or the start of the loop.       *)
ShutdownStops ==
    shutdowns > 0 /\ loop # "new" ~> [](loop = "ended" /\ ~accepting)

(* Every connection that arrived is served to its end, a shutdown between  *)
(* its arrival and its acceptance notwithstanding.                         *)
ArrivedIsServed ==
    \A c \in Conns : session[c] = "arrived" ~> session[c] = "ended"

(* The places in the queue of the handlers that resume the loop. *)
Turns == {i \in 1..Len(strand) : strand[i].run # "shutdown"}

(* The loop, as long as it has not ended, has exactly one accept under     *)
(* way, pending on an open acceptor or with its completion queued, and so  *)
(* the frame's one socket is never given away while an accept fills it.    *)
OneAccept ==
    /\ \A i, j \in Turns : i = j
    /\ accepting => open /\ Turns = {}
    /\ loop = "started" <=> accepting \/ Turns # {}

(* A connection that has arrived waits in the frame's socket until the     *)
(* loop takes it, once: a shutdown in between does not lose it.            *)
ArrivedIsQueued ==
    \A c \in Conns :
        session[c] = "arrived" <=> \E i \in Turns : strand[i] = [run |-> "accepted", conn |-> c]

(* A connection to a TLS listener reaches the user's handler only behind a *)
(* successful handshake, and there is none without TLS.                    *)
HandlerIsSecured ==
    \A c \in Conns : /\ session[c] = "handler" => secured[c] = tls
                     /\ session[c] = "handshake" => tls

(* However shutdowns, accepts and failures interleave on the strand, one   *)
(* accept is under way at a time, no connection is lost on its way to its  *)
(* session, and no handler runs on a connection that is not secured.       *)
ListenerInv == ListenerTypeOK /\ OneAccept /\ ArrivedIsQueued /\ HandlerIsSecured
=============================================================================
