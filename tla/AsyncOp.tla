------------------------------ MODULE AsyncOp ------------------------------
(***************************************************************************)
(* What a session promises for each of its asynchronous operations: once   *)
(* started, an operation is reported to its handler exactly once, with the *)
(* result its implementation produced, and not before that.  A user that   *)
(* does not overlap operations starts one only when none is pending.       *)
(***************************************************************************)
CONSTANTS Ops, Results, NoResult, Overlap

VARIABLES
    status,   \* "idle", "pending" or "called"
    produced, \* the result of the implementation, once there is one
    value,    \* the result the handler was called with
    reports   \* how often it was called

abstractVars == <<status, produced, value, reports>>

Init ==
    /\ status = [o \in Ops |-> "idle"]
    /\ produced = [o \in Ops |-> NoResult]
    /\ value = [o \in Ops |-> NoResult]
    /\ reports = [o \in Ops |-> 0]

(* The user starts o; an implementation may produce its result at once. *)
Start(o, r) ==
    /\ status[o] # "pending"
    /\ Overlap \/ \A p \in Ops : status[p] # "pending"
    /\ status' = [status EXCEPT ![o] = "pending"]
    /\ produced' = [produced EXCEPT ![o] = r]
    /\ value' = [value EXCEPT ![o] = NoResult]
    /\ reports' = [reports EXCEPT ![o] = 0]

Produce(o, r) ==
    /\ status[o] = "pending"
    /\ produced[o] = NoResult
    /\ produced' = [produced EXCEPT ![o] = r]
    /\ UNCHANGED <<status, value, reports>>

(* The handler is called with what the implementation produced. *)
Report(o) ==
    /\ status[o] = "pending"
    /\ produced[o] # NoResult
    /\ status' = [status EXCEPT ![o] = "called"]
    /\ value' = [value EXCEPT ![o] = produced[o]]
    /\ reports' = [reports EXCEPT ![o] = 1]
    /\ UNCHANGED produced

(* Both at once: a late result goes straight to the handler. *)
ProduceAndReport(o, r) ==
    /\ status[o] = "pending"
    /\ produced[o] = NoResult
    /\ status' = [status EXCEPT ![o] = "called"]
    /\ produced' = [produced EXCEPT ![o] = r]
    /\ value' = [value EXCEPT ![o] = r]
    /\ reports' = [reports EXCEPT ![o] = 1]

Next ==
    \E o \in Ops :
        \/ \E r \in Results \cup {NoResult} : Start(o, r)
        \/ \E r \in Results : Produce(o, r) \/ ProduceAndReport(o, r)
        \/ Report(o)

Spec == Init /\ [][Next]_abstractVars
=============================================================================
