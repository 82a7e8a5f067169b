------------------------------- MODULE Speak -------------------------------
(***************************************************************************)
(* foxy::speak: connect a client session, run the user's request handler   *)
(* as the implementation of an async_compose, shut the session down.  The  *)
(* handler is any composed operation: each time it is called it starts     *)
(* another operation of the session or completes.                          *)
(***************************************************************************)
EXTENDS Naturals

CONSTANTS
    Codes,     \* error codes; "ok" is no error
    MaxOps     \* bound: operations the handler starts

ASSUME CodesAssumption == "ok" \in Codes
ASSUME MaxOpsAssumption == MaxOps \in Nat

VARIABLES
    at,        \* what speak_op, or the handler, awaits
    connectEc, \* the result of async_connect
    told,      \* the error code the handler was last called with
    due,       \* the error code of the operation that led to this call
    ops        \* operations the handler has started

speakVars == <<at, connectEc, told, due, ops>>

SpeakTypeOK ==
    /\ at \in {"posted", "connect", "handler", "operation", "shutdown", "ended"}
    /\ connectEc \in Codes /\ told \in Codes /\ due \in Codes
    /\ ops \in 0..MaxOps

SpeakInit ==
    /\ at = "posted"
    /\ connectEc = "ok" /\ told = "ok" /\ due = "ok"
    /\ ops = 0

-----------------------------------------------------------------------------
BeginSpeak ==
    /\ at = "posted"
    /\ at' = "connect"
    /\ UNCHANGED <<connectEc, told, due, ops>>

(* std::bind fixes the arguments of every call of the handler: the result  *)
(* of the connect, and zero bytes.  What the completed operation passes is *)
(* dropped.                                                                *)
CallHandler(ec, bound) ==
    /\ at' = "handler"
    /\ due' = ec
    /\ told' = bound

(* async_compose makes the first call, whether the connect failed or not. *)
OnConnected(ec) ==
    /\ at = "connect"
    /\ connectEc' = ec
    /\ CallHandler(ec, ec)
    /\ UNCHANGED ops

StartOp ==
    /\ at = "handler"
    /\ ops < MaxOps
    /\ ops' = ops + 1
    /\ at' = "operation"
    /\ UNCHANGED <<connectEc, told, due>>

OnOp(ec) ==
    /\ at = "operation"
    /\ CallHandler(ec, connectEc)
    /\ UNCHANGED <<connectEc, ops>>

(* Mutant of HandlerCompletes: a failed connect is tried again. *)
HandlerCompletesRetries ==
    /\ at = "handler"
    /\ at' = IF connectEc = "ok" THEN "shutdown" ELSE "connect"
    /\ UNCHANGED <<connectEc, told, due, ops>>

(* self.complete: speak_op resumes and shuts the session down. *)
HandlerCompletes ==
    /\ at = "handler"
    /\ at' = "shutdown"
    /\ UNCHANGED <<connectEc, told, due, ops>>

OnShutdown ==
    /\ at = "shutdown"
    /\ at' = "ended"
    /\ UNCHANGED <<connectEc, told, due, ops>>

Proceed ==
    \/ BeginSpeak
    \/ \E ec \in Codes : OnConnected(ec) \/ OnOp(ec)
    \/ StartOp
    \/ HandlerCompletes
    \/ OnShutdown

SpeakNext == Proceed \/ (at = "ended" /\ UNCHANGED speakVars)

SpeakSpec == SpeakInit /\ [][SpeakNext]_speakVars

(* The session's operations complete; the handler completes, at the latest *)
(* after MaxOps operations.                                                *)
FairSpeakSpec == SpeakSpec /\ WF_speakVars(Proceed)

-----------------------------------------------------------------------------
(* Properties.                                                             *)

(* The session is shut down and speak comes to its end, whether or not the *)
(* connect succeeded.                                                      *)
SpeakEnds == <>(at = "ended")

(* A call of the handler carries the error code of the operation that the  *)
(* handler was waiting for.                                                *)
HandlerToldResult == at = "handler" => told = due
=============================================================================
