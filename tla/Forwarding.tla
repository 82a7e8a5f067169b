---------------------------- MODULE Forwarding ----------------------------
(***************************************************************************)
(* What a relay promises its two peers.  A request is learned and passed   *)
(* on, its body in order; a response is looked for only behind a request   *)
(* that was passed on whole.  The exchange may break off anywhere, even    *)
(* with a mark of the end behind a part of a body, and then the connection *)
(* is not used again.  It persists only if both messages were passed on    *)
(* whole and both senders agreed to that.                                  *)
(***************************************************************************)
EXTENDS Integers, Sequences

CONSTANT MaxBody

Dirs == {"req", "res"}
Messages == [body : 0..MaxBody, marks : BOOLEAN, persists : BOOLEAN]
Unknown == [body |-> -1, marks |-> FALSE, persists |-> FALSE]

VARIABLES
    message,   \* each message, once its header is known
    passed,    \* the header has been passed on
    delivered, \* the units of the body that have been passed on
    marked,    \* a mark of the end, if the body has one, has been passed on
    whole,     \* the whole message has been passed on
    verdict    \* "open", "persist" or "close"

forwardingVars == <<message, passed, delivered, marked, whole, verdict>>

Init ==
    /\ \E m \in Messages \cup {Unknown} : message = [d \in Dirs |-> IF d = "req" THEN m ELSE Unknown]
    /\ passed = [d \in Dirs |-> FALSE]
    /\ delivered = [d \in Dirs |-> <<>>]
    /\ marked = [d \in Dirs |-> FALSE]
    /\ whole = [d \in Dirs |-> FALSE]
    /\ verdict = "open"

Learn(d) ==
    /\ message[d] = Unknown
    /\ d = "res" => whole["req"]
    /\ \E m \in Messages : message' = [message EXCEPT ![d] = m]
    /\ UNCHANGED <<passed, delivered, marked, whole, verdict>>

PassHeader(d) ==
    /\ message[d] # Unknown /\ ~passed[d]
    /\ passed' = [passed EXCEPT ![d] = TRUE]
    /\ UNCHANGED <<message, delivered, marked, whole, verdict>>

(* More of the body is passed on, perhaps all of it, with a mark of its    *)
(* end; that may be the last the relay does, and it is if the mark comes   *)
(* too early.                                                              *)
PassBody(d) ==
    /\ passed[d] /\ ~marked[d] /\ ~whole[d]
    /\ \E n \in Len(delivered[d])..message[d].body, end \in BOOLEAN, mark \in BOOLEAN :
        /\ mark => message[d].marks
        /\ end => n = message[d].body /\ (mark <=> message[d].marks)
        /\ delivered' = [delivered EXCEPT ![d] = [i \in 1..n |-> i]]
        /\ marked' = [marked EXCEPT ![d] = mark]
        /\ whole' = [whole EXCEPT ![d] = end]
        /\ \/ verdict' = "close"
           \/ verdict' = "open" /\ (mark => end)
           \/ /\ \A e \in Dirs : whole'[e] /\ message[e].persists
              /\ verdict' = "persist"
    /\ UNCHANGED <<message, passed>>

BreakOff ==
    /\ verdict' = "close"
    /\ UNCHANGED <<message, passed, delivered, marked, whole>>

Next ==
    /\ verdict = "open"
    /\ \/ BreakOff
       \/ \E d \in Dirs : Learn(d) \/ PassHeader(d) \/ PassBody(d)

Spec == Init /\ [][Next]_forwardingVars
=============================================================================
