------------------------------- MODULE Relay -------------------------------
(***************************************************************************)
(* detail::relay_op: one request is forwarded from the proxy's client      *)
(* (through the session `server`) to the remote (through the session       *)
(* `client`), then its response the other way.  Both directions are the    *)
(* same code with the sessions exchanged: read the header, rewrite and     *)
(* write it, then move the body through one fixed buffer, a read and a     *)
(* write at a time.                                                        *)
(*                                                                         *)
(* A body is a row of units numbered from 1; the buffer keeps what earlier *)
(* reads left in it.  A session operation completes with success or with   *)
(* an error, which may be the session's timeout.                           *)
(***************************************************************************)
EXTENDS HopByHop, Integers

CONSTANTS
    Cap,       \* state::buffer.size(), in units
    MaxBody,   \* bound: the longest body
    FieldLists \* the lists of fields that headers have

ASSUME CapAssumption == Cap \in Nat \ {0}
ASSUME BodyAssumption == MaxBody \in Nat
ASSUME FieldsAssumption ==
    FieldLists \subseteq Seq([name : STRING, spelled : STRING, tokens : SUBSET STRING])

Dirs == {"req", "res"}

(* A header: HTTP version, fields, the framing of the body and the body to *)
(* come.  A request's body is never delimited by the end of the            *)
(* connection.                                                             *)
Headers(d) ==
    [version : {10, 11}, fields : FieldLists,
     framing : {"length", "chunked"} \cup (IF d = "res" THEN {"eof"} ELSE {}),
     body : 0..MaxBody]

NoHeader == [version |-> 0]

(* message::keep_alive(), which looks at the version and at the first      *)
(* Connection field; what another one says does not count, nor does the    *)
(* framing.                                                                *)
KeepAlive(h) ==
    IF h.version = 11 THEN "close" \notin FirstOptions(h.fields)
                      ELSE "keep-alive" \in FirstOptions(h.fields)

(* Mutants of Rewritten: keep_alive(false) is forgotten; the fields are    *)
(* taken out last, with what was put in.                                   *)
RewrittenSilently(h, close) ==
    [h EXCEPT !.fields = Insert(export_connect_fields(@), FoxyVia)]

RewrittenLast(h, close) ==
    [h EXCEPT !.fields =
        export_connect_fields(
            Insert(IF close /\ h.version = 11 THEN Append(@, CloseOption) ELSE @,
                   FoxyVia))]

(* The hop-by-hop fields are taken out; keep_alive(false) puts a close     *)
(* into an HTTP/1.1 header and nothing into an older one; chunked(true)    *)
(* restores the framing that was taken out with Transfer-Encoding; and Via *)
(* is put in.                                                              *)
Rewritten(h, close) ==
    LET kept == export_connect_fields(h.fields)
        announced == IF close /\ h.version = 11 THEN Append(kept, CloseOption)
                                               ELSE kept
    IN  [h EXCEPT !.fields = Insert(announced, FoxyVia)]

VARIABLES
    pc,        \* <<d, step>>: where the coroutine is suspended
    hdr,       \* the header read, per direction
    out,       \* the header written, per direction
    got,       \* units of the body the parser has taken
    isDone,    \* parser.is_done()
    buffer,    \* state::buffer
    size,      \* body().size once the read is over
    sent,      \* the units written, per direction
    lastChunks, \* how many last chunks, "0 CRLF CRLF", have been written
    ended,     \* the loop over the body has ended with all of it written
    bodyEc,    \* state::ec: the read of the current turn failed
    closeTunnel, \* state::close_tunnel
    report     \* what the handler is called with

relayVars == <<pc, hdr, out, got, isDone, buffer, size, sent,
               lastChunks, ended, bodyEc, closeTunnel, report>>

Steps == {"readHeader", "forward", "writeHeader", "readBody", "writeBody"}
NoReport == [ec |-> "none", close |-> FALSE]

RelayTypeOK ==
    /\ pc \in (Dirs \X Steps) \cup {<<"req", "complete">>}
    /\ DOMAIN hdr = Dirs /\ DOMAIN out = Dirs
    /\ \A d \in Dirs :
        /\ hdr[d] \in Headers(d) \cup {NoHeader}
        /\ out[d] = NoHeader \/ \E close \in BOOLEAN : out[d] = Rewritten(hdr[d], close)
    /\ got \in [Dirs -> 0..MaxBody]
    /\ isDone \in [Dirs -> BOOLEAN]
    /\ buffer \in [1..Cap -> 0..MaxBody]
    /\ size \in 0..Cap
    /\ sent \in [Dirs -> Seq(0..MaxBody)]
    /\ lastChunks \in [Dirs -> 0..2]
    /\ ended \in [Dirs -> BOOLEAN]
    /\ bodyEc \in BOOLEAN /\ closeTunnel \in BOOLEAN
    /\ report \in [ec : {"none", "ok", "error"}, close : BOOLEAN]

(* A parser is done with its header if a length of zero says so. *)
DoneAtHeader(h) == h.framing = "length" /\ h.body = 0

(* Either the relay reads the request's header itself, or it is handed a   *)
(* parser that has read it.                                                *)
RelayInit ==
    /\ \/ /\ pc = <<"req", "readHeader">>
          /\ hdr = [d \in Dirs |-> NoHeader]
          /\ isDone = [d \in Dirs |-> FALSE]
       \/ /\ pc = <<"req", "forward">>
          /\ \E h \in Headers("req") :
              /\ hdr = [d \in Dirs |-> IF d = "req" THEN h ELSE NoHeader]
              /\ isDone = [d \in Dirs |-> d = "req" /\ DoneAtHeader(h)]
    /\ out = [d \in Dirs |-> NoHeader]
    /\ got = [d \in Dirs |-> 0]
    /\ buffer = [i \in 1..Cap |-> 0]
    /\ size = 0
    /\ sent = [d \in Dirs |-> <<>>]
    /\ lastChunks = [d \in Dirs |-> 0]
    /\ ended = [d \in Dirs |-> FALSE]
    /\ bodyEc = FALSE
    /\ closeTunnel = FALSE
    /\ report = NoReport

-----------------------------------------------------------------------------
Complete(ec, close) ==
    /\ pc' = <<"req", "complete">>
    /\ report' = [ec |-> ec, close |-> close]

(* goto upcall *)
Upcall(ec) == Complete(ec, TRUE)

-----------------------------------------------------------------------------
(* The header is read, or the read fails. *)
ReadHeader(d) ==
    /\ pc = <<d, "readHeader">>
    /\ \/ /\ Upcall("error")
          /\ UNCHANGED <<hdr, isDone>>
       \/ \E h \in Headers(d) :
          /\ hdr' = [hdr EXCEPT ![d] = h]
          /\ isDone' = [isDone EXCEPT ![d] = DoneAtHeader(h)]
          /\ pc' = <<d, "forward">>
          /\ UNCHANGED report
    /\ UNCHANGED <<out, got, buffer, size, sent, lastChunks, ended, bodyEc, closeTunnel>>

(* Mutant of Forward: the response's decision replaces the request's. *)
ForwardOverwrites(d) ==
    /\ pc = <<d, "forward">>
    /\ closeTunnel' = ~KeepAlive(hdr[d])
    /\ \/ /\ has_foxy_via(hdr[d].fields)
          /\ Upcall("ok")
          /\ UNCHANGED out
       \/ /\ ~has_foxy_via(hdr[d].fields)
          /\ out' = [out EXCEPT ![d] = Rewritten(hdr[d], ~KeepAlive(hdr[d]))]
          /\ pc' = <<d, "writeHeader">>
          /\ UNCHANGED report
    /\ UNCHANGED <<hdr, got, isDone, buffer, size, sent, lastChunks, ended, bodyEc>>

(* A message that went through foxy before is not forwarded again. *)
Forward(d) ==
    LET close == closeTunnel \/ ~KeepAlive(hdr[d]) IN
    /\ pc = <<d, "forward">>
    /\ closeTunnel' = close
    /\ \/ /\ has_foxy_via(hdr[d].fields)
          /\ Upcall("ok")
          /\ UNCHANGED out
       \/ /\ ~has_foxy_via(hdr[d].fields)
          /\ out' = [out EXCEPT ![d] = Rewritten(hdr[d], close)]
          /\ pc' = <<d, "writeHeader">>
          /\ UNCHANGED report
    /\ UNCHANGED <<hdr, got, isDone, buffer, size, sent, lastChunks, ended, bodyEc>>

(* The top of the body loop: a read, unless the parser is done, in which   *)
(* case an empty write follows.                                            *)
TurnStarts(d) ==
    /\ bodyEc' = FALSE
    /\ size' = IF isDone[d] THEN 0 ELSE size
    /\ pc' = <<d, IF isDone[d] THEN "writeBody" ELSE "readBody">>

WriteHeader(d) ==
    /\ pc = <<d, "writeHeader">>
    /\ \/ Upcall("error") /\ UNCHANGED <<bodyEc, size>>
       \/ TurnStarts(d) /\ UNCHANGED report
    /\ UNCHANGED <<hdr, out, got, isDone, buffer, sent, lastChunks, ended, closeTunnel>>

(* Mutant of ReadBody: body().size is left at the buffer's. *)
ReadBodyFullSize(d) ==
    /\ pc = <<d, "readBody">>
    /\ \E n \in 0..Cap :
        /\ n <= hdr[d].body - got[d]
        /\ isDone' = [isDone EXCEPT ![d] = (n = hdr[d].body - got[d])]
        /\ size' = Cap
        /\ buffer' = [i \in 1..Cap |-> IF i <= n THEN got[d] + i ELSE buffer[i]]
        /\ got' = [got EXCEPT ![d] = @ + n]
    /\ pc' = <<d, "writeBody">>
    /\ UNCHANGED <<hdr, out, sent, lastChunks, ended, bodyEc, closeTunnel, report>>

(* async_read into the buffer takes n units.  It succeeds at the end of    *)
(* the body, needs a new buffer when this one is full, and fails anywhere  *)
(* in between; what it took is written in every case.                      *)
ReadBody(d) ==
    /\ pc = <<d, "readBody">>
    /\ \E n \in 0..Cap, ec \in {"ok", "needBuffer", "error"} :
        LET left == hdr[d].body - got[d] IN
        /\ n <= left
        /\ ec = "ok" => n = left
        /\ ec = "needBuffer" => n = Cap /\ n < left
        /\ ec = "error" /\ hdr[d].framing = "length" => n < left
        /\ isDone' = [isDone EXCEPT ![d] = (ec = "ok")]
        /\ bodyEc' = (ec = "error")
        /\ size' = n
        /\ buffer' = [i \in 1..Cap |-> IF i <= n THEN got[d] + i ELSE buffer[i]]
        /\ got' = [got EXCEPT ![d] = @ + n]
    /\ pc' = <<d, "writeBody">>
    /\ UNCHANGED <<hdr, out, sent, lastChunks, ended, closeTunnel, report>>

(* The last chunks that a write of the buffer makes of a chunked body.     *)
(* Beast's serializer puts one behind the end, which body().more tells it; *)
(* and the chunk it makes of an empty buffer is one, whatever more says.   *)
LastChunksOf(d) ==
    IF hdr[d].framing # "chunked" THEN 0
    ELSE (IF size = 0 THEN 1 ELSE 0) + (IF isDone[d] THEN 1 ELSE 0)

(* Mutant of WriteBody: the loop does not stop at a failed read. *)
WriteBodyRetries(d) ==
    /\ pc = <<d, "writeBody">>
    /\ sent' = [sent EXCEPT ![d] = @ \o SubSeq(buffer, 1, size)]
    /\ lastChunks' = [lastChunks EXCEPT ![d] = LastChunksOf(d)]
    /\ ended' = [ended EXCEPT ![d] = isDone[d]]
    /\ \/ ~isDone[d] /\ TurnStarts(d) /\ UNCHANGED report
       \/ isDone[d] /\ Complete("ok", closeTunnel) /\ UNCHANGED <<bodyEc, size>>
    /\ UNCHANGED <<hdr, out, got, isDone, buffer, closeTunnel>>

(* async_write of the buffer, whole or, if it fails, in part, and the      *)
(* bottom of the loop.  What a failed read has left in the buffer, even    *)
(* nothing, is written as well, and the error the handler gets is the      *)
(* write's, not the read's.  After the request comes the response, after   *)
(* the response the relay is over.                                         *)
WriteBody(d) ==
    /\ pc = <<d, "writeBody">>
    /\ \/ \E n \in 0..size, k \in 0..1 :
          /\ k = 1 => n = size /\ LastChunksOf(d) = 2
          /\ sent' = [sent EXCEPT ![d] = @ \o SubSeq(buffer, 1, n)]
          /\ lastChunks' = [lastChunks EXCEPT ![d] = @ + k]
          /\ Upcall("error")
          /\ UNCHANGED <<ended, bodyEc, size>>
       \/ /\ sent' = [sent EXCEPT ![d] = @ \o SubSeq(buffer, 1, size)]
          /\ lastChunks' = [lastChunks EXCEPT ![d] = @ + LastChunksOf(d)]
          /\ ended' = [ended EXCEPT ![d] = isDone[d]]
          /\ IF ~bodyEc /\ ~isDone[d]
             THEN TurnStarts(d) /\ UNCHANGED report
             ELSE /\ IF bodyEc THEN Upcall("ok")
                     ELSE IF d = "res" THEN Complete("ok", closeTunnel)
                     ELSE pc' = <<"res", "readHeader">> /\ UNCHANGED report
                  /\ UNCHANGED <<bodyEc, size>>
    /\ UNCHANGED <<hdr, out, got, isDone, buffer, closeTunnel>>

RelayStep ==
    \E d \in Dirs : \/ ReadHeader(d)
                    \/ Forward(d)
                    \/ WriteHeader(d)
                    \/ ReadBody(d)
                    \/ WriteBody(d)

Completed == pc = <<"req", "complete">>

RelayNext == RelayStep \/ (Completed /\ UNCHANGED relayVars)

RelaySpec == RelayInit /\ [][RelayNext]_relayVars

(* Every operation of a session completes, if only by its timeout. *)
FairRelaySpec == RelaySpec /\ WF_relayVars(RelayStep)

-----------------------------------------------------------------------------
(* Properties.                                                             *)

Units(n) == [i \in 1..n |-> i]
Whole(d) == hdr[d] # NoHeader /\ sent[d] = Units(hdr[d].body)
Persists == report.ec = "ok" /\ ~report.close

(* What is written of a body is what was read of it, in order, without a   *)
(* gap, a repetition or a leftover of the buffer's earlier contents, even  *)
(* when the relay breaks off.                                              *)
SentInOrder ==
    \A d \in Dirs : /\ sent[d] = Units(Len(sent[d]))
                    /\ Len(sent[d]) <= got[d]

(* What the receiver of a chunked body takes for its end stands behind the *)
(* whole of it, once, or twice if the body is empty.  The exception is a   *)
(* read that fails with nothing in the buffer: a part of the body is then  *)
(* closed like a whole one, and no error is reported, but the relay breaks *)
(* off with this write.                                                    *)
Marked(d) ==
    /\ ended[d] => /\ Whole(d)
                   /\ lastChunks[d] = IF hdr[d].framing # "chunked" THEN 0
                                      ELSE IF hdr[d].body = 0 THEN 2 ELSE 1
    /\ lastChunks[d] > 0 /\ ~Whole(d) => report = [ec |-> "ok", close |-> TRUE]
    /\ lastChunks[d] > 0 => hdr[d].framing = "chunked"

EndMeansWhole == \A d \in Dirs : Marked(d)

(* The response is asked for only when the whole request has gone out, and *)
(* only a response whose request has gone out is forwarded.                *)
ResponseFollowsRequest ==
    hdr["res"] # NoHeader => ended["req"] /\ out["req"] # NoHeader

(* A relay that lets the tunnel persist has forwarded both messages        *)
(* completely, and the first Connection field of neither had asked for the *)
(* connection to be closed.                                                *)
PersistMeansWhole ==
    Persists => \A d \in Dirs : Whole(d) /\ ended[d] /\ KeepAlive(hdr[d])

(* How far a direction has got, where the coroutine is suspended in it:    *)
(* what the parser has taken is what has been sent and, before a write,    *)
(* what the buffer holds.                                                  *)
Progress(d, step) ==
    /\ ~ended[d] /\ lastChunks[d] = 0
    /\ hdr[d] = NoHeader <=> step = "readHeader"
    /\ out[d] = NoHeader <=> step \in {"readHeader", "forward"}
    /\ got[d] = Len(sent[d]) + (IF step = "writeBody" THEN size ELSE 0)
    /\ step \notin {"readBody", "writeBody"} => got[d] = 0
    /\ hdr[d] # NoHeader => /\ got[d] <= hdr[d].body
                            /\ isDone[d] => got[d] = hdr[d].body
    /\ step = "readBody" => ~isDone[d] /\ (got[d] = 0 \/ got[d] < hdr[d].body)
    /\ step = "writeBody" =>
        /\ \A i \in 1..size : buffer[i] = Len(sent[d]) + i
        /\ isDone[d] => ~bodyEc /\ (size = 0 => hdr[d].body = 0)
        /\ ~isDone[d] /\ ~bodyEc => size > 0 /\ got[d] < hdr[d].body
    /\ out[d] # NoHeader /\ ~closeTunnel => KeepAlive(hdr[d])

Untouched(d) ==
    /\ hdr[d] = NoHeader /\ out[d] = NoHeader
    /\ got[d] = 0 /\ sent[d] = <<>> /\ lastChunks[d] = 0 /\ ~ended[d]

(* The other direction, then, has not begun, or is complete. *)
Suspended(d, step) ==
    /\ Progress(d, step)
    /\ d = "req" => Untouched("res")
    /\ d = "res" => /\ ended["req"] /\ out["req"] # NoHeader
                    /\ ~closeTunnel => KeepAlive(hdr["req"])

BodyInv ==
    /\ RelayTypeOK
    /\ SentInOrder
    /\ EndMeansWhole
    /\ ResponseFollowsRequest
    /\ PersistMeansWhole
    /\ Completed <=> report.ec # "none"
    /\ \A d \in Dirs, step \in Steps : pc = <<d, step>> => Suspended(d, step)

(* A header is forwarded with the decision that stood when it was: the     *)
(* request's sender makes it, then either sender, and nobody takes it      *)
(* back.  A tunnel whose response is complete is closed only by it.        *)
HeaderInv ==
    /\ \A d \in Dirs : out[d] # NoHeader =>
        /\ hdr[d] # NoHeader /\ ~has_foxy_via(hdr[d].fields)
        /\ ~KeepAlive(hdr[d]) => closeTunnel
    /\ out["req"] # NoHeader => out["req"] = Rewritten(hdr["req"], ~KeepAlive(hdr["req"]))
    /\ out["res"] # NoHeader => out["res"] = Rewritten(hdr["res"], closeTunnel)
    /\ pc \in {<<"req", "readHeader">>, <<"req", "forward">>} => ~closeTunnel
    /\ \A d \in Dirs : ended[d] => out[d] # NoHeader
    /\ Persists => ~closeTunnel
    /\ report.close /\ ended["res"] => closeTunnel

(* A body goes through the one buffer in order, without a gap, a           *)
(* repetition or a leftover; only a relay that breaks off closes a part of *)
(* it like the whole; the response is asked for only behind the whole      *)
(* request, and a tunnel persists only after both were complete and        *)
(* neither asked to close.  The headers carry the decision to close that   *)
(* is reported in the end.                                                 *)
RelayInv == BodyInv /\ HeaderInv

(* The relay's decision is on the wire: a forwarded response that is       *)
(* complete tells the client of a close, a request whose sender asks to    *)
(* close tells the remote, and a persistent HTTP/1.1 message, whose        *)
(* Connection field is taken out, does not suggest a close.                *)
DecisionAnnounced ==
    /\ report.close /\ ended["res"] => ~KeepAlive(out["res"])
    /\ out["req"] # NoHeader /\ ~KeepAlive(hdr["req"]) => ~KeepAlive(out["req"])
    /\ Persists => \A d \in Dirs : hdr[d].version = 11 => KeepAlive(out[d])

(* The receiver sees the sender's fields, in order, but for those that     *)
(* were meant for one connection: the ones that are so by their name and   *)
(* the ones the sender lists in Connection, as spelled there.  What the    *)
(* proxy puts in of its own are a Via and, when it closes, a close.        *)
EndToEnd(fields) ==
    {i \in DOMAIN fields : /\ fields[i].name \notin hop_by_hops
                           /\ fields[i].spelled \notin connect_opts(fields)}

Foreign(fields) == {i \in DOMAIN fields : fields[i] \notin {FoxyVia, CloseOption}}

(* The new fields at `to` are the old ones at `from`, each once, in order. *)
Inherits(new, to, old, from) ==
    \E at \in [to -> from] :
        /\ \A i, j \in to : i < j => at[i] < at[j]
        /\ \A j \in from : \E i \in to : at[i] = j
        /\ \A i \in to : new[i] = old[at[i]]

OnlyEndToEnd ==
    \A d \in Dirs : out[d] # NoHeader =>
        /\ Inherits(out[d].fields, Foreign(out[d].fields),
                    hdr[d].fields, EndToEnd(hdr[d].fields))
        /\ \A i \in DOMAIN out[d].fields :
            out[d].fields[i] = CloseOption => closeTunnel

(* No message goes through the proxy twice: what the relay forwards, it    *)
(* would refuse to forward again, whatever fields the sender had asked to  *)
(* be taken out.                                                           *)
NoSecondPass ==
    \A d \in Dirs : out[d] # NoHeader => has_foxy_via(out[d].fields)

Message(h) ==
    IF h = NoHeader THEN [body |-> -1, marks |-> FALSE, persists |-> FALSE]
    ELSE [body |-> h.body, marks |-> h.framing = "chunked", persists |-> KeepAlive(h)]

Verdict == IF report.ec = "none" THEN "open"
           ELSE IF report.close THEN "close" ELSE "persist"

Contract == INSTANCE Forwarding WITH
    message <- [d \in Dirs |-> Message(hdr[d])],
    passed <- [d \in Dirs |-> out[d] # NoHeader],
    delivered <- sent,
    marked <- [d \in Dirs |-> lastChunks[d] > 0],
    whole <- ended,
    verdict <- Verdict

(* The relay keeps the promise of module Forwarding to its peers: whatever *)
(* the sessions' errors are and wherever they strike, the receivers see a  *)
(* prefix of what was sent, a mark of its end only behind the whole of it  *)
(* or where the relay breaks off, and a connection is used again only      *)
(* after a complete exchange.                                              *)
ForwardsFaithfully == Contract!Spec

(* The relay reports. *)
RelayEnds == <>Completed
=============================================================================
