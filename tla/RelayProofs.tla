---------------------------- MODULE RelayProofs ----------------------------
(***************************************************************************)
(* Proofs about Relay, for any buffer, any bodies and any fields: BodyInv  *)
(* is inductive, and the relay implements Forwarding.                      *)
(***************************************************************************)
EXTENDS Relay, TLAPS

(* A header that has been read is not the absent one, nor is a rewritten   *)
(* one, and its body has a length within the bound.                        *)
LEMMA HeaderFacts ==
    ASSUME NEW d \in Dirs, NEW h \in Headers(d)
    PROVE  /\ h # NoHeader
           /\ h.body \in 0..MaxBody
           /\ \A close \in BOOLEAN : Rewritten(h, close) # NoHeader
<1>1. /\ h.version \in {10, 11} /\ h.body \in 0..MaxBody
      /\ h = [version |-> h.version, fields |-> h.fields, framing |-> h.framing,
              body |-> h.body]
  BY DEF Headers
<1>2. NoHeader.version = 0
  BY DEF NoHeader
<1>3. ASSUME NEW close \in BOOLEAN PROVE Rewritten(h, close).version = h.version
  BY <1>1 DEF Rewritten
<1>4. QED
  BY <1>1, <1>2, <1>3

(* Units(n) is a sequence of n units. *)
LEMMA UnitsFacts ==
    ASSUME NEW n \in Nat
    PROVE  /\ Units(n) \in Seq(0..n)
           /\ Len(Units(n)) = n
           /\ \A i \in 1..n : Units(n)[i] = i
BY DEF Units

(* Sending n units of a buffer that goes on where the sent ones end gives  *)
(* the units up to there.                                                  *)
LEMMA SendUnits ==
    ASSUME NEW m \in Nat, NEW n \in Nat, n <= Cap,
           NEW b \in [1..Cap -> 0..MaxBody],
           \A i \in 1..n : b[i] = m + i
    PROVE  Units(m) \o SubSeq(b, 1, n) = Units(m + n)
<1>1. \A i \in 1..n : b[i] \in 0..MaxBody
  BY CapAssumption
<1>2. /\ SubSeq(b, 1, n) \in Seq(0..MaxBody)
      /\ Len(SubSeq(b, 1, n)) = n
      /\ \A i \in 1..n : SubSeq(b, 1, n)[i] = b[i]
  BY <1>1, CapAssumption
<1>3. QED
  BY <1>2, UnitsFacts, CapAssumption, BodyAssumption DEF Units

(* BodyInv contains the types, before a step and after it. *)
LEMMA TypeOf == (BodyInv => RelayTypeOK) /\ (BodyInv => RelayTypeOK)'
BY DEF BodyInv

(* What the types say of one direction, before a step and after it. *)
LEMMA TypeFacts ==
    ASSUME RelayTypeOK, NEW d \in Dirs
    PROVE  /\ hdr[d] # NoHeader => hdr[d] \in Headers(d)
           /\ got[d] \in 0..MaxBody /\ sent[d] \in Seq(0..MaxBody) /\ Len(sent[d]) \in Nat
           /\ size \in 0..Cap /\ buffer \in [1..Cap -> 0..MaxBody]
           /\ lastChunks[d] \in 0..2
<1>1. /\ hdr[d] # NoHeader => hdr[d] \in Headers(d)
      /\ got[d] \in 0..MaxBody /\ sent[d] \in Seq(0..MaxBody)
      /\ size \in 0..Cap /\ buffer \in [1..Cap -> 0..MaxBody]
      /\ lastChunks[d] \in 0..2
  BY DEF RelayTypeOK
<1>2. QED
  BY <1>1

(* What has been sent is a sequence after a step, too. *)
LEMMA TypeFactsNext ==
    ASSUME RelayTypeOK', NEW d \in Dirs
    PROVE  /\ sent'[d] \in Seq(0..MaxBody) /\ Len(sent'[d]) \in Nat
<1>1. sent'[d] \in Seq(0..MaxBody)
  BY DEF RelayTypeOK
<1>2. QED
  BY <1>1

(* What the place of a suspended relay says of its direction. *)
LEMMA SuspendedFacts ==
    ASSUME NEW d, NEW step, Suspended(d, step)
    PROVE  /\ ~ended[d] /\ lastChunks[d] = 0
           /\ hdr[d] = NoHeader <=> step = "readHeader"
           /\ out[d] = NoHeader <=> step \in {"readHeader", "forward"}
           /\ got[d] = Len(sent[d]) + (IF step = "writeBody" THEN size ELSE 0)
           /\ step \notin {"readBody", "writeBody"} => got[d] = 0
           /\ hdr[d] # NoHeader => /\ got[d] <= hdr[d].body
                                   /\ isDone[d] => got[d] = hdr[d].body
           /\ step = "readBody" => got[d] = 0 \/ got[d] < hdr[d].body
           /\ step = "writeBody" =>
                /\ \A i \in 1..size : buffer[i] = Len(sent[d]) + i
                /\ isDone[d] => ~bodyEc /\ (size = 0 => hdr[d].body = 0)
                /\ ~isDone[d] /\ ~bodyEc => size > 0 /\ got[d] < hdr[d].body
BY Zenon DEF Suspended, Progress

(* Init establishes the invariant: the relay reads the header itself, or   *)
(* is handed a parser that has.                                            *)
LEMMA InitInv == RelayInit => BodyInv
<1> SUFFICES ASSUME RelayInit PROVE BodyInv
  OBVIOUS
<1>1. /\ out = [d \in Dirs |-> NoHeader] /\ got = [d \in Dirs |-> 0]
      /\ sent = [d \in Dirs |-> <<>>] /\ ended = [d \in Dirs |-> FALSE]
      /\ lastChunks = [d \in Dirs |-> 0]
      /\ buffer = [i \in 1..Cap |-> 0] /\ size = 0
      /\ bodyEc = FALSE /\ closeTunnel = FALSE /\ report = NoReport
  BY DEF RelayInit
<1>2. PICK s \in {"readHeader", "forward"} :
        /\ pc = <<"req", s>>
        /\ isDone \in [Dirs -> BOOLEAN]
        /\ DOMAIN hdr = Dirs /\ hdr["res"] = NoHeader
        /\ IF s = "readHeader" THEN hdr["req"] = NoHeader
           ELSE /\ hdr["req"] \in Headers("req")
                /\ isDone["req"] => hdr["req"].body = 0
  <2>1. CASE /\ pc = <<"req", "readHeader">>
             /\ hdr = [d \in Dirs |-> NoHeader]
             /\ isDone = [d \in Dirs |-> FALSE]
    BY <2>1 DEF Dirs
  <2>2. ASSUME NEW h \in Headers("req"), pc = <<"req", "forward">>,
               hdr = [d \in Dirs |-> IF d = "req" THEN h ELSE NoHeader],
               isDone = [d \in Dirs |-> d = "req" /\ DoneAtHeader(h)]
        PROVE  /\ DOMAIN hdr = Dirs /\ hdr["req"] = h /\ hdr["res"] = NoHeader
               /\ isDone \in [Dirs -> BOOLEAN]
               /\ isDone["req"] => h.body = 0
    BY <2>2, Zenon DEF Dirs, DoneAtHeader
  <2>3. QED
    BY <2>1, <2>2 DEF RelayInit
<1>3. RelayTypeOK
  <2>1. pc \in (Dirs \X Steps) \cup {<<"req", "complete">>}
    BY <1>2 DEF Dirs, Steps
  <2>2. /\ DOMAIN hdr = Dirs /\ DOMAIN out = Dirs
        /\ \A d \in Dirs : hdr[d] \in Headers(d) \cup {NoHeader} /\ out[d] = NoHeader
    BY <1>1, <1>2 DEF Dirs
  <2>3. /\ got \in [Dirs -> 0..MaxBody] /\ buffer \in [1..Cap -> 0..MaxBody]
        /\ size \in 0..Cap
    BY <1>1, CapAssumption, BodyAssumption
  <2>4. /\ ended \in [Dirs -> BOOLEAN] /\ sent \in [Dirs -> Seq(0..MaxBody)]
        /\ lastChunks \in [Dirs -> 0..2]
    BY <1>1
  <2>5. report \in [ec : {"none", "ok", "error"}, close : BOOLEAN]
    BY <1>1 DEF NoReport
  <2>6. QED
    BY <1>1, <1>2, <2>1, <2>2, <2>3, <2>4, <2>5, Zenon DEF RelayTypeOK
<1>4. SentInOrder /\ EndMeansWhole /\ ResponseFollowsRequest /\ PersistMeansWhole
  BY <1>1, <1>2 DEF SentInOrder, EndMeansWhole, Marked, ResponseFollowsRequest,
                    PersistMeansWhole, Persists, Units, NoReport, Dirs
<1>5. Suspended("req", s)
  <2>1. hdr["req"] = NoHeader <=> s = "readHeader"
    BY <1>2, HeaderFacts DEF Dirs
  <2>2. hdr["req"] # NoHeader => hdr["req"].body \in Nat
    BY <1>2, HeaderFacts, BodyAssumption DEF Dirs
  <2>3. QED
    BY <1>1, <1>2, <2>1, <2>2 DEF Suspended, Progress, Untouched, Dirs
<1>6. Completed <=> report.ec # "none"
  BY <1>1, <1>2 DEF Completed, NoReport
<1>7. QED
  BY <1>2, <1>3, <1>4, <1>5, <1>6, Zenon DEF BodyInv

(* As long as nothing is reported, a last chunk stands behind the whole    *)
(* body, and that stays so, whatever is reported, while a body is left     *)
(* alone.                                                                  *)
LEMMA MarkKept ==
    ASSUME BodyInv, ~Completed, NEW e \in Dirs,
           hdr'[e] = hdr[e], sent'[e] = sent[e],
           lastChunks'[e] = lastChunks[e], ended'[e] = ended[e]
    PROVE  Marked(e)'
<1>1. report # [ec |-> "ok", close |-> TRUE]
  BY DEF BodyInv
<1>2. Marked(e)
  BY Zenon DEF BodyInv, EndMeansWhole
<1>3. QED
  BY <1>1, <1>2, Zenon DEF Marked, Whole

LEMMA EndsKept ==
    ASSUME BodyInv, ~Completed,
           UNCHANGED <<hdr, sent, lastChunks, ended>>
    PROVE  EndMeansWhole'
BY MarkKept, Zenon DEF EndMeansWhole

(* The last chunks of a write: one where the body ends behind units, two   *)
(* where it ends without any, one where an empty buffer is not the end.    *)
LEMMA LastChunksFacts ==
    ASSUME NEW d \in Dirs
    PROVE  /\ LastChunksOf(d) \in 0..2
           /\ hdr[d].framing # "chunked" => LastChunksOf(d) = 0
           /\ hdr[d].framing = "chunked" /\ isDone[d] =>
                LastChunksOf(d) = IF size = 0 THEN 2 ELSE 1
           /\ ~isDone[d] => LastChunksOf(d) # 2 /\ (LastChunksOf(d) > 0 => size = 0)
<1>1. CASE isDone[d]
  BY <1>1 DEF LastChunksOf
<1>2. CASE ~isDone[d]
  BY <1>2 DEF LastChunksOf
<1>3. QED
  BY <1>1, <1>2

(* Going to the upcall keeps the invariant: nothing more is sent, and the  *)
(* report asks to close.                                                   *)
LEMMA UpcallInv ==
    ASSUME BodyInv, NEW ec \in {"ok", "error"}, Upcall(ec),
           UNCHANGED <<hdr, out, got, isDone, buffer, size, sent, lastChunks, ended, bodyEc>>,
           ~Completed, closeTunnel' \in BOOLEAN
    PROVE  BodyInv'
<1>1. pc' = <<"req", "complete">> /\ report' = [ec |-> ec, close |-> TRUE]
  BY DEF Upcall, Complete
<1>2. RelayTypeOK'
  <2>1. report' \in [ec : {"none", "ok", "error"}, close : BOOLEAN]
    BY <1>1
  <2>2. QED
    BY <1>1, <2>1, TypeOf DEF RelayTypeOK
<1>3. SentInOrder' /\ ResponseFollowsRequest'
  BY DEF BodyInv, SentInOrder, ResponseFollowsRequest
<1>4. EndMeansWhole'
  BY EndsKept
<1>5. PersistMeansWhole'
  BY <1>1 DEF PersistMeansWhole, Persists
<1>6. Completed' /\ report'.ec # "none"
  BY <1>1 DEF Completed
<1>7. \A d \in Dirs, step \in Steps : pc' # <<d, step>>
  BY <1>1 DEF Steps
<1>8. QED
  BY <1>2, <1>3, <1>4, <1>5, <1>6, <1>7, Zenon DEF BodyInv

(* A step from one suspension to the next keeps the invariant if the data  *)
(* are as they should be at the new one: nothing is reported yet.          *)
LEMMA SuspendInv ==
    ASSUME BodyInv,
           NEW d \in Dirs, NEW step \in Steps, pc = <<d, step>>,
           NEW e \in Dirs, NEW next \in Steps, pc' = <<e, next>>,
           report' = report,
           RelayTypeOK', SentInOrder', EndMeansWhole', ResponseFollowsRequest',
           Suspended(e, next)'
    PROVE  BodyInv'
<1>1. ~Completed /\ ~Completed'
  BY DEF Completed, Steps
<1>2. report'.ec = "none" /\ (Completed' <=> report'.ec # "none")
  BY <1>1 DEF BodyInv
<1>3. PersistMeansWhole'
  BY <1>2 DEF PersistMeansWhole, Persists
<1>4. \A f \in Dirs, s \in Steps : pc' = <<f, s>> => Suspended(f, s)'
  <2> SUFFICES ASSUME NEW f \in Dirs, NEW s \in Steps, pc' = <<f, s>>
               PROVE  Suspended(f, s)'
    OBVIOUS
  <2>1. f = e /\ s = next
    OBVIOUS
  <2>2. QED
    BY <2>1, Zenon
<1>5. QED
  BY <1>2, <1>3, <1>4 DEF BodyInv

(* What is known where the coroutine is suspended. *)
LEMMA AtStep ==
    ASSUME BodyInv, NEW d \in Dirs, NEW step \in Steps, pc = <<d, step>>
    PROVE  Suspended(d, step)
BY Zenon DEF BodyInv

(* A report keeps the invariant if the data are in order. *)
LEMMA CompleteInv ==
    ASSUME pc' = <<"req", "complete">>,
           report'.ec # "none",
           RelayTypeOK', SentInOrder', EndMeansWhole', ResponseFollowsRequest',
           PersistMeansWhole'
    PROVE  BodyInv'
<1>1. Completed' /\ \A d \in Dirs, step \in Steps : pc' # <<d, step>>
  BY DEF Completed, Steps
<1>2. QED
  BY <1>1, Zenon DEF BodyInv

(* Reading a header keeps the invariant: only its own direction is touched, *)
(* and the response's only behind the whole request.                        *)
LEMMA ReadHeaderInv ==
    ASSUME BodyInv, NEW d \in Dirs, ReadHeader(d)
    PROVE  BodyInv'
<1>0. ~Completed
  BY DEF ReadHeader, Completed
<1>1. CASE Upcall("error") /\ UNCHANGED <<hdr, isDone>>
  BY <1>0, <1>1, UpcallInv DEF ReadHeader, BodyInv, RelayTypeOK
<1>2. ASSUME NEW h \in Headers(d),
             hdr' = [hdr EXCEPT ![d] = h],
             isDone' = [isDone EXCEPT ![d] = DoneAtHeader(h)],
             pc' = <<d, "forward">>,
             UNCHANGED report
      PROVE  BodyInv'
  <2>0. UNCHANGED <<out, got, buffer, size, sent, lastChunks, ended, bodyEc, closeTunnel>>
    BY DEF ReadHeader
  <2>1. pc = <<d, "readHeader">> /\ Suspended(d, "readHeader")
    BY AtStep DEF ReadHeader, Steps
  <2>2. /\ out[d] = NoHeader /\ ~ended[d] /\ lastChunks[d] = 0 /\ hdr[d] = NoHeader
        /\ got[d] = 0 /\ Len(sent[d]) = 0
    BY <2>1, TypeOf, TypeFacts, SuspendedFacts
  <2>3. RelayTypeOK'
    BY <1>2, <2>0, <2>2 DEF BodyInv, RelayTypeOK, Steps, DoneAtHeader
  <2>4. /\ \A e \in Dirs : e # d => hdr'[e] = hdr[e]
        /\ hdr'[d] = h /\ h # NoHeader /\ h.body \in Nat
        /\ isDone'[d] => h.body = 0
    <3>1. h # NoHeader /\ h.body \in Nat
      BY HeaderFacts, BodyAssumption
    <3>2. hdr'[d] = h /\ \A e \in Dirs : e # d => hdr'[e] = hdr[e]
      BY <1>2, TypeOf DEF RelayTypeOK
    <3>3. isDone'[d] => h.body = 0
      BY <1>2, Zenon DEF BodyInv, RelayTypeOK, DoneAtHeader
    <3>4. QED
      BY <3>1, <3>2, <3>3
  <2>5. SentInOrder'
    BY <2>0 DEF BodyInv, SentInOrder
  <2>6. EndMeansWhole'
    BY <1>2, <2>0, <2>2, <2>4 DEF BodyInv, EndMeansWhole, Marked, Whole
  <2>7. ResponseFollowsRequest'
    BY <2>0, <2>1, <2>4 DEF ResponseFollowsRequest, Suspended, Untouched, Dirs
  <2>8. Suspended(d, "forward")'
    <3>1. Progress(d, "forward")'
      BY <2>0, <2>2, <2>4 DEF Progress
    <3>2. QED
      BY <2>0, <2>1, <2>4, <3>1 DEF Suspended, Untouched, Dirs
  <2>9. QED
    BY <1>2, <2>1, <2>3, <2>5, <2>6, <2>7, <2>8, SuspendInv DEF Steps
<1>3. QED
  BY <1>1, <1>2 DEF ReadHeader

(* Rewriting a header keeps the invariant: the decision to close takes in  *)
(* both senders' wishes.                                                   *)
LEMMA ForwardInv ==
    ASSUME BodyInv, NEW d \in Dirs, Forward(d)
    PROVE  BodyInv'
<1> DEFINE close == closeTunnel \/ ~KeepAlive(hdr[d])
<1>0. /\ UNCHANGED <<hdr, got, isDone, buffer, size, sent, lastChunks, ended, bodyEc>>
      /\ closeTunnel' = close /\ closeTunnel' \in BOOLEAN /\ ~Completed
  BY DEF Forward, Completed
<1>1. CASE Upcall("ok") /\ UNCHANGED out
  BY <1>0, <1>1, UpcallInv
<1>2. CASE /\ out' = [out EXCEPT ![d] = Rewritten(hdr[d], close)]
           /\ pc' = <<d, "writeHeader">>
           /\ UNCHANGED report
  <2>1. pc = <<d, "forward">> /\ Suspended(d, "forward")
    BY AtStep DEF Forward, Steps
  <2>2. /\ out[d] = NoHeader /\ ~ended[d] /\ hdr[d] # NoHeader
        /\ got[d] = 0 /\ Len(sent[d]) = 0 /\ hdr[d] \in Headers(d)
    BY <2>1, TypeOf, TypeFacts, SuspendedFacts
  <2>3. /\ out'[d] = Rewritten(hdr[d], close) /\ out'[d] # NoHeader
        /\ \A e \in Dirs : e # d => out'[e] = out[e]
    BY <1>2, <2>2, HeaderFacts, TypeOf, Zenon DEF RelayTypeOK
  <2>4. RelayTypeOK'
    <3>1. \A e \in Dirs : out'[e] = NoHeader \/ \E c \in BOOLEAN : out'[e] = Rewritten(hdr[e], c)
      BY <2>3, TypeOf, Zenon DEF RelayTypeOK
    <3>2. DOMAIN out' = Dirs
      BY <1>2, TypeOf DEF RelayTypeOK
    <3>3. QED
      BY <1>0, <1>2, <3>1, <3>2, TypeOf DEF RelayTypeOK, Steps
  <2>5. SentInOrder' /\ EndMeansWhole' /\ ResponseFollowsRequest'
    BY <1>0, <2>3, EndsKept DEF BodyInv, SentInOrder, ResponseFollowsRequest, Dirs
  <2>6. Suspended(d, "writeHeader")'
    <3>1. Progress(d, "writeHeader")'
      BY <1>0, <2>1, <2>2, <2>3, Zenon DEF Suspended, Progress
    <3>2. QED
      BY <1>0, <2>1, <2>3, <3>1, Zenon DEF Suspended, Untouched, Dirs
  <2>7. QED
    BY <1>2, <2>1, <2>4, <2>5, <2>6, SuspendInv DEF Steps
<1>3. QED
  BY <1>1, <1>2 DEF Forward

(* Writing a header keeps the invariant: a body without units goes to an   *)
(* empty write, any other to a read.                                       *)
LEMMA WriteHeaderInv ==
    ASSUME BodyInv, NEW d \in Dirs, WriteHeader(d)
    PROVE  BodyInv'
<1>0. /\ UNCHANGED <<hdr, out, got, isDone, buffer, sent, lastChunks, ended, closeTunnel>>
      /\ ~Completed
  BY DEF WriteHeader, Completed
<1>1. CASE Upcall("error") /\ UNCHANGED <<bodyEc, size>>
  BY <1>0, <1>1, UpcallInv, TypeOf DEF RelayTypeOK
<1>2. CASE TurnStarts(d) /\ UNCHANGED report
  <2>1. pc = <<d, "writeHeader">> /\ Suspended(d, "writeHeader")
    BY AtStep DEF WriteHeader, Steps
  <2>2. /\ got[d] = 0 /\ Len(sent[d]) = 0
        /\ hdr[d] # NoHeader /\ hdr[d] \in Headers(d)
    BY <2>1, TypeOf, TypeFacts, SuspendedFacts
  <2>3. PICK next \in {"readBody", "writeBody"} :
          /\ pc' = <<d, next>> /\ (next = "readBody" <=> ~isDone[d])
          /\ bodyEc' = FALSE /\ size' = IF isDone[d] THEN 0 ELSE size
    BY <1>2 DEF TurnStarts
  <2>4. size' \in 0..Cap
    BY <2>3, CapAssumption, TypeOf DEF RelayTypeOK
  <2>5. RelayTypeOK'
    BY <1>0, <1>2, <2>3, <2>4, TypeOf, Zenon DEF RelayTypeOK, Steps
  <2>6. SentInOrder' /\ EndMeansWhole' /\ ResponseFollowsRequest'
    BY <1>0, EndsKept DEF BodyInv, SentInOrder, ResponseFollowsRequest
  <2>7. Suspended(d, next)'
    <3>1. Progress(d, next)'
      BY <1>0, <2>1, <2>2, <2>3 DEF Suspended, Progress
    <3>2. QED
      BY <1>0, <2>1, <3>1 DEF Suspended, Untouched
  <2>8. QED
    BY <1>2, <2>1, <2>3, <2>5, <2>6, <2>7, SuspendInv DEF Steps
<1>3. QED
  BY <1>1, <1>2 DEF WriteHeader

(* Reading a part of the body keeps the invariant: the buffer goes on where *)
(* the units sent so far end.                                               *)
LEMMA ReadBodyInv ==
    ASSUME BodyInv, NEW d \in Dirs, ReadBody(d)
    PROVE  BodyInv'
<1> DEFINE NeedsMore(n, left) == n = Cap /\ n < left
<1> HIDE DEF NeedsMore
<1>0. /\ pc = <<d, "readBody">> /\ pc' = <<d, "writeBody">>
      /\ UNCHANGED <<hdr, out, sent, lastChunks, ended, closeTunnel, report>>
      /\ ~Completed
  BY DEF ReadBody, Completed
<1>1. PICK n \in 0..Cap, ec \in {"ok", "needBuffer", "error"} :
        /\ n <= hdr[d].body - got[d]
        /\ ec = "ok" => n = hdr[d].body - got[d]
        /\ ec = "needBuffer" => NeedsMore(n, hdr[d].body - got[d])
        /\ isDone' = [isDone EXCEPT ![d] = (ec = "ok")]
        /\ bodyEc' = (ec = "error")
        /\ size' = n
        /\ buffer' = [i \in 1..Cap |-> IF i <= n THEN got[d] + i ELSE buffer[i]]
        /\ got' = [got EXCEPT ![d] = @ + n]
  BY Zenon DEF ReadBody, NeedsMore
<1>2. Suspended(d, "readBody")
  BY <1>0, AtStep DEF Steps
<1>3. /\ hdr[d] # NoHeader /\ hdr[d] \in Headers(d) /\ out[d] # NoHeader
      /\ got[d] = Len(sent[d]) /\ ~ended[d]
      /\ got[d] \in 0..MaxBody /\ Len(sent[d]) \in Nat
  BY <1>2, TypeOf, TypeFacts, SuspendedFacts
<1>4. hdr[d].body \in 0..MaxBody
  BY <1>3, HeaderFacts
<1>5. /\ got'[d] = got[d] + n /\ got'[d] \in 0..MaxBody
      /\ \A e \in Dirs : e # d => got'[e] = got[e]
      /\ DOMAIN got' = Dirs
  <2>1. got[d] + n \in 0..MaxBody
    <3>1. n <= hdr[d].body - got[d]
      BY <1>1
    <3>2. QED
      BY <1>3, <1>4, <3>1, CapAssumption, BodyAssumption
  <2>2. DOMAIN got = Dirs /\ got' = [got EXCEPT ![d] = got[d] + n]
    BY <1>1, TypeOf, Zenon DEF RelayTypeOK
  <2>3. QED
    BY <2>1, <2>2
<1>6. got' \in [Dirs -> 0..MaxBody]
  BY <1>1, <1>5, TypeOf DEF RelayTypeOK
<1>7. buffer' \in [1..Cap -> 0..MaxBody]
  <2>1. \A i \in 1..Cap : i <= n => got[d] + i \in 0..MaxBody
    BY <1>3, <1>5, CapAssumption, BodyAssumption
  <2>2. \A i \in 1..Cap : buffer[i] \in 0..MaxBody
    BY TypeOf, Zenon DEF RelayTypeOK
  <2>3. QED
    BY <1>1, <2>1, <2>2
<1>8. /\ isDone' \in [Dirs -> BOOLEAN] /\ bodyEc' \in BOOLEAN /\ size' \in 0..Cap
      /\ isDone'[d] => got'[d] = hdr[d].body
  <2>1. isDone' \in [Dirs -> BOOLEAN] /\ (isDone'[d] <=> ec = "ok")
    BY <1>1, TypeOf, Zenon DEF RelayTypeOK
  <2>2. bodyEc' \in BOOLEAN /\ size' \in 0..Cap
    BY <1>1
  <2>3. ec = "ok" => got'[d] = hdr[d].body
    BY <1>1, <1>3, <1>4, <1>5, CapAssumption, BodyAssumption
  <2>4. QED
    BY <2>1, <2>2, <2>3
<1>9. RelayTypeOK'
  BY <1>0, <1>6, <1>7, <1>8, TypeOf DEF RelayTypeOK, Steps
<1>10. SentInOrder'
  <2>1. \A e \in Dirs : Len(sent[e]) <= got'[e]
    BY <1>1, <1>3, <1>5, CapAssumption DEF BodyInv, SentInOrder
  <2>2. QED
    BY <1>0, <2>1 DEF BodyInv, SentInOrder
<1>11. EndMeansWhole' /\ ResponseFollowsRequest'
  BY <1>0, EndsKept DEF BodyInv, ResponseFollowsRequest
<1>12. Suspended(d, "writeBody")'
  <2>1. \A i \in 1..n : buffer'[i] = Len(sent[d]) + i
    BY <1>1, <1>3, CapAssumption
  <2>2. got'[d] <= hdr[d].body
    BY <1>1, <1>3, <1>4, <1>5
  <2>3. /\ isDone'[d] => ~bodyEc' /\ (n = 0 => hdr[d].body = 0)
        /\ ~isDone'[d] /\ ~bodyEc' => n > 0 /\ got'[d] < hdr[d].body
    <3>1. (isDone'[d] <=> ec = "ok") /\ (bodyEc' <=> ec = "error")
      BY <1>1, TypeOf, Zenon DEF RelayTypeOK
    <3>2. got[d] = 0 \/ got[d] < hdr[d].body
      BY <1>2, SuspendedFacts
    <3>3. ec = "ok" /\ n = 0 => hdr[d].body = 0
      BY <1>1, <1>3, <1>4, <3>2
    <3>4. ec = "needBuffer" => n > 0 /\ got'[d] < hdr[d].body
      BY <1>1, <1>3, <1>4, <1>5, CapAssumption DEF NeedsMore
    <3>5. QED
      BY <3>1, <3>3, <3>4
  <2>4. Progress(d, "writeBody")'
    BY <1>0, <1>1, <1>2, <1>3, <1>5, <1>8, <2>1, <2>2, <2>3 DEF Suspended, Progress
  <2>5. QED
    BY <1>0, <1>2, <1>5, <2>4 DEF Suspended, Untouched, Dirs
<1>13. QED
  BY <1>0, <1>9, <1>10, <1>11, <1>12, SuspendInv DEF Steps

(* Writing a part of the body keeps the invariant: the units sent grow by  *)
(* what the buffer holds, the end is sent behind the last unit only, and   *)
(* only then does the next message, or a report that lets the tunnel       *)
(* persist, follow.                                                        *)
LEMMA WriteBodyInv ==
    ASSUME BodyInv, NEW d \in Dirs, WriteBody(d)
    PROVE  BodyInv'
<1>0. /\ pc = <<d, "writeBody">> /\ ~Completed
      /\ UNCHANGED <<hdr, out, got, isDone, buffer, closeTunnel>>
  BY DEF WriteBody, Completed
<1>1. Suspended(d, "writeBody")
  BY <1>0, AtStep, Zenon DEF Steps
<1>2. /\ hdr[d] # NoHeader /\ hdr[d] \in Headers(d) /\ out[d] # NoHeader
      /\ got[d] = Len(sent[d]) + size /\ ~ended[d] /\ lastChunks[d] = 0
      /\ isDone[d] => got[d] = hdr[d].body
      /\ isDone[d] => ~bodyEc /\ (size = 0 => hdr[d].body = 0)
      /\ ~isDone[d] /\ ~bodyEc => size > 0 /\ got[d] < hdr[d].body
      /\ \A i \in 1..size : buffer[i] = Len(sent[d]) + i
      /\ size \in 0..Cap /\ got[d] \in 0..MaxBody /\ Len(sent[d]) \in Nat
      /\ buffer \in [1..Cap -> 0..MaxBody]
  BY <1>1, TypeOf, TypeFacts, SuspendedFacts
<1>3. ASSUME NEW n \in 0..size, sent' = [sent EXCEPT ![d] = @ \o SubSeq(buffer, 1, n)]
      PROVE  /\ sent'[d] = Units(Len(sent[d]) + n)
             /\ Len(sent'[d]) = Len(sent[d]) + n
             /\ sent' \in [Dirs -> Seq(0..MaxBody)]
             /\ \A e \in Dirs : e # d => sent'[e] = sent[e]
             /\ SentInOrder'
  <2>1. sent'[d] = sent[d] \o SubSeq(buffer, 1, n)
    BY <1>3, TypeOf, Zenon DEF RelayTypeOK
  <2>2. sent[d] = Units(Len(sent[d]))
    BY DEF BodyInv, SentInOrder
  <2>3. n \in Nat /\ n <= Cap /\ \A i \in 1..n : buffer[i] = Len(sent[d]) + i
    BY <1>2, CapAssumption
  <2>4. sent'[d] = Units(Len(sent[d]) + n)
    BY <1>2, <2>1, <2>2, <2>3, SendUnits, Zenon
  <2>5. Len(sent[d]) + n \in Nat /\ Len(sent[d]) + n <= got[d]
    BY <1>2, <2>3
  <2>6. Len(sent'[d]) = Len(sent[d]) + n
    BY <2>4, <2>5, UnitsFacts
  <2>7. Units(Len(sent[d]) + n) \in Seq(0..MaxBody)
    BY <1>2, <2>5, BodyAssumption DEF Units
  <2>8. \A e \in Dirs : e # d => sent'[e] = sent[e]
    BY <1>3, TypeOf DEF RelayTypeOK
  <2>9. sent' \in [Dirs -> Seq(0..MaxBody)]
    BY <1>3, <2>1, <2>4, <2>7, TypeOf, Zenon DEF RelayTypeOK
  <2>10. SentInOrder'
    BY <1>0, <2>4, <2>5, <2>6, <2>8 DEF BodyInv, SentInOrder
  <2>11. QED
    BY <2>4, <2>6, <2>8, <2>9, <2>10
<1>4. ASSUME NEW n \in 0..size, NEW k \in 0..1, k = 1 => n = size /\ LastChunksOf(d) = 2,
             sent' = [sent EXCEPT ![d] = @ \o SubSeq(buffer, 1, n)],
             lastChunks' = [lastChunks EXCEPT ![d] = @ + k],
             Upcall("error"), UNCHANGED <<ended, bodyEc, size>>
      PROVE  BodyInv'
  <2>1. pc' = <<"req", "complete">> /\ report' = [ec |-> "error", close |-> TRUE]
    BY <1>4 DEF Upcall, Complete
  <2>2. /\ lastChunks'[d] = k /\ lastChunks' \in [Dirs -> 0..2]
        /\ \A e \in Dirs : e # d => lastChunks'[e] = lastChunks[e]
    <3>1. k \in 0..2 /\ lastChunks[d] + k = k
      BY <1>2
    <3>2. QED
      BY <1>4, <3>1, TypeOf, Zenon DEF RelayTypeOK
  <2>3. RelayTypeOK'
    <3>1. report' \in [ec : {"none", "ok", "error"}, close : BOOLEAN]
      BY <2>1
    <3>2. pc' \in (Dirs \X Steps) \cup {<<"req", "complete">>}
      BY <2>1, Zenon
    <3>3. sent' \in [Dirs -> Seq(0..MaxBody)]
      BY <1>3, <1>4, Zenon
    <3>4. QED
      BY <1>0, <1>4, <2>2, <3>1, <3>2, <3>3, TypeOf, Zenon DEF RelayTypeOK
  <2>4. Marked(d)'
    <3>1. CASE k = 0
      <4>1. ~ended'[d]
        BY <1>2, <1>4, Zenon
      <4>2. ~(lastChunks'[d] > 0)
        BY <2>2, <3>1
      <4>3. QED
        BY <4>1, <4>2, Zenon DEF Marked
    <3>2. CASE k = 1
      <4>1. isDone[d] /\ hdr[d].framing = "chunked" /\ size = 0 /\ n = 0
        BY <1>2, <1>4, <3>2, LastChunksFacts
      <4>2. hdr[d].body = 0 /\ Len(sent[d]) + n = 0
        BY <1>2, <4>1
      <4>3. Whole(d)'
        BY <1>0, <1>2, <1>3, <1>4, <4>2, Zenon DEF Whole
      <4>4. QED
        BY <1>0, <1>2, <1>4, <4>1, <4>3 DEF Marked
    <3>3. QED
      BY <3>1, <3>2
  <2>5. EndMeansWhole'
    BY <1>0, <1>3, <1>4, <2>2, <2>4, MarkKept DEF EndMeansWhole
  <2>6. ResponseFollowsRequest'
    BY <1>0, <1>4 DEF BodyInv, ResponseFollowsRequest
  <2>7. PersistMeansWhole'
    BY <2>1 DEF PersistMeansWhole, Persists
  <2>8. QED
    BY <1>3, <1>4, <2>1, <2>3, <2>5, <2>6, <2>7, CompleteInv, Zenon
<1>5. CASE /\ sent' = [sent EXCEPT ![d] = @ \o SubSeq(buffer, 1, size)]
           /\ lastChunks' = [lastChunks EXCEPT ![d] = @ + LastChunksOf(d)]
           /\ ended' = [ended EXCEPT ![d] = isDone[d]]
           /\ IF ~bodyEc /\ ~isDone[d]
              THEN TurnStarts(d) /\ UNCHANGED report
              ELSE /\ IF bodyEc THEN Upcall("ok")
                      ELSE IF d = "res" THEN Complete("ok", closeTunnel)
                      ELSE pc' = <<"res", "readHeader">> /\ UNCHANGED report
                   /\ UNCHANGED <<bodyEc, size>>
  <2>1. /\ sent'[d] = Units(got[d]) /\ Len(sent'[d]) = got[d]
        /\ sent' \in [Dirs -> Seq(0..MaxBody)]
        /\ \A e \in Dirs : e # d => sent'[e] = sent[e]
        /\ SentInOrder'
    <3>1. size \in 0..size
      BY <1>2, CapAssumption
    <3>2. QED
      BY <1>2, <1>3, <1>5, <3>1, Zenon
  <2>2. /\ ended' \in [Dirs -> BOOLEAN] /\ ended'[d] = isDone[d]
        /\ \A e \in Dirs : e # d => ended'[e] = ended[e]
    BY <1>5, TypeOf DEF RelayTypeOK
  <2>3. /\ lastChunks'[d] = LastChunksOf(d) /\ lastChunks' \in [Dirs -> 0..2]
        /\ \A e \in Dirs : e # d => lastChunks'[e] = lastChunks[e]
    <3>1. LastChunksOf(d) \in 0..2 /\ DOMAIN lastChunks = Dirs
      BY LastChunksFacts, TypeOf DEF RelayTypeOK
    <3>2. lastChunks[d] + LastChunksOf(d) = LastChunksOf(d)
      BY <1>2, <3>1
    <3>3. QED
      BY <1>5, <3>1, <3>2, TypeOf, Zenon DEF RelayTypeOK
  <2>4. Marked(d)'
    <3>1. lastChunks'[d] > 0 => hdr'[d].framing = "chunked"
      BY <1>0, <2>3, LastChunksFacts
    <3>2. CASE isDone[d]
      <4>1. Whole(d)'
        BY <1>0, <1>2, <2>1, <3>2 DEF Whole
      <4>2. size = 0 <=> hdr[d].body = 0
        BY <1>2, <3>2
      <4>3. lastChunks'[d] = IF hdr[d].framing # "chunked" THEN 0
                             ELSE IF hdr[d].body = 0 THEN 2 ELSE 1
        BY <2>3, <3>2, <4>2, LastChunksFacts
      <4>4. QED
        BY <1>0, <3>1, <4>1, <4>3, Zenon DEF Marked
    <3>3. CASE ~isDone[d]
      <4>1. ~ended'[d] /\ (lastChunks'[d] > 0 => size = 0)
        BY <2>2, <2>3, <3>3, LastChunksFacts
      <4>2. lastChunks'[d] > 0 => bodyEc
        BY <1>2, <3>3, <4>1
      <4>3. bodyEc => report' = [ec |-> "ok", close |-> TRUE]
        BY <1>5 DEF Upcall, Complete
      <4>4. QED
        BY <3>1, <4>1, <4>2, <4>3, Zenon DEF Marked
    <3>4. QED
      BY <3>2, <3>3
  <2>5. EndMeansWhole'
    <3>1. ASSUME NEW e \in Dirs, e # d PROVE Marked(e)'
      BY <1>0, <2>1, <2>2, <2>3, <3>1, MarkKept, Zenon
    <3>2. QED
      BY <2>4, <3>1, Zenon DEF EndMeansWhole
  <2>6. ResponseFollowsRequest'
    BY <1>0, <1>1, <2>2 DEF BodyInv, ResponseFollowsRequest, Suspended, Untouched, Dirs
  <2>7. ASSUME pc' \in (Dirs \X Steps) \cup {<<"req", "complete">>},
               size' \in 0..Cap, bodyEc' \in BOOLEAN,
               report' \in [ec : {"none", "ok", "error"}, close : BOOLEAN]
        PROVE  RelayTypeOK'
    BY <1>0, <2>1, <2>2, <2>7, <2>3, TypeOf, Zenon DEF RelayTypeOK
  <2>8. size \in 0..Cap /\ bodyEc \in BOOLEAN /\ closeTunnel \in BOOLEAN
        /\ report \in [ec : {"none", "ok", "error"}, close : BOOLEAN]
    BY TypeOf DEF RelayTypeOK
  <2>9. CASE ~bodyEc /\ ~isDone[d]
    <3>1. /\ pc' = <<d, "readBody">> /\ bodyEc' = FALSE /\ size' = size
          /\ report' = report
      BY <1>5, <2>9 DEF TurnStarts
    <3>2. RelayTypeOK'
      <4>1. pc' \in (Dirs \X Steps) \cup {<<"req", "complete">>}
        BY <3>1, Zenon DEF Steps
      <4>2. QED
        BY <2>7, <2>8, <3>1, <4>1, Zenon
    <3>3. Suspended(d, "readBody")'
      <4>1. lastChunks'[d] = 0
        <5>1. LastChunksOf(d) \in 0..2 /\ (LastChunksOf(d) > 0 => size = 0)
          BY <2>9, LastChunksFacts, Zenon
        <5>2. ~(size = 0)
          BY <1>2, <2>9
        <5>3. QED
          BY <2>3, <5>1, <5>2
      <4>2. Progress(d, "readBody")'
        <5>1. /\ ~ended'[d] /\ hdr'[d] # NoHeader /\ out'[d] # NoHeader /\ ~isDone'[d]
              /\ got'[d] = got[d] /\ Len(sent'[d]) = got[d]
          BY <1>0, <1>2, <2>1, <2>2, <2>9, Zenon
        <5>2. got[d] <= hdr[d].body /\ got[d] < hdr[d].body
          BY <1>1, <1>2, <2>9, SuspendedFacts, Zenon
        <5>3. got[d] + 0 = got[d]
          BY <1>2
        <5>4. ~closeTunnel => KeepAlive(hdr[d])
          BY <1>1, <1>2, Zenon DEF Suspended, Progress
        <5>5. QED
          BY <1>0, <4>1, <5>1, <5>2, <5>3, <5>4 DEF Progress
      <4>3. QED
        BY <1>0, <1>1, <2>1, <2>2, <2>3, <4>2 DEF Suspended, Untouched, Dirs
    <3>4. QED
      BY <1>0, <2>1, <2>5, <2>6, <3>1, <3>2, <3>3, SuspendInv DEF Steps
  <2>10. CASE bodyEc
    <3>1. /\ pc' = <<"req", "complete">> /\ report' = [ec |-> "ok", close |-> TRUE]
          /\ UNCHANGED <<bodyEc, size>>
      BY <1>5, <2>10 DEF Upcall, Complete
    <3>2. RelayTypeOK'
      <4>1. report' \in [ec : {"none", "ok", "error"}, close : BOOLEAN]
        BY <2>8, <3>1
      <4>2. QED
        BY <2>7, <2>8, <3>1, <4>1, Zenon
    <3>3. PersistMeansWhole'
      BY <3>1, Zenon DEF PersistMeansWhole, Persists
    <3>4. QED
      BY <2>1, <2>5, <2>6, <3>1, <3>2, <3>3, CompleteInv, Zenon
  <2>11. CASE ~bodyEc /\ isDone[d] /\ d = "res"
    <3>1. /\ pc' = <<"req", "complete">> /\ report' = [ec |-> "ok", close |-> closeTunnel]
          /\ UNCHANGED <<bodyEc, size>>
      BY <1>5, <2>11 DEF Complete
    <3>2. RelayTypeOK'
      <4>1. report' \in [ec : {"none", "ok", "error"}, close : BOOLEAN]
        BY <2>8, <3>1
      <4>2. QED
        BY <2>7, <2>8, <3>1, <4>1, Zenon
    <3>3. PersistMeansWhole'
      <4>1. ~closeTunnel => KeepAlive(hdr["req"]) /\ KeepAlive(hdr["res"])
        BY <1>1, <1>2, <2>11, Zenon DEF Suspended, Progress
      <4>2. ended'["req"] /\ ended'["res"]
        BY <1>1, <2>2, <2>11, Zenon DEF Suspended, Dirs
      <4>3. QED
        BY <1>0, <2>5, <3>1, <4>1, <4>2, Zenon
           DEF PersistMeansWhole, Persists, EndMeansWhole, Marked, Dirs, Whole
    <3>4. QED
      BY <2>1, <2>5, <2>6, <2>8, <3>1, <3>2, <3>3, CompleteInv, Zenon
  <2>12. CASE ~bodyEc /\ isDone[d] /\ d # "res"
    <3>1. /\ pc' = <<"res", "readHeader">> /\ UNCHANGED <<report, bodyEc, size>>
          /\ d = "req" /\ "res" \in Dirs
      BY <1>5, <2>12 DEF Dirs
    <3>2. RelayTypeOK'
      <4>1. pc' \in (Dirs \X Steps) \cup {<<"req", "complete">>}
        BY <3>1 DEF Steps
      <4>2. QED
        BY <2>7, <2>8, <3>1, <4>1
    <3>3. Suspended("res", "readHeader")'
      <4>1. Untouched("res")
        BY <1>1, <3>1 DEF Suspended
      <4>2. Progress("res", "readHeader")'
        BY <1>0, <2>1, <2>2, <2>3, <3>1, <4>1 DEF Progress, Untouched
      <4>3. ended'["req"] /\ out'["req"] # NoHeader /\ (~closeTunnel' => KeepAlive(hdr'["req"]))
        BY <1>0, <1>1, <1>2, <2>2, <2>12, <3>1, Zenon DEF Suspended, Progress
      <4>4. QED
        BY <4>2, <4>3 DEF Suspended
    <3>4. QED
      BY <1>0, <2>1, <2>5, <2>6, <3>1, <3>2, <3>3, SuspendInv DEF Steps
  <2>13. QED
    BY <2>2, <2>9, <2>10, <2>11, <2>12
<1>6. QED
  BY <1>4, <1>5, Zenon DEF WriteBody

-----------------------------------------------------------------------------
(* Every step keeps the invariant. *)
LEMMA StepInv == BodyInv /\ [RelayNext]_relayVars => BodyInv'
<1> SUFFICES ASSUME BodyInv, [RelayNext]_relayVars PROVE BodyInv'
  OBVIOUS
<1>1. ASSUME NEW d \in Dirs,
             \/ ReadHeader(d) \/ Forward(d) \/ WriteHeader(d)
             \/ ReadBody(d) \/ WriteBody(d)
      PROVE  BodyInv'
  BY <1>1, ReadHeaderInv, ForwardInv, WriteHeaderInv, ReadBodyInv, WriteBodyInv
<1>2. CASE UNCHANGED relayVars
  <2>1. RelayTypeOK'
    BY <1>2 DEF relayVars, BodyInv, RelayTypeOK
  <2>2. SentInOrder' /\ EndMeansWhole' /\ ResponseFollowsRequest' /\ PersistMeansWhole'
    BY <1>2 DEF relayVars, BodyInv, SentInOrder, EndMeansWhole, Marked, Whole,
                ResponseFollowsRequest, PersistMeansWhole, Persists
  <2>3. (Completed <=> report.ec # "none")'
    BY <1>2 DEF relayVars, BodyInv, Completed
  <2>4. \A d \in Dirs, step \in Steps : Suspended(d, step)' = Suspended(d, step)
    <3>1. /\ pc' = pc /\ hdr' = hdr /\ out' = out /\ got' = got /\ isDone' = isDone
          /\ buffer' = buffer /\ size' = size /\ sent' = sent
          /\ lastChunks' = lastChunks /\ ended' = ended
          /\ bodyEc' = bodyEc /\ closeTunnel' = closeTunnel
      BY <1>2 DEF relayVars
    <3>2. \A d \in Dirs, step \in Steps : Progress(d, step)' = Progress(d, step)
      BY <3>1 DEF Progress
    <3>3. \A d \in Dirs : Untouched(d)' = Untouched(d)
      BY <3>1, Zenon DEF Untouched
    <3>4. "res" \in Dirs
      BY DEF Dirs
    <3>5. QED
      BY <3>1, <3>2, <3>3, <3>4, Zenon DEF Suspended
  <2>5. QED
    BY <1>2, <2>1, <2>2, <2>3, <2>4 DEF relayVars, BodyInv
<1>3. QED
  BY <1>1, <1>2 DEF RelayNext, RelayStep

(* For any size of the buffer, any bodies and any fields: a body goes      *)
(* through the relay's one buffer in order, its end is sent only behind    *)
(* the whole of it, the response is asked for only behind the whole        *)
(* request, and a tunnel persists only after a complete exchange to which  *)
(* both senders agreed.                                                    *)
THEOREM BodiesPassInOrder == RelaySpec => []BodyInv
BY InitInv, StepInv, PTL DEF RelaySpec

-----------------------------------------------------------------------------
(* A header that is known and one that is not, as the contract sees them. *)
LEMMA MessageFacts ==
    /\ Message(NoHeader) = Contract!Unknown
    /\ \A d \in Dirs : \A h \in Headers(d) :
        /\ Message(h) \in Contract!Messages /\ Message(h) # Contract!Unknown
        /\ Message(h).body = h.body /\ Message(h).persists = KeepAlive(h)
        /\ Message(h).marks = (h.framing = "chunked")
<1>1. Message(NoHeader) = Contract!Unknown
  BY DEF Message, Contract!Unknown
<1>2. ASSUME NEW d \in Dirs, NEW h \in Headers(d)
      PROVE  /\ Message(h) \in Contract!Messages /\ Message(h) # Contract!Unknown
             /\ Message(h).body = h.body /\ Message(h).persists = KeepAlive(h)
             /\ Message(h).marks = (h.framing = "chunked")
  <2>1. h # NoHeader /\ h.body \in 0..MaxBody
    BY HeaderFacts
  <2>2. KeepAlive(h) \in BOOLEAN
    <3>1. CASE h.version = 11
      BY <3>1 DEF KeepAlive
    <3>2. CASE h.version # 11
      BY <3>2 DEF KeepAlive
    <3>3. QED
      BY <3>1, <3>2
  <2>3. Message(h) = [body |-> h.body, marks |-> h.framing = "chunked",
                      persists |-> KeepAlive(h)]
    BY <2>1 DEF Message
  <2>4. Message(h) # Contract!Unknown
    BY <2>1, <2>3, BodyAssumption DEF Contract!Unknown
  <2>5. QED
    BY <2>1, <2>2, <2>3, <2>4 DEF Contract!Messages
<1>3. QED
  BY <1>1, <1>2

(* The relay starts where the contract does. *)
LEMMA InitForwards == RelayInit => Contract!Init
<1> SUFFICES ASSUME RelayInit PROVE Contract!Init
  OBVIOUS
<1>1. /\ [d \in Dirs |-> out[d] # NoHeader] = [d \in Dirs |-> FALSE]
      /\ sent = [d \in Dirs |-> <<>>] /\ ended = [d \in Dirs |-> FALSE]
      /\ lastChunks = [d \in Dirs |-> 0]
      /\ Verdict = "open"
  BY Zenon DEF RelayInit, NoReport, Verdict
<1>2. \E m \in Contract!Messages \cup {Contract!Unknown} :
        [d \in Dirs |-> Message(hdr[d])]
          = [d \in Dirs |-> IF d = "req" THEN m ELSE Contract!Unknown]
  <2>1. CASE hdr = [d \in Dirs |-> NoHeader]
    BY <2>1, MessageFacts
  <2>2. ASSUME NEW h \in Headers("req"),
               hdr = [d \in Dirs |-> IF d = "req" THEN h ELSE NoHeader]
        PROVE  /\ Message(h) \in Contract!Messages
               /\ [d \in Dirs |-> Message(hdr[d])]
                    = [d \in Dirs |-> IF d = "req" THEN Message(h) ELSE Contract!Unknown]
    <3>1. Message(h) \in Contract!Messages
      BY MessageFacts DEF Dirs
    <3>2. QED
      BY <2>2, <3>1, MessageFacts
  <2>3. QED
    <3>1. \/ hdr = [d \in Dirs |-> NoHeader]
          \/ \E h \in Headers("req") :
               hdr = [d \in Dirs |-> IF d = "req" THEN h ELSE NoHeader]
      BY Zenon DEF RelayInit
    <3>2. QED
      BY <2>1, <2>2, <3>1, Zenon
<1>3. [d \in Dirs |-> lastChunks[d] > 0] = [d \in Dirs |-> FALSE]
  <2>1. ASSUME NEW d \in Dirs PROVE (lastChunks[d] > 0) = FALSE
    BY <1>1
  <2>2. QED
    BY <2>1, Zenon
<1>4. QED
  BY <1>1, <1>2, <1>3, Zenon DEF Contract!Init, Contract!Dirs, Dirs

(* A write behind which the relay goes on leaves a last chunk only where   *)
(* the body has ended.                                                     *)
LEMMA LiveMark ==
    ASSUME BodyInv, BodyInv', NEW d \in Dirs, WriteBody(d), report'.ec = "none"
    PROVE  lastChunks'[d] > 0 => ended'[d]
<1>1. CASE Upcall("error") \/ Upcall("ok") \/ Complete("ok", closeTunnel)
  BY <1>1 DEF Upcall, Complete
<1>2. CASE TurnStarts(d)
  <2>1. PICK step \in {"readBody", "writeBody"} : pc' = <<d, step>>
    BY <1>2 DEF TurnStarts
  <2>2. Suspended(d, step)'
    BY <2>1, Zenon DEF BodyInv, Steps
  <2>3. lastChunks'[d] = 0
    BY <2>2, Zenon DEF Suspended, Progress
  <2>4. QED
    BY <2>3
<1>3. CASE isDone[d] /\ ended' = [ended EXCEPT ![d] = isDone[d]]
  BY <1>3, TypeOf, Zenon DEF RelayTypeOK
<1>4. CASE bodyEc
  BY <1>1, <1>4, Zenon DEF WriteBody
<1>5. QED
  BY <1>1, <1>2, <1>3, <1>4, Zenon DEF WriteBody

(* Every step of the relay is one of the contract's, or changes nothing    *)
(* the contract speaks of.                                                 *)
LEMMA StepForwards ==
    ASSUME BodyInv, BodyInv', [RelayNext]_relayVars
    PROVE  [Contract!Next]_(Contract!forwardingVars)
<1> USE DEF Contract!Dirs, Contract!forwardingVars
<1>1. ASSUME NEW d \in Dirs, NEW step \in Steps, pc = <<d, step>>
      PROVE  Verdict = "open" /\ Suspended(d, step)
  <2>1. ~Completed
    BY <1>1 DEF Completed, Steps
  <2>2. QED
    BY <1>1, <2>1, AtStep DEF BodyInv, Verdict
<1>2. ASSUME NEW ec \in {"ok", "error"}, Upcall(ec) PROVE Verdict' = "close"
  BY <1>2 DEF Upcall, Complete, Verdict
<1>3. ASSUME Verdict = "open", NEW ec \in {"ok", "error"}, Upcall(ec),
             UNCHANGED <<hdr, out, sent, lastChunks, ended>>
      PROVE  Contract!Next
  BY <1>2, <1>3 DEF Contract!Next, Contract!BreakOff
<1>4. ASSUME NEW d \in Dirs, ReadHeader(d) PROVE Contract!Next
  <2>1. Verdict = "open" /\ Suspended(d, "readHeader")
    BY <1>1, <1>4 DEF ReadHeader, Steps
  <2>2. CASE Upcall("error") /\ UNCHANGED <<hdr, isDone>>
    BY <1>3, <1>4, <2>1, <2>2 DEF ReadHeader
  <2>3. ASSUME NEW h \in Headers(d), hdr' = [hdr EXCEPT ![d] = h], UNCHANGED report
        PROVE  Contract!Learn(d)
    <3>1. Message(hdr[d]) = Contract!Unknown /\ (d = "res" => ended["req"])
      BY <2>1, MessageFacts DEF Suspended, Progress
    <3>2. /\ Message(h) \in Contract!Messages
          /\ [e \in Dirs |-> Message(hdr'[e])]
               = [[e \in Dirs |-> Message(hdr[e])] EXCEPT ![d] = Message(h)]
      BY <2>3, MessageFacts, TypeOf, Zenon DEF RelayTypeOK
    <3>3. UNCHANGED <<out, sent, lastChunks, ended>> /\ Verdict' = Verdict
      BY <1>4, <2>3 DEF ReadHeader, Verdict
    <3>4. QED
      BY <3>1, <3>2, <3>3, Zenon DEF Contract!Learn, Dirs
  <2>4. QED
    BY <1>4, <2>1, <2>2, <2>3 DEF ReadHeader, Contract!Next, Dirs
<1>5. ASSUME NEW d \in Dirs, Forward(d) PROVE Contract!Next
  <2>1. Verdict = "open" /\ Suspended(d, "forward")
    BY <1>1, <1>5 DEF Forward, Steps
  <2>2. UNCHANGED <<hdr, sent, lastChunks, ended>>
    BY <1>5 DEF Forward
  <2>3. CASE Upcall("ok") /\ UNCHANGED out
    BY <1>3, <2>1, <2>2, <2>3
  <2>4. ASSUME NEW close \in BOOLEAN, out' = [out EXCEPT ![d] = Rewritten(hdr[d], close)],
               UNCHANGED report
        PROVE  Contract!PassHeader(d)
    <3>1. hdr[d] \in Headers(d) /\ out[d] = NoHeader
      BY <2>1, TypeOf, TypeFacts, SuspendedFacts
    <3>2. Message(hdr[d]) # Contract!Unknown
      BY <3>1, MessageFacts
    <3>3. Rewritten(hdr[d], close) # NoHeader
      BY <3>1, HeaderFacts
    <3>4. [e \in Dirs |-> out'[e] # NoHeader]
            = [[e \in Dirs |-> out[e] # NoHeader] EXCEPT ![d] = TRUE]
      BY <2>4, <3>3, TypeOf, Zenon DEF RelayTypeOK
    <3>5. Verdict' = Verdict
      BY <2>4 DEF Verdict
    <3>6. QED
      BY <2>2, <3>1, <3>2, <3>4, <3>5, Zenon DEF Contract!PassHeader, Dirs
  <2>5. (closeTunnel \/ ~KeepAlive(hdr[d])) \in BOOLEAN
    BY Zenon
  <2>6. QED
    BY <1>5, <2>1, <2>3, <2>4, <2>5, Zenon DEF Forward, Contract!Next, Dirs
<1>6. ASSUME NEW d \in Dirs, WriteHeader(d)
      PROVE  Contract!Next \/ UNCHANGED Contract!forwardingVars
  <2>1. Verdict = "open" /\ UNCHANGED <<hdr, out, sent, lastChunks, ended>>
    BY <1>1, <1>6 DEF WriteHeader, Steps
  <2>2. CASE Upcall("error")
    BY <1>3, <2>1, <2>2
  <2>3. CASE UNCHANGED report
    BY <2>1, <2>3, Zenon DEF Verdict
  <2>4. QED
    BY <1>6, <2>2, <2>3 DEF WriteHeader
<1>7. ASSUME NEW d \in Dirs, ReadBody(d) PROVE UNCHANGED Contract!forwardingVars
  BY <1>7, Zenon DEF ReadBody, Verdict
<1>8. ASSUME NEW d \in Dirs, WriteBody(d) PROVE Contract!Next
  <2>1. /\ Verdict = "open" /\ Suspended(d, "writeBody") /\ UNCHANGED <<hdr, out, got>>
    <3>1. pc = <<d, "writeBody">> /\ UNCHANGED <<hdr, out, got>>
      BY <1>8, Zenon DEF WriteBody
    <3>2. QED
      BY <1>1, <3>1, Zenon DEF Steps
  <2>2. /\ hdr[d] \in Headers(d) /\ out[d] # NoHeader /\ ~ended[d]
        /\ got[d] <= hdr[d].body /\ got[d] \in Nat
    BY <2>1, TypeOf, TypeFacts, SuspendedFacts
  <2>3. DOMAIN lastChunks = Dirs /\ ~(lastChunks[d] > 0) /\ Marked(d)'
    <3>1. DOMAIN lastChunks = Dirs /\ lastChunks[d] = 0
      BY <2>1, TypeOf, SuspendedFacts DEF RelayTypeOK
    <3>2. Marked(d)'
      BY Zenon DEF BodyInv, EndMeansWhole
    <3>3. QED
      BY <3>1, <3>2
  <2>4. PICK mark \in BOOLEAN :
          /\ [e \in Dirs |-> lastChunks'[e] > 0]
               = [[e \in Dirs |-> lastChunks[e] > 0] EXCEPT ![d] = mark]
          /\ mark <=> lastChunks'[d] > 0
    <3>1. PICK l : lastChunks' = [lastChunks EXCEPT ![d] = l]
      BY <1>8, Zenon DEF WriteBody
    <3>2. /\ lastChunks'[d] = l
          /\ \A e \in Dirs : e # d => lastChunks'[e] = lastChunks[e]
      BY <2>3, <3>1
    <3>3. (l > 0) \in BOOLEAN
      OBVIOUS
    <3>4. QED
      BY <3>2, <3>3, Zenon
  <2>5. PICK n \in 0..size : sent' = [sent EXCEPT ![d] = @ \o SubSeq(buffer, 1, n)]
    <3>1. size \in 0..size
      BY CapAssumption, TypeOf, TypeFacts
    <3>2. QED
      BY <1>8, <3>1, Zenon DEF WriteBody
  <2>6. PICK end \in BOOLEAN : ended' = [ended EXCEPT ![d] = end]
    <3>1. CASE ended' = ended
      BY <2>2, <3>1, TypeOf DEF RelayTypeOK
    <3>2. CASE ended' = [ended EXCEPT ![d] = isDone[d]]
      BY <3>2, TypeOf, Zenon DEF RelayTypeOK
    <3>3. QED
      BY <1>8, <3>1, <3>2, Zenon DEF WriteBody
  <2>7. /\ sent' = [sent EXCEPT ![d] = Units(Len(sent'[d]))]
        /\ Len(sent'[d]) \in Len(sent[d])..hdr[d].body
    <3>1. sent'[d] = Units(Len(sent'[d])) /\ Len(sent'[d]) <= got[d]
      BY <2>1, Zenon DEF BodyInv, SentInOrder
    <3>2. sent' = [sent EXCEPT ![d] = sent'[d]]
      BY <2>5, TypeOf DEF RelayTypeOK
    <3>3. Len(sent'[d]) >= Len(sent[d])
      <4>1. /\ \A i \in 1..n : buffer[i] \in 0..MaxBody
            /\ n \in Nat /\ sent[d] \in Seq(0..MaxBody)
        BY CapAssumption, TypeOf, TypeFacts
      <4>2. SubSeq(buffer, 1, n) \in Seq(0..MaxBody)
        BY <4>1
      <4>3. sent'[d] = sent[d] \o SubSeq(buffer, 1, n)
        BY <2>5, TypeOf, Zenon DEF RelayTypeOK
      <4>4. Len(sent[d] \o SubSeq(buffer, 1, n)) = Len(sent[d]) + Len(SubSeq(buffer, 1, n))
        BY <4>1, <4>2
      <4>5. Len(sent[d]) \in Nat /\ Len(SubSeq(buffer, 1, n)) \in Nat
        BY <4>1, <4>2
      <4>6. \A j, k, l \in Nat : l = j + k => l >= j
        OBVIOUS
      <4>7. Len(sent'[d]) = Len(sent[d]) + Len(SubSeq(buffer, 1, n))
        BY <4>3, <4>4, Zenon
      <4>8. Len(sent'[d]) \in Nat
        BY TypeOf, TypeFactsNext
      <4>9. QED
        BY <4>5, <4>6, <4>7, <4>8, Zenon
    <3>4. Len(sent'[d]) \in Nat /\ Len(sent[d]) \in Nat /\ hdr[d].body \in Nat
      BY <2>2, HeaderFacts, BodyAssumption, TypeOf, TypeFacts, TypeFactsNext
    <3>5. \A l, m, b, g \in Nat : l <= g /\ g <= b /\ l >= m => l \in m..b
      OBVIOUS
    <3>6. got[d] \in Nat /\ got[d] <= hdr[d].body
      BY <2>2, <3>4, BodyAssumption, TypeOf, TypeFacts
    <3>7. QED
      BY <3>1, <3>2, <3>3, <3>4, <3>5, <3>6, Zenon
  <2>8. end => Len(sent'[d]) = hdr[d].body
    <3>1. end => ended'[d]
      BY <2>6, TypeOf, Zenon DEF RelayTypeOK
    <3>2. ended'[d] => sent'[d] = Units(hdr[d].body)
      BY <2>1, <2>3 DEF Marked, Whole
    <3>3. hdr[d].body \in Nat
      BY <2>2, HeaderFacts, BodyAssumption
    <3>4. QED
      BY <3>1, <3>2, <3>3, UnitsFacts
  <2>9. /\ mark => hdr[d].framing = "chunked"
        /\ end => (mark <=> hdr[d].framing = "chunked")
        /\ Verdict' = "open" => (mark => end)
    <3>1. /\ mark => hdr[d].framing = "chunked"
          /\ end <=> ended'[d]
      BY <2>1, <2>6, <2>3, <2>4, TypeOf, Zenon DEF Marked, RelayTypeOK
    <3>2. ended'[d] => (lastChunks'[d] > 0 <=> hdr[d].framing = "chunked")
      BY <2>1, <2>3 DEF Marked
    <3>3. Verdict' = "open" => (lastChunks'[d] > 0 => ended'[d])
      <4>1. Verdict' = "open" => report'.ec = "none"
        BY DEF Verdict
      <4>2. QED
        BY <1>8, <4>1, LiveMark
    <3>4. QED
      BY <2>4, <3>1, <3>2, <3>3, Zenon
  <2>10. \/ Verdict' \in {"open", "close"}
         \/ /\ Verdict' = "persist"
            /\ \A e \in Dirs : ended'[e] /\ Message(hdr[e]).persists
    <3>1. CASE Persists'
      <4>1. \A e \in Dirs : ended'[e] /\ hdr[e] # NoHeader /\ KeepAlive(hdr[e])
        BY <2>1, <3>1 DEF BodyInv, PersistMeansWhole, Whole
      <4>2. \A e \in Dirs : hdr[e] \in Headers(e)
        BY <4>1, TypeOf DEF RelayTypeOK
      <4>3. \A e \in Dirs : Message(hdr[e]).persists
        BY <4>1, <4>2, MessageFacts
      <4>4. Verdict' = "persist"
        BY <3>1 DEF Persists, Verdict
      <4>5. QED
        BY <4>1, <4>3, <4>4
    <3>2. CASE ~Persists'
      <4>1. report'.ec \in {"none", "ok", "error"}
        BY TypeOf DEF RelayTypeOK
      <4>2. report'.ec = "error" => report'.close
        <5>1. CASE Upcall("error") \/ Upcall("ok")
          BY <5>1 DEF Upcall, Complete
        <5>2. CASE Complete("ok", closeTunnel) \/ UNCHANGED report
          BY <5>2, <2>1 DEF Complete, Verdict
        <5>3. QED
          BY <1>8, <5>1, <5>2, Zenon DEF WriteBody
      <4>3. QED
        BY <3>2, <4>1, <4>2 DEF Persists, Verdict
    <3>3. QED
      BY <3>1, <3>2
  <2>11. Message(hdr[d]).body = hdr[d].body
    BY <2>2, MessageFacts
  <2>12. Contract!PassBody(d)
    <3>1. Message(hdr[d]).marks = (hdr[d].framing = "chunked")
      BY <2>2, MessageFacts
    <3>2. \/ Verdict' = "close"
          \/ Verdict' = "open" /\ (mark => end)
          \/ /\ \A e \in Dirs : ended'[e] /\ Message(hdr[e]).persists
             /\ Verdict' = "persist"
      BY <2>9, <2>10, Zenon
    <3>3. \E n_1 \in Len(sent[d])..Message(hdr[d]).body, end_1 \in BOOLEAN, mark_1 \in BOOLEAN :
            /\ mark_1 => Message(hdr[d]).marks
            /\ end_1 => n_1 = Message(hdr[d]).body /\ (mark_1 <=> Message(hdr[d]).marks)
            /\ sent' = [sent EXCEPT ![d] = Units(n_1)]
            /\ [e \in Dirs |-> lastChunks'[e] > 0]
                 = [[e \in Dirs |-> lastChunks[e] > 0] EXCEPT ![d] = mark_1]
            /\ ended' = [ended EXCEPT ![d] = end_1]
            /\ \/ Verdict' = "close"
               \/ Verdict' = "open" /\ (mark_1 => end_1)
               \/ /\ \A e \in Dirs : ended'[e] /\ Message(hdr[e]).persists
                  /\ Verdict' = "persist"
      BY <2>4, <2>6, <2>7, <2>8, <2>9, <2>11, <3>1, <3>2, Zenon
    <3>4. QED
      BY <2>1, <2>2, <2>3, <3>3, Zenon DEF Contract!PassBody, Units, Dirs
  <2>13. QED
    BY <2>1, <2>12 DEF Contract!Next, Dirs
<1>9. CASE UNCHANGED relayVars
  BY <1>9 DEF relayVars, Verdict
<1>10. QED
  BY <1>4, <1>5, <1>6, <1>7, <1>8, <1>9, Zenon DEF RelayNext, RelayStep

(* The relay implements Forwarding, for any size of the buffer, any bodies *)
(* and any fields, wherever its sessions fail.                             *)
THEOREM RelayForwardsFaithfully == RelaySpec => ForwardsFaithfully
BY InitForwards, StepForwards, BodiesPassInOrder, PTL
   DEF RelaySpec, ForwardsFaithfully, Contract!Spec
=============================================================================
