---------------------------- MODULE HeaderProofs ----------------------------
(***************************************************************************)
(* Proofs about the headers that the relay forwards, for any fields: with  *)
(* BodyInv, HeaderInv is inductive, and with what export_connect_fields    *)
(* leaves of the fields of a header it tells what each peer sees of the    *)
(* other.                                                                  *)
(***************************************************************************)
EXTENDS RelayProofs, TextProofs

-----------------------------------------------------------------------------
(* What the fields of a header, read or written, are. *)
Fields == [name : STRING, spelled : STRING, tokens : SUBSET STRING]
            \cup {FoxyVia, CloseOption}

(* The loop of export_connect_fields, as its own equation. *)
LEMMA StaysFacts ==
    ASSUME NEW fields \in Seq(Fields)
    PROVE  /\ Stays(fields) \in [0..Len(fields) -> Seq(Fields)]
           /\ Stays(fields) =
                [i \in 0..Len(fields) |->
                    IF i = 0 THEN <<>>
                    ELSE IF is_connect_opt(fields[i], connect_opts(fields))
                         THEN Stays(fields)[i - 1]
                         ELSE Append(Stays(fields)[i - 1], fields[i])]
<1> DEFINE N == Len(fields)
           V == Seq(Fields)
           drop(i) == is_connect_opt(fields[i], connect_opts(fields))
           next == [i \in 1..N |-> [kept \in V |->
                        IF drop(i) THEN kept ELSE Append(kept, fields[i])]]
           At(f, i) == IF i = 0 THEN <<>>
                       ELSE IF drop(i) THEN f[i - 1] ELSE Append(f[i - 1], fields[i])
           Is(f) == f = [i \in 0..N |-> At(f, i)]
           g == Stays(fields)
<1>1. N \in Nat /\ \A i \in 1..N : fields[i] \in Fields
  OBVIOUS
<1>2. g = CHOOSE f : Is(f)
  BY DEF Stays
<1> HIDE DEF drop, N, g
<1>3. next \in [1..N -> [V -> V]] /\ <<>> \in V
  BY <1>1
<1>4. PICK f : StepByStep(f, N, V, <<>>, next)
  <2> HIDE DEF V, next
  <2> QED BY <1>1, <1>3, Recursion, Zenon
<1>5. ASSUME NEW i \in 0..N PROVE f[i] = At(f, i)
  <2>1. CASE i = 0
    BY <1>4, <2>1 DEF StepByStep
  <2>2. CASE i # 0
    <3>1. i \in 1..N /\ f[i - 1] \in V
      BY <1>1, <1>4, <2>2 DEF StepByStep
    <3>2. next[i][f[i - 1]] = IF drop(i) THEN f[i - 1] ELSE Append(f[i - 1], fields[i])
      BY <3>1
    <3>3. f[i] = next[i][f[i - 1]]
      BY <1>4, <3>1, Zenon DEF StepByStep
    <3> HIDE DEF next, V
    <3>4. QED
      BY <2>2, <3>2, <3>3, Zenon
  <2>3. QED
    BY <2>1, <2>2
<1> HIDE DEF next, At
<1>6. Is(f)
  BY <1>4, <1>5 DEF StepByStep
<1>7. Is(g)
  BY <1>2, <1>6, Zenon
<1>8. \A i \in 0..N : g[i] \in V
  <2> DEFINE S == {n \in 0..N : g[n] \in V}
  <2>0. \A i \in 0..N : g[i] = At(g, i)
    BY <1>7, Zenon
  <2>1. 0 \in S
    <3>1. 0 \in 0..N /\ At(g, 0) \in V
      BY <1>1 DEF At
    <3> HIDE DEF V
    <3>2. QED
      BY <2>0, <3>1
  <2>2. ASSUME NEW n \in 0..N - 1, n \in S PROVE n + 1 \in S
    <3>1. /\ n + 1 \in 1..N /\ n + 1 \in 0..N /\ (n + 1) - 1 = n /\ n + 1 # 0
          /\ g[n] \in V /\ fields[n + 1] \in Fields
      BY <1>1, <2>2
    <3>2. g[n + 1] = IF drop(n + 1) THEN g[n] ELSE Append(g[n], fields[n + 1])
      <4>1. At(g, n + 1) = IF drop(n + 1) THEN g[n] ELSE Append(g[n], fields[n + 1])
        BY <3>1 DEF At
      <4>2. QED
        BY <2>0, <3>1, <4>1, Zenon
    <3>3. g[n + 1] \in V
      BY <3>1, <3>2
    <3>4. QED
      BY <3>1, <3>3
  <2> HIDE DEF S
  <2>3. \A i \in 0..N : i \in S
    BY <1>1, <2>1, <2>2, Induction, Zenon
  <2>4. QED
    BY <2>3, Zenon DEF S
<1>9. QED
  BY <1>7, <1>8, Zenon DEF N, drop, At, g

(* kept holds the fields at the places S, in order: its i-th one is from   *)
(* at[i].                                                                  *)
Picks(at, kept, fields, S) ==
    /\ at \in [1..Len(kept) -> S]
    /\ \A i, j \in 1..Len(kept) : i < j => at[i] < at[j]
    /\ \A j \in S : \E i \in 1..Len(kept) : at[i] = j
    /\ \A i \in 1..Len(kept) : kept[i] = fields[at[i]]

(* One more place, behind the others. *)
LEMMA PicksOneMore ==
    ASSUME NEW fields \in Seq(Fields), NEW kept \in Seq(Fields), NEW at, NEW S,
           NEW n \in 1..Len(fields), S \subseteq 1..n - 1,
           Picks(at, kept, fields, S)
    PROVE  \E b : Picks(b, Append(kept, fields[n]), fields, S \cup {n})
<1> DEFINE m == Len(kept)
           new == Append(kept, fields[n])
           b == [i \in 1..m + 1 |-> IF i <= m THEN at[i] ELSE n]
<1>1. /\ m \in Nat /\ fields[n] \in Fields /\ n \in Nat /\ \A j \in S : j \in Nat /\ j < n
      /\ at \in [1..m -> S]
  BY DEF Picks
<1>2. /\ Len(new) = m + 1 /\ new[m + 1] = fields[n]
      /\ \A i \in 1..m : new[i] = kept[i]
  BY <1>1
<1>3. /\ b \in [1..m + 1 -> S \cup {n}] /\ b[m + 1] = n
      /\ \A i \in 1..m : b[i] = at[i] /\ b[i] \in S
  BY <1>1
<1>4. ASSUME NEW i \in 1..m + 1 PROVE i \in 1..m \/ i = m + 1
  BY <1>1
<1> HIDE DEF new, b, m
<1>5. ASSUME NEW i \in 1..m + 1, NEW j \in 1..m + 1, i < j PROVE b[i] < b[j]
  <2>1. i \in 1..m
    BY <1>1, <1>5
  <2>2. CASE j \in 1..m
    BY <1>3, <2>1, <2>2, <1>5 DEF Picks, m
  <2>3. CASE j = m + 1
    BY <1>1, <1>3, <2>1, <2>3, Zenon
  <2>4. QED
    BY <1>4, <2>2, <2>3
<1>6. ASSUME NEW j \in S \cup {n} PROVE \E i \in 1..m + 1 : b[i] = j
  <2>1. CASE j = n
    BY <1>1, <1>3, <2>1
  <2>2. CASE j \in S
    <3>1. PICK i \in 1..m : at[i] = j
      BY <2>2, Zenon DEF Picks, m
    <3>2. i \in 1..m + 1 /\ b[i] = j
      BY <1>1, <1>3, <3>1
    <3>3. QED
      BY <3>2
  <2>3. QED
    BY <2>1, <2>2
<1>7. ASSUME NEW i \in 1..m + 1 PROVE new[i] = fields[b[i]]
  <2>1. CASE i \in 1..m
    <3>1. kept[i] = fields[at[i]]
      BY <2>1, Zenon DEF Picks, m
    <3>2. QED
      BY <1>2, <1>3, <2>1, <3>1, Zenon
  <2>2. CASE i = m + 1
    BY <1>2, <1>3, <2>2, Zenon
  <2>3. QED
    BY <1>4, <2>1, <2>2
<1>8. Picks(b, new, fields, S \cup {n})
  BY <1>2, <1>3, <1>5, <1>6, <1>7, Zenon DEF Picks
<1>9. QED
  BY <1>8 DEF new

(* export_connect_fields leaves in the header, in order, the fields that   *)
(* are neither hop-by-hop by their name nor listed in Connection.          *)
LEMMA ExportPicks ==
    ASSUME NEW fields \in Seq(Fields)
    PROVE  /\ export_connect_fields(fields) \in Seq(Fields)
           /\ \E at : Picks(at, export_connect_fields(fields), fields, EndToEnd(fields))
<1> DEFINE N == Len(fields)
           g == Stays(fields)
           drop(i) == is_connect_opt(fields[i], connect_opts(fields))
           In(n) == {i \in 1..n : ~drop(i)}
           S == {n \in 0..N : \E at : Picks(at, g[n], fields, In(n))}
<1>1. N \in Nat /\ N \in 0..N /\ DOMAIN fields = 1..N
  OBVIOUS
<1>2. /\ g \in [0..N -> Seq(Fields)] /\ g[0] = <<>>
      /\ \A i \in 1..N : g[i] = IF drop(i) THEN g[i - 1] ELSE Append(g[i - 1], fields[i])
  <2>1. g = [i \in 0..N |-> IF i = 0 THEN <<>> ELSE IF drop(i) THEN g[i - 1]
                            ELSE Append(g[i - 1], fields[i])]
    BY StaysFacts, Zenon
  <2>2. g \in [0..N -> Seq(Fields)]
    BY StaysFacts, Zenon
  <2> HIDE DEF g, drop
  <2>3. ASSUME NEW i \in 0..N
        PROVE  g[i] = IF i = 0 THEN <<>> ELSE IF drop(i) THEN g[i - 1]
                      ELSE Append(g[i - 1], fields[i])
    BY <2>1, Zenon
  <2>4. 0 \in 0..N /\ \A i \in 1..N : i \in 0..N /\ i # 0
    BY <1>1
  <2>5. QED
    BY <2>2, <2>3, <2>4, Zenon
<1>3. In(N) = EndToEnd(fields)
  BY <1>1 DEF EndToEnd, is_connect_opt
<1>4. g[N] = export_connect_fields(fields)
  BY DEF export_connect_fields
<1> HIDE DEF g, drop, N
<1>5. 0 \in S
  <2>1. Picks(<<>>, <<>>, fields, {})
    BY DEF Picks
  <2>2. In(0) = {} /\ 0 \in 0..N
    BY <1>1
  <2> HIDE DEF In
  <2>3. QED
    BY <1>2, <2>1, <2>2, Zenon
<1>6. ASSUME NEW n \in 0..N - 1, n \in S PROVE n + 1 \in S
  <2>1. PICK at : Picks(at, g[n], fields, In(n))
    BY <1>6, Zenon
  <2>2. /\ n + 1 \in 1..N /\ n + 1 \in 0..N /\ (n + 1) - 1 = n /\ n \in 0..N
        /\ In(n) \subseteq 1..(n + 1) - 1
    BY <1>1
  <2>3. g[n] \in Seq(Fields)
    BY <1>2, <2>2, Zenon
  <2> g[n + 1] = IF drop(n + 1) THEN g[(n + 1) - 1]
                 ELSE Append(g[(n + 1) - 1], fields[n + 1])
    BY <1>2, <2>2, Zenon
  <2>4. CASE drop(n + 1)
    <3>1. In(n + 1) = In(n)
      BY <1>1, <2>2, <2>4
    <3>2. g[n + 1] = g[n]
      BY <2>2, <2>4
    <3>3. QED
      BY <2>1, <2>2, <3>1, <3>2, Zenon
  <2>5. CASE ~drop(n + 1)
    <3>1. In(n + 1) = In(n) \cup {n + 1}
      BY <1>1, <2>2, <2>5
    <3>2. g[n + 1] = Append(g[n], fields[n + 1])
      BY <2>2, <2>5
    <3> HIDE DEF In
    <3>3. \E b : Picks(b, Append(g[n], fields[n + 1]), fields, In(n) \cup {n + 1})
      BY <2>1, <2>2, <2>3, PicksOneMore, Zenon DEF N
    <3>4. QED
      BY <2>2, <3>1, <3>2, <3>3, Zenon
  <2>6. QED
    BY <2>4, <2>5, Zenon
<1>7. N \in S
  <2> HIDE DEF S
  <2> QED BY <1>1, <1>5, <1>6, Induction, Zenon
<1>8. \E at : Picks(at, g[N], fields, In(N))
  BY <1>7, Zenon
<1>9. g[N] \in Seq(Fields)
  BY <1>1, <1>2, Zenon
<1>10. QED
  BY <1>3, <1>4, <1>8, <1>9, Zenon

(* A set of places that is not empty has a last one. *)
LEMMA LastPlace ==
    ASSUME NEW N \in Nat, NEW T, T \subseteq 1..N, T # {}
    PROVE  \E i \in T : \A j \in T : j <= i
<1> DEFINE Has(n) == \E i \in T : i <= n /\ \A j \in T : j <= n => j <= i
           S == {n \in 0..N : (\E i \in T : i <= n) => Has(n)}
<1>1. 0 \in S
  OBVIOUS
<1>2. ASSUME NEW n \in 0..N - 1, n \in S PROVE n + 1 \in S
  <2>1. CASE n + 1 \in T
    BY <2>1
  <2>2. CASE n + 1 \notin T
    BY <1>2, <2>2
  <2>3. QED
    BY <2>1, <2>2
<1>3. N \in S
  <2>1. N \in 0..N
    OBVIOUS
  <2> HIDE DEF S
  <2>2. QED
    BY <1>1, <1>2, <2>1, Induction, Zenon
<1>4. Has(N)
  <2>1. \E i \in T : i <= N
    <3>1. PICK i \in T : TRUE
      BY Zenon
    <3>2. QED
      BY <3>1
  <2> HIDE DEF Has
  <2>2. QED
    BY <1>3, <2>1, Zenon
<1>5. \A j \in T : j <= N
  OBVIOUS
<1>6. QED
  BY <1>4, <1>5, Zenon

(* f is at place p, and the fields behind it have moved up by one. *)
InsertedAt(p, new, fields, f) ==
    /\ p \in 1..Len(fields) + 1
    /\ new \in Seq(Fields) /\ Len(new) = Len(fields) + 1
    /\ new[p] = f
    /\ \A i \in 1..Len(fields) : /\ i < p => new[i] = fields[i]
                                 /\ i >= p => new[i + 1] = fields[i]

(* insert() puts a field behind the last of its name, or at the end. *)
LEMMA InsertFacts ==
    ASSUME NEW fields \in Seq(Fields), NEW f \in Fields
    PROVE  \E p : InsertedAt(p, Insert(fields, f), fields, f)
<1> DEFINE N == Len(fields)
           same == Named(fields, f.name)
           last == IF same = {} THEN N ELSE CHOOSE i \in same : \A j \in same : j <= i
           new == Insert(fields, f)
<1>1. N \in Nat /\ same \subseteq 1..N
  BY DEF Named
<1>2. new = SubSeq(fields, 1, last) \o <<f>> \o SubSeq(fields, last + 1, N)
  BY DEF Insert
<1> HIDE DEF same, new
<1>3. last \in 0..N
  <2>1. CASE same = {}
    BY <1>1, <2>1
  <2>2. CASE same # {}
    <3>1. \E i \in same : \A j \in same : j <= i
      BY <1>1, <2>2, LastPlace, Zenon
    <3>2. last \in same
      BY <2>2, <3>1
    <3> HIDE DEF last
    <3>3. QED
      BY <1>1, <3>2
  <2>3. QED
    BY <2>1, <2>2
<1> HIDE DEF last
<1>4. /\ SubSeq(fields, 1, last) \in Seq(Fields) /\ Len(SubSeq(fields, 1, last)) = last
      /\ \A i \in 1..last : SubSeq(fields, 1, last)[i] = fields[i]
  BY <1>1, <1>3
<1>5. /\ SubSeq(fields, last + 1, N) \in Seq(Fields)
      /\ Len(SubSeq(fields, last + 1, N)) = N - last
      /\ \A i \in 1..N - last : SubSeq(fields, last + 1, N)[i] = fields[last + i]
  BY <1>1, <1>3
<1>6. /\ new \in Seq(Fields) /\ Len(new) = N + 1 /\ new[last + 1] = f
      /\ \A i \in 1..last : new[i] = fields[i]
      /\ \A i \in 1..N - last : new[last + 1 + i] = fields[last + i]
  <2> DEFINE before == SubSeq(fields, 1, last)
             after == SubSeq(fields, last + 1, N)
             upto == before \o <<f>>
  <2> HIDE DEF before, after
  <2>1. /\ before \in Seq(Fields) /\ Len(before) = last /\ last \in Nat /\ N - last \in Nat
        /\ after \in Seq(Fields) /\ Len(after) = N - last
    BY <1>1, <1>3, <1>4, <1>5 DEF before, after
  <2>2. /\ upto \in Seq(Fields) /\ Len(upto) = last + 1 /\ upto[last + 1] = f
        /\ \A i \in 1..last : upto[i] = before[i]
    BY <2>1
  <2> HIDE DEF upto
  <2>3. /\ new \in Seq(Fields) /\ Len(new) = last + 1 + (N - last)
        /\ \A i \in 1..last + 1 : new[i] = upto[i]
        /\ \A i \in 1..N - last : new[last + 1 + i] = after[i]
    <3>1. new = upto \o after
      BY <1>2, Zenon DEF upto, before, after
    <3>2. upto \in Seq(Fields) /\ after \in Seq(Fields)
      BY <2>1, <2>2
    <3>3. /\ upto \o after \in Seq(Fields)
          /\ Len(upto \o after) = Len(upto) + Len(after)
          /\ \A i \in 1..Len(upto) : (upto \o after)[i] = upto[i]
          /\ \A i \in 1..Len(after) : (upto \o after)[Len(upto) + i] = after[i]
      BY <3>2
    <3>4. Len(upto) = last + 1 /\ Len(after) = N - last
      BY <2>1, <2>2
    <3>5. QED
      BY <3>1, <3>3, <3>4, Zenon
  <2>4. \A i \in 1..last : i \in 1..last + 1
    BY <2>1
  <2>5. Len(new) = N + 1 /\ last + 1 \in 1..last + 1
    BY <1>1, <2>1, <2>3
  <2>6. QED
    BY <1>4, <1>5, <2>2, <2>3, <2>4, <2>5, Zenon DEF before, after
<1>7. ASSUME NEW i \in 1..N
      PROVE  /\ i < last + 1 => new[i] = fields[i]
             /\ i >= last + 1 => new[i + 1] = fields[i]
  <2>1. CASE i < last + 1
    <3>1. i \in 1..last
      BY <1>1, <1>3, <2>1
    <3>2. QED
      BY <1>1, <1>3, <1>6, <2>1, <3>1
  <2>2. CASE i >= last + 1
    <3>1. i - last \in 1..N - last /\ last + 1 + (i - last) = i + 1 /\ last + (i - last) = i
      BY <1>1, <1>3, <2>2
    <3>2. new[last + 1 + (i - last)] = fields[last + (i - last)]
      BY <1>6, <3>1, Zenon
    <3>3. QED
      BY <1>1, <1>3, <2>2, <3>1, <3>2
  <2>3. QED
    BY <1>1, <1>3, <2>1, <2>2
<1>8. last + 1 \in 1..N + 1
  BY <1>1, <1>3
<1>9. QED
  <2>1. InsertedAt(last + 1, new, fields, f)
    BY <1>6, <1>7, <1>8, Zenon DEF InsertedAt
  <2>2. QED
    BY <2>1, Zenon DEF new

-----------------------------------------------------------------------------
(* A header as it is forwarded.                                            *)

(* The two fields that the relay adds. *)
LEMMA OwnFields ==
    /\ FoxyVia \in Fields /\ FoxyVia.name = "Via"
    /\ CloseOption \in Fields /\ CloseOption.name = "Connection"
    /\ CloseOption.tokens = {"close"}
<1>1. FoxyVia \in Fields /\ CloseOption \in Fields
  BY Zenon DEF Fields
<1>2. FoxyVia.name = "Via"
  BY Zenon DEF FoxyVia
<1>3. CloseOption.name = "Connection" /\ CloseOption.tokens = {"close"}
  BY DEF CloseOption
<1>4. QED
  BY <1>1, <1>2, <1>3, Zenon

(* The relay's Via names it. *)
LEMMA FoxysVia == "1.1 foxy" \in FoxyVia.tokens
BY Zenon DEF FoxyVia

(* No option of the connection, and no Via of foxy's, is among the fields  *)
(* that are kept.                                                          *)
LEMMA KeptIsForeign ==
    ASSUME NEW fields \in Seq(Fields), NEW at, NEW kept \in Seq(Fields),
           Picks(at, kept, fields, EndToEnd(fields)), NEW i \in 1..Len(kept)
    PROVE  /\ kept[i].name # "Connection" /\ kept[i] # CloseOption
           /\ ~has_foxy_via(fields) => kept[i] # FoxyVia
<1>1. at[i] \in EndToEnd(fields) /\ kept[i] = fields[at[i]]
  BY DEF Picks
<1>2. at[i] \in DOMAIN fields /\ kept[i].name \notin hop_by_hops
  BY <1>1 DEF EndToEnd
<1>3. kept[i].name # "Connection"
  BY <1>2 DEF hop_by_hops
<1>4. kept[i] # CloseOption
  BY <1>3, OwnFields, Zenon
<1>5. ASSUME kept[i] = FoxyVia PROVE has_foxy_via(fields)
  BY <1>1, <1>2, <1>5, OwnFields, FoxysVia, Zenon DEF has_foxy_via, Named
<1>6. QED
  BY <1>3, <1>4, <1>5

(* The kept fields with a Via at place p and, if it closes, a close.       *)
ComposedAt(p, new, kept, closes) ==
    /\ new \in Seq(Fields) /\ p \in 1..Len(new) /\ new[p] = FoxyVia
    /\ Len(new) = Len(kept) + (IF closes THEN 2 ELSE 1)
    /\ \A i \in 1..Len(new) : i # p =>
         LET k == IF i < p THEN i ELSE i - 1
         IN  IF k <= Len(kept) THEN k \in 1..Len(kept) /\ new[i] = kept[k]
                               ELSE closes /\ new[i] = CloseOption

(* The close goes to the end and the Via to its place. *)
LEMMA Composed ==
    ASSUME NEW kept \in Seq(Fields), NEW closes \in BOOLEAN,
           NEW new, new = Insert(IF closes THEN Append(kept, CloseOption) ELSE kept, FoxyVia)
    PROVE  \E p : ComposedAt(p, new, kept, closes)
<1> DEFINE ann == IF closes THEN Append(kept, CloseOption) ELSE kept
           K == Len(kept)
           A == Len(ann)
<1>1. K \in Nat
  OBVIOUS
<1>2. /\ ann \in Seq(Fields) /\ A = K + (IF closes THEN 1 ELSE 0)
      /\ \A k \in 1..K : ann[k] = kept[k]
      /\ closes => ann[K + 1] = CloseOption
  <2>1. CASE closes
    BY <2>1, OwnFields
  <2>2. CASE ~closes
    BY <2>2
  <2>3. QED
    BY <2>1, <2>2
<1>3. new = Insert(ann, FoxyVia)
  OBVIOUS
<1> HIDE DEF ann
<1>4. PICK p : InsertedAt(p, new, ann, FoxyVia)
  <2>1. ann \in Seq(Fields) /\ FoxyVia \in Fields
    BY <1>2, OwnFields
  <2>2. QED
    BY <1>3, <2>1, InsertFacts, Zenon
<1> HIDE DEF A, K
<1>5. A \in Nat /\ p \in Nat /\ p \in 1..Len(new)
  BY <1>1, <1>2, <1>4 DEF InsertedAt, A
<1>6. ASSUME NEW i \in 1..Len(new), i # p, NEW k, k = IF i < p THEN i ELSE i - 1
      PROVE  IF k <= K THEN k \in 1..K /\ new[i] = kept[k]
                       ELSE closes /\ new[i] = CloseOption
  <2>1. k \in 1..A /\ i = IF k < p THEN k ELSE k + 1
    BY <1>4, <1>5, <1>6 DEF InsertedAt, A
  <2>2. new[i] = ann[k]
    <3>1. CASE k < p
      BY <1>4, <2>1, <3>1, Zenon DEF InsertedAt, A
    <3>2. CASE ~(k < p)
      <4>1. k >= p /\ i = k + 1
        BY <1>5, <2>1, <3>2
      <4>2. QED
        BY <1>4, <2>1, <4>1, Zenon DEF InsertedAt, A
    <3>3. QED
      BY <3>1, <3>2
  <2>3. CASE k <= K
    BY <1>1, <1>2, <2>1, <2>2, <2>3
  <2>4. CASE ~(k <= K)
    <3>1. closes /\ k = K + 1
      BY <1>1, <1>2, <2>1, <2>4
    <3>2. QED
      BY <1>2, <2>2, <2>4, <3>1
  <2>5. QED
    BY <2>3, <2>4
<1>7. Len(new) = K + (IF closes THEN 2 ELSE 1)
  BY <1>1, <1>2, <1>4 DEF InsertedAt, A
<1>8. new \in Seq(Fields) /\ new[p] = FoxyVia
  BY <1>4 DEF InsertedAt
<1>9. QED
  <2>1. ComposedAt(p, new, kept, closes)
    BY <1>5, <1>6, <1>7, <1>8, Zenon DEF ComposedAt, K
  <2>2. QED
    BY <2>1, Zenon

(* The forwarded fields, of a header that is not foxy's own. *)
LEMMA ComposedFacts ==
    ASSUME NEW kept \in Seq(Fields), NEW closes \in BOOLEAN, NEW new, NEW p,
           ComposedAt(p, new, kept, closes),
           \A k \in 1..Len(kept) : kept[k].name # "Connection"
    PROVE  /\ has_foxy_via(new)
           /\ FirstOptions(new) = IF closes THEN {"close"} ELSE {}
           /\ \A i \in DOMAIN new : new[i] = CloseOption => closes
<1> DEFINE K == Len(kept)
           N == Len(new)
           Old(i) == IF i < p THEN i ELSE i - 1
<1>1. /\ K \in Nat /\ N \in Nat /\ p \in 1..N /\ DOMAIN new = 1..N
      /\ new[p] = FoxyVia /\ N = K + (IF closes THEN 2 ELSE 1)
  BY DEF ComposedAt
<1>2. ASSUME NEW i \in 1..N, i # p
      PROVE  IF Old(i) <= K THEN Old(i) \in 1..K /\ new[i] = kept[Old(i)]
                            ELSE closes /\ new[i] = CloseOption
  BY <1>2, Zenon DEF ComposedAt
<1>3. has_foxy_via(new)
  BY <1>1, OwnFields, FoxysVia, Zenon DEF has_foxy_via, Named
<1> HIDE DEF Old, K, N
<1>4. ASSUME NEW i \in 1..N, new[i].name = "Connection"
      PROVE  closes /\ new[i] = CloseOption /\ i # p /\ ~(Old(i) <= K)
  <2>1. i # p
    BY <1>1, <1>4, OwnFields
  <2>2. CASE Old(i) <= K
    BY <1>2, <1>4, <2>1, <2>2, Zenon DEF K
  <2>3. CASE ~(Old(i) <= K)
    BY <1>2, <2>1, <2>3, Zenon
  <2>4. QED
    BY <2>2, <2>3
<1>5. \A i \in DOMAIN new : new[i] = CloseOption => closes
  BY <1>1, <1>4, OwnFields, Zenon
<1>6. CASE ~closes
  <2>1. Named(new, "Connection") = {}
    BY <1>1, <1>4, <1>6 DEF Named
  <2>2. FirstOptions(new) = {}
    BY <2>1, Zenon DEF FirstOptions
  <2>3. QED
    BY <1>3, <1>5, <1>6, <2>2, Zenon
<1>7. CASE closes
  <2>1. PICK i \in 1..N : i # p /\ Old(i) = K + 1
    <3>1. CASE p <= K + 1
      <4>1. K + 2 \in 1..N /\ K + 2 # p /\ Old(K + 2) = K + 1
        BY <1>1, <1>7, <3>1 DEF Old
      <4>2. QED
        BY <4>1
    <3>2. CASE p = K + 2
      <4>1. K + 1 \in 1..N /\ K + 1 # p /\ Old(K + 1) = K + 1
        BY <1>1, <1>7, <3>2 DEF Old
      <4>2. QED
        BY <4>1
    <3>3. QED
      BY <1>1, <1>7, <3>1, <3>2
  <2>2. new[i] = CloseOption
    BY <1>1, <1>2, <2>1
  <2>3. i \in Named(new, "Connection")
    BY <1>1, <2>2, OwnFields DEF Named
  <2>4. ASSUME NEW j \in Named(new, "Connection") PROVE j = i
    <3>1. j \in 1..N /\ j # p /\ ~(Old(j) <= K)
      BY <1>1, <1>4, Zenon DEF Named
    <3>2. QED
      BY <1>1, <1>7, <2>1, <3>1 DEF Old
  <2>5. FirstOptions(new) = {"close"}
    <3>1. {j \in Named(new, "Connection") :
            \A k \in Named(new, "Connection") : j <= k} = {i}
      <4>1. i <= i
        BY <1>1, <2>1
      <4>2. QED
        BY <2>3, <2>4, <4>1, Zenon
    <3>2. new[i].tokens = {"close"}
      BY <2>2, OwnFields, Zenon
    <3>3. {new[j].tokens : j \in {i}} = {{"close"}}
      BY <3>2, Zenon
    <3>4. QED
      BY <3>1, <3>3, Zenon DEF FirstOptions
  <2>6. QED
    BY <1>3, <1>5, <1>7, <2>5, Zenon
<1>8. QED
  BY <1>6, <1>7

(* The sender's end-to-end fields are what is not of foxy's own in it. *)
LEMMA ComposedInherits ==
    ASSUME NEW fields \in Seq(Fields), NEW at, NEW kept \in Seq(Fields),
           Picks(at, kept, fields, EndToEnd(fields)),
           NEW closes \in BOOLEAN, NEW new, NEW p, ComposedAt(p, new, kept, closes),
           \A k \in 1..Len(kept) : kept[k] \notin {FoxyVia, CloseOption}
    PROVE  Inherits(new, Foreign(new), fields, EndToEnd(fields))
<1> DEFINE K == Len(kept)
           N == Len(new)
           Old(i) == IF i < p THEN i ELSE i - 1
           to == Foreign(new)
           from == EndToEnd(fields)
           b == [i \in to |-> at[Old(i)]]
<1>1. /\ K \in Nat /\ N \in Nat /\ p \in 1..N /\ DOMAIN new = 1..N
      /\ new[p] = FoxyVia /\ N = K + (IF closes THEN 2 ELSE 1)
  BY DEF ComposedAt
<1>2. ASSUME NEW i \in 1..N, i # p
      PROVE  IF Old(i) <= K THEN Old(i) \in 1..K /\ new[i] = kept[Old(i)]
                            ELSE closes /\ new[i] = CloseOption
  BY <1>2, Zenon DEF ComposedAt
<1>3. /\ at \in [1..K -> from]
      /\ \A i, j \in 1..K : i < j => at[i] < at[j]
      /\ \A j \in from : \E i \in 1..K : at[i] = j
      /\ \A i \in 1..K : kept[i] = fields[at[i]]
  BY Zenon DEF Picks
<1>4. to = {i \in 1..N : new[i] \notin {FoxyVia, CloseOption}}
  BY <1>1, Zenon DEF Foreign
<1> HIDE DEF K, N, from, to, Old
<1>5. ASSUME NEW i \in to
      PROVE  /\ i \in 1..N /\ i # p
             /\ Old(i) \in 1..K /\ new[i] = kept[Old(i)]
  <2>1. i \in 1..N /\ new[i] \notin {FoxyVia, CloseOption} /\ i # p
    BY <1>1, <1>4, Zenon
  <2>2. QED
    BY <1>2, <2>1, Zenon
<1>6. b \in [to -> from]
  BY <1>3, <1>5
<1>7. ASSUME NEW i \in to, NEW j \in to, i < j PROVE b[i] < b[j]
  <2>1. Old(i) < Old(j)
    BY <1>1, <1>5, <1>7 DEF Old
  <2>2. at[Old(i)] < at[Old(j)]
    BY <1>3, <1>5, <2>1
  <2>3. QED
    BY <2>2
<1>8. ASSUME NEW j \in from PROVE \E i \in to : b[i] = j
  <2>1. PICK k \in 1..K : at[k] = j
    BY <1>3, Zenon
  <2> DEFINE i == IF k < p THEN k ELSE k + 1
  <2>2. i \in 1..N /\ i # p /\ Old(i) = k
    BY <1>1 DEF Old
  <2> HIDE DEF i
  <2>3. new[i] = kept[k]
    BY <1>1, <1>2, <2>2
  <2>4. i \in to
    BY <1>4, <2>2, <2>3, Zenon DEF K
  <2>5. b[i] = j
    BY <2>1, <2>2, <2>4
  <2>6. QED
    BY <2>4, <2>5
<1>9. ASSUME NEW i \in to PROVE new[i] = fields[b[i]]
  BY <1>3, <1>5, <1>9
<1> HIDE DEF b
<1>10. QED
  BY <1>6, <1>7, <1>8, <1>9, Zenon DEF Inherits, to, from

(* What the relay makes of a header: a Via of foxy's and, if it closes and *)
(* the header is one of HTTP/1.1, a close are put in; nothing else is, and *)
(* nothing that is end-to-end is lost.                                     *)
LEMMA RewrittenFacts ==
    ASSUME NEW d \in Dirs, NEW h \in Headers(d), NEW close \in BOOLEAN, NEW r,
           r = Rewritten(h, close)
    PROVE  /\ has_foxy_via(r.fields)
           /\ KeepAlive(r) <=> h.version = 11 /\ ~close
           /\ \A i \in DOMAIN r.fields : r.fields[i] = CloseOption => close
           /\ ~has_foxy_via(h.fields) =>
                Inherits(r.fields, Foreign(r.fields), h.fields, EndToEnd(h.fields))
<1> DEFINE fields == h.fields
           kept == export_connect_fields(fields)
           closes == close /\ h.version = 11
           new == r.fields
<1>1. /\ fields \in Seq(Fields)
      /\ h = [version |-> h.version, fields |-> h.fields, framing |-> h.framing,
              body |-> h.body]
      /\ h.version \in {10, 11}
  <2>1. /\ fields \in FieldLists /\ h.version \in {10, 11}
        /\ h = [version |-> h.version, fields |-> h.fields, framing |-> h.framing,
                body |-> h.body]
    BY DEF Headers
  <2> DEFINE Sent == [name : STRING, spelled : STRING, tokens : SUBSET STRING]
  <2>2. Sent \subseteq Fields
    BY Zenon DEF Fields
  <2>3. fields \in Seq(Sent)
    BY <2>1, FieldsAssumption, Zenon
  <2> HIDE DEF Sent, fields
  <2>4. fields \in Seq(Fields)
    BY <2>2, <2>3
  <2>5. QED
    BY <2>1, <2>4 DEF fields
<1>2. /\ new = Insert(IF closes THEN Append(kept, CloseOption) ELSE kept, FoxyVia)
      /\ r.version = h.version
  BY <1>1 DEF Rewritten
<1>3. /\ closes \in BOOLEAN /\ kept \in Seq(Fields)
      /\ \E at : Picks(at, kept, fields, EndToEnd(fields))
  BY <1>1, ExportPicks, Zenon
<1> HIDE DEF fields, kept, closes, new
<1>4. PICK at : Picks(at, kept, fields, EndToEnd(fields))
  BY <1>3
<1>5. PICK p : ComposedAt(p, new, kept, closes)
  BY <1>2, <1>3, Composed, Zenon
<1>6. \A k \in 1..Len(kept) : /\ kept[k].name # "Connection" /\ kept[k] # CloseOption
                              /\ ~has_foxy_via(fields) => kept[k] # FoxyVia
  BY <1>1, <1>3, <1>4, KeptIsForeign, Zenon
<1>7. /\ has_foxy_via(new)
      /\ FirstOptions(new) = IF closes THEN {"close"} ELSE {}
      /\ \A i \in DOMAIN new : new[i] = CloseOption => closes
  <2>1. \A k \in 1..Len(kept) : kept[k].name # "Connection"
    BY <1>6, Zenon
  <2>2. QED
    BY <1>3, <1>5, <2>1, ComposedFacts, Zenon
<1>8. ASSUME ~has_foxy_via(fields) PROVE Inherits(new, Foreign(new), fields, EndToEnd(fields))
  <2>1. \A k \in 1..Len(kept) : kept[k] \notin {FoxyVia, CloseOption}
    BY <1>6, <1>8, Zenon
  <2>2. fields \in Seq(Fields) /\ kept \in Seq(Fields) /\ closes \in BOOLEAN
    BY <1>1, <1>3, Zenon
  <2>3. QED
    BY <1>4, <1>5, <2>1, <2>2, ComposedInherits, Zenon
<1>9. KeepAlive(r) <=> h.version = 11 /\ ~close
  <2>1. CASE h.version = 11
    <3>1. KeepAlive(r) <=> "close" \notin FirstOptions(new)
      BY <1>2, <2>1, Zenon DEF KeepAlive, new
    <3>2. QED
      BY <1>7, <2>1, <3>1 DEF closes
  <2>2. CASE h.version # 11
    <3>1. KeepAlive(r) <=> "keep-alive" \in FirstOptions(new)
      BY <1>2, <2>2, Zenon DEF KeepAlive, new
    <3>2. QED
      BY <1>7, <2>2, <3>1 DEF closes
  <2>3. QED
    BY <2>1, <2>2
<1>10. QED
  BY <1>7, <1>8, <1>9, Zenon DEF fields, new, closes

-----------------------------------------------------------------------------
(* The headers, and the decision to close.                                 *)

(* What has been forwarded: the rewritten header of the message that was read. *)
Written ==
    /\ \A d \in Dirs : out[d] # NoHeader =>
        /\ hdr[d] # NoHeader /\ ~has_foxy_via(hdr[d].fields)
        /\ ~KeepAlive(hdr[d]) => closeTunnel
    /\ out["req"] # NoHeader => out["req"] = Rewritten(hdr["req"], ~KeepAlive(hdr["req"]))
    /\ out["res"] # NoHeader => out["res"] = Rewritten(hdr["res"], closeTunnel)

(* When the tunnel has been decided to close. *)
Decided ==
    /\ pc \in {<<"req", "readHeader">>, <<"req", "forward">>} => ~closeTunnel
    /\ \A d \in Dirs : ended[d] => out[d] # NoHeader
    /\ Persists => ~closeTunnel
    /\ report.close /\ ended["res"] => closeTunnel

(* HeaderInv is these two, before a step and after it. *)
LEMMA HeaderParts == (HeaderInv <=> Written /\ Decided) /\ (HeaderInv <=> Written /\ Decided)'
BY Zenon DEF HeaderInv, Written, Decided

(* A relay that starts has read and forwarded nothing. *)
LEMMA InitHeaders == RelayInit => HeaderInv
<1> SUFFICES ASSUME RelayInit PROVE Written /\ Decided
  BY HeaderParts
<1>1. \A d \in Dirs : out[d] = NoHeader /\ ~ended[d]
  BY DEF RelayInit
<1>2. Written
  BY <1>1 DEF Written, Dirs
<1>3. Decided
  BY <1>1 DEF Decided, RelayInit, NoReport, Persists, Dirs
<1>4. QED
  BY <1>2, <1>3

(* Headers that have been written stay as they are. *)
LEMMA WrittenStays ==
    ASSUME Written, UNCHANGED <<out, closeTunnel>>,
           \A d \in Dirs : out[d] # NoHeader => hdr'[d] = hdr[d]
    PROVE  Written'
BY Zenon DEF Written, Dirs

(* Where the relay is suspended, the end of the response has not been      *)
(* sent, nor has the relay reported.                                       *)
LEMMA NotYetEnded ==
    ASSUME BodyInv, NEW d \in Dirs, NEW step \in Steps, pc = <<d, step>>
    PROVE  /\ ~ended[d] /\ ~ended["res"] /\ report.ec = "none" /\ Suspended(d, step)
           /\ out[d] = NoHeader <=> step \in {"readHeader", "forward"}
<1>1. Suspended(d, step)
  BY DEF BodyInv
<1>2. ~ended[d] /\ ~ended["res"]
  BY <1>1 DEF Suspended, Progress, Untouched, Dirs
<1>3. report.ec = "none"
  <2>1. pc # <<"req", "complete">>
    BY DEF Steps
  <2>2. QED
    BY <2>1 DEF BodyInv, Completed
<1>4. QED
  BY <1>1, <1>2, <1>3, SuspendedFacts

(* A step that sends no end, and reports a failure if anything.            *)
LEMMA DecidedStays ==
    ASSUME Decided, UNCHANGED <<out, closeTunnel, ended>>, ~ended["res"],
           report' = report \/ report'.ec = "error",
           pc' \in {<<"req", "readHeader">>, <<"req", "forward">>} => ~closeTunnel
    PROVE  Decided'
<1>1. Persists' => Persists
  BY Zenon DEF Persists
<1>2. QED
  BY <1>1, Zenon DEF Decided

(* The header is read, forwarded and written, and a part of the body read. *)
LEMMA ReadHeaderDecides ==
    ASSUME BodyInv, Written, Decided, NEW d \in Dirs, ReadHeader(d)
    PROVE  Written' /\ Decided'
<1>1. pc = <<d, "readHeader">> /\ UNCHANGED <<out, closeTunnel, ended, bodyEc>>
  BY DEF ReadHeader
<1>2. ~ended["res"] /\ out[d] = NoHeader
  BY <1>1, NotYetEnded DEF Steps
<1>3. /\ \A e \in Dirs : e # d => hdr'[e] = hdr[e]
      /\ pc' \in {<<d, "forward">>, <<"req", "complete">>}
      /\ report' = report \/ report'.ec = "error"
  BY DEF ReadHeader, Upcall, Complete, BodyInv, RelayTypeOK
<1>4. Written'
  BY <1>1, <1>2, <1>3, WrittenStays
<1>5. pc' \in {<<"req", "readHeader">>, <<"req", "forward">>} => ~closeTunnel
  BY <1>1, <1>3 DEF Decided, Dirs
<1>6. Decided'
  BY <1>1, <1>2, <1>3, <1>5, DecidedStays
<1>7. QED
  BY <1>4, <1>6

(* A header is rewritten and written, or the message is refused. *)
LEMMA ForwardDecides ==
    ASSUME BodyInv, Written, Decided, NEW d \in Dirs, Forward(d)
    PROVE  Written' /\ Decided'
<1> DEFINE close == closeTunnel \/ ~KeepAlive(hdr[d])
<1>1. /\ pc = <<d, "forward">> /\ closeTunnel' = close /\ UNCHANGED <<hdr, ended>>
      /\ \/ out' = out /\ pc' = <<"req", "complete">> /\ report' = [ec |-> "ok", close |-> TRUE]
         \/ /\ ~has_foxy_via(hdr[d].fields) /\ out' = [out EXCEPT ![d] = Rewritten(hdr[d], close)]
            /\ pc' = <<d, "writeHeader">> /\ report' = report
  BY DEF Forward, Upcall, Complete
<1>2. /\ ~ended["res"] /\ out[d] = NoHeader /\ report.ec = "none" /\ hdr[d] # NoHeader
      /\ d = "req" => ~closeTunnel /\ out["res"] = NoHeader
  BY <1>1, NotYetEnded DEF Steps, Suspended, Progress, Untouched, Decided
<1>3. DOMAIN out = Dirs /\ closeTunnel \in BOOLEAN
  BY DEF BodyInv, RelayTypeOK
<1>4. \A e \in Dirs : e # d => out'[e] = out[e]
  BY <1>1, <1>3
<1>5. out'[d] # NoHeader =>
        out'[d] = Rewritten(hdr[d], close) /\ ~has_foxy_via(hdr[d].fields)
  BY <1>1, <1>2, <1>3
<1>6. Written'
  <2>1. ASSUME NEW e \in Dirs, out'[e] # NoHeader
        PROVE  /\ hdr[e] # NoHeader /\ ~has_foxy_via(hdr[e].fields)
               /\ ~KeepAlive(hdr[e]) => close
    BY <1>2, <1>4, <1>5, <2>1, Zenon DEF Written
  <2>2. ASSUME out'["req"] # NoHeader
        PROVE  out'["req"] = Rewritten(hdr["req"], ~KeepAlive(hdr["req"]))
    <3>1. CASE d = "req"
      <4>1. close = ~KeepAlive(hdr["req"])
        BY <1>2, <3>1, Zenon
      <4>2. QED
        BY <1>5, <2>2, <3>1, <4>1, Zenon
    <3>2. CASE d # "req"
      BY <1>4, <2>2, <3>2, Zenon DEF Written, Dirs
    <3>3. QED
      BY <3>1, <3>2
  <2>3. ASSUME out'["res"] # NoHeader PROVE out'["res"] = Rewritten(hdr["res"], close)
    <3>1. CASE d = "res"
      BY <1>5, <2>3, <3>1, Zenon
    <3>2. CASE d = "req"
      BY <1>2, <1>4, <2>3, <3>2, Zenon DEF Dirs
    <3>3. QED
      BY <3>1, <3>2 DEF Dirs
  <2>4. QED
    BY <1>1, <2>1, <2>2, <2>3, Zenon DEF Written
<1>7. Decided'
  <2>1. pc' \notin {<<"req", "readHeader">>, <<"req", "forward">>}
    BY <1>1
  <2>2. \A e \in Dirs : ended[e] => out'[e] # NoHeader
    BY <1>1, <1>2, <1>4, NotYetEnded, Zenon DEF Decided, Steps
  <2>3. ~Persists'
    BY <1>1, <1>2 DEF Persists
  <2>4. QED
    BY <1>1, <1>2, <2>1, <2>2, <2>3, Zenon DEF Decided
<1>8. QED
  BY <1>6, <1>7

(* The end of a header write, and a body read, decide nothing. *)
LEMMA TurnDecides ==
    ASSUME BodyInv, Written, Decided, NEW d \in Dirs, WriteHeader(d) \/ ReadBody(d)
    PROVE  Written' /\ Decided'
<1>1. /\ UNCHANGED <<hdr, out, closeTunnel, ended>>
      /\ pc = <<d, "writeHeader">> \/ pc = <<d, "readBody">>
  BY DEF WriteHeader, ReadBody
<1>2. ~ended["res"]
  BY <1>1, NotYetEnded DEF Steps
<1>3. /\ report' = report \/ report'.ec = "error"
      /\ pc' \in {<<d, "readBody">>, <<d, "writeBody">>, <<"req", "complete">>}
  BY DEF WriteHeader, ReadBody, Upcall, Complete, TurnStarts
<1>4. Written'
  BY <1>1, WrittenStays
<1>5. pc' \notin {<<"req", "readHeader">>, <<"req", "forward">>}
  BY <1>3
<1>6. Decided'
  BY <1>1, <1>2, <1>3, <1>5, DecidedStays
<1>7. QED
  BY <1>4, <1>6

(* The end of the response is sent, and the decision reported. *)
LEMMA WriteBodyDecides ==
    ASSUME BodyInv, Written, Decided, NEW d \in Dirs, WriteBody(d)
    PROVE  Written' /\ Decided'
<1>1. /\ pc = <<d, "writeBody">> /\ UNCHANGED <<hdr, out, closeTunnel, isDone>>
      /\ DOMAIN ended = Dirs /\ closeTunnel \in BOOLEAN
  BY DEF WriteBody, BodyInv, RelayTypeOK
<1>2. /\ ~ended["res"] /\ out[d] # NoHeader /\ report.ec = "none"
      /\ bodyEc => ~isDone[d]
  BY <1>1, NotYetEnded, SuspendedFacts DEF Steps
<1>3. Written'
  BY <1>1, WrittenStays
<1>4. CASE Upcall("error") /\ UNCHANGED ended
  <2>1. report'.ec = "error" /\ pc' = <<"req", "complete">>
    BY <1>4 DEF Upcall, Complete
  <2>2. pc' \notin {<<"req", "readHeader">>, <<"req", "forward">>}
    BY <2>1
  <2>3. QED
    BY <1>1, <1>2, <1>3, <1>4, <2>1, <2>2, DecidedStays
<1>5. CASE /\ ended' = [ended EXCEPT ![d] = isDone[d]]
           /\ IF ~bodyEc /\ ~isDone[d]
              THEN TurnStarts(d) /\ UNCHANGED report
              ELSE IF bodyEc THEN Upcall("ok")
              ELSE IF d = "res" THEN Complete("ok", closeTunnel)
              ELSE pc' = <<"res", "readHeader">> /\ UNCHANGED report
  <2>1. \A e \in Dirs : ended'[e] => out'[e] # NoHeader
    BY <1>1, <1>2, <1>5 DEF Decided
  <2>2. CASE TurnStarts(d) /\ UNCHANGED report /\ ~isDone[d]
    <3>1. /\ bodyEc' = FALSE /\ pc' \in {<<d, "readBody">>, <<d, "writeBody">>}
          /\ ~ended'["res"] /\ report'.ec = "none"
      BY <1>1, <1>2, <1>5, <2>2 DEF TurnStarts, Dirs
    <3>2. pc' \notin {<<"req", "readHeader">>, <<"req", "forward">>} /\ ~Persists'
      BY <3>1 DEF Persists
    <3>3. QED
      BY <1>3, <2>1, <3>1, <3>2, Zenon DEF Decided
  <2>3. CASE Upcall("ok") /\ bodyEc
    <3>1. ~ended'["res"]
      BY <1>1, <1>2, <1>5, <2>3 DEF Dirs
    <3>2. pc' = <<"req", "complete">> /\ report'.close /\ ~Persists'
      BY <2>3 DEF Upcall, Complete, Persists
    <3>3. pc' \notin {<<"req", "readHeader">>, <<"req", "forward">>}
      BY <3>2
    <3>4. QED
      BY <1>3, <2>1, <3>1, <3>2, <3>3, Zenon DEF Decided
  <2>4. CASE Complete("ok", closeTunnel)
    <3>1. /\ pc' = <<"req", "complete">>
          /\ report'.close = closeTunnel
      BY <2>4 DEF Complete
    <3>2. pc' \notin {<<"req", "readHeader">>, <<"req", "forward">>}
      BY <3>1
    <3>3. (report'.close => closeTunnel') /\ (Persists' => ~closeTunnel')
      BY <1>1, <3>1, Zenon DEF Persists
    <3>4. QED
      BY <1>3, <2>1, <3>2, <3>3, Zenon DEF Decided
  <2>5. CASE d # "res" /\ pc' = <<"res", "readHeader">> /\ UNCHANGED report
    <3>1. ~ended'["res"]
      BY <1>1, <1>2, <1>5, <2>5 DEF Dirs
    <3>2. pc' \notin {<<"req", "readHeader">>, <<"req", "forward">>}
      BY <2>5
    <3>3. ~Persists'
      BY <1>2, <2>5 DEF Persists
    <3>4. QED
      BY <1>3, <2>1, <3>1, <3>2, <3>3, Zenon DEF Decided
  <2>6. QED
    BY <1>5, <2>2, <2>3, <2>4, <2>5, Zenon
<1>6. QED
  BY <1>4, <1>5, Zenon DEF WriteBody

(* HeaderInv is inductive, given BodyInv. *)
LEMMA StepHeaders == BodyInv /\ HeaderInv /\ [RelayNext]_relayVars => HeaderInv'
<1> SUFFICES ASSUME BodyInv, Written, Decided, [RelayNext]_relayVars
             PROVE  Written' /\ Decided'
  BY HeaderParts, Zenon
<1>1. CASE UNCHANGED relayVars
  <2>1. Written'
    BY <1>1, WrittenStays DEF relayVars
  <2>2. Decided'
    BY <1>1, Zenon DEF relayVars, Decided, Persists
  <2>3. QED
    BY <2>1, <2>2
<1>2. ASSUME NEW d \in Dirs,
             \/ ReadHeader(d) \/ Forward(d) \/ WriteHeader(d) \/ ReadBody(d) \/ WriteBody(d)
      PROVE  Written' /\ Decided'
  BY <1>2, ReadHeaderDecides, ForwardDecides, TurnDecides, WriteBodyDecides, Zenon
<1>3. QED
  BY <1>1, <1>2, Zenon DEF RelayNext, RelayStep

(* For any size of the buffer, any bodies and any fields: the bodies pass  *)
(* in order and whole, and each header is forwarded with the decision, to  *)
(* close or not, that the relay reports in the end.                        *)
THEOREM RelayKeepsInvariant == RelaySpec => []RelayInv
<1>1. RelayInit => RelayInv
  BY InitInv, InitHeaders DEF RelayInv
<1>2. RelayInv /\ [RelayNext]_relayVars => RelayInv'
  BY StepInv, StepHeaders DEF RelayInv
<1>3. QED
  BY <1>1, <1>2, PTL DEF RelaySpec

-----------------------------------------------------------------------------
(* What the relay has written of a header.                                 *)

(* A header is written for one that was read, which has not been through   *)
(* foxy, and announces a close only if the tunnel is to be closed.         *)
LEMMA WrittenFrom ==
    ASSUME BodyInv, HeaderInv, NEW d \in Dirs, out[d] # NoHeader
    PROVE  /\ hdr[d] \in Headers(d) /\ ~has_foxy_via(hdr[d].fields)
           /\ \E close \in BOOLEAN : /\ out[d] = Rewritten(hdr[d], close)
                                     /\ close => closeTunnel
<1>1. hdr[d] # NoHeader /\ ~has_foxy_via(hdr[d].fields) /\ (~KeepAlive(hdr[d]) => closeTunnel)
  BY Zenon DEF HeaderInv
<1>2. hdr[d] \in Headers(d)
  BY <1>1, Zenon DEF BodyInv, RelayTypeOK
<1>3. CASE d = "req"
  <2>1. out[d] = Rewritten(hdr[d], ~KeepAlive(hdr[d])) /\ (~KeepAlive(hdr[d])) \in BOOLEAN
    BY <1>3, Zenon DEF HeaderInv
  <2>2. QED
    BY <1>1, <1>2, <2>1, Zenon
<1>4. CASE d = "res"
  <2>1. out[d] = Rewritten(hdr[d], closeTunnel) /\ closeTunnel \in BOOLEAN
    BY <1>4, Zenon DEF HeaderInv, BodyInv, RelayTypeOK
  <2>2. QED
    BY <1>1, <1>2, <2>1, Zenon
<1>5. QED
  BY <1>3, <1>4, Zenon DEF Dirs

(* What was rewritten had no Via of this proxy. *)
LEMMA InvRefuses == BodyInv /\ HeaderInv => NoSecondPass
<1> SUFFICES ASSUME BodyInv, HeaderInv, NEW d \in Dirs, out[d] # NoHeader
             PROVE  has_foxy_via(out[d].fields)
  BY Zenon DEF NoSecondPass
<1>1. PICK close \in BOOLEAN : out[d] = Rewritten(hdr[d], close)
  BY WrittenFrom, Zenon
<1>2. hdr[d] \in Headers(d)
  BY WrittenFrom, Zenon
<1>3. QED
  BY <1>1, <1>2, RewrittenFacts, Zenon

(* What was rewritten is composed of what export_connect_fields keeps. *)
LEMMA InvInherits == BodyInv /\ HeaderInv => OnlyEndToEnd
<1> SUFFICES ASSUME BodyInv, HeaderInv, NEW d \in Dirs, out[d] # NoHeader
             PROVE  /\ Inherits(out[d].fields, Foreign(out[d].fields),
                                hdr[d].fields, EndToEnd(hdr[d].fields))
                    /\ \A i \in DOMAIN out[d].fields :
                        out[d].fields[i] = CloseOption => closeTunnel
  BY Zenon DEF OnlyEndToEnd
<1>1. PICK close \in BOOLEAN : out[d] = Rewritten(hdr[d], close) /\ (close => closeTunnel)
  BY WrittenFrom, Zenon
<1>2. hdr[d] \in Headers(d) /\ ~has_foxy_via(hdr[d].fields)
  BY WrittenFrom, Zenon
<1>3. QED
  BY <1>1, <1>2, RewrittenFacts, Zenon

(* What was rewritten while the tunnel closes says so. *)
LEMMA InvAnnounces == BodyInv /\ HeaderInv => DecisionAnnounced
<1> SUFFICES ASSUME BodyInv, HeaderInv PROVE DecisionAnnounced
  OBVIOUS
<1>1. "req" \in Dirs /\ "res" \in Dirs /\ closeTunnel \in BOOLEAN
  BY Zenon DEF Dirs, BodyInv, RelayTypeOK
<1>2. ASSUME report.close, ended["res"] PROVE ~KeepAlive(out["res"])
  <2>1. closeTunnel /\ out["res"] # NoHeader
    BY <1>1, <1>2, Zenon DEF HeaderInv
  <2>2. hdr["res"] \in Headers("res") /\ out["res"] = Rewritten(hdr["res"], closeTunnel)
    BY <1>1, <2>1, WrittenFrom, Zenon DEF HeaderInv
  <2>3. QED
    BY <1>1, <2>1, <2>2, RewrittenFacts, Zenon
<1>3. ASSUME out["req"] # NoHeader, ~KeepAlive(hdr["req"]) PROVE ~KeepAlive(out["req"])
  <2>1. /\ hdr["req"] \in Headers("req") /\ (~KeepAlive(hdr["req"])) \in BOOLEAN
        /\ out["req"] = Rewritten(hdr["req"], ~KeepAlive(hdr["req"]))
    BY <1>1, <1>3, WrittenFrom, Zenon DEF HeaderInv
  <2>2. QED
    BY <1>1, <1>3, <2>1, RewrittenFacts, Zenon
<1>4. ASSUME Persists, NEW d \in Dirs, hdr[d].version = 11 PROVE KeepAlive(out[d])
  <2>1. ~closeTunnel /\ ended[d]
    BY <1>4, Zenon DEF HeaderInv, BodyInv, PersistMeansWhole
  <2>2. out[d] # NoHeader
    BY <2>1, Zenon DEF HeaderInv
  <2>3. PICK close \in BOOLEAN : out[d] = Rewritten(hdr[d], close) /\ (close => closeTunnel)
    BY <2>2, WrittenFrom, Zenon
  <2>4. hdr[d] \in Headers(d)
    BY <2>2, WrittenFrom, Zenon
  <2>5. QED
    BY <1>4, <2>1, <2>3, <2>4, RewrittenFacts, Zenon
<1>5. QED
  BY <1>2, <1>3, <1>4, Zenon DEF DecisionAnnounced

(* For any fields, and whatever a sender lists in Connection: what the     *)
(* relay forwards carries foxy's Via, so that it is refused when it comes  *)
(* round again.                                                            *)
THEOREM ForwardedOnce == RelaySpec => []NoSecondPass
<1>1. RelayInv => NoSecondPass
  BY InvRefuses, Zenon DEF RelayInv
<1>2. QED
  BY <1>1, RelayKeepsInvariant, PTL

(* For any fields: export_connect_fields, keep_alive(false) and the insert *)
(* of Via leave the receiver with exactly the sender's end-to-end fields,  *)
(* in order, and a close only when the tunnel is to be closed.             *)
THEOREM EndToEndFieldsPass == RelaySpec => []OnlyEndToEnd
<1>1. RelayInv => OnlyEndToEnd
  BY InvInherits, Zenon DEF RelayInv
<1>2. QED
  BY <1>1, RelayKeepsInvariant, PTL

(* For any fields: the decision the relay reports is the one its two       *)
(* headers carry to the peers, though the senders' own Connection fields   *)
(* were taken out of them.                                                 *)
THEOREM DecisionIsAnnounced == RelaySpec => []DecisionAnnounced
<1>1. RelayInv => DecisionAnnounced
  BY InvAnnounces, Zenon DEF RelayInv
<1>2. QED
  BY <1>1, RelayKeepsInvariant, PTL
=============================================================================
