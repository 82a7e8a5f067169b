----------------------------- MODULE TextProofs -----------------------------
(***************************************************************************)
(* Proofs about loops over texts of any length: what utf8_encode and        *)
(* code_point_iterator make of code points and of bytes.                    *)
(*                                                                         *)
(* Induction and recursion are stated over sets and functions, up to a     *)
(* bound: in that form the provers can use them.                           *)
(***************************************************************************)
EXTENDS Utf8, WellFoundedInduction, TLAPS

\* The order of the natural numbers as a relation: what the two lemmas below
\* rest on.
Less == {p \in Nat \X Nat : p[1] < p[2]}

\* No set of natural numbers is without a least one.
LEMMA LessWellFounded == IsWellFoundedOn(Less, Nat)
BY NatLessThanWellFounded, Zenon DEF OpToRel, Less

\* Induction up to N, for the set of the numbers that have a property.
LEMMA Induction ==
    ASSUME NEW N \in Nat, NEW S, 0 \in S, \A n \in 0..N - 1 : n \in S => n + 1 \in S
    PROVE  \A n \in 0..N : n \in S
<1> DEFINE T == {n \in 0..N : n \notin S}
<1> SUFFICES ASSUME T # {} PROVE FALSE
  OBVIOUS
<1>1. T \subseteq Nat
  OBVIOUS
<1>2. PICK n \in T : \A m \in T : <<m, n>> \notin Less
  <2> HIDE DEF T
  <2> QED BY <1>1, LessWellFounded, WFMin, Zenon
<1>3. n \in 1..N /\ n - 1 \in 0..N - 1 /\ n - 1 + 1 = n
  OBVIOUS
<1>4. n - 1 \notin S
  BY <1>3
<1>5. n - 1 \in T
  BY <1>3, <1>4
<1>6. <<n - 1, n>> \in Less
  BY <1>3 DEF Less
<1>7. QED
  BY <1>2, <1>5, <1>6

(* f is made step by step: f[i] from f[i - 1]. *)
StepByStep(f, n, V, v, next) ==
    /\ f \in [0..n -> V]
    /\ f[0] = v
    /\ \A i \in 1..n : f[i] = next[i][f[i - 1]]

(* A function that is defined step by step, up to a bound, exists. *)
LEMMA Recursion ==
    ASSUME NEW N \in Nat, NEW V, NEW v \in V, NEW next \in [1..N -> [V -> V]]
    PROVE  \E f : StepByStep(f, N, V, v, next)
<1> DEFINE Rec(f, n) == StepByStep(f, n, V, v, next)
           S == {n \in 0..N : \E f : Rec(f, n)}
<1>1. 0 \in S
  <2>1. Rec([i \in 0..0 |-> v], 0)
    BY DEF StepByStep
  <2> HIDE DEF Rec
  <2>2. QED
    BY <2>1
<1>2. ASSUME NEW n \in 0..N - 1, n \in S PROVE n + 1 \in S
  <2>1. PICK f : Rec(f, n)
    BY <1>2, Zenon
  <2> DEFINE g == [i \in 0..n + 1 |-> IF i <= n THEN f[i] ELSE next[n + 1][f[n]]]
  <2>2. n + 1 \in 1..N /\ n \in 0..n /\ f[n] \in V /\ n \in Nat
    BY <2>1 DEF StepByStep
  <2>3. next[n + 1][f[n]] \in V
    BY <2>2
  <2>4. g \in [0..n + 1 -> V]
    BY <2>1, <2>2, <2>3 DEF StepByStep
  <2>5. g[0] = v
    BY <2>1, <2>2 DEF StepByStep
  <2>6. ASSUME NEW i \in 1..n + 1 PROVE g[i] = next[i][g[i - 1]]
    <3>1. i - 1 \in 0..n /\ g[i - 1] = f[i - 1]
      BY <2>2
    <3>2. CASE i <= n
      BY <2>1, <2>2, <3>1, <3>2 DEF StepByStep
    <3>3. CASE i = n + 1
      <4>1. g[i] = next[n + 1][f[n]] /\ i - 1 = n
        BY <2>2, <3>3
      <4> HIDE DEF g
      <4>2. QED
        BY <3>1, <3>3, <4>1
    <3>4. QED
      BY <2>2, <3>2, <3>3
  <2>7. Rec(g, n + 1)
    BY <2>4, <2>5, <2>6, Zenon DEF StepByStep
  <2>8. n + 1 \in 0..N
    BY <2>2
  <2> HIDE DEF Rec, g
  <2>9. QED
    BY <2>7, <2>8
<1>3. N \in S
  <2>1. N \in 0..N
    OBVIOUS
  <2> HIDE DEF S
  <2>2. QED
    BY <1>1, <1>2, <2>1, Induction, Zenon
<1>4. QED
  BY <1>3, Zenon

-----------------------------------------------------------------------------
\* The sink holds what it held before a write, and behind it what is written.
LEMMA SinkFacts ==
  ASSUME NEW T, NEW w \in Seq(Seq(T))
  PROVE  /\ \A n \in 0 .. Len(w) : Sink(w)[n] \in Seq(T)
         /\ Sink(w)[0] = <<>>
         /\ \A n \in 1 .. Len(w) : Sink(w)[n] = Sink(w)[n - 1] \o w[n]
<1> DEFINE N == Len(w)
           V == Seq(T)
           next == [n \in 1 .. N |-> [v \in V |-> v \o w[n]]]
           At(f, n) == IF n = 0 THEN <<>> ELSE f[n - 1] \o w[n]
           Is(f) == f = [n \in 0 .. N |-> At(f, n)]
           g == Sink(w)
<1>1. N \in Nat /\ \A n \in 1 .. N : w[n] \in V
  OBVIOUS
<1>2. g = CHOOSE f : Is(f)
  BY DEF Sink
<1>3. <<>> \in V /\ \A u, v \in V : u \o v \in V
  OBVIOUS
<1> HIDE DEF N, g, V
<1>4. next \in [1 .. N -> [V -> V]]
  BY <1>1, <1>3
<1>5. PICK f : StepByStep(f, N, V, <<>>, next)
  <2> HIDE DEF next
  <2> QED BY <1>1, <1>3, <1>4, Recursion, Zenon
<1>6. /\ 0 \in 0 .. N
      /\ \A n \in 1 .. N : n \in 0 .. N /\ n # 0 /\ n - 1 \in 0 .. N
      /\ \A n \in 0 .. N : n # 0 => n \in 1 .. N
  BY <1>1
<1>7. ASSUME NEW n \in 0 .. N PROVE f[n] = At(f, n)
  <2>1. CASE n = 0
    BY <1>5, <2>1, Zenon DEF StepByStep
  <2>2. CASE n # 0
    <3>1. n \in 1 .. N /\ f[n - 1] \in V
      BY <1>5, <1>6, <2>2, Zenon DEF StepByStep
    <3>2. next[n][f[n - 1]] = f[n - 1] \o w[n]
      BY <3>1, Zenon
    <3>3. f[n] = next[n][f[n - 1]]
      BY <1>5, <3>1, Zenon DEF StepByStep
    <3> HIDE DEF next
    <3>4. QED
      BY <2>2, <3>2, <3>3, Zenon
  <2>3. QED
    BY <2>1, <2>2
<1> HIDE DEF next, At
<1>8. Is(f)
  BY <1>5, <1>7 DEF StepByStep
<1>9. Is(g)
  BY <1>2, <1>8, Zenon
<1>10. \A n \in 0 .. N : g[n] = At(g, n)
  BY <1>9, Zenon
<1>11. g[0] = <<>> /\ \A n \in 1 .. N : g[n] = g[n - 1] \o w[n]
  BY <1>6, <1>10, Zenon DEF At
<1>12. \A n \in 0 .. N : g[n] \in V
  <2> DEFINE S == {n \in 0 .. N : g[n] \in V}
  <2>1. 0 \in S
    BY <1>3, <1>6, <1>11, Zenon
  <2>2. ASSUME NEW n \in 0 .. N - 1, n \in S PROVE n + 1 \in S
    <3>1. n + 1 \in 1 .. N /\ n + 1 \in 0 .. N /\ (n + 1) - 1 = n
      BY <1>1
    <3>2. g[n + 1] = g[n] \o w[n + 1] /\ g[n] \in V
      BY <1>11, <2>2, <3>1, Zenon
    <3>3. QED
      BY <1>1, <1>3, <3>1, <3>2, Zenon
  <2> HIDE DEF S
  <2>3. \A n \in 0 .. N : n \in S
    BY <1>1, <2>1, <2>2, Induction, Zenon
  <2>4. QED
    BY <2>3, Zenon DEF S
<1>13. QED
  BY <1>11, <1>12, Zenon DEF N, g, V

-----------------------------------------------------------------------------
\* The bytes of c stand in the text at position i.
StandsAt(c, bytes, i) ==
  /\ i + Len(utf8_encode(c)) - 1 <= Len(bytes)
  /\ \A k \in 1 .. Len(utf8_encode(c)) : bytes[i + k - 1] = utf8_encode(c)[k]

\* When the lead byte announces n trail bytes, they are there and the value
\* they carry is a valid one of that width, the dereference returns it.
LEMMA DerefWhole ==
  ASSUME NEW bytes \in Seq(Nat), NEW i \in 1 .. Len(bytes), NEW n \in 0 .. 3, NEW c \in Nat,
         n = TrailLength(bytes[i]), i + n <= Len(bytes),
         \A k \in 1 .. n : IsTrail(bytes[i + k]),
         c = Value(bytes, i, n), IsValid(c), Width(c) = n + 1
  PROVE  Deref(bytes, i) = [cp |-> c, next |-> i + n + 1]
<1> DEFINE bad == {k \in 1 .. n : i + k <= Len(bytes) /\ ~IsTrail(bytes[i + k])}
<1>1. bad = {}
  BY Zenon
<1>2. ~(n < 0) /\ ~(i + n > Len(bytes)) /\ ~(n > 0 /\ (~IsValid(c) \/ Width(c) # n + 1))
  OBVIOUS
<1>3. QED
  BY <1>1, <1>2, Zenon DEF Deref

\* Six bits split off a number can be put back, and their trail byte carries
\* them.
LEMMA SixBits ==
  ASSUME NEW c \in Nat
  PROVE  /\ Up(c) \in Nat
         /\ c = Up(c) * 64 + (Trail(c) % 64)
         /\ Trail(c) \in Nat /\ IsTrail(Trail(c))
<1>1. c \div 64 \in Nat /\ c % 64 \in 0 .. 63 /\ c = (c \div 64) * 64 + (c % 64)
  BY SMT
<1>2. ASSUME NEW r \in 0 .. 63
      PROVE  128 + r \in Nat /\ 128 <= 128 + r /\ 128 + r <= 191 /\ (128 + r) % 64 = r
  BY SMT
<1>3. QED
  BY <1>1, <1>2 DEF Up, Trail, IsTrail

\* A lead byte announces the number of trail bytes and carries its own bits.
LEMMA LeadOfTwo ==
  ASSUME NEW q \in 2 .. 31 PROVE TrailLength(192 + q) = 1 /\ (192 + q) % 32 = q
BY SMT DEF TrailLength

\* The lead byte of three bytes.
LEMMA LeadOfThree ==
  ASSUME NEW q \in 0 .. 15 PROVE TrailLength(224 + q) = 2 /\ (224 + q) % 16 = q
BY SMT DEF TrailLength

\* The lead byte of four bytes.
LEMMA LeadOfFour ==
  ASSUME NEW q \in 0 .. 4 PROVE TrailLength(240 + q) = 3 /\ (240 + q) % 8 = q
BY SMT DEF TrailLength

\* The dereference on each width.
LEMMA DerefOne ==
  ASSUME NEW c \in Nat, IsValid(c), Width(c) = 1,
         NEW bytes \in Seq(Nat), NEW i \in 1 .. Len(bytes), StandsAt(c, bytes, i)
  PROVE  Deref(bytes, i) = [cp |-> c, next |-> i + 1]
<1>1. ~(c < 0)
  OBVIOUS
<1>2. utf8_encode(c) = <<c>>
  BY <1>1, Zenon DEF utf8_encode
<1>3. bytes[i] = c
  BY <1>2 DEF StandsAt
<1>4. c <= 127
  BY SMT DEF Width
<1>5. TrailLength(bytes[i]) = 0 /\ Value(bytes, i, 0) = c
  BY <1>3, <1>4 DEF TrailLength, Value
<1>6. QED
  BY <1>5, DerefWhole

\* A code point of two bytes.
LEMMA DerefTwo ==
  ASSUME NEW c \in Nat, IsValid(c), Width(c) = 2,
         NEW bytes \in Seq(Nat), NEW i \in 1 .. Len(bytes), StandsAt(c, bytes, i)
  PROVE  Deref(bytes, i) = [cp |-> c, next |-> i + 2]
<1>1. ~(c < 0) /\ 2 # 1
  OBVIOUS
<1>2. utf8_encode(c) = <<192 + Up(c), Trail(c)>>
  BY <1>1, Zenon DEF utf8_encode
<1>3. bytes[i] = 192 + Up(c) /\ bytes[i + 1] = Trail(c) /\ i + 1 <= Len(bytes)
  BY <1>2 DEF StandsAt
<1>4. 128 <= c /\ c <= 2047
  BY SMT DEF Width
<1>5. Up(c) \in 2 .. 31
  BY <1>4, SMT DEF Up
<1>6. TrailLength(192 + Up(c)) = 1 /\ (192 + Up(c)) % 32 = Up(c)
  BY <1>5, LeadOfTwo, Zenon
<1>7. TrailLength(bytes[i]) = 1 /\ bytes[i] % 32 = Up(c)
  BY <1>3, <1>6, Zenon
<1>8. Value(bytes, i, 1) = c
  BY <1>3, <1>7, SixBits DEF Value
<1>9. ASSUME NEW k \in 1 .. 1 PROVE IsTrail(bytes[i + k])
  <2>1. k = 1
    OBVIOUS
  <2>2. QED
    BY <1>3, <1>5, <2>1, SixBits, Zenon
<1>10. QED
  BY <1>3, <1>7, <1>8, <1>9, DerefWhole

\* A code point of three bytes.
LEMMA DerefThree ==
  ASSUME NEW c \in Nat, IsValid(c), Width(c) = 3,
         NEW bytes \in Seq(Nat), NEW i \in 1 .. Len(bytes), StandsAt(c, bytes, i)
  PROVE  Deref(bytes, i) = [cp |-> c, next |-> i + 3]
<1>1. ~(c < 0) /\ 3 # 1 /\ 3 # 2
  OBVIOUS
<1>2. utf8_encode(c) = <<224 + Up(Up(c)), Trail(Up(c)), Trail(c)>>
  BY <1>1, Zenon DEF utf8_encode
<1>3. /\ bytes[i] = 224 + Up(Up(c)) /\ bytes[i + 1] = Trail(Up(c))
      /\ bytes[i + 2] = Trail(c) /\ i + 2 <= Len(bytes)
  <2>1. /\ Len(utf8_encode(c)) = 3
        /\ utf8_encode(c)[1] = 224 + Up(Up(c)) /\ utf8_encode(c)[2] = Trail(Up(c))
        /\ utf8_encode(c)[3] = Trail(c)
    BY <1>2
  <2>2. i + 2 <= Len(bytes) /\ \A k \in 1 .. 3 : bytes[i + k - 1] = utf8_encode(c)[k]
    BY <2>1 DEF StandsAt
  <2>3. /\ bytes[i] = utf8_encode(c)[1] /\ bytes[i + 1] = utf8_encode(c)[2]
        /\ bytes[i + 2] = utf8_encode(c)[3]
    <3>1. /\ i + 1 - 1 = i /\ i + 2 - 1 = i + 1 /\ i + 3 - 1 = i + 2
          /\ 1 \in 1 .. 3 /\ 2 \in 1 .. 3 /\ 3 \in 1 .. 3
      OBVIOUS
    <3>2. QED
      BY <2>2, <3>1, Zenon
  <2>4. QED
    BY <2>1, <2>2, <2>3, Zenon
<1>4. 2048 <= c /\ c <= 65535
  BY SMT DEF Width
<1>5. Up(Up(c)) \in 0 .. 15 /\ Up(c) \in Nat
  BY <1>4, SMT DEF Up
<1>6. TrailLength(224 + Up(Up(c))) = 2 /\ (224 + Up(Up(c))) % 16 = Up(Up(c))
  BY <1>5, LeadOfThree, Zenon
<1>7. TrailLength(bytes[i]) = 2 /\ bytes[i] % 16 = Up(Up(c))
  BY <1>3, <1>6, Zenon
<1>8. Value(bytes, i, 2) = c
  BY <1>3, <1>5, <1>7, SixBits DEF Value
<1>9. ASSUME NEW k \in 1 .. 2 PROVE IsTrail(bytes[i + k])
  <2>1. k = 1 \/ k = 2
    OBVIOUS
  <2>2. IsTrail(Trail(Up(c))) /\ IsTrail(Trail(c))
    BY <1>5, SixBits, Zenon
  <2>3. QED
    BY <1>3, <2>1, <2>2, Zenon
<1>10. QED
  BY <1>3, <1>7, <1>8, <1>9, DerefWhole

\* A code point of four bytes.
LEMMA DerefFour ==
  ASSUME NEW c \in Nat, IsValid(c), Width(c) = 4,
         NEW bytes \in Seq(Nat), NEW i \in 1 .. Len(bytes), StandsAt(c, bytes, i)
  PROVE  Deref(bytes, i) = [cp |-> c, next |-> i + 4]
<1>1. ~(c < 0) /\ 4 # 1 /\ 4 # 2 /\ 4 # 3
  OBVIOUS
<1>2. utf8_encode(c) = <<240 + Up(Up(Up(c))), Trail(Up(Up(c))), Trail(Up(c)), Trail(c)>>
  BY <1>1, Zenon DEF utf8_encode
<1>3. /\ bytes[i] = 240 + Up(Up(Up(c))) /\ bytes[i + 1] = Trail(Up(Up(c)))
      /\ bytes[i + 2] = Trail(Up(c)) /\ bytes[i + 3] = Trail(c) /\ i + 3 <= Len(bytes)
  <2>1. /\ Len(utf8_encode(c)) = 4
        /\ utf8_encode(c)[1] = 240 + Up(Up(Up(c))) /\ utf8_encode(c)[2] = Trail(Up(Up(c)))
        /\ utf8_encode(c)[3] = Trail(Up(c)) /\ utf8_encode(c)[4] = Trail(c)
    BY <1>2
  <2>2. i + 3 <= Len(bytes) /\ \A k \in 1 .. 4 : bytes[i + k - 1] = utf8_encode(c)[k]
    BY <2>1 DEF StandsAt
  <2>3. /\ bytes[i] = utf8_encode(c)[1] /\ bytes[i + 1] = utf8_encode(c)[2]
        /\ bytes[i + 2] = utf8_encode(c)[3] /\ bytes[i + 3] = utf8_encode(c)[4]
    BY <2>2
  <2>4. QED
    BY <2>1, <2>2, <2>3, Zenon
<1>4. c <= 1114111
  BY SMT DEF IsValid
<1>5. Up(Up(Up(c))) \in 0 .. 4 /\ Up(Up(c)) \in Nat /\ Up(c) \in Nat
  BY <1>4, SMT DEF Up
<1>6. TrailLength(240 + Up(Up(Up(c)))) = 3 /\ (240 + Up(Up(Up(c)))) % 8 = Up(Up(Up(c)))
  BY <1>5, LeadOfFour, Zenon
<1>7. TrailLength(bytes[i]) = 3 /\ bytes[i] % 8 = Up(Up(Up(c)))
  BY <1>3, <1>6, Zenon
<1>8. Value(bytes, i, 3) = c
  BY <1>3, <1>5, <1>7, SixBits DEF Value
<1>9. ASSUME NEW k \in 1 .. 3 PROVE IsTrail(bytes[i + k])
  <2>1. k = 1 \/ k = 2 \/ k = 3
    OBVIOUS
  <2>2. IsTrail(Trail(Up(Up(c)))) /\ IsTrail(Trail(Up(c))) /\ IsTrail(Trail(c))
    BY <1>5, SixBits, Zenon
  <2>3. QED
    BY <1>3, <2>1, <2>2, Zenon
<1>10. QED
  BY <1>3, <1>7, <1>8, <1>9, DerefWhole

\* Wherever the UTF-8 form of a valid code point stands in a text, the iterator
\* that stands on its first byte yields the code point and is left behind its
\* last byte: code_point_iterator undoes utf8_encode, one code point at a time.
THEOREM DerefInvertsEncode ==
  ASSUME NEW c \in Nat, IsValid(c),
         NEW bytes \in Seq(Nat), NEW i \in 1 .. Len(bytes), StandsAt(c, bytes, i)
  PROVE  Deref(bytes, i) = [cp |-> c, next |-> i + Width(c)]
<1>1. Width(c) = 1 \/ Width(c) = 2 \/ Width(c) = 3 \/ Width(c) = 4
  BY SMT DEF Width
<1>2. QED
  BY <1>1, DerefOne, DerefTwo, DerefThree, DerefFour

\* The UTF-8 form of a code point has as many bytes as its width says.
LEMMA EncodeFacts ==
  ASSUME NEW c \in Nat, IsValid(c)
  PROVE  utf8_encode(c) \in Seq(Nat) /\ Len(utf8_encode(c)) = Width(c) /\ Width(c) \in 1 .. 4
<1>1. Width(c) = 1 \/ Width(c) = 2 \/ Width(c) = 3 \/ Width(c) = 4
  BY SMT DEF Width
<1>2. ~(c < 0) /\ 2 # 1 /\ 3 # 1 /\ 3 # 2 /\ 4 # 1 /\ 4 # 2 /\ 4 # 3
  OBVIOUS
<1>3. \A d \in Nat : Up(d) \in Nat /\ Trail(d) \in Nat
  BY SixBits, Zenon
<1>4. CASE Width(c) = 1
  <2>1. utf8_encode(c) = <<c>>
    BY <1>2, <1>4, Zenon DEF utf8_encode
  <2>2. QED
    BY <1>4, <2>1
<1>5. CASE Width(c) = 2
  <2>1. utf8_encode(c) = <<192 + Up(c), Trail(c)>>
    BY <1>2, <1>5, Zenon DEF utf8_encode
  <2>2. QED
    BY <1>3, <1>5, <2>1
<1>6. CASE Width(c) = 3
  <2>1. utf8_encode(c) = <<224 + Up(Up(c)), Trail(Up(c)), Trail(c)>>
    BY <1>2, <1>6, Zenon DEF utf8_encode
  <2>2. QED
    BY <1>3, <1>6, <2>1
<1>7. CASE Width(c) = 4
  <2>1. utf8_encode(c) = <<240 + Up(Up(Up(c))), Trail(Up(Up(c))), Trail(Up(c)), Trail(c)>>
    BY <1>2, <1>7, Zenon DEF utf8_encode
  <2>2. QED
    BY <1>3, <1>7, <2>1
<1>8. QED
  BY <1>1, <1>4, <1>5, <1>6, <1>7

\* What the loop of utf8_encode(begin, end, sink) computes.
LEMMA EncodedFacts ==
  ASSUME NEW cs \in Seq(Nat), \A i \in 1 .. Len(cs) : IsValid(cs[i])
  PROVE  /\ \A i \in 0 .. Len(cs) : Encoded(cs)[i] \in Seq(Nat)
         /\ Encoded(cs)[0] = <<>>
         /\ \A i \in 1 .. Len(cs) : Encoded(cs)[i] = Encoded(cs)[i - 1] \o utf8_encode(cs[i])
<1> DEFINE w == [i \in DOMAIN cs |-> utf8_encode(cs[i])]
<1>1. DOMAIN cs = 1 .. Len(cs) /\ \A i \in 1 .. Len(cs) : cs[i] \in Nat
  OBVIOUS
<1>2. \A i \in 1 .. Len(cs) : utf8_encode(cs[i]) \in Seq(Nat)
  BY <1>1, EncodeFacts, Zenon
<1>3. w \in Seq(Seq(Nat)) /\ Len(w) = Len(cs) /\ \A i \in 1 .. Len(cs) : w[i] = utf8_encode(cs[i])
  BY <1>1, <1>2
<1>4. Encoded(cs) = Sink(w)
  BY DEF Encoded
<1> HIDE DEF w
<1>5. QED
  BY <1>3, <1>4, SinkFacts, Zenon

\* What a concatenation is made of.
LEMMA ConcatFacts ==
  ASSUME NEW s \in Seq(Nat), NEW t \in Seq(Nat)
  PROVE  /\ s \o t \in Seq(Nat) /\ Len(s \o t) = Len(s) + Len(t)
         /\ \A k \in 1 .. Len(s) : (s \o t)[k] = s[k]
         /\ \A k \in 1 .. Len(t) : (s \o t)[Len(s) + k] = t[k]
OBVIOUS

\* t begins with s.
Begins(t, s) == Len(s) <= Len(t) /\ \A k \in 1 .. Len(s) : t[k] = s[k]

\* To begin with is transitive.
LEMMA BeginsTrans ==
  ASSUME NEW T, NEW s \in Seq(T), NEW t \in Seq(T), NEW u \in Seq(T), Begins(t, s), Begins(u, t)
  PROVE  Begins(u, s)
<1>1. Len(s) \in Nat /\ Len(t) \in Nat /\ Len(u) \in Nat
  OBVIOUS
<1>2. Len(s) <= Len(u) /\ \A k \in 1 .. Len(s) : k \in 1 .. Len(t)
  BY <1>1 DEF Begins
<1>3. QED
  BY <1>2, Zenon DEF Begins

\* The sink only grows, by a byte at least for each code point.
LEMMA EncodedGrows ==
  ASSUME NEW cs \in Seq(Nat), \A i \in 1 .. Len(cs) : IsValid(cs[i])
  PROVE  \A j \in 0 .. Len(cs) : /\ \A i \in 0 .. j : Begins(Encoded(cs)[j], Encoded(cs)[i])
                                 /\ Len(Encoded(cs)[j]) >= j
<1> DEFINE N == Len(cs)
           E == Encoded(cs)
           Grown(j) == (\A i \in 0 .. j : Begins(E[j], E[i])) /\ Len(E[j]) >= j
           S == {j \in 0 .. N : Grown(j)}
<1>1. N \in Nat /\ \A i \in 1 .. N : cs[i] \in Nat /\ IsValid(cs[i])
  OBVIOUS
<1>2. /\ \A i \in 0 .. N : E[i] \in Seq(Nat)
      /\ E[0] = <<>> /\ \A i \in 1 .. N : E[i] = E[i - 1] \o utf8_encode(cs[i])
  BY EncodedFacts, Zenon
<1> HIDE DEF N, E
<1>3. 0 \in S
  BY <1>1, <1>2 DEF Begins
<1>4. ASSUME NEW n \in 0 .. N - 1, n \in S PROVE n + 1 \in S
  <2> DEFINE e == utf8_encode(cs[n + 1])
  <2>1. n + 1 \in 1 .. N /\ n + 1 \in 0 .. N /\ n \in 0 .. N /\ (n + 1) - 1 = n /\ n \in Nat
    BY <1>1
  <2>2. e \in Seq(Nat) /\ Len(e) >= 1
    <3>1. e \in Seq(Nat) /\ Len(e) = Width(cs[n + 1]) /\ Width(cs[n + 1]) \in 1 .. 4
      BY <1>1, <2>1, EncodeFacts
    <3> HIDE DEF e
    <3>2. QED
      BY <3>1
  <2>3. E[n + 1] = E[n] \o e /\ E[n] \in Seq(Nat) /\ E[n + 1] \in Seq(Nat)
    BY <1>2, <2>1, Zenon
  <2> HIDE DEF e
  <2>4. Begins(E[n + 1], E[n]) /\ Len(E[n + 1]) >= Len(E[n]) + 1
    BY <2>2, <2>3 DEF Begins
  <2>5. Grown(n)
    BY <1>4, Zenon
  <2>6. Len(E[n + 1]) >= n + 1
    BY <2>1, <2>3, <2>4, <2>5
  <2>7. ASSUME NEW i \in 0 .. n + 1 PROVE Begins(E[n + 1], E[i])
    <3>1. CASE i = n + 1
      BY <2>3, <3>1 DEF Begins
    <3>2. CASE i # n + 1
      <4>1. i \in 0 .. n /\ i \in 0 .. N
        BY <1>1, <2>1, <3>2
      <4>2. Begins(E[n], E[i]) /\ E[i] \in Seq(Nat)
        BY <1>2, <2>5, <4>1, Zenon
      <4>3. QED
        BY <2>3, <2>4, <4>2, BeginsTrans, Zenon
    <3>3. QED
      BY <3>1, <3>2
  <2> HIDE DEF Grown
  <2>8. QED
    BY <2>1, <2>6, <2>7, Zenon DEF Grown
<1> HIDE DEF S
<1>5. \A j \in 0 .. N : j \in S
  BY <1>1, <1>3, <1>4, Induction, Zenon
<1>6. QED
  BY <1>5, Zenon DEF S, N, E

\* After the first i - 1 code points, and within all the bytes, stands the
\* i-th.
LEMMA CodePointStands ==
  ASSUME NEW cs \in Seq(Nat), \A i \in 1 .. Len(cs) : IsValid(cs[i]), NEW i \in 1 .. Len(cs),
         NEW bytes, bytes = utf8_encode_range(cs), NEW at, at = Len(Encoded(cs)[i - 1]) + 1
  PROVE  /\ at \in 1 .. Len(bytes) /\ StandsAt(cs[i], bytes, at)
         /\ at + Width(cs[i]) = Len(Encoded(cs)[i]) + 1
<1> DEFINE N == Len(cs)
           E == Encoded(cs)
           c == cs[i]
           e == utf8_encode(c)
<1>1. N \in Nat /\ i \in 0 .. N /\ i - 1 \in 0 .. N /\ N \in 0 .. N /\ i \in 0 .. N /\ c \in Nat /\ IsValid(c)
  OBVIOUS
<1>2. E[i - 1] \in Seq(Nat) /\ E[i] \in Seq(Nat) /\ E[N] \in Seq(Nat)
  BY <1>1, EncodedFacts, Zenon
<1>3. E[i] = E[i - 1] \o e
  BY EncodedFacts, Zenon
<1>4. bytes = E[N]
  BY DEF utf8_encode_range
<1>5. Begins(E[N], E[i])
  BY <1>1, EncodedGrows, Zenon
<1>6. e \in Seq(Nat) /\ Len(e) = Width(c) /\ Width(c) \in 1 .. 4
  BY <1>1, EncodeFacts, Zenon
<1> HIDE DEF E, N, c, e
<1>7. /\ Len(E[i]) = Len(E[i - 1]) + Len(e)
      /\ \A k \in 1 .. Len(e) : E[i][Len(E[i - 1]) + k] = e[k]
  <2>1. /\ Len(E[i - 1] \o e) = Len(E[i - 1]) + Len(e)
        /\ \A k \in 1 .. Len(e) : (E[i - 1] \o e)[Len(E[i - 1]) + k] = e[k]
    BY <1>2, <1>6, ConcatFacts, Zenon
  <2>2. QED
    BY <1>3, <2>1
<1>8. Len(E[i]) <= Len(bytes) /\ \A k \in 1 .. Len(E[i]) : bytes[k] = E[i][k]
  BY <1>4, <1>5, Zenon DEF Begins
<1>9. /\ Len(E[i - 1]) \in Nat /\ Len(e) \in 1 .. 4 /\ Len(bytes) \in Nat
      /\ at = Len(E[i - 1]) + 1
  <2>1. Len(E[i - 1]) \in Nat /\ Len(E[N]) \in Nat
    BY <1>2
  <2>2. QED
    BY <1>4, <1>6, <2>1, Zenon DEF E
<1>10. /\ at \in 1 .. Len(bytes) /\ at + Len(e) - 1 <= Len(bytes)
       /\ at + Width(c) = Len(E[i]) + 1
  <2>1. \A p, l \in Nat, w \in 1 .. 4 :
          p + w <= l => /\ p + 1 \in 1 .. l /\ (p + 1) + w - 1 <= l
                        /\ (p + 1) + w = (p + w) + 1
    OBVIOUS
  <2>2. Len(E[i - 1]) + Len(e) <= Len(bytes) /\ Len(e) = Width(c)
    BY <1>6, <1>7, <1>8, Zenon
  <2>3. QED
    BY <1>7, <1>9, <2>1, <2>2, Zenon
<1>11. ASSUME NEW k \in 1 .. Len(e) PROVE bytes[at + k - 1] = e[k]
  <2>1. \A p \in Nat, w \in 1 .. 4 : \A j \in 1 .. w :
          (p + 1) + j - 1 = p + j /\ p + j \in 1 .. p + w
    OBVIOUS
  <2>2. at + k - 1 = Len(E[i - 1]) + k /\ Len(E[i - 1]) + k \in 1 .. Len(E[i])
    BY <1>7, <1>9, <2>1, Zenon
  <2>3. QED
    BY <1>7, <1>8, <2>2, Zenon
<1>12. QED
  BY <1>10, <1>11, Zenon DEF StandsAt, c, e, E

\* A dereference moves the iterator on, and not past the end.
LEMMA DerefMoves ==
  ASSUME NEW bytes \in Seq(Nat), NEW i \in 1 .. Len(bytes)
  PROVE  Deref(bytes, i).cp \in Int /\ Deref(bytes, i).next \in i + 1 .. Len(bytes) + 1
<1> DEFINE L == Len(bytes)
           n == TrailLength(bytes[i])
           bad == {k \in 1 .. n : i + k <= L /\ ~IsTrail(bytes[i + k])}
           first == CHOOSE k \in bad : \A j \in bad : k <= j
           c == Value(bytes, i, n)
<1>1. L \in Nat /\ i \in 1 .. L /\ bytes[i] \in Nat
  OBVIOUS
<1>2. n \in {-1, 0, 1, 2, 3}
  BY <1>1 DEF TrailLength
<1>3. bad \subseteq {1, 2, 3} /\ \A k \in bad : i + k <= L
  <2> HIDE DEF n
  <2> QED BY <1>2
<1>4. i + n <= L /\ n >= 0 => c \in Int
  <2> SUFFICES ASSUME i + n <= L PROVE n \in {0, 1, 2, 3} => c \in Nat
    BY <1>2
  <2>1. \A b \in Nat : b % 8 \in Nat /\ b % 16 \in Nat /\ b % 32 \in Nat /\ b % 64 \in Nat
    OBVIOUS
  <2>2. /\ \A v, w \in Nat : v * 64 + w \in Nat
        /\ \A v, w, x \in Nat : (v * 64 + w) * 64 + x \in Nat
    OBVIOUS
  <2>3. \A k \in Nat : i + k <= L => bytes[i + k] \in Nat
    BY <1>1
  <2> HIDE DEF n, L
  <2>4. CASE n = 0
    BY <1>1, <2>4 DEF Value
  <2>5. CASE n = 1
    <3>1. bytes[i + 1] \in Nat
      BY <2>3, <2>5
    <3>2. c = (bytes[i] % 32) * 64 + (bytes[i + 1] % 64)
      BY <2>5 DEF Value
    <3>3. bytes[i] % 32 \in Nat /\ bytes[i + 1] % 64 \in Nat
      BY <1>1, <2>1, <3>1, Zenon
    <3> HIDE DEF c
    <3>4. QED
      BY <2>2, <3>2, <3>3, Zenon
  <2>6. CASE n = 2
    <3>1. bytes[i + 1] \in Nat /\ bytes[i + 2] \in Nat
      BY <1>1, <2>3, <2>6
    <3>2. c = ((bytes[i] % 16) * 64 + (bytes[i + 1] % 64)) * 64 + (bytes[i + 2] % 64)
      BY <2>6 DEF Value
    <3>3. bytes[i] % 16 \in Nat /\ bytes[i + 1] % 64 \in Nat /\ bytes[i + 2] % 64 \in Nat
      BY <1>1, <2>1, <3>1, Zenon
    <3> HIDE DEF c
    <3>4. QED
      BY <2>2, <3>2, <3>3, Zenon
  <2>7. CASE n = 3
    <3>1. bytes[i + 1] \in Nat /\ bytes[i + 2] \in Nat /\ bytes[i + 3] \in Nat
      BY <1>1, <2>3, <2>7
    <3>2. c = (((bytes[i] % 8) * 64 + (bytes[i + 1] % 64)) * 64 + (bytes[i + 2] % 64)) * 64
                + (bytes[i + 3] % 64)
      BY <2>7 DEF Value
    <3>3. /\ bytes[i] % 8 \in Nat /\ bytes[i + 1] % 64 \in Nat
          /\ bytes[i + 2] % 64 \in Nat /\ bytes[i + 3] % 64 \in Nat
      BY <1>1, <2>1, <3>1, Zenon
    <3> HIDE DEF c
    <3>4. ((bytes[i] % 8) * 64 + (bytes[i + 1] % 64)) * 64 + (bytes[i + 2] % 64) \in Nat
      BY <2>2, <3>3, Zenon
    <3>5. (((bytes[i] % 8) * 64 + (bytes[i + 1] % 64)) * 64 + (bytes[i + 2] % 64)) * 64
            + (bytes[i + 3] % 64) \in Nat
      BY <2>2, <3>3, <3>4, Zenon
    <3>6. QED
      BY <3>2, <3>5, Zenon
  <2>8. QED
    BY <2>4, <2>5, <2>6, <2>7
<1> HIDE DEF L, n, bad, c
<1>5. bad # {} => first \in bad
  <2> SUFFICES ASSUME bad # {} PROVE \E k \in bad : \A j \in bad : k <= j
    BY Zenon
  <2>1. CASE 1 \in bad
    BY <1>3, <2>1
  <2>2. CASE 1 \notin bad /\ 2 \in bad
    BY <1>3, <2>2
  <2>3. CASE 1 \notin bad /\ 2 \notin bad
    <3>1. bad = {3}
      BY <1>3, <2>3, Zenon
    <3>2. QED
      BY <3>1
  <2>4. QED
    BY <2>1, <2>2, <2>3
<1> HIDE DEF first
<1>6. Deref(bytes, i) =
        IF n < 0 THEN [cp |-> Illegal, next |-> i + 1]
        ELSE IF bad # {} THEN [cp |-> Illegal, next |-> i + first + 1]
        ELSE IF i + n > L THEN [cp |-> Incomplete, next |-> L + 1]
        ELSE IF n > 0 /\ (~IsValid(c) \/ Width(c) # n + 1)
               THEN [cp |-> Illegal, next |-> i + n + 1]
        ELSE [cp |-> c, next |-> i + n + 1]
  BY Zenon DEF Deref, L, n, bad, first, c
<1>7. Illegal \in Int /\ Incomplete \in Int
  BY DEF Illegal, Incomplete
<1>8. PICK cp, next : Deref(bytes, i) = [cp |-> cp, next |-> next] /\ cp \in Int /\ next \in i + 1 .. L + 1
  <2>1. CASE n < 0
    <3>1. i + 1 \in i + 1 .. L + 1
      BY <1>1
    <3>2. QED
      BY <1>6, <1>7, <2>1, <3>1, Zenon
  <2>2. CASE ~(n < 0) /\ bad # {}
    <3>1. i + first + 1 \in i + 1 .. L + 1
      <4>1. first \in {1, 2, 3} /\ i + first <= L
        BY <1>3, <1>5, <2>2, Zenon
      <4>2. QED
        BY <1>1, <4>1
    <3>2. QED
      BY <1>6, <1>7, <2>2, <3>1, Zenon
  <2>3. CASE ~(n < 0) /\ bad = {} /\ i + n > L
    <3>1. L + 1 \in i + 1 .. L + 1
      BY <1>1
    <3>2. QED
      BY <1>6, <1>7, <2>3, <3>1, Zenon
  <2>4. CASE ~(n < 0) /\ bad = {} /\ ~(i + n > L)
    <3>1. i + n + 1 \in i + 1 .. L + 1 /\ c \in Int
      BY <1>1, <1>2, <1>4, <2>4
    <3>2. QED
      BY <1>6, <1>7, <2>4, <3>1, Zenon
  <2>5. QED
    BY <2>1, <2>2, <2>3, <2>4, Zenon
<1>9. QED
  BY <1>8 DEF L

\* Where the iterator of a loop over a view stands: at a byte or at the end.
States(bytes) == [at : 1 .. Len(bytes) + 1, read : Seq(Int)]

\* The turns of a loop over a view.
LEMMA IteratedFacts ==
  ASSUME NEW bytes \in Seq(Nat)
  PROVE  /\ Iterated(bytes) \in [0 .. Len(bytes) -> States(bytes)]
         /\ Iterated(bytes)[0] = [at |-> 1, read |-> <<>>]
         /\ \A n \in 1 .. Len(bytes) :
              Iterated(bytes)[n] =
                IF Iterated(bytes)[n - 1].at = Len(bytes) + 1 THEN Iterated(bytes)[n - 1]
                ELSE [at |-> Deref(bytes, Iterated(bytes)[n - 1].at).next,
                      read |-> Append(Iterated(bytes)[n - 1].read,
                                      Deref(bytes, Iterated(bytes)[n - 1].at).cp)]
<1> DEFINE N == Len(bytes)
           V == States(bytes)
           Turn(v) == IF v.at = N + 1 THEN v
                      ELSE [at |-> Deref(bytes, v.at).next,
                            read |-> Append(v.read, Deref(bytes, v.at).cp)]
           turn == [v \in [at : Nat, read : Seq(Int)] |-> Turn(v)]
           next == [n \in 1 .. N |-> [v \in V |-> Turn(v)]]
           begin == [at |-> 1, read |-> <<>>]
           At(f, n) == IF n = 0 THEN begin ELSE turn[f[n - 1]]
           Is(f) == f = [n \in 0 .. N |-> At(f, n)]
           g == Iterated(bytes)
<1>1. N \in Nat
  OBVIOUS
<1>2. g = CHOOSE f : Is(f)
  BY Zenon DEF Iterated
<1>3. begin \in V
  BY DEF States
<1>4. \A v \in V : Turn(v) \in V
  <2> SUFFICES ASSUME NEW v \in V, v.at # N + 1
               PROVE  [at |-> Deref(bytes, v.at).next,
                       read |-> Append(v.read, Deref(bytes, v.at).cp)] \in V
    BY Zenon
  <2>1. v.at \in 1 .. N /\ v.read \in Seq(Int)
    BY <1>1 DEF States
  <2>2. Deref(bytes, v.at).cp \in Int /\ Deref(bytes, v.at).next \in v.at + 1 .. N + 1
    BY <2>1, DerefMoves, Zenon
  <2>3. Deref(bytes, v.at).next \in 1 .. N + 1
    BY <1>1, <2>1, <2>2
  <2>4. Append(v.read, Deref(bytes, v.at).cp) \in Seq(Int)
    BY <2>1, <2>2
  <2>5. QED
    BY <2>3, <2>4 DEF States
<1>4a. \A v \in V : turn[v] = Turn(v)
  <2>1. V \subseteq [at : Nat, read : Seq(Int)]
    BY <1>1 DEF States
  <2> HIDE DEF V, Turn
  <2>2. QED
    BY <2>1, Zenon
<1> HIDE DEF N, g, V, Turn, begin, turn
<1>5. next \in [1 .. N -> [V -> V]]
  BY <1>4
<1>6. PICK f : StepByStep(f, N, V, begin, next)
  <2> HIDE DEF next
  <2> QED BY <1>1, <1>3, <1>5, Recursion, Zenon
<1>7. /\ 0 \in 0 .. N
      /\ \A i \in 1 .. N : i \in 0 .. N /\ i # 0 /\ i - 1 \in 0 .. N
      /\ \A i \in 0 .. N : i # 0 => i \in 1 .. N
  BY <1>1
<1>8. ASSUME NEW i \in 0 .. N PROVE f[i] = At(f, i)
  <2>1. CASE i = 0
    BY <1>6, <2>1, Zenon DEF StepByStep
  <2>2. CASE i # 0
    <3>1. i \in 1 .. N /\ f[i - 1] \in V
      BY <1>6, <1>7, <2>2, Zenon DEF StepByStep
    <3>2. next[i][f[i - 1]] = turn[f[i - 1]]
      BY <1>4a, <3>1, Zenon
    <3>3. f[i] = next[i][f[i - 1]]
      BY <1>6, <3>1, Zenon DEF StepByStep
    <3> HIDE DEF next
    <3>4. QED
      BY <2>2, <3>2, <3>3, Zenon
  <2>3. QED
    BY <2>1, <2>2
<1> HIDE DEF next, At
<1>9. Is(f)
  BY <1>6, <1>8 DEF StepByStep
<1>10. Is(g)
  BY <1>2, <1>9, Zenon
<1>11. \A i \in 0 .. N : g[i] = At(g, i)
  BY <1>10, Zenon
<1>12. g[0] = begin /\ \A i \in 1 .. N : g[i] = turn[g[i - 1]]
  BY <1>7, <1>11, Zenon DEF At
<1>13. \A i \in 0 .. N : g[i] \in V
  <2> DEFINE S == {n \in 0 .. N : g[n] \in V}
  <2>1. 0 \in S
    BY <1>3, <1>7, <1>12, Zenon
  <2>2. ASSUME NEW n \in 0 .. N - 1, n \in S PROVE n + 1 \in S
    <3>1. n + 1 \in 1 .. N /\ n + 1 \in 0 .. N /\ (n + 1) - 1 = n
      BY <1>1
    <3>2. g[n + 1] = Turn(g[n]) /\ g[n] \in V
      BY <1>4a, <1>12, <2>2, <3>1, Zenon
    <3>3. QED
      BY <1>4, <3>1, <3>2, Zenon
  <2> HIDE DEF S
  <2>3. \A i \in 0 .. N : i \in S
    BY <1>1, <2>1, <2>2, Induction, Zenon
  <2>4. QED
    BY <2>3, Zenon DEF S
<1>14. g \in [0 .. N -> V]
  BY <1>10, <1>13
<1>15. \A i \in 1 .. N : g[i] = Turn(g[i - 1])
  BY <1>4a, <1>7, <1>12, <1>13, Zenon
<1>16. QED
  BY <1>12, <1>14, <1>15, Zenon DEF N, g, V, Turn, begin

\* The loop over the UTF-8 form of code points takes one of them a turn.
LEMMA TurnTakesOne ==
  ASSUME NEW cs \in Seq(Nat), \A i \in 1 .. Len(cs) : IsValid(cs[i]),
         NEW bytes, bytes = utf8_encode_range(cs)
  PROVE  /\ bytes \in Seq(Nat) /\ Len(cs) <= Len(bytes)
         /\ \A n \in 0 .. Len(cs) :
              /\ Iterated(bytes)[n].at = Len(Encoded(cs)[n]) + 1
              /\ Iterated(bytes)[n].read = SubSeq(cs, 1, n)
<1> DEFINE N == Len(cs)
           L == Len(bytes)
           E == Encoded(cs)
           I == Iterated(bytes)
           Taken(n) == I[n].at = Len(E[n]) + 1 /\ I[n].read = SubSeq(cs, 1, n)
           S == {n \in 0 .. N : Taken(n)}
<1>1. N \in Nat /\ N \in 0 .. N /\ \A i \in 1 .. N : cs[i] \in Nat /\ IsValid(cs[i])
  OBVIOUS
<1>2. bytes = E[N] /\ bytes \in Seq(Nat) /\ E[0] = <<>>
  BY <1>1, EncodedFacts, Zenon DEF utf8_encode_range
<1>3. L \in Nat /\ N <= L
  <2>1. Len(E[N]) >= N
    BY <1>1, EncodedGrows, Zenon
  <2>2. L \in Nat /\ L = Len(E[N])
    BY <1>2
  <2> HIDE DEF N, L, E
  <2>3. QED
    BY <1>1, <2>1, <2>2
<1>4. /\ I[0] = [at |-> 1, read |-> <<>>]
      /\ \A n \in 1 .. L : I[n] = IF I[n - 1].at = L + 1 THEN I[n - 1]
                                  ELSE [at |-> Deref(bytes, I[n - 1].at).next,
                                        read |-> Append(I[n - 1].read, Deref(bytes, I[n - 1].at).cp)]
  BY <1>2, IteratedFacts, Zenon
<1>5. ASSUME NEW n \in 1 .. N, NEW at, at = Len(E[n - 1]) + 1
      PROVE  /\ at \in 1 .. L
             /\ Deref(bytes, at) = [cp |-> cs[n], next |-> Len(E[n]) + 1]
  <2>1. /\ at \in 1 .. L /\ StandsAt(cs[n], bytes, at)
        /\ at + Width(cs[n]) = Len(E[n]) + 1
    BY <1>5, CodePointStands, Zenon
  <2>2. Deref(bytes, at) = [cp |-> cs[n], next |-> at + Width(cs[n])]
    BY <1>1, <1>2, <2>1, DerefInvertsEncode, Zenon
  <2>3. QED
    BY <2>1, <2>2, Zenon
<1> HIDE DEF N, L, E, I
<1>6. 0 \in S
  <2>1. SubSeq(cs, 1, 0) = <<>> /\ Len(<<>>) + 1 = 1 /\ 0 \in 0 .. N
    BY <1>1
  <2>2. I[0].at = 1 /\ I[0].read = <<>>
    BY <1>4
  <2>3. QED
    BY <1>2, <2>1, <2>2, Zenon
<1>7. ASSUME NEW n \in 0 .. N - 1, n \in S PROVE n + 1 \in S
  <2>1. n + 1 \in 1 .. N /\ n + 1 \in 0 .. N /\ n + 1 \in 1 .. L /\ (n + 1) - 1 = n
    BY <1>1, <1>3
  <2>2. Taken(n)
    BY <1>7, Zenon
  <2> DEFINE at == Len(E[n]) + 1
  <2>3. at \in 1 .. L /\ Deref(bytes, at) = [cp |-> cs[n + 1], next |-> Len(E[n + 1]) + 1]
    BY <1>5, <2>1, Zenon
  <2>4. I[n].at = at /\ I[n].read = SubSeq(cs, 1, n)
    BY <2>2, Zenon
  <2> HIDE DEF at
  <2>5. at # L + 1
    BY <1>3, <2>3
  <2>6. I[n + 1] = [at |-> Deref(bytes, at).next, read |-> Append(SubSeq(cs, 1, n), Deref(bytes, at).cp)]
    BY <1>4, <2>1, <2>4, <2>5, Zenon
  <2>7. /\ I[n + 1].at = Len(E[n + 1]) + 1
        /\ I[n + 1].read = Append(SubSeq(cs, 1, n), cs[n + 1])
    BY <2>3, <2>6
  <2>8. Append(SubSeq(cs, 1, n), cs[n + 1]) = SubSeq(cs, 1, n + 1)
    BY <1>1, <2>1 DEF N
  <2>9. QED
    BY <2>1, <2>7, <2>8, Zenon
<1> HIDE DEF S
<1>8. \A n \in 0 .. N : n \in S
  BY <1>1, <1>6, <1>7, Induction, Zenon
<1>9. QED
  BY <1>2, <1>3, <1>8, Zenon DEF S, N, L, E, I

\* A loop over a view that has come to the end stays there, and what it has
\* read stays.
LEMMA EndStays ==
  ASSUME NEW bytes \in Seq(Nat), NEW m \in 0 .. Len(bytes),
         Iterated(bytes)[m].at = Len(bytes) + 1
  PROVE  Iterated(bytes)[Len(bytes)] = Iterated(bytes)[m]
<1> DEFINE L == Len(bytes)
           I == Iterated(bytes)
           S == {k \in 0 .. L - m : I[m + k] = I[m]}
<1>1. L \in Nat /\ L - m \in Nat /\ m + (L - m) = L /\ L - m \in 0 .. L - m /\ m + 0 = m
  OBVIOUS
<1>2. \A n \in 1 .. L : I[n - 1].at = L + 1 => I[n] = I[n - 1]
  BY IteratedFacts, Zenon
<1>3. I[m].at = L + 1
  OBVIOUS
<1> HIDE DEF L, I
<1>4. 0 \in S
  BY <1>1
<1>5. ASSUME NEW k \in 0 .. (L - m) - 1, k \in S PROVE k + 1 \in S
  <2>1. /\ m + (k + 1) \in 1 .. L /\ (m + (k + 1)) - 1 = m + k /\ k + 1 \in 0 .. L - m
    BY <1>1
  <2>2. I[m + k] = I[m]
    BY <1>5, Zenon
  <2>3. I[m + (k + 1)] = I[m]
    BY <1>2, <1>3, <2>1, <2>2, Zenon
  <2>4. QED
    BY <2>1, <2>3, Zenon
<1> HIDE DEF S
<1>6. L - m \in S
  BY <1>1, <1>4, <1>5, Induction, Zenon
<1>7. I[m + (L - m)] = I[m]
  BY <1>6, Zenon DEF S
<1>8. QED
  BY <1>1, <1>7 DEF L, I

\* For any text: iterating over the UTF-8 form of valid code points gives them
\* back one for one, although code_point_iterator's ++ does nothing and only
\* its dereference moves.
THEOREM ViewInverts == \A cs \in Seq(Nat) : ViewInvertsEncoding(cs)
<1> SUFFICES ASSUME NEW cs \in Seq(Nat), \A i \in DOMAIN cs : IsValid(cs[i])
             PROVE  code_points(utf8_encode_range(cs)) = cs
  BY Zenon DEF ViewInvertsEncoding
<1> DEFINE N == Len(cs)
           bytes == utf8_encode_range(cs)
           I == Iterated(bytes)
<1>1. N \in Nat /\ N \in 0 .. N /\ DOMAIN cs = 1 .. N /\ SubSeq(cs, 1, N) = cs
  OBVIOUS
<1>2. \A i \in 1 .. N : IsValid(cs[i])
  BY <1>1
<1>3. bytes = Encoded(cs)[N]
  BY DEF utf8_encode_range
<1> HIDE DEF bytes, N
<1>4. /\ bytes \in Seq(Nat) /\ N <= Len(bytes)
      /\ I[N].at = Len(Encoded(cs)[N]) + 1 /\ I[N].read = SubSeq(cs, 1, N)
  BY <1>1, <1>2, TurnTakesOne, Zenon DEF N, bytes
<1>5. N \in 0 .. Len(bytes)
  BY <1>1, <1>4
<1>6. I[Len(bytes)] = I[N]
  BY <1>3, <1>4, <1>5, EndStays, Zenon
<1>7. QED
  BY <1>1, <1>4, <1>6, Zenon DEF code_points, bytes

\* c is v followed by the six bits of a trail byte.
Joins(c, v, b) == c = v * 64 + (b % 64)

\* The six bits can be split off again.
LEMMA PutBack ==
  ASSUME NEW v \in Nat, NEW b \in Nat, IsTrail(b), NEW c, Joins(c, v, b)
  PROVE  c \in Nat /\ Up(c) = v /\ Trail(c) = b
<1>1. b % 64 = b - 128 /\ b - 128 \in 0 .. 63
  BY SMT DEF IsTrail
<1>2. ASSUME NEW r \in 0 .. 63 PROVE (v * 64 + r) \div 64 = v /\ (v * 64 + r) % 64 = r
  BY SMT
<1>3. c = v * 64 + (b - 128) /\ c \in Nat
  BY <1>1 DEF Joins
<1>4. c \div 64 = v /\ c % 64 = b - 128
  BY <1>1, <1>2, <1>3
<1>5. QED
  BY <1>3, <1>4 DEF Up, Trail

\* A lead byte is the number of trail bytes it announces and the bits it carries.
LEMMA LeadFacts ==
  ASSUME NEW b \in Nat
  PROVE  /\ TrailLength(b) \in {-1, 0, 1, 2, 3}
         /\ TrailLength(b) = 0 => b < 128
         /\ TrailLength(b) = 1 => b % 32 \in Nat /\ 192 + (b % 32) = b
         /\ TrailLength(b) = 2 => b % 16 \in Nat /\ 224 + (b % 16) = b
         /\ TrailLength(b) = 3 => b % 8 \in Nat /\ 240 + (b % 8) = b
<1>1. CASE b < 128
  BY <1>1 DEF TrailLength
<1>2. CASE ~(b < 128) /\ (b < 194 \/ b > 244)
  BY <1>2 DEF TrailLength
<1>3. CASE b \in 194 .. 223
  <2>1. b - 192 \in 2 .. 31 /\ 192 + (b - 192) = b
    BY <1>3
  <2>2. TrailLength(b) = 1 /\ b % 32 = b - 192
    BY <2>1, LeadOfTwo
  <2>3. QED
    BY <2>1, <2>2
<1>4. CASE b \in 224 .. 239
  <2>1. b - 224 \in 0 .. 15 /\ 224 + (b - 224) = b
    BY <1>4
  <2>2. TrailLength(b) = 2 /\ b % 16 = b - 224
    BY <2>1, LeadOfThree
  <2>3. QED
    BY <2>1, <2>2
<1>5. CASE b \in 240 .. 244
  <2>1. b - 240 \in 0 .. 4 /\ 240 + (b - 240) = b
    BY <1>5
  <2>2. TrailLength(b) = 3 /\ b % 8 = b - 240
    BY <2>1, LeadOfFour
  <2>3. QED
    BY <2>1, <2>2
<1>6. QED
  BY <1>1, <1>2, <1>3, <1>4, <1>5

\* A dereference that yields no error value has read the one UTF-8 form of the
\* code point it yields.
LEMMA DerefExact ==
  ASSUME NEW bytes \in Seq(Nat), NEW i \in 1 .. Len(bytes), NEW c, c = Deref(bytes, i).cp,
         c \notin {Illegal, Incomplete}
  PROVE  /\ c \in Nat /\ IsValid(c) /\ StandsAt(c, bytes, i)
         /\ Deref(bytes, i).next = i + Width(c)
<1> DEFINE L == Len(bytes)
           n == TrailLength(bytes[i])
           bad == {k \in 1 .. n : i + k <= L /\ ~IsTrail(bytes[i + k])}
           first == CHOOSE k \in bad : \A j \in bad : k <= j
           v == Value(bytes, i, n)
<1>1. L \in Nat /\ i \in 1 .. L /\ bytes[i] \in Nat
  OBVIOUS
<1>2. /\ n \in {-1, 0, 1, 2, 3}
      /\ n = 0 => bytes[i] < 128
      /\ n = 1 => bytes[i] % 32 \in Nat /\ 192 + (bytes[i] % 32) = bytes[i]
      /\ n = 2 => bytes[i] % 16 \in Nat /\ 224 + (bytes[i] % 16) = bytes[i]
      /\ n = 3 => bytes[i] % 8 \in Nat /\ 240 + (bytes[i] % 8) = bytes[i]
  BY <1>1, LeadFacts, Zenon
<1>3. Deref(bytes, i) =
        IF n < 0 THEN [cp |-> Illegal, next |-> i + 1]
        ELSE IF bad # {} THEN [cp |-> Illegal, next |-> i + first + 1]
        ELSE IF i + n > L THEN [cp |-> Incomplete, next |-> L + 1]
        ELSE IF n > 0 /\ (~IsValid(v) \/ Width(v) # n + 1)
               THEN [cp |-> Illegal, next |-> i + n + 1]
        ELSE [cp |-> v, next |-> i + n + 1]
  BY Zenon DEF Deref
<1> HIDE DEF n, first, v
<1>4. /\ ~(n < 0) /\ bad = {} /\ ~(i + n > L) /\ (n > 0 => IsValid(v) /\ Width(v) = n + 1)
      /\ Deref(bytes, i) = [cp |-> v, next |-> i + n + 1]
  <2> HIDE DEF bad, L
  <2>1. \A cp, next : [cp |-> cp, next |-> next].cp = cp
    OBVIOUS
  <2>2. QED
    BY <1>3, <2>1, Zenon
<1>5. c = v /\ Deref(bytes, i).next = i + n + 1
  BY <1>4
<1>6. i + n <= L /\ n \in 0 .. 3
  BY <1>1, <1>2, <1>4
<1>7. \A k \in 1 .. n : bytes[i + k] \in Nat /\ IsTrail(bytes[i + k])
  <2> SUFFICES ASSUME NEW k \in 1 .. n PROVE bytes[i + k] \in Nat /\ IsTrail(bytes[i + k])
    OBVIOUS
  <2>1. i + k \in 1 .. L /\ i + k <= L
    BY <1>1, <1>6
  <2>2. bytes[i + k] \in Nat
    BY <2>1
  <2>3. IsTrail(bytes[i + k])
    BY <1>4, <2>1, Zenon
  <2>4. QED
    BY <2>2, <2>3
<1> HIDE DEF bad, L
<1>8. CASE n = 0
  <2>1. v = bytes[i]
    BY <1>8 DEF v, Value
  <2>2. c \in Nat /\ c < 128
    BY <1>1, <1>2, <1>5, <1>8, <2>1
  <2>3. IsValid(c) /\ Width(c) = 1 /\ ~(c < 0)
    BY <2>2 DEF IsValid, Width
  <2>4. utf8_encode(c) = <<c>>
    BY <2>3, Zenon DEF utf8_encode
  <2>5. StandsAt(c, bytes, i)
    <3>1. /\ Len(utf8_encode(c)) = 1 /\ i + 1 - 1 <= Len(bytes)
          /\ \A k \in 1 .. 1 : bytes[i + k - 1] = utf8_encode(c)[k]
      BY <1>1, <1>5, <2>1, <2>4 DEF L
    <3>2. QED
      BY <3>1, Zenon DEF StandsAt
  <2>6. i + n + 1 = i + 1
    BY <1>8
  <2>7. QED
    BY <1>5, <2>2, <2>3, <2>5, <2>6, Zenon
<1>9. CASE n = 1
  <2> DEFINE a == bytes[i]
             b == bytes[i + 1]
  <2>1. IsValid(c) /\ Width(c) = 2 /\ i + n + 1 = i + 2
    BY <1>4, <1>5, <1>9
  <2>2. b \in Nat /\ IsTrail(b)
    BY <1>7, <1>9
  <2>3. a % 32 \in Nat /\ 192 + (a % 32) = a
    BY <1>2, <1>9, Zenon
  <2>4. Joins(c, a % 32, b)
    BY <1>5, <1>9 DEF v, Value, Joins
  <2> HIDE DEF a, b
  <2>5. c \in Nat /\ Up(c) = a % 32 /\ Trail(c) = b
    BY <2>2, <2>3, <2>4, PutBack, Zenon
  <2>6. ~(c < 0) /\ 2 # 1
    BY <2>5
  <2>7. utf8_encode(c) = <<a, b>>
    BY <2>1, <2>3, <2>5, <2>6, Zenon DEF utf8_encode
  <2>8. StandsAt(c, bytes, i)
    <3>1. Len(utf8_encode(c)) = 2 /\ utf8_encode(c)[1] = a /\ utf8_encode(c)[2] = b
      BY <2>7
    <3>2. /\ i + 1 - 1 = i /\ i + 2 - 1 = i + 1
          /\ i + 2 - 1 <= Len(bytes) /\ \A k \in 1 .. 2 : k = 1 \/ k = 2
      BY <1>1, <1>6, <1>9 DEF L
    <3>3. ASSUME NEW k \in 1 .. 2 PROVE bytes[i + k - 1] = utf8_encode(c)[k]
      BY <3>1, <3>2, Zenon DEF a, b
    <3>4. QED
      BY <3>1, <3>2, <3>3, Zenon DEF StandsAt
  <2>9. QED
    BY <1>5, <2>1, <2>5, <2>8, Zenon
<1>10. CASE n = 2
  <2> DEFINE a == bytes[i]
             b == bytes[i + 1]
             d == bytes[i + 2]
             u == (a % 16) * 64 + (b % 64)
  <2>1. IsValid(c) /\ Width(c) = 3 /\ i + n + 1 = i + 3
    BY <1>4, <1>5, <1>10
  <2>2. b \in Nat /\ IsTrail(b) /\ d \in Nat /\ IsTrail(d)
    BY <1>7, <1>10
  <2>3. a % 16 \in Nat /\ 224 + (a % 16) = a
    BY <1>2, <1>10, Zenon
  <2>4. Joins(u, a % 16, b) /\ Joins(c, u, d)
    BY <1>5, <1>10 DEF v, Value, Joins
  <2> HIDE DEF a, b, d, u
  <2>5. u \in Nat /\ Up(u) = a % 16 /\ Trail(u) = b
    BY <2>2, <2>3, <2>4, PutBack, Zenon
  <2>6. c \in Nat /\ Up(c) = u /\ Trail(c) = d
    BY <2>2, <2>4, <2>5, PutBack, Zenon
  <2>7. ~(c < 0) /\ 3 # 1 /\ 3 # 2
    BY <2>6
  <2>8. utf8_encode(c) = <<a, b, d>>
    <3>1. utf8_encode(c) = <<224 + Up(Up(c)), Trail(Up(c)), Trail(c)>>
      BY <2>1, <2>7, Zenon DEF utf8_encode
    <3>2. QED
      BY <2>3, <2>5, <2>6, <3>1
  <2>9. StandsAt(c, bytes, i)
    <3>1. /\ Len(utf8_encode(c)) = 3 /\ utf8_encode(c)[1] = a /\ utf8_encode(c)[2] = b
          /\ utf8_encode(c)[3] = d
      BY <2>8
    <3>2. /\ i + 1 - 1 = i /\ i + 2 - 1 = i + 1 /\ i + 3 - 1 = i + 2
          /\ i + 3 - 1 <= Len(bytes) /\ \A k \in 1 .. 3 : k = 1 \/ k = 2 \/ k = 3
      BY <1>1, <1>6, <1>10 DEF L
    <3>3. ASSUME NEW k \in 1 .. 3 PROVE bytes[i + k - 1] = utf8_encode(c)[k]
      BY <3>1, <3>2, Zenon DEF a, b, d
    <3>4. QED
      BY <3>1, <3>2, <3>3, Zenon DEF StandsAt
  <2>10. QED
    BY <1>5, <2>1, <2>6, <2>9, Zenon
<1>11. CASE n = 3
  <2> DEFINE a == bytes[i]
             b == bytes[i + 1]
             d == bytes[i + 2]
             e == bytes[i + 3]
             u == (a % 8) * 64 + (b % 64)
             w == u * 64 + (d % 64)
  <2>1. IsValid(c) /\ Width(c) = 4 /\ i + n + 1 = i + 4
    BY <1>4, <1>5, <1>11
  <2>2. /\ b \in Nat /\ IsTrail(b) /\ d \in Nat /\ IsTrail(d)
        /\ e \in Nat /\ IsTrail(e)
    BY <1>7, <1>11
  <2>3. a % 8 \in Nat /\ 240 + (a % 8) = a
    BY <1>2, <1>11, Zenon
  <2>4. Joins(u, a % 8, b) /\ Joins(w, u, d) /\ Joins(c, w, e)
    BY <1>5, <1>11 DEF v, Value, Joins
  <2> HIDE DEF a, b, d, e, u, w
  <2>5. u \in Nat /\ Up(u) = a % 8 /\ Trail(u) = b
    BY <2>2, <2>3, <2>4, PutBack, Zenon
  <2>6. w \in Nat /\ Up(w) = u /\ Trail(w) = d
    BY <2>2, <2>4, <2>5, PutBack, Zenon
  <2>7. c \in Nat /\ Up(c) = w /\ Trail(c) = e
    BY <2>2, <2>4, <2>6, PutBack, Zenon
  <2>8. ~(c < 0) /\ 4 # 1 /\ 4 # 2 /\ 4 # 3
    BY <2>7
  <2>9. utf8_encode(c) = <<a, b, d, e>>
    <3>1. utf8_encode(c) = <<240 + Up(Up(Up(c))), Trail(Up(Up(c))), Trail(Up(c)), Trail(c)>>
      BY <2>1, <2>8, Zenon DEF utf8_encode
    <3>2. QED
      BY <2>3, <2>5, <2>6, <2>7, <3>1
  <2>10. StandsAt(c, bytes, i)
    <3>1. /\ Len(utf8_encode(c)) = 4 /\ utf8_encode(c)[1] = a /\ utf8_encode(c)[2] = b
          /\ utf8_encode(c)[3] = d /\ utf8_encode(c)[4] = e
      BY <2>9
    <3>2. /\ i + 1 - 1 = i /\ i + 2 - 1 = i + 1 /\ i + 3 - 1 = i + 2 /\ i + 4 - 1 = i + 3
          /\ i + 4 - 1 <= Len(bytes)
          /\ \A k \in 1 .. 4 : k = 1 \/ k = 2 \/ k = 3 \/ k = 4
      BY <1>1, <1>6, <1>11 DEF L
    <3>3. ASSUME NEW k \in 1 .. 4 PROVE bytes[i + k - 1] = utf8_encode(c)[k]
      BY <3>1, <3>2, Zenon DEF a, b, d, e
    <3>4. QED
      BY <3>1, <3>2, <3>3, Zenon DEF StandsAt
  <2>11. QED
    BY <1>5, <2>1, <2>7, <2>10, Zenon
<1>12. QED
  <2>1. n = 0 \/ n = 1 \/ n = 2 \/ n = 3
    BY <1>6
  <2>2. QED
    BY <1>8, <1>9, <1>10, <1>11, <2>1, Zenon

\* One more code point is encoded behind the bytes of those before it.
LEMMA EncodedOneMore ==
  ASSUME NEW cs \in Seq(Nat), \A i \in 1 .. Len(cs) : IsValid(cs[i]),
         NEW c \in Nat, IsValid(c)
  PROVE  utf8_encode_range(Append(cs, c)) = utf8_encode_range(cs) \o utf8_encode(c)
<1> DEFINE N == Len(cs)
           ds == Append(cs, c)
           E == Encoded(cs)
           F == Encoded(ds)
           S == {n \in 0 .. N : F[n] = E[n]}
<1>1. /\ N \in Nat /\ N \in 0 .. N /\ N + 1 \in 1 .. N + 1 /\ (N + 1) - 1 = N
      /\ \A i \in 1 .. N : i \in 1 .. N + 1
  OBVIOUS
<1>2. /\ ds \in Seq(Nat) /\ Len(ds) = N + 1 /\ ds[N + 1] = c
      /\ \A i \in 1 .. N : ds[i] = cs[i]
  OBVIOUS
<1>3. ASSUME NEW i \in 1 .. N + 1 PROVE IsValid(ds[i])
  <2>1. i = N + 1 \/ i \in 1 .. N
    BY <1>1
  <2>2. QED
    BY <1>2, <2>1, Zenon
<1> HIDE DEF ds
<1>4. E[0] = <<>> /\ \A i \in 1 .. N : E[i] = E[i - 1] \o utf8_encode(cs[i])
  BY EncodedFacts, Zenon
<1> HIDE DEF N
<1>5. F[0] = <<>> /\ \A i \in 1 .. N + 1 : F[i] = F[i - 1] \o utf8_encode(ds[i])
  BY <1>2, <1>3, EncodedFacts, Zenon
<1> HIDE DEF E, F
<1>6. 0 \in S
  BY <1>1, <1>4, <1>5
<1>7. ASSUME NEW n \in 0 .. N - 1, n \in S PROVE n + 1 \in S
  <2>1. n + 1 \in 1 .. N /\ n + 1 \in 0 .. N /\ (n + 1) - 1 = n
    BY <1>1
  <2>2. F[n] = E[n]
    BY <1>7, Zenon
  <2>3. F[n + 1] = E[n + 1]
    BY <1>1, <1>2, <1>4, <1>5, <2>1, <2>2, Zenon
  <2>4. QED
    BY <2>1, <2>3, Zenon
<1> HIDE DEF S
<1>8. N \in S
  BY <1>1, <1>6, <1>7, Induction, Zenon
<1>9. F[N] = E[N]
  BY <1>8, Zenon DEF S
<1>10. F[N + 1] = E[N] \o utf8_encode(c)
  BY <1>1, <1>2, <1>5, <1>9, Zenon
<1>11. utf8_encode_range(ds) = F[N + 1] /\ utf8_encode_range(cs) = E[N]
  BY <1>2, Zenon DEF utf8_encode_range, N, E, F
<1>12. QED
  BY <1>10, <1>11, Zenon DEF ds

\* Sequences with the same elements are the same.
LEMMA SameSequence ==
  ASSUME NEW s \in Seq(Nat), NEW t \in Seq(Nat), Len(s) = Len(t),
         \A k \in 1 .. Len(t) : s[k] = t[k]
  PROVE  s = t
OBVIOUS

\* The bytes before a code point that stands in a text, and its own.
LEMMA UpTo ==
  ASSUME NEW bytes \in Seq(Nat), NEW i \in 1 .. Len(bytes), NEW c \in Nat, IsValid(c),
         StandsAt(c, bytes, i)
  PROVE  SubSeq(bytes, 1, i - 1) \o utf8_encode(c) = SubSeq(bytes, 1, (i + Width(c)) - 1)
<1> DEFINE e == utf8_encode(c)
           w == Width(c)
           s == SubSeq(bytes, 1, i - 1)
           t == SubSeq(bytes, 1, (i + w) - 1)
<1>1. e \in Seq(Nat) /\ Len(e) = w /\ w \in 1 .. 4
  BY EncodeFacts, Zenon
<1>2. i + Len(e) - 1 <= Len(bytes) /\ \A k \in 1 .. Len(e) : bytes[i + k - 1] = e[k]
  BY Zenon DEF StandsAt
<1> HIDE DEF e, w
<1>3. /\ s \in Seq(Nat) /\ Len(s) = i - 1 /\ \A k \in 1 .. i - 1 : s[k] = bytes[k]
  OBVIOUS
<1>4. (i + w) - 1 \in 0 .. Len(bytes)
  <2>1. \A p, l \in Nat, k \in 1 .. 4 : p >= 1 /\ p + k - 1 <= l => (p + k) - 1 \in 0 .. l
    OBVIOUS
  <2>2. i \in Nat /\ i >= 1 /\ Len(bytes) \in Nat
    OBVIOUS
  <2>3. QED
    BY <1>1, <1>2, <2>1, <2>2, Zenon
<1>5. /\ t \in Seq(Nat) /\ Len(t) = (i + w) - 1 /\ \A k \in 1 .. (i + w) - 1 : t[k] = bytes[k]
  BY <1>1, <1>4
<1> HIDE DEF s, t
<1>6. /\ s \o e \in Seq(Nat) /\ Len(s \o e) = (i - 1) + w
      /\ \A k \in 1 .. i - 1 : (s \o e)[k] = s[k]
      /\ \A k \in 1 .. w : (s \o e)[(i - 1) + k] = e[k]
  <2>1. s \o e \in Seq(Nat)
    BY <1>1, <1>3
  <2>2. /\ Len(s \o e) = Len(s) + Len(e)
        /\ \A k \in 1 .. Len(s) : (s \o e)[k] = s[k]
        /\ \A k \in 1 .. Len(e) : (s \o e)[Len(s) + k] = e[k]
    BY <1>1, <1>3, ConcatFacts, Zenon
  <2> DEFINE se == s \o e
  <2> HIDE DEF se
  <2>3. /\ Len(se) = (i - 1) + w
        /\ \A k \in 1 .. i - 1 : se[k] = s[k]
        /\ \A k \in 1 .. w : se[(i - 1) + k] = e[k]
    BY <1>1, <1>3, <2>2, Zenon DEF se
  <2>4. QED
    BY <2>1, <2>3, Zenon DEF se
<1>7. (i - 1) + w = (i + w) - 1
  BY <1>1
<1>8. ASSUME NEW k \in 1 .. (i + w) - 1 PROVE (s \o e)[k] = t[k]
  <2>1. CASE k \in 1 .. i - 1
    BY <1>3, <1>5, <1>6, <2>1, Zenon
  <2>2. CASE k \notin 1 .. i - 1
    <3> DEFINE j == k - (i - 1)
    <3>1. j \in 1 .. w /\ (i - 1) + j = k /\ i + j - 1 = k
      BY <1>1, <2>2
    <3> HIDE DEF j
    <3>2. (s \o e)[k] = e[j]
      BY <1>6, <3>1, Zenon
    <3>3. e[j] = bytes[k]
      BY <1>1, <1>2, <3>1, Zenon
    <3>4. QED
      BY <1>5, <3>2, <3>3, Zenon
  <2>3. QED
    BY <2>1, <2>2, Zenon
<1>9. QED
  <2> DEFINE se == s \o e
  <2>1. se \in Seq(Nat) /\ Len(se) = Len(t) /\ \A k \in 1 .. Len(t) : se[k] = t[k]
    BY <1>5, <1>6, <1>7, <1>8, Zenon
  <2> HIDE DEF se
  <2>2. se = t
    BY <1>5, <2>1, SameSequence, Zenon
  <2>3. QED
    BY <2>2, Zenon DEF se, s, t, e, w

\* For any bytes: a loop over a view that meets no error value has read code
\* points whose UTF-8 form is exactly those bytes.
THEOREM ViewExact == \A bytes \in Seq(Nat) : ViewLosesNothing(bytes)
<1> SUFFICES ASSUME NEW bytes \in Seq(Nat) PROVE ViewLosesNothing(bytes)
  OBVIOUS
<1> DEFINE L == Len(bytes)
           I == Iterated(bytes)
           Fine(cs) == \A i \in DOMAIN cs : cs[i] \notin {Illegal, Incomplete}
           Spelled(cs, at) == /\ cs \in Seq(Nat) /\ \A i \in 1 .. Len(cs) : IsValid(cs[i])
                              /\ utf8_encode_range(cs) = SubSeq(bytes, 1, at - 1)
           Read(n) == I[n].at >= n + 1 /\ (Fine(I[n].read) => Spelled(I[n].read, I[n].at))
           S == {n \in 0 .. L : Read(n)}
<1>1. L \in Nat /\ L \in 0 .. L /\ SubSeq(bytes, 1, L) = bytes /\ SubSeq(bytes, 1, 0) = <<>>
  OBVIOUS
<1>2. /\ \A n \in 0 .. L : I[n] \in States(bytes)
      /\ I[0] = [at |-> 1, read |-> <<>>]
      /\ \A n \in 1 .. L : I[n] = IF I[n - 1].at = L + 1 THEN I[n - 1]
                                  ELSE [at |-> Deref(bytes, I[n - 1].at).next,
                                        read |-> Append(I[n - 1].read, Deref(bytes, I[n - 1].at).cp)]
  BY IteratedFacts, Zenon
<1>3. \A n \in 0 .. L : I[n].at \in 1 .. L + 1 /\ I[n].read \in Seq(Int)
  BY <1>2 DEF States
<1> HIDE DEF I
<1>4. 0 \in S
  <2>1. I[0].at = 1 /\ I[0].read = <<>>
    BY <1>2
  <2>2. <<>> \in Seq(Nat) /\ Len(<<>>) = 0 /\ 1 .. 0 = {} /\ 1 - 1 = 0 /\ 1 >= 0 + 1 /\ 0 \in 0 .. L
    BY <1>1
  <2>3. utf8_encode_range(<<>>) = <<>>
    BY <2>2, EncodedFacts, Zenon DEF utf8_encode_range
  <2> HIDE DEF L
  <2>4. Spelled(<<>>, 1)
    BY <1>1, <2>2, <2>3, Zenon
  <2> HIDE DEF Spelled, Fine
  <2>5. QED
    BY <2>1, <2>2, <2>4, Zenon
<1>5. ASSUME NEW n \in 0 .. L - 1, n \in S PROVE n + 1 \in S
  <2> DEFINE at == I[n].at
             cs == I[n].read
             c == Deref(bytes, at).cp
             next == Deref(bytes, at).next
  <2>1. n + 1 \in 1 .. L /\ n + 1 \in 0 .. L /\ n \in 0 .. L /\ (n + 1) - 1 = n
    BY <1>1
  <2>2. at \in 1 .. L + 1 /\ cs \in Seq(Int)
    BY <1>3, <2>1, Zenon
  <2>3. at >= n + 1 /\ (Fine(cs) => Spelled(cs, at))
    BY <1>5, Zenon
  <2>4. CASE at = L + 1
    <3>1. I[n + 1] = I[n]
      BY <1>2, <2>1, <2>4, Zenon
    <3>2. L + 1 >= (n + 1) + 1
      BY <1>1
    <3> HIDE DEF Fine, Spelled
    <3>3. QED
      BY <2>1, <2>3, <2>4, <3>1, <3>2, Zenon
  <2>5. CASE at # L + 1
    <3>1. at \in 1 .. L
      <4> HIDE DEF at, L
      <4> QED BY <1>1, <2>2, <2>5
    <3>2. c \in Int /\ next \in at + 1 .. L + 1
      BY <3>1, DerefMoves, Zenon
    <3>3. I[n + 1].at = next /\ I[n + 1].read = Append(cs, c)
      <4>1. I[n + 1] = [at |-> next, read |-> Append(cs, c)]
        BY <1>2, <2>1, <2>5, Zenon
      <4> HIDE DEF next, c, cs
      <4>2. QED
        BY <4>1
    <3>4. next >= (n + 1) + 1
      <4> HIDE DEF next, at, L
      <4> QED BY <1>1, <2>1, <2>2, <2>3, <3>2
    <3>5. ASSUME Fine(Append(cs, c)) PROVE Spelled(Append(cs, c), next)
      <4>1. Fine(cs) /\ c \notin {Illegal, Incomplete}
        <5> HIDE DEF cs, c
        <5>1. /\ DOMAIN Append(cs, c) = 1 .. Len(cs) + 1 /\ DOMAIN cs = 1 .. Len(cs)
              /\ Len(cs) + 1 \in 1 .. Len(cs) + 1 /\ Append(cs, c)[Len(cs) + 1] = c
              /\ \A i \in 1 .. Len(cs) : i \in 1 .. Len(cs) + 1 /\ Append(cs, c)[i] = cs[i]
          BY <2>2, <3>2
        <5>2. QED
          BY <3>5, <5>1, Zenon
      <4>2. Spelled(cs, at)
        BY <2>3, <4>1, Zenon
      <4>3. c \in Nat /\ IsValid(c) /\ StandsAt(c, bytes, at) /\ next = at + Width(c)
        <5>1. c = Deref(bytes, at).cp /\ next = Deref(bytes, at).next
          OBVIOUS
        <5> HIDE DEF c, next, at
        <5>2. QED
          BY <3>1, <4>1, <5>1, DerefExact, Zenon
      <4>4. SubSeq(bytes, 1, at - 1) \o utf8_encode(c) = SubSeq(bytes, 1, next - 1)
        BY <3>1, <4>3, UpTo, Zenon
      <4>5. utf8_encode_range(Append(cs, c)) = utf8_encode_range(cs) \o utf8_encode(c)
        BY <4>2, <4>3, EncodedOneMore, Zenon
      <4> HIDE DEF cs, c, next, at
      <4>6. /\ Append(cs, c) \in Seq(Nat)
            /\ \A i \in 1 .. Len(Append(cs, c)) : IsValid(Append(cs, c)[i])
        <5>1. cs \in Seq(Nat) /\ c \in Nat
          BY <4>2, <4>3, Zenon
        <5>2. /\ Append(cs, c) \in Seq(Nat) /\ Len(Append(cs, c)) = Len(cs) + 1
              /\ Append(cs, c)[Len(cs) + 1] = c
              /\ \A i \in 1 .. Len(cs) : Append(cs, c)[i] = cs[i]
              /\ \A i \in 1 .. Len(cs) + 1 : i = Len(cs) + 1 \/ i \in 1 .. Len(cs)
          BY <5>1
        <5>3. QED
          BY <4>2, <4>3, <5>2, Zenon
      <4>7. QED
        BY <4>2, <4>4, <4>5, <4>6, Zenon
    <3> HIDE DEF Fine, Spelled, next, cs, c
    <3>6. QED
      BY <2>1, <3>3, <3>4, <3>5, Zenon
  <2>6. QED
    BY <2>4, <2>5
<1> HIDE DEF S
<1>6. L \in S
  BY <1>1, <1>4, <1>5, Induction, Zenon
<1>7. I[L].at >= L + 1 /\ (Fine(I[L].read) => Spelled(I[L].read, I[L].at))
  BY <1>6, Zenon DEF S
<1>8. I[L].at - 1 = L
  <2> HIDE DEF L
  <2>1. I[L].at \in 1 .. L + 1
    BY <1>1, <1>3, Zenon
  <2>2. QED
    BY <1>1, <1>7, <2>1
<1>9. Fine(I[L].read) => utf8_encode_range(I[L].read) = bytes
  BY <1>1, <1>7, <1>8, Zenon
<1>10. QED
  BY <1>9, Zenon DEF ViewLosesNothing, code_points, I
=============================================================================
