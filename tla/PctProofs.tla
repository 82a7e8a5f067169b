----------------------------- MODULE PctProofs -----------------------------
(***************************************************************************)
(* Proofs about percent coding, for texts of any length: what an encoder    *)
(* writes belongs in a URI and is decoded to what was encoded, and what the *)
(* decoder makes of any string is what the string denotes.                  *)
(***************************************************************************)
EXTENDS CodedText, TextProofs

\* The code points, and the error values that a view yields among them.
Codes == {c \in Int : -2 <= c /\ c <= 1114111}
Bytes == 0 .. 255

\* A code point has one to four bytes in UTF-8; beyond ASCII none of them is
\* an ASCII character.
LEMMA EncodeBytes ==
  ASSUME NEW c \in Codes
  PROVE  /\ utf8_encode(c) \in Seq(Bytes)
         /\ c \in 0 .. 127 => utf8_encode(c) = <<c>>
         /\ c \notin 0 .. 127 => \A k \in DOMAIN utf8_encode(c) : utf8_encode(c)[k] > 127
<1>0. c \in Int
  BY DEF Codes
<1>1. \A d \in Int : Up(d) \in Int /\ Trail(d) \in 128 .. 191
  BY DEF Up, Trail
<1>2. Up(c) \in Int /\ Up(Up(c)) \in Int /\ Up(Up(Up(c))) \in Int
  BY <1>0, <1>1
<1>3. /\ Trail(c) \in 128 .. 191 /\ Trail(Up(c)) \in 128 .. 191
      /\ Trail(Up(Up(c))) \in 128 .. 191
  BY <1>0, <1>1, <1>2
<1>4. CASE c < 0
  <2>1. utf8_encode(c) = <<255, Trail(Up(Up(c))), Trail(Up(c)), Trail(c)>>
    BY <1>4, Zenon DEF utf8_encode
  <2>2. c \notin 0 .. 127
    BY <1>4
  <2>3. QED
    BY <1>3, <2>1, <2>2 DEF Bytes
<1>5. CASE c \in 0 .. 127
  <2>1. Width(c) = 1 /\ ~(c < 0)
    BY <1>5 DEF Width
  <2>2. utf8_encode(c) = <<c>>
    BY <2>1, Zenon DEF utf8_encode
  <2>3. QED
    BY <1>5, <2>2 DEF Bytes
<1>6. CASE 128 <= c /\ c <= 2047
  <2>1. Width(c) = 2 /\ ~(c < 0) /\ c \notin 0 .. 127 /\ 2 # 1
    BY <1>0, <1>6 DEF Width
  <2>2. utf8_encode(c) = <<192 + Up(c), Trail(c)>>
    BY <2>1, Zenon DEF utf8_encode
  <2>3. 192 + Up(c) \in 128 .. 255
    BY <1>0, <1>6 DEF Up
  <2>4. QED
    BY <1>3, <2>1, <2>2, <2>3 DEF Bytes
<1>7. CASE 2048 <= c /\ c <= 65535
  <2>1. Width(c) = 3 /\ ~(c < 0) /\ c \notin 0 .. 127 /\ 3 # 1 /\ 3 # 2
    BY <1>0, <1>7 DEF Width
  <2>2. utf8_encode(c) = <<224 + Up(Up(c)), Trail(Up(c)), Trail(c)>>
    BY <2>1, Zenon DEF utf8_encode
  <2>3. 224 + Up(Up(c)) \in 128 .. 255
    BY <1>0, <1>7 DEF Up
  <2>4. QED
    BY <1>3, <2>1, <2>2, <2>3 DEF Bytes
<1>8. CASE 65536 <= c /\ c <= 1114111
  <2>1. Width(c) = 4 /\ ~(c < 0) /\ c \notin 0 .. 127 /\ 4 # 1 /\ 4 # 2 /\ 4 # 3
    BY <1>0, <1>8 DEF Width
  <2>2. utf8_encode(c) = <<240 + Up(Up(Up(c))), Trail(Up(Up(c))), Trail(Up(c)), Trail(c)>>
    BY <2>1, Zenon DEF utf8_encode
  <2>3. 240 + Up(Up(Up(c))) \in 128 .. 255
    BY <1>0, <1>8 DEF Up
  <2>4. QED
    BY <1>3, <2>1, <2>2, <2>3 DEF Bytes
<1>9. QED
  BY <1>4, <1>5, <1>6, <1>7, <1>8 DEF Codes

\* The byte x is spelled in e from i up to before j: by itself or as a pair.
UnitAt(e, i, j, x) ==
  \/ i <= Len(e) /\ j = i + 1 /\ e[i] = x /\ x # Pct
  \/ /\ i + 2 <= Len(e) /\ j = i + 3
     /\ e[i] = Pct /\ e[i + 1] = HexDigit(x \div 16) /\ e[i + 2] = HexDigit(x % 16)

\* e spells the bytes b, the n-th of them up to position at[n].
SpellsBy(at, e, b) ==
  /\ at \in [0 .. Len(b) -> Nat] /\ at[0] = 0 /\ at[Len(b)] = Len(e)
  /\ \A n \in 1 .. Len(b) : UnitAt(e, at[n - 1] + 1, at[n] + 1, b[n])
Spells(e, b) == \E at : SpellsBy(at, e, b)

\* A byte is still spelled when more is written behind it or before it.
LEMMA UnitStays ==
  ASSUME NEW e \in Seq(Nat), NEW f \in Seq(Nat), NEW i \in Nat \ {0}, NEW j \in Nat, NEW x
  PROVE  /\ UnitAt(e, i, j, x) => UnitAt(e \o f, i, j, x)
         /\ UnitAt(f, i, j, x) => UnitAt(e \o f, Len(e) + i, Len(e) + j, x)
<1> DEFINE g == e \o f
           l == Len(e)
           m == Len(f)
<1>0. l \in Nat /\ m \in Nat
  OBVIOUS
<1>1. /\ Len(g) = l + m
      /\ \A k \in 1 .. l : g[k] = e[k]
      /\ \A k \in 1 .. m : g[l + k] = f[k]
  BY ConcatFacts, Zenon
<1> HIDE DEF g, l, m
<1>2. ASSUME UnitAt(e, i, j, x) PROVE UnitAt(g, i, j, x)
  <2>1. CASE i <= l /\ j = i + 1 /\ e[i] = x /\ x # Pct
    <3>1. i \in 1 .. l /\ i <= Len(g)
      BY <1>0, <1>1, <2>1
    <3>2. QED
      BY <1>1, <2>1, <3>1, Zenon DEF UnitAt
  <2>2. CASE /\ i + 2 <= l /\ j = i + 3
             /\ e[i] = Pct /\ e[i + 1] = HexDigit(x \div 16) /\ e[i + 2] = HexDigit(x % 16)
    <3>1. i \in 1 .. l /\ i + 1 \in 1 .. l /\ i + 2 \in 1 .. l /\ i + 2 <= Len(g)
      BY <1>0, <1>1, <2>2
    <3>2. g[i] = e[i] /\ g[i + 1] = e[i + 1] /\ g[i + 2] = e[i + 2]
      BY <1>1, <3>1, Zenon
    <3>3. QED
      BY <2>2, <3>1, <3>2, Zenon DEF UnitAt
  <2>3. QED
    BY <1>2, <2>1, <2>2, Zenon DEF UnitAt, l
<1>3. ASSUME UnitAt(f, i, j, x) PROVE UnitAt(g, l + i, l + j, x)
  <2>1. CASE i <= m /\ j = i + 1 /\ f[i] = x /\ x # Pct
    <3>1. i \in 1 .. m /\ l + i <= Len(g) /\ l + j = (l + i) + 1
      BY <1>0, <1>1, <2>1
    <3>2. QED
      BY <1>1, <2>1, <3>1, Zenon DEF UnitAt
  <2>2. CASE /\ i + 2 <= m /\ j = i + 3
             /\ f[i] = Pct /\ f[i + 1] = HexDigit(x \div 16) /\ f[i + 2] = HexDigit(x % 16)
    <3>1. /\ i \in 1 .. m /\ i + 1 \in 1 .. m /\ i + 2 \in 1 .. m
          /\ l + (i + 1) = (l + i) + 1 /\ l + (i + 2) = (l + i) + 2
          /\ (l + i) + 2 <= Len(g) /\ l + j = (l + i) + 3
      BY <1>0, <1>1, <2>2
    <3>2. g[l + i] = f[i] /\ g[(l + i) + 1] = f[i + 1] /\ g[(l + i) + 2] = f[i + 2]
      <4>1. g[l + i] = f[i] /\ g[l + (i + 1)] = f[i + 1] /\ g[l + (i + 2)] = f[i + 2]
        BY <1>1, <3>1, Zenon
      <4>2. QED
        BY <3>1, <4>1, Zenon
    <3>3. QED
      BY <2>2, <3>1, <3>2, Zenon DEF UnitAt
  <2>3. QED
    BY <1>3, <2>1, <2>2, Zenon DEF UnitAt, m
<1>4. QED
  BY <1>2, <1>3, Zenon DEF g, l

\* Spellings can be written one behind the other.
LEMMA SpellsBoth ==
  ASSUME NEW e \in Seq(Nat), NEW f \in Seq(Nat), NEW b \in Seq(Nat), NEW d \in Seq(Nat),
         Spells(e, b), Spells(f, d)
  PROVE  Spells(e \o f, b \o d)
<1>1. PICK p : SpellsBy(p, e, b)
  BY Zenon DEF Spells
<1>2. PICK q : SpellsBy(q, f, d)
  BY Zenon DEF Spells
<1> DEFINE l == Len(e)
           m == Len(b)
           k == Len(d)
           g == e \o f
           c == b \o d
           at == [n \in 0 .. m + k |-> IF n <= m THEN p[n] ELSE l + q[n - m]]
<1>0. l \in Nat /\ m \in Nat /\ k \in Nat
  OBVIOUS
<1>3. /\ Len(g) = l + Len(f) /\ Len(c) = m + k
      /\ \A n \in 1 .. m : c[n] = b[n]
      /\ \A n \in 1 .. k : c[m + n] = d[n]
  BY ConcatFacts, Zenon
<1>4. /\ \A n \in 0 .. m : p[n] \in Nat
      /\ p[0] = 0 /\ p[m] = l
      /\ \A n \in 1 .. m : UnitAt(e, p[n - 1] + 1, p[n] + 1, b[n])
  BY <1>1, Zenon DEF SpellsBy
<1>5. /\ \A n \in 0 .. k : q[n] \in Nat
      /\ q[0] = 0 /\ q[k] = Len(f)
      /\ \A n \in 1 .. k : UnitAt(f, q[n - 1] + 1, q[n] + 1, d[n])
  BY <1>2, Zenon DEF SpellsBy
<1> HIDE DEF g, c, l, m, k
<1>6. /\ at \in [0 .. m + k -> Nat] /\ at[0] = 0
      /\ \A n \in 0 .. m : at[n] = p[n]
      /\ \A n \in 0 .. k : at[m + n] = l + q[n]
  <2>1. ASSUME NEW n \in 0 .. m PROVE at[n] = p[n]
    BY <1>0
  <2>2. ASSUME NEW n \in 0 .. k PROVE at[m + n] = l + q[n]
    <3>1. CASE n = 0
      <4>1. m \in 0 .. m /\ m + 0 = m /\ l + 0 = l
        BY <1>0
      <4> HIDE DEF at
      <4>2. QED
        BY <1>4, <1>5, <2>1, <3>1, <4>1, Zenon
    <3>2. CASE n # 0
      <4>1. m + n \in 0 .. m + k /\ ~(m + n <= m) /\ (m + n) - m = n
        BY <1>0, <3>2
      <4>2. QED
        BY <4>1, Zenon
    <3>3. QED
      BY <3>1, <3>2
  <2>3. ASSUME NEW n \in 0 .. m + k PROVE at[n] \in Nat
    <3> HIDE DEF at
    <3>1. CASE n \in 0 .. m
      BY <1>4, <2>1, <3>1, Zenon
    <3>2. CASE n \notin 0 .. m
      <4>1. n - m \in 0 .. k /\ m + (n - m) = n
        BY <1>0, <3>2
      <4>2. at[n] = l + q[n - m] /\ q[n - m] \in Nat
        BY <1>5, <2>2, <4>1, Zenon
      <4>3. QED
        BY <1>0, <4>2
    <3>3. QED
      BY <3>1, <3>2
  <2>4. 0 \in 0 .. m
    BY <1>0
  <2>5. at \in [0 .. m + k -> Nat]
    BY <2>3
  <2> HIDE DEF at
  <2>6. QED
    BY <1>4, <2>1, <2>2, <2>4, <2>5, Zenon
<1> HIDE DEF at
<1>7. at[m + k] = Len(g)
  <2>1. k \in 0 .. k
    BY <1>0
  <2>2. QED
    BY <1>3, <1>5, <1>6, <2>1, Zenon
<1>8. ASSUME NEW n \in 1 .. m + k PROVE UnitAt(g, at[n - 1] + 1, at[n] + 1, c[n])
  <2>1. CASE n \in 1 .. m
    <3>1. n \in 0 .. m /\ n - 1 \in 0 .. m
      BY <1>0, <2>1
    <3>2. at[n] = p[n] /\ at[n - 1] = p[n - 1] /\ c[n] = b[n]
      BY <1>3, <1>6, <2>1, <3>1, Zenon
    <3>3. p[n - 1] + 1 \in Nat \ {0} /\ p[n] + 1 \in Nat
      <4>1. p[n - 1] \in Nat /\ p[n] \in Nat
        BY <1>4, <3>1, Zenon
      <4>2. QED
        BY <4>1
    <3>4. UnitAt(e, p[n - 1] + 1, p[n] + 1, b[n])
      BY <1>4, <2>1, Zenon
    <3>5. QED
      BY <3>2, <3>3, <3>4, UnitStays, Zenon DEF g
  <2>2. CASE n \notin 1 .. m
    <3> DEFINE i == n - m
    <3>1. i \in 1 .. k /\ i \in 0 .. k /\ i - 1 \in 0 .. k /\ m + i = n /\ m + (i - 1) = n - 1
      BY <1>0, <2>2
    <3> HIDE DEF i
    <3>2. at[n] = l + q[i] /\ at[n - 1] = l + q[i - 1] /\ c[n] = d[i]
      BY <1>3, <1>6, <3>1, Zenon
    <3>0. q[i - 1] \in Nat /\ q[i] \in Nat
      BY <1>5, <3>1, Zenon
    <3>3. q[i - 1] + 1 \in Nat \ {0} /\ q[i] + 1 \in Nat
      BY <3>0
    <3>4. UnitAt(f, q[i - 1] + 1, q[i] + 1, d[i])
      BY <1>5, <3>1, Zenon
    <3>5. UnitAt(g, l + (q[i - 1] + 1), l + (q[i] + 1), d[i])
      BY <3>3, <3>4, UnitStays, Zenon DEF g, l
    <3>6. l + (q[i - 1] + 1) = (l + q[i - 1]) + 1 /\ l + (q[i] + 1) = (l + q[i]) + 1
      BY <1>0, <3>0
    <3>7. QED
      BY <3>2, <3>5, <3>6, Zenon
  <2>3. QED
    BY <2>1, <2>2
<1>9. SpellsBy(at, g, c)
  BY <1>3, <1>6, <1>7, <1>8, Zenon DEF SpellsBy
<1>10. QED
  BY <1>9, Zenon DEF Spells, g, c

\* Spellings can be written one behind the other as often as one likes.
LEMMA SinksSpell ==
  ASSUME NEW u \in Seq(Seq(Nat)), NEW w \in Seq(Seq(Nat)), Len(u) = Len(w),
         \A n \in 1 .. Len(w) : Spells(u[n], w[n])
  PROVE  Spells(Sink(u)[Len(w)], Sink(w)[Len(w)])
<1> DEFINE N == Len(w)
           S == {n \in 0 .. N : Spells(Sink(u)[n], Sink(w)[n])}
<1>1. N \in Nat /\ N \in 0 .. N /\ Len(u) = N
  OBVIOUS
<1>2. \A n \in 1 .. N : u[n] \in Seq(Nat) /\ w[n] \in Seq(Nat)
  OBVIOUS
<1>3. /\ \A n \in 0 .. N : Sink(u)[n] \in Seq(Nat) /\ Sink(w)[n] \in Seq(Nat)
      /\ Sink(u)[0] = <<>> /\ Sink(w)[0] = <<>>
      /\ \A n \in 1 .. N : /\ Sink(u)[n] = Sink(u)[n - 1] \o u[n]
                           /\ Sink(w)[n] = Sink(w)[n - 1] \o w[n]
  BY <1>1, SinkFacts, Zenon
<1>4. \A n \in 1 .. N : Spells(u[n], w[n])
  OBVIOUS
<1> HIDE DEF N
<1>5. 0 \in S
  <2>1. SpellsBy([n \in 0 .. 0 |-> 0], <<>>, <<>>)
    BY DEF SpellsBy
  <2>2. 0 \in 0 .. N
    BY <1>1
  <2>3. QED
    BY <1>3, <2>1, <2>2, Zenon DEF Spells
<1>6. ASSUME NEW n \in 0 .. N - 1, n \in S PROVE n + 1 \in S
  <2>1. n + 1 \in 1 .. N /\ n + 1 \in 0 .. N /\ n \in 0 .. N /\ (n + 1) - 1 = n
    BY <1>1
  <2>2. Spells(Sink(u)[n] \o u[n + 1], Sink(w)[n] \o w[n + 1])
    BY <1>2, <1>3, <1>4, <1>6, <2>1, SpellsBoth, Zenon
  <2>3. QED
    BY <1>3, <2>1, <2>2, Zenon
<1> HIDE DEF S
<1>7. N \in S
  BY <1>1, <1>5, <1>6, Induction, Zenon
<1>8. QED
  BY <1>7, Zenon DEF S, N

\* The bytes of a sequence, written one by one, are that sequence.
LEMMA SinkOfBytes ==
  ASSUME NEW s \in Seq(Nat), NEW w, w = [n \in DOMAIN s |-> <<s[n]>>]
  PROVE  /\ w \in Seq(Seq(Nat)) /\ Len(w) = Len(s) /\ \A n \in 1 .. Len(s) : w[n] = <<s[n]>>
         /\ Sink(w)[Len(s)] = s
<1> DEFINE N == Len(s)
           S == {n \in 0 .. N : Sink(w)[n] = SubSeq(s, 1, n)}
<1>1. /\ N \in Nat /\ N \in 0 .. N /\ 0 \in 0 .. N /\ DOMAIN s = 1 .. N
      /\ SubSeq(s, 1, N) = s /\ SubSeq(s, 1, 0) = <<>>
      /\ \A n \in 1 .. N : s[n] \in Nat
  OBVIOUS
<1>2. w \in Seq(Seq(Nat)) /\ Len(w) = N /\ \A n \in 1 .. N : w[n] = <<s[n]>>
  BY <1>1
<1>3. Sink(w)[0] = <<>> /\ \A n \in 1 .. N : Sink(w)[n] = Sink(w)[n - 1] \o w[n]
  BY <1>2, SinkFacts, Zenon
<1>4. 0 \in S
  BY <1>1, <1>3, Zenon
<1>5. ASSUME NEW n \in 0 .. N - 1, n \in S PROVE n + 1 \in S
  <2>1. n + 1 \in 1 .. N /\ n + 1 \in 0 .. N /\ (n + 1) - 1 = n
    BY <1>1
  <2>2. SubSeq(s, 1, n) \o <<s[n + 1]>> = SubSeq(s, 1, n + 1)
    BY <2>1
  <2>3. Sink(w)[n + 1] = SubSeq(s, 1, n + 1)
    <3>1. Sink(w)[n] = SubSeq(s, 1, n)
      BY <1>5, Zenon
    <3>2. QED
      BY <1>2, <1>3, <2>1, <2>2, <3>1, Zenon
  <2>4. QED
    BY <2>1, <2>3, Zenon
<1> HIDE DEF S, N
<1>6. N \in S
  BY <1>1, <1>4, <1>5, Induction, Zenon
<1>7. Sink(w)[N] = s
  BY <1>1, <1>6, Zenon DEF S
<1>8. QED
  BY <1>2, <1>7, Zenon DEF N

\* Texts written in allowed characters and whole pairs can be put together.
LEMMA WrittenBoth ==
  ASSUME NEW A, NEW e \in Seq(Nat), NEW f \in Seq(Nat), Written(e, A), Written(f, A)
  PROVE  Written(e \o f, A)
<1> DEFINE g == e \o f
           l == Len(e)
           m == Len(f)
<1>0. l \in Nat /\ m \in Nat
  OBVIOUS
<1>1. /\ g \in Seq(Nat) /\ Len(g) = l + m
      /\ \A k \in 1 .. l : g[k] = e[k]
      /\ \A k \in 1 .. m : g[l + k] = f[k]
  BY ConcatFacts, Zenon
<1>2. /\ \A i \in 1 .. l : e[i] \in A \/ xpair(e, i)
      /\ \A i \in 1 .. m : f[i] \in A \/ xpair(f, i)
  <2>1. DOMAIN e = 1 .. l /\ DOMAIN f = 1 .. m
    OBVIOUS
  <2>2. QED
    BY <2>1, Zenon DEF Written
<1> HIDE DEF g, l, m
<1>3. ASSUME NEW i \in 1 .. l + m PROVE g[i] \in A \/ xpair(g, i)
  <2>1. CASE i \in 1 .. l
    <3>1. CASE e[i] \in A
      BY <1>1, <2>1, <3>1, Zenon
    <3>2. CASE xpair(e, i)
      <4>1. i + 2 <= l /\ e[i] = Pct /\ IsXdigit(e[i + 1]) /\ IsXdigit(e[i + 2])
        BY <3>2, Zenon DEF xpair, l
      <4>2. i + 1 \in 1 .. l /\ i + 2 \in 1 .. l /\ i + 2 <= Len(g)
        BY <1>0, <1>1, <2>1, <4>1
      <4>3. QED
        BY <1>1, <2>1, <4>1, <4>2, Zenon DEF xpair
    <3>3. QED
      BY <1>2, <2>1, <3>1, <3>2, Zenon
  <2>2. CASE i \notin 1 .. l
    <3> DEFINE j == i - l
    <3>1. j \in 1 .. m /\ l + j = i
      BY <1>0, <2>2
    <3> HIDE DEF j
    <3>2. g[i] = f[j]
      BY <1>1, <3>1, Zenon
    <3>3. CASE f[j] \in A
      BY <3>2, <3>3, Zenon
    <3>4. CASE xpair(f, j)
      <4>1. j + 2 <= m /\ f[j] = Pct /\ IsXdigit(f[j + 1]) /\ IsXdigit(f[j + 2])
        BY <3>4, Zenon DEF xpair, m
      <4>2. /\ j + 1 \in 1 .. m /\ j + 2 \in 1 .. m /\ i + 2 <= Len(g)
            /\ l + (j + 1) = i + 1 /\ l + (j + 2) = i + 2
        BY <1>0, <1>1, <3>1, <4>1
      <4>3. g[i + 1] = f[j + 1] /\ g[i + 2] = f[j + 2]
        <5>1. g[l + (j + 1)] = f[j + 1] /\ g[l + (j + 2)] = f[j + 2]
          BY <1>1, <4>2, Zenon
        <5>2. QED
          BY <4>2, <5>1
      <4>4. QED
        BY <3>2, <4>1, <4>2, <4>3, Zenon DEF xpair
    <3>5. QED
      BY <1>2, <3>1, <3>3, <3>4, Zenon
  <2>3. QED
    BY <2>1, <2>2
<1>4. DOMAIN g = 1 .. l + m
  BY <1>1
<1>5. QED
  BY <1>3, <1>4, Zenon DEF Written, g

\* So can any number of them.
LEMMA SinkWritten ==
  ASSUME NEW A, NEW w \in Seq(Seq(Nat)), \A n \in 1 .. Len(w) : Written(w[n], A)
  PROVE  Written(Sink(w)[Len(w)], A)
<1> DEFINE N == Len(w)
           S == {n \in 0 .. N : Written(Sink(w)[n], A)}
<1>1. N \in Nat /\ N \in 0 .. N
  OBVIOUS
<1>2. \A n \in 1 .. N : w[n] \in Seq(Nat) /\ Written(w[n], A)
  OBVIOUS
<1>3. /\ \A n \in 0 .. N : Sink(w)[n] \in Seq(Nat)
      /\ Sink(w)[0] = <<>> /\ \A n \in 1 .. N : Sink(w)[n] = Sink(w)[n - 1] \o w[n]
  BY SinkFacts, Zenon
<1> HIDE DEF N
<1>4. 0 \in S
  <2>1. Written(<<>>, A) /\ 0 \in 0 .. N
    BY <1>1 DEF Written
  <2>2. QED
    BY <1>3, <2>1, Zenon
<1>5. ASSUME NEW n \in 0 .. N - 1, n \in S PROVE n + 1 \in S
  <2>1. n + 1 \in 1 .. N /\ n + 1 \in 0 .. N /\ n \in 0 .. N /\ (n + 1) - 1 = n
    BY <1>1
  <2>2. Written(Sink(w)[n] \o w[n + 1], A)
    BY <1>2, <1>3, <1>5, <2>1, WrittenBoth, Zenon
  <2>3. QED
    BY <1>3, <2>1, <2>2, Zenon
<1> HIDE DEF S
<1>6. N \in S
  BY <1>1, <1>4, <1>5, Induction, Zenon
<1>7. QED
  BY <1>6, Zenon DEF S, N

\* The digits that Karma writes.
LEMMA HexDigits ==
  ASSUME NEW b \in Bytes
  PROVE  /\ b \div 16 \in 0 .. 15 /\ b % 16 \in 0 .. 15
         /\ HexDigit(b \div 16) \in (48 .. 57) \cup (97 .. 102)
         /\ HexDigit(b % 16) \in (48 .. 57) \cup (97 .. 102)
<1>1. b \div 16 \in 0 .. 15 /\ b % 16 \in 0 .. 15
  BY DEF Bytes
<1>2. \A n \in 0 .. 15 : HexDigit(n) \in (48 .. 57) \cup (97 .. 102)
  BY DEF HexDigit
<1>3. QED
  BY <1>1, <1>2, Zenon

\* The digits are among the characters A.
HasDigits(A) == 48 .. 57 \subseteq A /\ 97 .. 102 \subseteq A

\* What the inner loop of the encoders makes of a byte: a whole pair, which
\* spells it.
LEMMA PctByteFacts ==
  ASSUME NEW b \in Bytes, NEW A, HasDigits(A)
  PROVE  /\ PctByte(b) \in Seq(Nat) /\ Spells(PctByte(b), <<b>>) /\ Written(PctByte(b), A)
<1> DEFINE h == HexDigit(b \div 16)
           k == HexDigit(b % 16)
           p == PctByte(b)
<1>1. h \in (48 .. 57) \cup (97 .. 102) /\ k \in (48 .. 57) \cup (97 .. 102)
  BY HexDigits, Zenon
<1>2. p = <<Pct, h, k>>
  BY DEF PctByte
<1> HIDE DEF h, k, p
<1>3. h \in Nat /\ k \in Nat /\ Pct \in Nat
  BY <1>1 DEF Pct
<1>4. p \in Seq(Nat) /\ Len(p) = 3 /\ p[1] = Pct /\ p[2] = h /\ p[3] = k /\ DOMAIN p = 1 .. 3
  BY <1>2, <1>3
<1>5. Spells(p, <<b>>)
  <2> DEFINE at == [n \in 0 .. 1 |-> 3 * n]
  <2>1. /\ at \in [0 .. 1 -> Nat] /\ at[0] = 0 /\ at[1] = 3 /\ Len(<<b>>) = 1 /\ <<b>>[1] = b
    OBVIOUS
  <2>2. UnitAt(p, 1, 4, b)
    <3>1. 1 + 2 <= 3 /\ 4 = 1 + 3 /\ 1 + 1 = 2 /\ 1 + 2 = 3
      OBVIOUS
    <3>2. QED
      BY <1>4, <3>1, Zenon DEF UnitAt, h, k
  <2>3. \A n \in 1 .. 1 : n = 1 /\ n - 1 = 0
    OBVIOUS
  <2>4. 0 + 1 = 1 /\ 3 + 1 = 4
    OBVIOUS
  <2> HIDE DEF at
  <2>5. SpellsBy(at, p, <<b>>)
    BY <1>4, <2>1, <2>2, <2>3, <2>4, Zenon DEF SpellsBy
  <2>6. QED
    BY <2>5, Zenon DEF Spells
<1>6. Written(p, A)
  <2>1. h \in A /\ k \in A
    BY <1>1, Zenon DEF HasDigits
  <2>2. xpair(p, 1)
    <3>1. 1 + 2 <= 3 /\ 1 + 1 = 2 /\ 1 + 2 = 3
      OBVIOUS
    <3>2. IsXdigit(h) /\ IsXdigit(k)
      BY <1>1, Zenon DEF IsXdigit
    <3>3. QED
      BY <1>4, <3>1, <3>2, Zenon DEF xpair
  <2>3. \A i \in 1 .. 3 : i = 1 \/ i = 2 \/ i = 3
    OBVIOUS
  <2>4. QED
    BY <1>4, <2>1, <2>2, <2>3, Zenon DEF Written
<1>7. QED
  BY <1>4, <1>5, <1>6, Zenon DEF p

\* A byte other than "%" spells itself.
LEMMA SpellsItself ==
  ASSUME NEW b \in Nat, b # Pct
  PROVE  Spells(<<b>>, <<b>>)
<1> DEFINE at == [n \in 0 .. 1 |-> n]
<1>1. /\ at \in [0 .. 1 -> Nat] /\ at[0] = 0 /\ at[1] = 1 /\ Len(<<b>>) = 1 /\ <<b>>[1] = b
  OBVIOUS
<1>2. 1 <= 1 /\ 2 = 1 + 1 /\ 0 + 1 = 1 /\ \A n \in 1 .. 1 : n = 1 /\ n - 1 = 0
  OBVIOUS
<1>3. UnitAt(<<b>>, 1, 2, b)
  BY <1>1, <1>2, Zenon DEF UnitAt
<1> HIDE DEF at
<1>4. SpellsBy(at, <<b>>, <<b>>)
  BY <1>1, <1>2, <1>3, Zenon DEF SpellsBy
<1>5. QED
  BY <1>4, Zenon DEF Spells

\* A sequence of bytes is one of numbers.
LEMMA BytesFacts ==
  ASSUME NEW s \in Seq(Bytes)
  PROVE  /\ s \in Seq(Nat) /\ Len(s) \in Nat /\ DOMAIN s = 1 .. Len(s)
         /\ \A n \in 1 .. Len(s) : s[n] \in Bytes /\ s[n] \in Nat
<1>1. Len(s) \in Nat /\ DOMAIN s = 1 .. Len(s) /\ \A n \in 1 .. Len(s) : s[n] \in Bytes
  OBVIOUS
<1>2. \A b \in Bytes : b \in Nat
  BY DEF Bytes
<1>3. \A n \in 1 .. Len(s) : s[n] \in Nat
  BY <1>1, <1>2, Zenon
<1>4. s \in Seq(Nat)
  BY <1>1, <1>3
<1>5. QED
  BY <1>1, <1>3, <1>4, Zenon

\* What is escaped is spelled in pairs.
LEMMA EscapeFacts ==
  ASSUME NEW c \in Codes, NEW A, HasDigits(A)
  PROVE  /\ Escape(c) \in Seq(Nat) /\ Spells(Escape(c), utf8_encode(c))
         /\ Written(Escape(c), A)
<1> DEFINE s == utf8_encode(c)
           u == [n \in DOMAIN s |-> PctByte(s[n])]
           w == [n \in DOMAIN s |-> <<s[n]>>]
<1>1. s \in Seq(Bytes)
  BY EncodeBytes, Zenon
<1>2. Escape(c) = Sink(u)[Len(s)]
  BY DEF Escape
<1> HIDE DEF s
<1>3. /\ s \in Seq(Nat) /\ Len(s) \in Nat /\ DOMAIN s = 1 .. Len(s)
      /\ \A n \in 1 .. Len(s) : s[n] \in Bytes
  BY <1>1, BytesFacts, Zenon
<1>4. \A n \in 1 .. Len(s) : /\ PctByte(s[n]) \in Seq(Nat)
                             /\ Spells(PctByte(s[n]), <<s[n]>>) /\ Written(PctByte(s[n]), A)
  BY <1>3, PctByteFacts, Zenon
<1>5. u \in Seq(Seq(Nat)) /\ Len(u) = Len(s) /\ \A n \in 1 .. Len(s) : u[n] = PctByte(s[n])
  <2>1. \A n \in 1 .. Len(s) : PctByte(s[n]) \in Seq(Nat)
    BY <1>4, Zenon
  <2>2. Len(s) \in Nat /\ DOMAIN s = 1 .. Len(s)
    BY <1>3, Zenon
  <2>3. QED
    BY <2>1, <2>2
<1>6. /\ w \in Seq(Seq(Nat)) /\ Len(w) = Len(s) /\ \A n \in 1 .. Len(s) : w[n] = <<s[n]>>
      /\ Sink(w)[Len(s)] = s
  BY <1>3, SinkOfBytes, Zenon
<1> HIDE DEF u, w
<1>7. Sink(u)[Len(s)] \in Seq(Nat)
  <2>1. Len(s) \in 0 .. Len(s)
    BY <1>3
  <2>2. QED
    BY <1>5, <2>1, SinkFacts, Zenon
<1>8. Spells(Sink(u)[Len(s)], s)
  <2>1. \A n \in 1 .. Len(w) : Spells(u[n], w[n])
    BY <1>4, <1>5, <1>6, Zenon
  <2>2. Spells(Sink(u)[Len(w)], Sink(w)[Len(w)])
    BY <1>5, <1>6, <2>1, SinksSpell, Zenon
  <2>3. QED
    BY <1>6, <2>2, Zenon
<1>9. Written(Sink(u)[Len(s)], A)
  <2>1. \A n \in 1 .. Len(u) : Written(u[n], A)
    BY <1>4, <1>5, Zenon
  <2>2. Written(Sink(u)[Len(u)], A)
    BY <1>5, <2>1, SinkWritten, Zenon
  <2>3. QED
    BY <1>5, <2>2, Zenon
<1>10. QED
  BY <1>2, <1>7, <1>8, <1>9, Zenon DEF s

\* The bytes of a code point other than "%" spell themselves.
LEMMA CopyFacts ==
  ASSUME NEW c \in Codes, c # Pct
  PROVE  utf8_encode(c) \in Seq(Nat) /\ Spells(utf8_encode(c), utf8_encode(c))
<1> DEFINE s == utf8_encode(c)
           w == [n \in DOMAIN s |-> <<s[n]>>]
<1>1. s \in Seq(Bytes)
  BY EncodeBytes, Zenon
<1>2. \A n \in DOMAIN s : s[n] # Pct
  <2>1. CASE c \in 0 .. 127
    <3>1. s = <<c>>
      BY <2>1, EncodeBytes, Zenon
    <3> HIDE DEF s
    <3>2. QED
      BY <3>1
  <2>2. CASE c \notin 0 .. 127
    <3>1. \A n \in DOMAIN s : s[n] > 127
      BY <2>2, EncodeBytes, Zenon
    <3> HIDE DEF s
    <3>2. QED
      BY <3>1 DEF Pct
  <2>3. QED
    BY <2>1, <2>2, Zenon
<1> HIDE DEF s
<1>3. s \in Seq(Nat) /\ DOMAIN s = 1 .. Len(s) /\ \A n \in 1 .. Len(s) : s[n] \in Nat /\ s[n] # Pct
  <2>1. /\ s \in Seq(Nat) /\ DOMAIN s = 1 .. Len(s)
        /\ \A n \in 1 .. Len(s) : s[n] \in Bytes /\ s[n] \in Nat
    BY <1>1, BytesFacts, Zenon
  <2>2. QED
    BY <1>2, <2>1, Zenon
<1>4. \A n \in 1 .. Len(s) : Spells(<<s[n]>>, <<s[n]>>)
  BY <1>3, SpellsItself, Zenon
<1>5. /\ w \in Seq(Seq(Nat)) /\ Len(w) = Len(s) /\ \A n \in 1 .. Len(s) : w[n] = <<s[n]>>
      /\ Sink(w)[Len(s)] = s
  BY <1>3, SinkOfBytes, Zenon
<1> HIDE DEF w
<1>6. \A n \in 1 .. Len(w) : Spells(w[n], w[n])
  BY <1>4, <1>5, Zenon
<1>7. Spells(Sink(w)[Len(w)], Sink(w)[Len(w)])
  BY <1>5, <1>6, SinksSpell, Zenon
<1>8. QED
  BY <1>3, <1>5, <1>7, Zenon DEF s

\* The characters that may be copied are ASCII.
LEMMA Printable ==
  \A c \in Codes : c > 32 /\ c < 127 => c \in 33 .. 126 /\ c \in 0 .. 127
BY DEF Codes

\* The printable characters of cs outside `special` are among the characters A.
Holds(A, cs, special) ==
  \A i \in DOMAIN cs : cs[i] \in 33 .. 126 /\ cs[i] \notin special => cs[i] \in A

\* The encoders' loop, for any set of characters to escape: what it writes
\* spells the UTF-8 form of the code points, in the characters A and in pairs.
LEMMA EncodeFaithful ==
  ASSUME NEW cs \in Seq(Codes), Without(Pct, cs), NEW special, NEW A,
         HasDigits(A), Holds(A, cs, special)
  PROVE  LET e == Encode(cs, special)
         IN /\ e \in Seq(Nat) /\ utf8_encode_range(cs) \in Seq(Nat)
            /\ Spells(e, utf8_encode_range(cs)) /\ Written(e, A)
<1> DEFINE N == Len(cs)
           u == [i \in DOMAIN cs |-> Piece(cs[i], special)]
           w == [i \in DOMAIN cs |-> utf8_encode(cs[i])]
<1>1. N \in Nat /\ N \in 0 .. N /\ DOMAIN cs = 1 .. N /\ \A i \in 1 .. N : cs[i] \in Codes
  OBVIOUS
<1>2. Encode(cs, special) = Sink(u)[N] /\ utf8_encode_range(cs) = Sink(w)[N]
  BY DEF Encode, utf8_encode_range, Encoded
<1> HIDE DEF N
<1>3. ASSUME NEW i \in 1 .. N
      PROVE  /\ Piece(cs[i], special) \in Seq(Nat) /\ utf8_encode(cs[i]) \in Seq(Nat)
             /\ Spells(Piece(cs[i], special), utf8_encode(cs[i]))
             /\ Written(Piece(cs[i], special), A)
  <2> DEFINE c == cs[i]
  <2>1. c \in Codes /\ c # Pct
    BY <1>1, Zenon DEF Without
  <2>2. utf8_encode(c) \in Seq(Nat) /\ Spells(utf8_encode(c), utf8_encode(c))
    BY <2>1, CopyFacts, Zenon
  <2>3. CASE c > 32 /\ c < 127 /\ c \notin special
    <3>1. c \in 33 .. 126 /\ c \in 0 .. 127
      <4> HIDE DEF c
      <4> QED BY <2>1, <2>3, Printable
    <3>2. c \in A
      BY <1>1, <2>3, <3>1, Zenon DEF Holds
    <3>3. Piece(c, special) = utf8_encode(c) /\ utf8_encode(c) = <<c>>
      BY <2>1, <2>3, <3>1, EncodeBytes, Zenon DEF Piece
    <3> HIDE DEF c
    <3>4. Written(<<c>>, A)
      BY <3>2 DEF Written
    <3>5. QED
      BY <2>2, <3>3, <3>4, Zenon DEF c
  <2>4. CASE ~(c > 32 /\ c < 127 /\ c \notin special)
    <3>1. Piece(c, special) = Escape(c)
      BY <2>4, Zenon DEF Piece
    <3>2. /\ Escape(c) \in Seq(Nat) /\ Spells(Escape(c), utf8_encode(c))
          /\ Written(Escape(c), A)
      BY <2>1, EscapeFacts, Zenon
    <3>3. QED
      BY <2>2, <3>1, <3>2, Zenon
  <2>5. QED
    BY <2>3, <2>4, Zenon
<1>4. /\ u \in Seq(Seq(Nat)) /\ Len(u) = N
      /\ \A i \in 1 .. N : u[i] = Piece(cs[i], special)
  BY <1>1, <1>3
<1>5. /\ w \in Seq(Seq(Nat)) /\ Len(w) = N
      /\ \A i \in 1 .. N : w[i] = utf8_encode(cs[i])
  BY <1>1, <1>3
<1> HIDE DEF u, w
<1>6. Sink(u)[N] \in Seq(Nat) /\ Sink(w)[N] \in Seq(Nat)
  BY <1>1, <1>4, <1>5, SinkFacts, Zenon
<1>7. Spells(Sink(u)[N], Sink(w)[N])
  <2>1. \A n \in 1 .. Len(w) : Spells(u[n], w[n])
    BY <1>3, <1>4, <1>5, Zenon
  <2>2. QED
    BY <1>4, <1>5, <2>1, SinksSpell, Zenon
<1>8. Written(Sink(u)[N], A)
  <2>1. \A n \in 1 .. Len(u) : Written(u[n], A)
    BY <1>3, <1>4, Zenon
  <2>2. QED
    BY <1>4, <2>1, SinkWritten, Zenon
<1>9. QED
  BY <1>2, <1>6, <1>7, <1>8, Zenon

\* A host that is left as it is, too, spells itself.
LEMMA PlainFaithful ==
  ASSUME NEW cs \in Seq(Codes), Without(Pct, cs)
  PROVE  /\ utf8_encode_range(cs) \in Seq(Nat)
         /\ Spells(utf8_encode_range(cs), utf8_encode_range(cs))
<1> DEFINE N == Len(cs)
           w == [i \in DOMAIN cs |-> utf8_encode(cs[i])]
<1>1. N \in Nat /\ N \in 0 .. N /\ DOMAIN cs = 1 .. N /\ \A i \in 1 .. N : cs[i] \in Codes
  OBVIOUS
<1>2. utf8_encode_range(cs) = Sink(w)[N]
  BY DEF utf8_encode_range, Encoded
<1> HIDE DEF N
<1>3. \A i \in 1 .. N : utf8_encode(cs[i]) \in Seq(Nat) /\ Spells(utf8_encode(cs[i]), utf8_encode(cs[i]))
  BY <1>1, CopyFacts, Zenon DEF Without
<1>4. /\ w \in Seq(Seq(Nat)) /\ Len(w) = N
      /\ \A i \in 1 .. N : w[i] = utf8_encode(cs[i])
  BY <1>1, <1>3
<1> HIDE DEF w
<1>5. Sink(w)[N] \in Seq(Nat)
  BY <1>1, <1>4, SinkFacts, Zenon
<1>6. \A n \in 1 .. Len(w) : Spells(w[n], w[n])
  BY <1>3, <1>4, Zenon
<1>7. Spells(Sink(w)[N], Sink(w)[N])
  BY <1>4, <1>6, SinksSpell, Zenon
<1>8. QED
  BY <1>2, <1>5, <1>7, Zenon

-----------------------------------------------------------------------------
\* One turn of the decoder's loop.
DecodeTurn(str, p) ==
  IF xpair(str, p.at)
    THEN [at |-> p.at + 3, out |-> Append(p.out, to_utf8_byte(str, p.at))]
  ELSE IF p.at <= Len(str) /\ str[p.at] # Pct
    THEN [at |-> p.at + 1, out |-> Append(p.out, str[p.at])]
  ELSE p

\* Where the decoder stands: at a character or at the end.
Places(str) == [at : 1 .. Len(str) + 1, out : Seq(Nat)]

\* A turn moves to the next character, or past a pair, and writes a byte.
LEMMA TurnFacts ==
  ASSUME NEW str \in Seq(Nat), NEW p \in Places(str)
  PROVE  DecodeTurn(str, p) \in Places(str)
<1> DEFINE L == Len(str)
           a == p.at
<1>1. L \in Nat /\ a \in 1 .. L + 1 /\ p.out \in Seq(Nat)
  BY DEF Places
<1>2. CASE xpair(str, a)
  <2> DEFINE b == to_utf8_byte(str, a)
  <2>1. a + 2 <= L
    BY <1>2, Zenon DEF xpair
  <2>2. a + 3 \in 1 .. L + 1
    <3> HIDE DEF a, L
    <3> QED BY <1>1, <2>1
  <2>3. b \in Nat
    <3>1. str[a + 1] \in Int /\ str[a + 2] \in Int
      <4>1. a + 1 \in 1 .. L /\ a + 2 \in 1 .. L
        <5> HIDE DEF a, L
        <5> QED BY <1>1, <2>1
      <4>2. \A i \in 1 .. L : str[i] \in Int
        OBVIOUS
      <4>3. QED
        BY <4>1, <4>2, Zenon
    <3>2. \A d \in Int : DigitValue(d) \in Int
      BY DEF DigitValue
    <3>3. DigitValue(str[a + 1]) \in Int /\ DigitValue(str[a + 2]) \in Int
      BY <3>1, <3>2, Zenon
    <3> HIDE DEF a
    <3>4. QED
      BY <3>3 DEF to_utf8_byte
  <2> HIDE DEF a, b, L
  <2>4. Append(p.out, b) \in Seq(Nat)
    BY <1>1, <2>3
  <2>5. DecodeTurn(str, p) = [at |-> a + 3, out |-> Append(p.out, b)]
    BY <1>2, Zenon DEF DecodeTurn, a, b
  <2>6. QED
    BY <2>2, <2>4, <2>5 DEF Places, L
<1>3. CASE ~xpair(str, a) /\ a <= L /\ str[a] # Pct
  <2>1. a + 1 \in 1 .. L + 1 /\ str[a] \in Nat
    <3>1. a \in 1 .. L /\ a + 1 \in 1 .. L + 1
      <4> HIDE DEF a, L
      <4> QED BY <1>1, <1>3
    <3>2. \A i \in 1 .. L : str[i] \in Nat
      OBVIOUS
    <3>3. QED
      BY <3>1, <3>2, Zenon
  <2> HIDE DEF a, L
  <2>2. Append(p.out, str[a]) \in Seq(Nat)
    BY <1>1, <2>1
  <2>3. DecodeTurn(str, p) = [at |-> a + 1, out |-> Append(p.out, str[a])]
    BY <1>3, Zenon DEF DecodeTurn, a, L
  <2>4. QED
    BY <2>1, <2>2, <2>3 DEF Places, L
<1>4. CASE ~xpair(str, a) /\ ~(a <= L /\ str[a] # Pct)
  <2>1. DecodeTurn(str, p) = p
    BY <1>4, Zenon DEF DecodeTurn
  <2>2. QED
    BY <2>1
<1>5. QED
  BY <1>2, <1>3, <1>4, Zenon

\* The turns of the decoder's loop.
LEMMA DecodingFacts ==
  ASSUME NEW str \in Seq(Nat)
  PROVE  /\ \A n \in 0 .. Len(str) : Decoding(str)[n] \in Places(str)
         /\ Decoding(str)[0] = [at |-> 1, out |-> <<>>]
         /\ \A n \in 1 .. Len(str) : Decoding(str)[n] = DecodeTurn(str, Decoding(str)[n - 1])
<1> DEFINE N == Len(str)
           V == Places(str)
           Turn(p) == DecodeTurn(str, p)
           turn == [p \in [at : Nat, out : Seq(Nat)] |-> Turn(p)]
           next == [n \in 1 .. N |-> [p \in V |-> Turn(p)]]
           begin == [at |-> 1, out |-> <<>>]
           At(f, n) == IF n = 0 THEN begin ELSE turn[f[n - 1]]
           Is(f) == f = [n \in 0 .. N |-> At(f, n)]
           g == Decoding(str)
<1>1. N \in Nat
  OBVIOUS
<1>2. g = CHOOSE f : Is(f)
  BY Zenon DEF Decoding, DecodeTurn
<1>3. begin \in V
  BY DEF Places
<1>4. \A p \in V : Turn(p) \in V
  BY TurnFacts, Zenon
<1>4a. \A p \in V : turn[p] = Turn(p)
  <2>1. V \subseteq [at : Nat, out : Seq(Nat)]
    BY <1>1 DEF Places
  <2> HIDE DEF V, Turn
  <2>2. QED
    BY <2>1, Zenon
<1> HIDE DEF N, g, V, Turn, begin, turn
<1>5. next \in [1 .. N -> [V -> V]]
  BY <1>4
<1>6. PICK f : StepByStep(f, N, V, begin, next)
  <2> HIDE DEF next
  <2> QED BY <1>1, <1>3, <1>5, Recursion, Zenon
<1>7. /\ 0 \in 0 .. N
      /\ \A i \in 1 .. N : i \in 0 .. N /\ i # 0 /\ i - 1 \in 0 .. N
      /\ \A i \in 0 .. N : i # 0 => i \in 1 .. N
  BY <1>1
<1>8. ASSUME NEW i \in 0 .. N PROVE f[i] = At(f, i)
  <2>1. CASE i = 0
    BY <1>6, <2>1, Zenon DEF StepByStep
  <2>2. CASE i # 0
    <3>1. i \in 1 .. N /\ f[i - 1] \in V
      BY <1>6, <1>7, <2>2, Zenon DEF StepByStep
    <3>2. next[i][f[i - 1]] = turn[f[i - 1]]
      BY <1>4a, <3>1, Zenon
    <3>3. f[i] = next[i][f[i - 1]]
      BY <1>6, <3>1, Zenon DEF StepByStep
    <3> HIDE DEF next
    <3>4. QED
      BY <2>2, <3>2, <3>3, Zenon
  <2>3. QED
    BY <2>1, <2>2
<1> HIDE DEF next, At
<1>9. Is(f)
  BY <1>6, <1>8 DEF StepByStep
<1>10. Is(g)
  BY <1>2, <1>9, Zenon
<1>11. \A i \in 0 .. N : g[i] = At(g, i)
  BY <1>10, Zenon
<1>12. g[0] = begin /\ \A i \in 1 .. N : g[i] = turn[g[i - 1]]
  BY <1>7, <1>11, Zenon DEF At
<1>13. \A i \in 0 .. N : g[i] \in V
  <2> DEFINE S == {n \in 0 .. N : g[n] \in V}
  <2>1. 0 \in S
    BY <1>3, <1>7, <1>12, Zenon
  <2>2. ASSUME NEW n \in 0 .. N - 1, n \in S PROVE n + 1 \in S
    <3>1. n + 1 \in 1 .. N /\ n + 1 \in 0 .. N /\ (n + 1) - 1 = n
      BY <1>1
    <3>2. g[n + 1] = Turn(g[n]) /\ g[n] \in V
      BY <1>4a, <1>12, <2>2, <3>1, Zenon
    <3>3. QED
      BY <1>4, <3>1, <3>2, Zenon
  <2> HIDE DEF S
  <2>3. \A i \in 0 .. N : i \in S
    BY <1>1, <2>1, <2>2, Induction, Zenon
  <2>4. QED
    BY <2>3, Zenon DEF S
<1>14. \A i \in 1 .. N : g[i] = Turn(g[i - 1])
  BY <1>4a, <1>7, <1>12, <1>13, Zenon
<1>15. QED
  BY <1>12, <1>13, <1>14, Zenon DEF N, g, V, Turn, begin

\* A decoder that a turn leaves where it is stays there.
LEMMA DecoderStays ==
  ASSUME NEW str \in Seq(Nat), NEW m \in 0 .. Len(str), NEW p, p = Decoding(str)[m],
         DecodeTurn(str, p) = p
  PROVE  Decoding(str)[Len(str)] = p
<1> DEFINE L == Len(str)
           D == Decoding(str)
           S == {k \in 0 .. L - m : D[m + k] = p}
<1>1. L \in Nat /\ L - m \in Nat /\ m + (L - m) = L /\ L - m \in 0 .. L - m /\ m + 0 = m /\ 0 \in 0 .. L - m
  OBVIOUS
<1>2. \A n \in 1 .. L : D[n] = DecodeTurn(str, D[n - 1])
  BY DecodingFacts, Zenon
<1> HIDE DEF L, D
<1>4. 0 \in S
  BY <1>1, Zenon DEF D
<1>5. ASSUME NEW k \in 0 .. (L - m) - 1, k \in S PROVE k + 1 \in S
  <2>1. /\ m + (k + 1) \in 1 .. L /\ (m + (k + 1)) - 1 = m + k /\ k + 1 \in 0 .. L - m
    BY <1>1
  <2>2. D[m + k] = p
    BY <1>5, Zenon
  <2>3. D[m + (k + 1)] = p
    BY <1>2, <2>1, <2>2, Zenon
  <2>4. QED
    BY <2>1, <2>3, Zenon
<1> HIDE DEF S
<1>6. L - m \in S
  BY <1>1, <1>4, <1>5, Induction, Zenon
<1>7. D[m + (L - m)] = p
  BY <1>6, Zenon DEF S
<1>8. QED
  BY <1>1, <1>7, Zenon DEF L, D

-----------------------------------------------------------------------------
\* to_utf8_byte reads the two digits that the encoders write for a byte.
LEMMA DigitsRead ==
  ASSUME NEW x \in Bytes
  PROVE  (16 * DigitValue(HexDigit(x \div 16)) + DigitValue(HexDigit(x % 16))) % 256 = x
<1>1. x \div 16 \in 0 .. 15 /\ x % 16 \in 0 .. 15 /\ 16 * (x \div 16) + (x % 16) = x /\ x % 256 = x
  BY DEF Bytes
<1>2. \A d \in 0 .. 15 : DigitValue(HexDigit(d)) = d
  BY DEF HexDigit, DigitValue
<1>3. DigitValue(HexDigit(x \div 16)) = x \div 16 /\ DigitValue(HexDigit(x % 16)) = x % 16
  BY <1>1, <1>2
<1>4. QED
  BY <1>1, <1>3

\* They are digits to x3::xdigit.
LEMMA WrittenXdigits ==
  ASSUME NEW x \in Bytes
  PROVE  IsXdigit(HexDigit(x \div 16)) /\ IsXdigit(HexDigit(x % 16))
<1>1. x \div 16 \in 0 .. 15 /\ x % 16 \in 0 .. 15
  BY DEF Bytes
<1>2. \A d \in 0 .. 15 : IsXdigit(HexDigit(d))
  BY DEF IsXdigit, HexDigit
<1>3. QED
  BY <1>1, <1>2

\* The turn of the decoder from i takes it to j and writes x.
Turns(e, i, j, x, out) ==
  /\ DecodeTurn(e, [at |-> i, out |-> out]) = [at |-> j, out |-> Append(out, x)]
  /\ i < j /\ j <= Len(e) + 1

\* A turn of the decoder over a byte that is spelled writes that byte.
LEMMA TurnSpelled ==
  ASSUME NEW e \in Seq(Nat), NEW i \in Nat \ {0}, NEW j \in Nat, NEW x \in Bytes, NEW out,
         UnitAt(e, i, j, x)
  PROVE  Turns(e, i, j, x, out)
<1> DEFINE L == Len(e)
           p == [at |-> i, out |-> out]
<1>1. L \in Nat /\ p.at = i /\ p.out = out
  OBVIOUS
<1> HIDE DEF L, p
<1>2. CASE i <= L /\ j = i + 1 /\ e[i] = x /\ x # Pct
  <2>1. ~xpair(e, i)
    BY <1>2, Zenon DEF xpair
  <2>2. DecodeTurn(e, p) = [at |-> j, out |-> Append(out, x)]
    BY <1>1, <1>2, <2>1, Zenon DEF DecodeTurn, L
  <2>3. i < j /\ j <= L + 1
    BY <1>1, <1>2
  <2>4. QED
    BY <2>2, <2>3, Zenon DEF L, p, Turns
<1>3. CASE /\ i + 2 <= L /\ j = i + 3
           /\ e[i] = Pct /\ e[i + 1] = HexDigit(x \div 16) /\ e[i + 2] = HexDigit(x % 16)
  <2>1. xpair(e, i)
    <3>1. IsXdigit(e[i + 1]) /\ IsXdigit(e[i + 2])
      BY <1>3, WrittenXdigits, Zenon
    <3>2. i + 2 <= Len(e)
      BY <1>3 DEF L
    <3>3. QED
      BY <1>3, <3>1, <3>2, Zenon DEF xpair
  <2>2. to_utf8_byte(e, i) = x
    BY <1>3, DigitsRead, Zenon DEF to_utf8_byte
  <2>3. DecodeTurn(e, p) = [at |-> j, out |-> Append(out, x)]
    BY <1>1, <1>3, <2>1, <2>2, Zenon DEF DecodeTurn
  <2>4. i < j /\ j <= L + 1
    BY <1>1, <1>3
  <2>5. QED
    BY <2>3, <2>4, Zenon DEF L, p, Turns
<1>4. QED
  BY <1>2, <1>3, Zenon DEF UnitAt, L

\* At the end of the string no alternative of the loop matches.
LEMMA EndMatchesNothing ==
  ASSUME NEW str \in Seq(Nat), NEW p, p.at = Len(str) + 1
  PROVE  DecodeTurn(str, p) = p
<1> DEFINE L == Len(str)
<1>1. ~((L + 1) + 2 <= L) /\ ~(L + 1 <= L)
  OBVIOUS
<1>2. ~xpair(str, p.at) /\ ~(p.at <= Len(str))
  BY <1>1, Zenon DEF xpair
<1>3. QED
  BY <1>2, Zenon DEF DecodeTurn

\* The bytes of b one after another.
LEMMA FrontFacts ==
  ASSUME NEW T, NEW b \in Seq(T)
  PROVE  /\ SubSeq(b, 1, 0) = <<>> /\ SubSeq(b, 1, Len(b)) = b
         /\ \A n \in 0 .. Len(b) - 1 : Append(SubSeq(b, 1, n), b[n + 1]) = SubSeq(b, 1, n + 1)
OBVIOUS

\* pct_decode reads back, without an error, whatever bytes a string spells.
LEMMA DecodesSpelling ==
  ASSUME NEW e \in Seq(Nat), NEW b \in Seq(Bytes), Spells(e, b)
  PROVE  pct_decode(e) = [ec |-> "none", out |-> b]
<1> DEFINE L == Len(e)
           M == Len(b)
           D == Decoding(e)
<1>1. L \in Nat /\ M \in Nat /\ M \in 0 .. M /\ 0 \in 0 .. M
  OBVIOUS
<1>2. PICK at : SpellsBy(at, e, b)
  BY Zenon DEF Spells
<1>3. /\ at[0] = 0 /\ at[M] = L /\ \A n \in 0 .. M : at[n] \in Nat
      /\ \A n \in 1 .. M : UnitAt(e, at[n - 1] + 1, at[n] + 1, b[n])
  BY <1>2, Zenon DEF SpellsBy
<1>4. /\ D[0] = [at |-> 1, out |-> <<>>]
      /\ \A n \in 1 .. L : D[n] = DecodeTurn(e, D[n - 1])
  BY DecodingFacts, Zenon
<1>5. \A n \in 1 .. M : b[n] \in Bytes
  OBVIOUS
<1>6. /\ SubSeq(b, 1, 0) = <<>> /\ SubSeq(b, 1, M) = b
      /\ \A n \in 0 .. M - 1 : Append(SubSeq(b, 1, n), b[n + 1]) = SubSeq(b, 1, n + 1)
  BY FrontFacts, Zenon
<1> DEFINE Stands(n) == /\ n <= at[n] /\ at[n] <= L
                        /\ D[n] = [at |-> at[n] + 1, out |-> SubSeq(b, 1, n)]
           S == {n \in 0 .. M : Stands(n)}
<1>7. \A n \in 0 .. M : Stands(n)
  <2> HIDE DEF L, M, D
  <2>1. 0 \in S
    <3>1. 0 <= at[0] /\ at[0] <= L /\ at[0] + 1 = 1
      BY <1>1, <1>3
    <3>2. QED
      BY <1>1, <1>4, <1>6, <3>1, Zenon
  <2>2. ASSUME NEW n \in 0 .. M - 1, n \in S PROVE n + 1 \in S
    <3> DEFINE i == at[n] + 1
               j == at[n + 1] + 1
               x == b[n + 1]
    <3>1. n + 1 \in 1 .. M /\ n + 1 \in 0 .. M /\ n \in 0 .. M /\ (n + 1) - 1 = n
      BY <1>1
    <3>2. at[n] \in Nat /\ at[n + 1] \in Nat /\ x \in Bytes /\ UnitAt(e, i, j, x)
      BY <1>3, <1>5, <3>1, Zenon
    <3>3. Stands(n)
      BY <2>2, Zenon
    <3> HIDE DEF S, Stands
    <3>4. i \in Nat \ {0} /\ j \in Nat
      <4>1. \A k \in Nat : k + 1 \in Nat \ {0} /\ k + 1 \in Nat
        OBVIOUS
      <4>2. QED
        BY <3>2, <4>1, Zenon
    <3> HIDE DEF x
    <3>5. /\ DecodeTurn(e, [at |-> i, out |-> SubSeq(b, 1, n)]) = [at |-> j, out |-> Append(SubSeq(b, 1, n), x)]
          /\ i < j /\ j <= L + 1
      <4> DEFINE out == SubSeq(b, 1, n)
      <4> HIDE DEF i, j, out
      <4>1. UnitAt(e, i, j, x) /\ x \in Bytes
        BY <3>2, Zenon
      <4>2. Turns(e, i, j, x, out)
        BY <3>4, <4>1, TurnSpelled, Zenon
      <4>3. QED
        BY <4>2, Zenon DEF L, out, Turns
    <3>6. n + 1 <= at[n + 1] /\ at[n + 1] <= L /\ n + 1 \in 1 .. L
      <4>1. n <= at[n] /\ at[n] < at[n + 1] /\ at[n + 1] <= L
        <5>1. /\ \A k, m \in Nat : k + 1 < m + 1 => k < m
              /\ \A k, m \in Nat : k + 1 <= m + 1 => k <= m
          OBVIOUS
        <5>2. QED
          BY <1>1, <3>2, <3>3, <3>5, <5>1, Zenon DEF Stands
      <4>2. QED
        BY <1>1, <3>2, <4>1
    <3> HIDE DEF i, j
    <3>7. D[n + 1] = DecodeTurn(e, D[n])
      BY <1>4, <3>1, <3>6, Zenon
    <3>8. D[n + 1] = [at |-> j, out |-> SubSeq(b, 1, n + 1)]
      BY <1>6, <3>3, <3>5, <3>7, Zenon DEF i, x, Stands
    <3>9. QED
      BY <3>1, <3>6, <3>8, Zenon DEF j, S, Stands
  <2> HIDE DEF S, Stands
  <2>3. \A n \in 0 .. M : n \in S
    BY <1>1, <2>1, <2>2, Induction, Zenon
  <2>4. QED
    BY <2>3, Zenon DEF S
<1>8. D[M] = [at |-> L + 1, out |-> b] /\ M \in 0 .. L
  <2> HIDE DEF L, M, D
  <2>1. Stands(M)
    BY <1>1, <1>7, Zenon
  <2>2. M \in 0 .. L
    BY <1>1, <1>3, <2>1
  <2>3. QED
    BY <1>3, <1>6, <2>1, <2>2, Zenon
<1> HIDE DEF M, Stands, S
<1>9. D[L] = [at |-> L + 1, out |-> b]
  <2> DEFINE p == [at |-> L + 1, out |-> b]
  <2>1. p.at = L + 1
    OBVIOUS
  <2> HIDE DEF p
  <2>2. DecodeTurn(e, p) = p
    BY <2>1, EndMatchesNothing, Zenon
  <2>3. p = Decoding(e)[M] /\ M \in 0 .. Len(e)
    BY <1>8, Zenon DEF p
  <2>4. QED
    BY <2>2, <2>3, DecoderStays, Zenon DEF p
<1>10. pct_decode_impl(e) = [at |-> L + 1, out |-> b]
  BY <1>9, Zenon DEF pct_decode_impl
<1> HIDE DEF D
<1>11. QED
  BY <1>10 DEF pct_decode

-----------------------------------------------------------------------------
\* Code points have bytes for their UTF-8 form.
LEMMA RangeBytes ==
  ASSUME NEW cs \in Seq(Codes)
  PROVE  utf8_encode_range(cs) \in Seq(Bytes)
<1> DEFINE N == Len(cs)
           w == [i \in DOMAIN cs |-> utf8_encode(cs[i])]
<1>1. N \in Nat /\ N \in 0 .. N /\ DOMAIN cs = 1 .. N /\ \A i \in 1 .. N : cs[i] \in Codes
  OBVIOUS
<1>2. utf8_encode_range(cs) = Sink(w)[N]
  BY DEF utf8_encode_range, Encoded
<1> HIDE DEF N
<1>3. \A i \in 1 .. N : utf8_encode(cs[i]) \in Seq(Bytes)
  BY <1>1, EncodeBytes, Zenon
<1>4. w \in Seq(Seq(Bytes)) /\ Len(w) = N
  BY <1>1, <1>3
<1> HIDE DEF w
<1>5. Sink(w)[N] \in Seq(Bytes)
  BY <1>1, <1>4, SinkFacts, Zenon
<1>6. QED
  BY <1>2, <1>5, Zenon

\* What an encoder writes is decoded to what was encoded.
LEMMA EncodedInverts ==
  ASSUME NEW cs \in Seq(Codes), Without(Pct, cs), NEW special, NEW A,
         HasDigits(A), Holds(A, cs, special)
  PROVE  Written(Encode(cs, special), A) /\ Inverts(Encode(cs, special), cs)
<1> DEFINE e == Encode(cs, special)
           b == utf8_encode_range(cs)
<1>1. e \in Seq(Nat) /\ Spells(e, b) /\ Written(e, A)
  BY EncodeFaithful, Zenon
<1>2. b \in Seq(Bytes)
  BY RangeBytes, Zenon
<1> HIDE DEF e, b
<1>3. pct_decode(e) = [ec |-> "none", out |-> b]
  BY <1>1, <1>2, DecodesSpelling, Zenon
<1>4. QED
  BY <1>1, <1>3, Zenon DEF e, b, Inverts

\* So is a host left as it is.
LEMMA PlainInverts ==
  ASSUME NEW cs \in Seq(Codes), Without(Pct, cs)
  PROVE  Inverts(utf8_encode_range(cs), cs)
<1> DEFINE b == utf8_encode_range(cs)
<1>1. b \in Seq(Nat) /\ Spells(b, b)
  BY PlainFaithful, Zenon
<1>2. b \in Seq(Bytes)
  BY RangeBytes, Zenon
<1> HIDE DEF b
<1>3. pct_decode(b) = [ec |-> "none", out |-> b]
  BY <1>1, <1>2, DecodesSpelling, Zenon
<1>4. QED
  BY <1>3, Zenon DEF b, Inverts

\* The characters that a place in a URI allows are those its encoder copies.
LEMMA AllowedChars ==
  /\ \A c \in 33 .. 126 : c \notin PathSpecial /\ c # Pct => c \in PathChars
  /\ \A c \in 33 .. 126 : c \notin QuerySpecial /\ c # Pct => c \in QueryChars
  /\ \A c \in 33 .. 126 : c \notin HostSpecial /\ c # Pct => c \in RegNameChars \/ c = 58
<1>1. \A c \in 33 .. 126 : c \notin PathSpecial /\ c # Pct => c \in PathChars
  BY DEF PathSpecial, Special, Pct, PathChars, RegNameChars
<1>2. \A c \in 33 .. 126 : c \notin QuerySpecial /\ c # Pct => c \in QueryChars
  BY DEF QuerySpecial, Special, Pct, QueryChars, PathChars, RegNameChars
<1>3. \A c \in 33 .. 126 : c \notin HostSpecial /\ c # Pct => c \in RegNameChars \/ c = 58
  BY DEF HostSpecial, Special, Pct, RegNameChars
<1>4. QED
  BY <1>1, <1>2, <1>3, Zenon

\* The digits are allowed everywhere.
LEMMA DigitsAllowed ==
  HasDigits(RegNameChars) /\ HasDigits(RegNameChars \cup {58})
  /\ HasDigits(PathChars) /\ HasDigits(QueryChars)
<1>1. HasDigits(RegNameChars)
  BY DEF HasDigits, RegNameChars
<1>2. RegNameChars \subseteq PathChars /\ PathChars \subseteq QueryChars
  BY Zenon DEF PathChars, QueryChars
<1>3. \A B : RegNameChars \subseteq B => HasDigits(B)
  BY <1>1 DEF HasDigits
<1>4. QED
  BY <1>1, <1>2, <1>3, Zenon

\* Every encoder is faithful to code points free of "%".
LEMMA AllFaithful ==
  ASSUME NEW cs \in Seq(Codes), Without(Pct, cs)
  PROVE  Faithful(cs)
<1>1. \A i \in DOMAIN cs : cs[i] # Pct
  BY Zenon DEF Without
<1>2. Written(encode_path(cs), PathChars) /\ Inverts(encode_path(cs), cs)
  <2>1. Holds(PathChars, cs, PathSpecial)
    BY <1>1, AllowedChars, Zenon DEF Holds
  <2>2. QED
    BY <2>1, DigitsAllowed, EncodedInverts, Zenon DEF encode_path
<1>3. Written(encode_query(cs), QueryChars) /\ Inverts(encode_query(cs), cs)
  <2>1. Holds(QueryChars, cs, QuerySpecial)
    BY <1>1, AllowedChars, Zenon DEF Holds
  <2>2. QED
    BY <2>1, DigitsAllowed, EncodedInverts, Zenon DEF encode_query
<1>4. encode_fragment(cs) = encode_query(cs)
  BY Zenon DEF encode_fragment
<1> DEFINE more == IF Without(58, cs) THEN {} ELSE {58}
           A == RegNameChars \cup more
<1>5. HasDigits(A) /\ Holds(A, cs, HostSpecial)
  <2>1. CASE Without(58, cs)
    <3>1. A = RegNameChars
      BY <2>1, Zenon
    <3>2. \A i \in DOMAIN cs : cs[i] # 58
      BY <2>1, Zenon DEF Without
    <3> HIDE DEF A
    <3>3. QED
      BY <1>1, <3>1, <3>2, AllowedChars, DigitsAllowed, Zenon DEF Holds
  <2>2. CASE ~Without(58, cs)
    <3>1. A = RegNameChars \cup {58}
      BY <2>2, Zenon
    <3>2. \A c : c \in RegNameChars \/ c = 58 => c \in A
      BY <3>1, Zenon
    <3> HIDE DEF A
    <3>3. Holds(A, cs, HostSpecial)
      BY <1>1, <3>2, AllowedChars, Zenon DEF Holds
    <3>4. QED
      BY <3>1, <3>3, DigitsAllowed, Zenon
  <2>3. QED
    BY <2>1, <2>2, Zenon
<1> HIDE DEF A
<1>6. Inverts(encode_host(cs), cs) /\ (~StartsWithAddress(cs) => Written(encode_host(cs), A))
  <2>1. CASE StartsWithAddress(cs)
    <3>1. encode_host(cs) = utf8_encode_range(cs)
      BY <2>1, Zenon DEF encode_host
    <3>2. Inverts(utf8_encode_range(cs), cs)
      BY PlainInverts, Zenon
    <3>3. QED
      BY <2>1, <3>1, <3>2, Zenon
  <2>2. CASE ~StartsWithAddress(cs)
    <3>1. encode_host(cs) = Encode(cs, HostSpecial)
      BY <2>2, Zenon DEF encode_host
    <3>2. Written(Encode(cs, HostSpecial), A) /\ Inverts(Encode(cs, HostSpecial), cs)
      BY <1>5, EncodedInverts, Zenon
    <3>3. QED
      BY <3>1, <3>2, Zenon
  <2>3. QED
    BY <2>1, <2>2, Zenon
<1>7. QED
  BY <1>2, <1>3, <1>4, <1>6, Zenon DEF Faithful, A

\* What a view over bytes yields: code points and error values.
LEMMA ViewYieldsCodes ==
  ASSUME NEW bytes \in Seq(Nat)
  PROVE  code_points(bytes) \in Seq(Codes)
<1> DEFINE L == Len(bytes)
           I == Iterated(bytes)
           S == {n \in 0 .. L : I[n].read \in Seq(Codes)}
<1>1. L \in Nat /\ L \in 0 .. L /\ 0 \in 0 .. L
  OBVIOUS
<1>2. /\ I \in [0 .. L -> States(bytes)]
      /\ I[0] = [at |-> 1, read |-> <<>>]
      /\ \A n \in 1 .. L : I[n] = IF I[n - 1].at = L + 1 THEN I[n - 1]
                                  ELSE [at |-> Deref(bytes, I[n - 1].at).next,
                                        read |-> Append(I[n - 1].read, Deref(bytes, I[n - 1].at).cp)]
  BY IteratedFacts, Zenon
<1>3. \A n \in 0 .. L : I[n].at \in 1 .. L + 1
  BY <1>2, Zenon DEF States
<1>4. \A i \in 1 .. L : Deref(bytes, i).cp \in Codes
  <2> SUFFICES ASSUME NEW i \in 1 .. L PROVE Deref(bytes, i).cp \in Codes
    OBVIOUS
  <2> DEFINE c == Deref(bytes, i).cp
  <2>1. c \notin {Illegal, Incomplete} => c \in Nat /\ IsValid(c)
    BY DerefExact, Zenon
  <2> HIDE DEF c
  <2>2. CASE c \in {Illegal, Incomplete}
    BY <2>2 DEF Illegal, Incomplete, Codes, c
  <2>3. CASE c \notin {Illegal, Incomplete}
    <3>1. c \in Nat /\ c <= 1114111
      BY <2>1, <2>3 DEF IsValid
    <3>2. QED
      BY <3>1 DEF Codes, c
  <2>4. QED
    BY <2>2, <2>3, Zenon
<1> HIDE DEF I, L
<1>5. 0 \in S
  <2>1. I[0].read = <<>> /\ <<>> \in Seq(Codes)
    BY <1>2
  <2>2. QED
    BY <1>1, <2>1, Zenon
<1>6. ASSUME NEW n \in 0 .. L - 1, n \in S PROVE n + 1 \in S
  <2> DEFINE at == I[n].at
             d == Deref(bytes, at)
  <2>1. n + 1 \in 1 .. L /\ n + 1 \in 0 .. L /\ n \in 0 .. L /\ (n + 1) - 1 = n
    BY <1>1
  <2>2. I[n].read \in Seq(Codes)
    BY <1>6, Zenon
  <2>3. CASE at = L + 1
    BY <1>2, <2>1, <2>2, <2>3, Zenon
  <2>4. CASE at # L + 1
    <3>1. I[n + 1] = [at |-> d.next, read |-> Append(I[n].read, d.cp)]
      BY <1>2, <2>1, <2>4, Zenon
    <3>2. at \in 1 .. L
      <4>1. at \in 1 .. L + 1
        BY <1>3, <2>1, Zenon
      <4> HIDE DEF at
      <4>2. QED
        BY <1>1, <2>4, <4>1
    <3>3. d.cp \in Codes
      BY <1>4, <3>2, Zenon
    <3> HIDE DEF d, at
    <3>4. I[n + 1].read \in Seq(Codes)
      BY <2>2, <3>1, <3>3
    <3>5. QED
      BY <2>1, <3>4, Zenon
  <2>5. QED
    BY <2>3, <2>4, Zenon
<1> HIDE DEF S
<1>7. L \in S
  BY <1>1, <1>5, <1>6, Induction, Zenon
<1>8. QED
  BY <1>7, Zenon DEF S, L, I, code_points

-----------------------------------------------------------------------------
\* What each position of a string stands for: one byte where a unit begins.
Word(str) == [i \in DOMAIN str |-> IF i \in Units(str) THEN <<Byte(str, i)>> ELSE <<>>]

\* Position a follows whole units, and no "%" before it fails to begin a pair.
Boundary(str, a) ==
  /\ \A k \in {1, 2} : a > k => str[a - k] # Pct
  /\ \A b \in Bad(str) : a <= b

\* At a boundary a unit begins, or a "%" that begins no pair.
LEMMA UnitBegins ==
  ASSUME NEW str \in Seq(Nat), NEW a \in 1 .. Len(str), Boundary(str, a)
  PROVE  a \in Units(str) \/ a \in Bad(str)
<1>1. a \in DOMAIN str /\ \A b \in DOMAIN str : b \in Nat
  OBVIOUS
<1>2. \A b \in Bad(str) : b \in DOMAIN str
  BY Zenon DEF Bad
<1>3. \A m \in Nat : a <= m /\ a # m => a < m
  OBVIOUS
<1>4. a \notin Bad(str) => \A b \in Bad(str) : a < b
  BY <1>1, <1>2, <1>3, Zenon DEF Boundary
<1>5. QED
  BY <1>1, <1>4, Zenon DEF Boundary, Units

\* The two positions after the "%" of a pair are no units.
LEMMA DigitsAreNoUnits ==
  ASSUME NEW str \in Seq(Nat), NEW a \in 1 .. Len(str), str[a] = Pct
  PROVE  a + 1 \notin Units(str) /\ a + 2 \notin Units(str)
<1>1. a + 1 > 1 /\ (a + 1) - 1 = a /\ a + 2 > 2 /\ (a + 2) - 2 = a
  OBVIOUS
<1>2. 1 \in {1, 2} /\ 2 \in {1, 2}
  OBVIOUS
<1>3. QED
  BY <1>1, <1>2, Zenon DEF Units

\* A "%" where a unit begins is that of a pair.
LEMMA UnitIsWhole ==
  ASSUME NEW str \in Seq(Nat), NEW i \in Units(str)
  PROVE  i \in 1 .. Len(str) /\ (str[i] = Pct => xpair(str, i))
<1>1. i \in DOMAIN str /\ \A b \in Bad(str) : i < b
  BY Zenon DEF Units
<1>2. i \in 1 .. Len(str) /\ ~(i < i)
  BY <1>1
<1>3. i \notin Bad(str)
  BY <1>1, <1>2, Zenon
<1>4. QED
  BY <1>1, <1>2, <1>3, Zenon DEF Bad

\* A pair lies in the string.
LEMMA PairFacts ==
  ASSUME NEW str \in Seq(Nat), NEW i \in 1 .. Len(str), xpair(str, i)
  PROVE  /\ i + 1 \in 1 .. Len(str) /\ i + 2 \in 1 .. Len(str)
         /\ str[i + 1] \in Nat /\ str[i + 2] \in Nat
         /\ IsXdigit(str[i + 1]) /\ IsXdigit(str[i + 2]) /\ str[i] = Pct
<1>1. i + 2 <= Len(str) /\ IsXdigit(str[i + 1]) /\ IsXdigit(str[i + 2]) /\ str[i] = Pct
  BY Zenon DEF xpair
<1>2. i + 1 \in 1 .. Len(str) /\ i + 2 \in 1 .. Len(str)
  BY <1>1
<1>3. \A k \in 1 .. Len(str) : str[k] \in Nat
  OBVIOUS
<1>4. QED
  BY <1>1, <1>2, <1>3, Zenon

\* What a string denotes so far, after each position.
LEMMA WordFacts ==
  ASSUME NEW str \in Seq(Nat)
  PROVE  /\ Sink(Word(str))[0] = <<>>
         /\ \A i \in 1 .. Len(str) :
              /\ i \in Units(str) =>
                   Sink(Word(str))[i] = Append(Sink(Word(str))[i - 1], Byte(str, i))
              /\ i \notin Units(str) => Sink(Word(str))[i] = Sink(Word(str))[i - 1]
<1> DEFINE L == Len(str)
           w == Word(str)
           K == Sink(w)
<1>1. L \in Nat /\ DOMAIN str = 1 .. L /\ \A i \in 1 .. L : str[i] \in Int /\ i - 1 \in 0 .. L
  OBVIOUS
<1>2. ASSUME NEW i \in Units(str) PROVE Byte(str, i) \in Int
  <2>1. i \in 1 .. L /\ (str[i] = Pct => xpair(str, i))
    BY UnitIsWhole, Zenon
  <2>2. CASE str[i] = Pct
    <3>1. str[i + 1] \in Nat /\ str[i + 2] \in Nat
      BY <2>1, <2>2, PairFacts, Zenon
    <3>2. HexValue(str[i + 1]) \in Int /\ HexValue(str[i + 2]) \in Int
      <4>1. \A d \in Nat : HexValue(d) \in Int
        BY DEF HexValue
      <4>2. QED
        BY <3>1, <4>1, Zenon
    <3>3. QED
      BY <2>2, <3>2 DEF Byte
  <2>3. CASE str[i] # Pct
    <3>1. Byte(str, i) = str[i]
      BY <2>3, Zenon DEF Byte
    <3>2. QED
      BY <1>1, <2>1, <3>1, Zenon
  <2>4. QED
    BY <2>2, <2>3, Zenon
<1> HIDE DEF L
<1>3. \A i \in 1 .. L : /\ i \in Units(str) => w[i] = <<Byte(str, i)>>
                        /\ i \notin Units(str) => w[i] = <<>>
  BY <1>1, Zenon DEF Word
<1>4. w \in Seq(Seq(Int)) /\ Len(w) = L
  <2>1. \A i \in 1 .. L : w[i] \in Seq(Int)
    <3>1. \A d \in Int : <<d>> \in Seq(Int)
      OBVIOUS
    <3>2. <<>> \in Seq(Int)
      OBVIOUS
    <3>3. QED
      BY <1>2, <1>3, <3>1, <3>2, Zenon
  <2>2. w = [i \in 1 .. L |-> w[i]]
    BY <1>1, Zenon DEF Word
  <2>3. w \in [1 .. L -> Seq(Int)]
    BY <2>1, <2>2, Zenon
  <2> HIDE DEF w
  <2>4. QED
    BY <1>1, <2>3
<1> HIDE DEF w
<1>5. /\ \A n \in 0 .. L : K[n] \in Seq(Int)
      /\ K[0] = <<>> /\ \A n \in 1 .. L : K[n] = K[n - 1] \o w[n]
  BY <1>4, SinkFacts, Zenon
<1> HIDE DEF K
<1>6. ASSUME NEW i \in 1 .. L
      PROVE  /\ i \in Units(str) => K[i] = Append(K[i - 1], Byte(str, i))
             /\ i \notin Units(str) => K[i] = K[i - 1]
  <2>1. K[i - 1] \in Seq(Int) /\ K[i] = K[i - 1] \o w[i]
    BY <1>1, <1>5, Zenon
  <2>2. CASE i \in Units(str)
    <3>1. w[i] = <<Byte(str, i)>> /\ Byte(str, i) \in Int
      BY <1>2, <1>3, <2>2, Zenon
    <3>2. \A s \in Seq(Int), d \in Int : s \o <<d>> = Append(s, d)
      OBVIOUS
    <3>3. QED
      BY <2>1, <2>2, <3>1, <3>2, Zenon
  <2>3. CASE i \notin Units(str)
    <3>1. w[i] = <<>>
      BY <1>3, <2>3, Zenon
    <3>2. \A s \in Seq(Int) : s \o <<>> = s
      OBVIOUS
    <3>3. QED
      BY <2>1, <2>3, <3>1, <3>2, Zenon
  <2>4. QED
    BY <2>2, <2>3, Zenon
<1>7. QED
  BY <1>5, <1>6, Zenon DEF K, w, L

\* Nothing is denoted from a position on where no unit begins.
LEMMA NoMoreUnits ==
  ASSUME NEW str \in Seq(Nat), NEW m \in 0 .. Len(str),
         \A i \in m + 1 .. Len(str) : i \notin Units(str)
  PROVE  Sink(Word(str))[Len(str)] = Sink(Word(str))[m]
<1> DEFINE L == Len(str)
           K == Sink(Word(str))
           S == {k \in 0 .. L - m : K[m + k] = K[m]}
<1>1. L \in Nat /\ L - m \in Nat /\ m + (L - m) = L /\ L - m \in 0 .. L - m /\ m + 0 = m /\ 0 \in 0 .. L - m
  OBVIOUS
<1>2. \A i \in m + 1 .. L : i \in 1 .. L => K[i] = K[i - 1]
  BY WordFacts, Zenon
<1> HIDE DEF L, K
<1>3. 0 \in S
  BY <1>1, Zenon
<1>4. ASSUME NEW k \in 0 .. (L - m) - 1, k \in S PROVE k + 1 \in S
  <2>1. /\ m + (k + 1) \in 1 .. L /\ m + (k + 1) \in m + 1 .. L
        /\ (m + (k + 1)) - 1 = m + k /\ k + 1 \in 0 .. L - m
    BY <1>1
  <2>2. K[m + k] = K[m]
    BY <1>4, Zenon
  <2>3. K[m + (k + 1)] = K[m]
    BY <1>2, <2>1, <2>2, Zenon
  <2>4. QED
    BY <2>1, <2>3, Zenon
<1> HIDE DEF S
<1>5. L - m \in S
  BY <1>1, <1>3, <1>4, Induction, Zenon
<1>6. K[m + (L - m)] = K[m]
  BY <1>5, Zenon DEF S
<1>7. QED
  BY <1>1, <1>6, Zenon DEF L, K

\* The byte that two hexadecimal digits stand for, as to_utf8_byte computes it.
\* The first digit may be an upper case letter: the 32 its value is off by
\* are a multiple of 256 in its place.
LEMMA PairValue ==
  ASSUME NEW d \in Nat, NEW g \in Nat, IsXdigit(d), IsXdigit(g), g \notin 65 .. 70
  PROVE  (16 * DigitValue(d) + DigitValue(g)) % 256 = 16 * HexValue(d) + HexValue(g)
<1>1. DigitValue(g) = HexValue(g) /\ HexValue(g) \in 0 .. 15
  BY DEF DigitValue, HexValue, IsXdigit
<1>2. /\ DigitValue(d) = HexValue(d) \/ DigitValue(d) = HexValue(d) - 32
      /\ HexValue(d) \in 0 .. 15
  BY DEF DigitValue, HexValue, IsXdigit
<1>3. \A x \in 0 .. 255 : x % 256 = x /\ (x - 512) % 256 = x
  OBVIOUS
<1> DEFINE x == 16 * HexValue(d) + HexValue(g)
<1>4. x \in 0 .. 255
  BY <1>1, <1>2
<1>5. x % 256 = x /\ (x - 512) % 256 = x
  <2> HIDE DEF x
  <2> QED BY <1>3, <1>4
<1>6. 16 * DigitValue(d) + DigitValue(g) = x \/ 16 * DigitValue(d) + DigitValue(g) = x - 512
  BY <1>1, <1>2
<1> HIDE DEF x
<1>7. QED
  BY <1>5, <1>6 DEF x

\* The decoder stands at a boundary and has written what the string denotes
\* before it.
Agrees(str, p) == Boundary(str, p.at) /\ p.out = Sink(Word(str))[p.at - 1]

\* No "%" of a pair's digits, or of a character copied, fails to begin a pair.
LEMMA BoundaryMoves ==
  ASSUME NEW str \in Seq(Nat), NEW a \in 1 .. Len(str), Boundary(str, a)
  PROVE  /\ str[a] # Pct => Boundary(str, a + 1)
         /\ xpair(str, a) => Boundary(str, a + 3)
<1> DEFINE L == Len(str)
<1>1. /\ L \in Nat /\ a + 1 > 1 /\ (a + 1) - 1 = a /\ (a + 1) - 2 = a - 1 /\ (a + 1 > 2 => a > 1)
      /\ (a + 3) - 1 = a + 2 /\ (a + 3) - 2 = a + 1
  OBVIOUS
<1>2. \A b \in Bad(str) : b \in 1 .. L /\ a <= b /\ str[b] = Pct /\ ~xpair(str, b)
  <2>1. DOMAIN str = 1 .. L
    OBVIOUS
  <2>2. QED
    BY <2>1, Zenon DEF Bad, Boundary
<1>3. \A k \in {1, 2} : k = 1 \/ k = 2
  OBVIOUS
<1>4. a > 1 => str[a - 1] # Pct
  BY Zenon DEF Boundary
<1> HIDE DEF L
<1>5. ASSUME str[a] # Pct PROVE Boundary(str, a + 1)
  <2>1. \A m \in 1 .. L : a <= m /\ a # m => a + 1 <= m
    BY <1>1
  <2>2. \A b \in Bad(str) : a + 1 <= b
    BY <1>2, <1>5, <2>1, Zenon
  <2>3. \A k \in {1, 2} : a + 1 > k => str[(a + 1) - k] # Pct
    BY <1>1, <1>3, <1>4, <1>5, Zenon
  <2>4. QED
    BY <2>2, <2>3, Zenon DEF Boundary
<1>6. ASSUME xpair(str, a) PROVE Boundary(str, a + 3)
  <2>1. IsXdigit(str[a + 1]) /\ IsXdigit(str[a + 2])
    BY <1>6, Zenon DEF xpair
  <2>2. \A d : IsXdigit(d) => d # Pct
    BY DEF IsXdigit, Pct
  <2>3. str[a + 1] # Pct /\ str[a + 2] # Pct
    BY <2>1, <2>2, Zenon
  <2>4. \A m \in 1 .. L : a <= m /\ a # m /\ a + 1 # m /\ a + 2 # m => a + 3 <= m
    BY <1>1
  <2>5. \A b \in Bad(str) : a + 3 <= b
    BY <1>2, <1>6, <2>3, <2>4, Zenon
  <2>6. \A k \in {1, 2} : a + 3 > k => str[(a + 3) - k] # Pct
    BY <1>1, <1>3, <2>3, Zenon
  <2>7. QED
    BY <2>5, <2>6, Zenon DEF Boundary
<1>7. QED
  BY <1>5, <1>6, Zenon

\* A turn of the decoder keeps to what the string denotes.  It moves on unless
\* it is at the end or at a "%" that begins no pair.
LEMMA TurnDenotes ==
  ASSUME NEW str \in Seq(Nat), LowerCase(str), NEW p \in Places(str), Agrees(str, p),
         NEW t, t = DecodeTurn(str, p)
  PROVE  /\ Agrees(str, t)
         /\ p.at \in Bad(str) => t = p
         /\ p.at \notin Bad(str) => t.at > p.at \/ t.at = Len(str) + 1
<1> DEFINE L == Len(str)
           a == p.at
           K == Sink(Word(str))
<1>1. L \in Nat /\ a \in 1 .. L + 1 /\ a \in Nat
  BY DEF Places
<1>2. Boundary(str, a) /\ p.out = K[a - 1]
  BY Zenon DEF Agrees
<1>3. /\ \A i \in 1 .. L : i \in Units(str) => K[i] = Append(K[i - 1], Byte(str, i))
      /\ \A i \in 1 .. L : i \notin Units(str) => K[i] = K[i - 1]
  BY WordFacts, Zenon
<1>4. \A b \in Bad(str) : b \in 1 .. L /\ str[b] = Pct /\ ~xpair(str, b)
  <2>1. DOMAIN str = 1 .. L
    OBVIOUS
  <2>2. QED
    BY <2>1, Zenon DEF Bad
<1> HIDE DEF a, L, K
<1>5. CASE a \in Bad(str)
  <2>1. t = p
    BY <1>4, <1>5, Zenon DEF DecodeTurn, a
  <2>2. QED
    BY <1>5, <2>1, Zenon DEF a
<1>6. CASE a = L + 1
  <2>1. t = p
    BY <1>6, EndMatchesNothing, Zenon DEF a, L
  <2>2. QED
    BY <1>6, <2>1, Zenon DEF a, L
<1>7. CASE a \in 1 .. L /\ a \notin Bad(str) /\ str[a] # Pct
  <2>1. a \in Units(str)
    BY <1>2, <1>7, UnitBegins, Zenon DEF L
  <2>2. Byte(str, a) = str[a]
    BY <1>7, Zenon DEF Byte
  <2>3. ~xpair(str, a) /\ a <= L /\ (a + 1) - 1 = a /\ a + 1 > a
    <3>1. ~xpair(str, a)
      BY <1>7, Zenon DEF xpair
    <3>2. QED
      BY <1>1, <1>7, <3>1
  <2>4. t = [at |-> a + 1, out |-> Append(p.out, str[a])]
    BY <1>7, <2>3, Zenon DEF DecodeTurn, a, L
  <2>5. t.at = a + 1 /\ t.out = Append(p.out, str[a])
    BY <2>4
  <2>6. Boundary(str, a + 1)
    BY <1>2, <1>7, BoundaryMoves, Zenon DEF L
  <2>7. t.out = K[(a + 1) - 1]
    BY <1>2, <1>3, <1>7, <2>1, <2>2, <2>3, <2>5, Zenon
  <2>8. QED
    BY <1>7, <2>3, <2>5, <2>6, <2>7, Zenon DEF Agrees, a, K
<1>8. CASE a \in 1 .. L /\ a \notin Bad(str) /\ str[a] = Pct
  <2>1. a \in Units(str)
    BY <1>2, <1>8, UnitBegins, Zenon DEF L
  <2>2. xpair(str, a)
    BY <1>8, <2>1, UnitIsWhole, Zenon
  <2>3. /\ a + 1 \in 1 .. L /\ a + 2 \in 1 .. L /\ str[a + 1] \in Nat /\ str[a + 2] \in Nat
        /\ IsXdigit(str[a + 1]) /\ IsXdigit(str[a + 2])
    BY <1>8, <2>2, PairFacts, Zenon DEF L
  <2>4. /\ (a + 1) - 1 = a /\ (a + 2) - 1 = a + 1 /\ (a + 3) - 1 = a + 2 /\ a + 3 > a
        /\ a + 2 > 2 /\ (a + 2) - 2 = a
    BY <1>1, <1>8
  <2>5. Byte(str, a) = to_utf8_byte(str, a)
    <3>1. a + 2 \in DOMAIN str
      BY <2>3 DEF L
    <3>2. str[a + 2] \notin 65 .. 70
      BY <1>8, <2>4, <3>1, Zenon DEF LowerCase
    <3>3. to_utf8_byte(str, a) = 16 * HexValue(str[a + 1]) + HexValue(str[a + 2])
      BY <2>3, <3>2, PairValue, Zenon DEF to_utf8_byte
    <3>4. QED
      BY <1>8, <3>3, Zenon DEF Byte
  <2>6. a + 1 \notin Units(str) /\ a + 2 \notin Units(str)
    BY <1>8, DigitsAreNoUnits, Zenon DEF L
  <2>7. t = [at |-> a + 3, out |-> Append(p.out, to_utf8_byte(str, a))]
    BY <2>2, Zenon DEF DecodeTurn, a
  <2>8. t.at = a + 3 /\ t.out = Append(p.out, to_utf8_byte(str, a))
    BY <2>7
  <2>9. Boundary(str, a + 3)
    BY <1>2, <1>8, <2>2, BoundaryMoves, Zenon DEF L
  <2>10. t.out = K[(a + 3) - 1]
    <3>1. K[a] = t.out
      BY <1>2, <1>3, <1>8, <2>1, <2>5, <2>8, Zenon
    <3>2. K[a + 1] = K[a] /\ K[a + 2] = K[a + 1]
      BY <1>3, <2>3, <2>4, <2>6, Zenon
    <3>3. QED
      BY <2>4, <3>1, <3>2, Zenon
  <2>11. QED
    BY <1>8, <2>4, <2>8, <2>9, <2>10, Zenon DEF Agrees, a, K
<1>9. QED
  <2>1. a = L + 1 \/ a \in 1 .. L
    BY <1>1
  <2>2. QED
    BY <1>5, <1>6, <1>7, <1>8, <2>1, Zenon

\* For any string whose pairs have no upper case second digit: the decoder
\* fails exactly when a "%" begins no pair, and has written what the string
\* denotes up to there.
LEMMA DecodesDenoted ==
  ASSUME NEW str \in Seq(Nat), LowerCase(str)
  PROVE  pct_decode(str) = Denoted(str)
<1> DEFINE L == Len(str)
           D == Decoding(str)
           K == Sink(Word(str))
           Stands(n) == Agrees(str, D[n]) /\ (D[n].at \in Bad(str) \/ D[n].at >= n + 1)
           S == {n \in 0 .. L : Stands(n)}
<1>1. L \in Nat /\ L \in 0 .. L /\ 0 \in 0 .. L
  OBVIOUS
<1>2. /\ \A n \in 0 .. L : D[n] \in Places(str)
      /\ D[0] = [at |-> 1, out |-> <<>>]
      /\ \A n \in 1 .. L : D[n] = DecodeTurn(str, D[n - 1])
  BY DecodingFacts, Zenon
<1>3. \A b \in Bad(str) : b \in 1 .. L
  <2>1. DOMAIN str = 1 .. L
    OBVIOUS
  <2>2. QED
    BY <2>1, Zenon DEF Bad
<1>4. \A n \in 0 .. L : D[n].at \in 1 .. L + 1
  BY <1>2, Zenon DEF Places
<1> HIDE DEF D, L
<1>5. 0 \in S
  <2>1. D[0].at = 1 /\ D[0].out = <<>> /\ 1 - 1 = 0 /\ 1 >= 0 + 1 /\ ~(1 > 1) /\ ~(1 > 2)
    BY <1>2
  <2>2. K[0] = <<>>
    BY WordFacts, Zenon
  <2>3. \A b \in Bad(str) : 1 <= b
    <3>1. \A b \in 1 .. L : 1 <= b
      BY <1>1
    <3>2. QED
      BY <1>3, <3>1, Zenon
  <2>4. \A k \in {1, 2} : ~(1 > k)
    OBVIOUS
  <2>5. Boundary(str, 1)
    BY <2>3, <2>4, Zenon DEF Boundary
  <2>6. QED
    BY <1>1, <2>1, <2>2, <2>5, Zenon DEF Agrees
<1> HIDE DEF K
<1>6. ASSUME NEW n \in 0 .. L - 1, n \in S PROVE n + 1 \in S
  <2> DEFINE p == D[n]
             t == D[n + 1]
  <2>1. n + 1 \in 1 .. L /\ n + 1 \in 0 .. L /\ n \in 0 .. L /\ (n + 1) - 1 = n
    BY <1>1
  <2>2. p \in Places(str) /\ t = DecodeTurn(str, p) /\ p.at \in 1 .. L + 1 /\ t.at \in 1 .. L + 1
    BY <1>2, <1>4, <2>1, Zenon
  <2>3. Agrees(str, p) /\ (p.at \in Bad(str) \/ p.at >= n + 1)
    BY <1>6, Zenon
  <2> HIDE DEF p, t, S
  <2>4. /\ Agrees(str, t)
        /\ p.at \in Bad(str) => t = p
        /\ p.at \notin Bad(str) => t.at > p.at \/ t.at = L + 1
    BY <2>2, <2>3, TurnDenotes, Zenon DEF L
  <2>5. t.at \in Bad(str) \/ t.at >= (n + 1) + 1
    <3>1. \A i, j \in 1 .. L + 1 : i >= n + 1 /\ (j > i \/ j = L + 1) => j >= (n + 1) + 1
      BY <1>1, <2>1
    <3>2. QED
      BY <2>2, <2>3, <2>4, <3>1, Zenon
  <2>6. QED
    BY <2>1, <2>4, <2>5, Zenon DEF S, t
<1> HIDE DEF S, Stands
<1>7. L \in S
  BY <1>1, <1>5, <1>6, Induction, Zenon
<1> DEFINE p == D[L]
<1>8. Agrees(str, p) /\ (p.at \in Bad(str) \/ p.at >= L + 1) /\ p.at \in 1 .. L + 1
  BY <1>1, <1>4, <1>7, Zenon DEF S, Stands
<1>9. pct_decode(str) = [ec |-> IF p.at = L + 1 THEN "none" ELSE "unexpected_pct", out |-> p.out]
  BY Zenon DEF pct_decode, pct_decode_impl, D, L
<1>10. Denoted(str) = [ec |-> IF Bad(str) = {} THEN "none" ELSE "unexpected_pct", out |-> K[L]]
  BY Zenon DEF Denoted, K, L, Word
<1> HIDE DEF p
<1>11. p.out = K[p.at - 1] /\ \A b \in Bad(str) : p.at <= b
  BY <1>8, Zenon DEF Agrees, Boundary, K
<1>12. CASE p.at \in Bad(str)
  <2>1. p.at \in 1 .. L /\ p.at # L + 1 /\ p.at - 1 \in 0 .. L /\ (p.at - 1) + 1 = p.at
    <3>1. \A i \in 1 .. L : i # L + 1 /\ i - 1 \in 0 .. L /\ (i - 1) + 1 = i
      BY <1>1
    <3>2. QED
      BY <1>3, <1>12, <3>1, Zenon
  <2>2. \A i \in p.at .. L : i \notin Units(str)
    <3>1. \A i \in p.at .. L : ~(i < p.at)
      BY <1>1, <2>1
    <3>2. QED
      BY <1>12, <3>1, Zenon DEF Units
  <2>3. K[L] = K[p.at - 1]
    BY <2>1, <2>2, NoMoreUnits, Zenon DEF K, L
  <2>4. Bad(str) # {}
    BY <1>12, Zenon
  <2>5. QED
    BY <1>9, <1>10, <1>11, <2>1, <2>3, <2>4, Zenon
<1>13. CASE p.at \notin Bad(str)
  <2>1. p.at = L + 1 /\ (L + 1) - 1 = L
    BY <1>1, <1>8, <1>13
  <2>2. \A b \in 1 .. L : ~(L + 1 <= b)
    BY <1>1
  <2>3. Bad(str) = {}
    BY <1>3, <1>11, <2>1, <2>2, Zenon
  <2>4. QED
    BY <1>9, <1>10, <1>11, <2>1, <2>3, Zenon
<1>14. QED
  BY <1>12, <1>13, Zenon

-----------------------------------------------------------------------------
\* What is examined is a text of code points, and what it can still grow by.
TextInv == text \in Seq(CodePoints) /\ stages \in Seq(SUBSET Seq(CodePoints))

\* A text starts empty and grows by fragments of its family.
THEOREM TextTyped == Spec => []TextInv
<1>1. Init => TextInv
  BY FamiliesAssumption DEF Init, TextInv
<1>2. TextInv /\ [Next]_<<text, stages>> => TextInv'
  <2> SUFFICES ASSUME TextInv, [Next]_<<text, stages>> PROVE TextInv'
    OBVIOUS
  <2>1. CASE Extend
    <3>1. stages # <<>> /\ stages' = Tail(stages)
      BY <2>1, Zenon DEF Extend
    <3>2. PICK f \in Head(stages) : text' = text \o f
      BY <2>1, Zenon DEF Extend
    <3>3. Head(stages) \in SUBSET Seq(CodePoints) /\ Tail(stages) \in Seq(SUBSET Seq(CodePoints))
      BY <3>1 DEF TextInv
    <3>4. f \in Seq(CodePoints)
      BY <3>2, <3>3, Zenon
    <3>5. text \o f \in Seq(CodePoints)
      BY <3>4 DEF TextInv
    <3>6. QED
      BY <3>1, <3>2, <3>3, <3>5, Zenon DEF TextInv
  <2>2. CASE UNCHANGED <<text, stages>>
    BY <2>2 DEF TextInv
  <2>3. QED
    BY <2>1, <2>2, Zenon DEF Next
<1>3. QED
  BY <1>1, <1>2, PTL DEF Spec

\* Code points are numbers, and what the encoders take.
LEMMA TextFacts ==
  ASSUME NEW t \in Seq(CodePoints)
  PROVE  t \in Seq(Nat) /\ t \in Seq(Codes)
<1>1. \A c \in CodePoints : c \in Nat /\ c \in Codes
  BY DEF CodePoints, Codes
<1>2. QED
  BY <1>1

\* The view and the encoding are inverse to each other on every text, as
\* ViewInverts and ViewExact have it: code_point_view over what
\* utf8_encode(begin, end, sink) wrote, and utf8_encode over what a view read.
THEOREM ViewIsExactAlways == Spec => []ViewIsExact
<1>1. TextInv => ViewIsExact
  <2> SUFFICES ASSUME TextInv PROVE ViewIsExact
    OBVIOUS
  <2>1. text \in Seq(Nat)
    BY TextFacts, Zenon DEF TextInv
  <2>2. QED
    BY <2>1, ViewInverts, ViewExact, Zenon DEF ViewIsExact
<1>2. QED
  BY <1>1, TextTyped, PTL

\* For texts of any length, and whatever StartsWithAddress says: what
\* encode_host, encode_path, encode_query and encode_fragment write is made of
\* the characters of its place and whole pairs, and pct_decode gives back the
\* UTF-8 form of what was encoded, error values of a view included.
THEOREM EncodesFaithfullyAlways == Spec => []EncodesFaithfully
<1>1. TextInv => EncodesFaithfully
  <2> SUFFICES ASSUME TextInv PROVE EncodesFaithfully
    OBVIOUS
  <2>1. text \in Seq(Nat) /\ text \in Seq(Codes)
    BY TextFacts, Zenon DEF TextInv
  <2>2. code_points(text) \in Seq(Codes)
    BY <2>1, ViewYieldsCodes, Zenon
  <2>3. \A cs \in {text} \cup (IF IsBytes THEN {code_points(text)} ELSE {}) : cs \in Seq(Codes)
    BY <2>1, <2>2, Zenon
  <2>4. QED
    BY <2>3, AllFaithful, Zenon DEF EncodesFaithfully
<1>2. QED
  BY <1>1, TextTyped, PTL

\* For strings of any length: pct_decode fails exactly when a "%" begins no
\* pair and has then written what precedes it, and otherwise writes what the
\* string denotes, as long as no pair's second digit is an upper case letter.
THEOREM DecodesPairsAlways == Spec => []DecodesPairs
<1>1. TextInv => DecodesPairs
  <2> SUFFICES ASSUME TextInv PROVE DecodesPairs
    OBVIOUS
  <2>1. text \in Seq(Nat)
    BY TextFacts, Zenon DEF TextInv
  <2>2. QED
    BY <2>1, DecodesDenoted, Zenon DEF DecodesPairs
<1>2. QED
  BY <1>1, TextTyped, PTL

=============================================================================
