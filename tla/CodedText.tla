----------------------------- MODULE CodedText -----------------------------
(***************************************************************************)
(* The percent coders and the UTF-8 view on every text of a family.  A      *)
(* family is a sequence of stages, each a set of fragments; a text grows by *)
(* one fragment of the next stage, and every text on the way is examined.   *)
(***************************************************************************)
EXTENDS PctCoding

CONSTANT Families

CodePoints == {c \in Nat : c <= 1114111}

\* What a text is made of: code points, the bytes among them.
ASSUME FamiliesAssumption == Families \subseteq Seq(SUBSET Seq(CodePoints))

VARIABLES text, stages

Init == text = <<>> /\ stages \in Families

Extend ==
  /\ stages # <<>>
  /\ \E f \in Head(stages) : text' = text \o f
  /\ stages' = Tail(stages)

Next == Extend
Spec == Init /\ [][Next]_<<text, stages>>

-----------------------------------------------------------------------------
Without(c, t) == \A i \in DOMAIN t : t[i] # c
IsBytes == \A i \in DOMAIN text : text[i] < 256

\* The view and the encoding are inverse to each other, both ways.
ViewIsExact == ViewInvertsEncoding(text) /\ (IsBytes => ViewLosesNothing(text))

-----------------------------------------------------------------------------
\* RFC 3986 in codes: reg-name holds unreserved and sub-delims, a path and a
\* query some characters more.
RegNameChars ==
  {33, 36, 59, 61, 95, 126} \cup (38 .. 46) \cup (48 .. 57) \cup (65 .. 90) \cup (97 .. 122)
PathChars == RegNameChars \cup {47, 58, 64}
QueryChars == PathChars \cup {63}

\* e is written in the characters `allowed` and in whole pairs.
Written(e, allowed) == \A i \in DOMAIN e : e[i] \in allowed \/ xpair(e, i)

\* pct_decode gives back, without an error, the UTF-8 form of cs.
Inverts(e, cs) == pct_decode(e) = [ec |-> "none", out |-> utf8_encode_range(cs)]

\* What each encoder makes of code points free of "%" is written in the
\* characters its place in a URI allows, and is decoded to what was encoded; a
\* host that starts with an address is only decoded again.
Faithful(cs) ==
  /\ Written(encode_path(cs), PathChars) /\ Inverts(encode_path(cs), cs)
  /\ Written(encode_query(cs), QueryChars) /\ Inverts(encode_query(cs), cs)
  /\ Written(encode_fragment(cs), QueryChars) /\ Inverts(encode_fragment(cs), cs)
  /\ Inverts(encode_host(cs), cs)
  /\ ~StartsWithAddress(cs) =>
       Written(encode_host(cs), RegNameChars \cup IF Without(58, cs) THEN {} ELSE {58})

\* The encoders are faithful to any text and, as examples/listener/main.cpp
\* passes them on, to the code points of a view over arbitrary bytes,
\* malformed ones included.
EncodesFaithfully ==
  \A cs \in {text} \cup (IF IsBytes THEN {code_points(text)} ELSE {}) :
    Without(Pct, cs) => Faithful(cs)

-----------------------------------------------------------------------------
HexValue(d) == IF d \in 48 .. 57 THEN d - 48 ELSE IF d \in 65 .. 70 THEN d - 55 ELSE d - 87

\* What a string denotes by the definition of pct-encoded: up to the first "%"
\* that does not begin a pair, every pair is the byte it spells and every other
\* character itself.
Bad(str) == {i \in DOMAIN str : str[i] = Pct /\ ~xpair(str, i)}
Units(str) == {i \in DOMAIN str : /\ \A b \in Bad(str) : i < b
                                  /\ \A k \in {1, 2} : i > k => str[i - k] # Pct}
Byte(str, i) ==
  IF str[i] = Pct THEN 16 * HexValue(str[i + 1]) + HexValue(str[i + 2]) ELSE str[i]

Denoted(str) ==
  LET units == Units(str)
      Means(i) == IF i \in units THEN <<Byte(str, i)>> ELSE <<>>
  IN [ec |-> IF Bad(str) = {} THEN "none" ELSE "unexpected_pct",
      out |-> Sink([i \in DOMAIN str |-> Means(i)])[Len(str)]]

\* The second digit of no pair is an upper case letter.
LowerCase(str) == \A i \in DOMAIN str : i > 2 /\ str[i - 2] = Pct => str[i] \notin 65 .. 70

\* pct_decode fails exactly when a "%" begins no pair, and even then has
\* written what precedes that "%" and nothing more; otherwise it writes what
\* the string denotes.  Pairs whose second digit is an upper case letter are
\* left to DecodesAnyCase.
DecodesPairs == IsBytes /\ LowerCase(text) => pct_decode(text) = Denoted(text)

\* pct_decode writes the string that `str` denotes, whatever the case of its
\* hexadecimal digits.
DecodesAnyCase == IsBytes => pct_decode(text) = Denoted(text)
=============================================================================
