-------------------------------- MODULE Peg --------------------------------
(***************************************************************************)
(* Boost.Spirit.X3, as include/foxy/uri.hpp uses it.  A parser is a value   *)
(* (a record naming its combinator and its parts) and a text a sequence of  *)
(* code points.  The same parser is given two meanings:                     *)
(*   Match    what X3 does: ordered choice and greedy repetition, neither   *)
(*            of them ever reconsidered;                                    *)
(*   Derives  what the same rule read as a context-free (ABNF) rule         *)
(*            allows: every alternative and every number of repetitions.    *)
(***************************************************************************)
EXTENDS Integers, Sequences, FiniteSets

\* The printable ASCII characters in code order, from 32 to 126.  TLA+
\* strings have no grave accent; the tab stands in its place (code 96).
Ascii == " !\"#$%&'()*+,-./0123456789:;<=>?@ABCDEFGHIJKLMNOPQRSTUVWXYZ" \o
         "[\\]^_\tabcdefghijklmnopqrstuvwxyz{|}~"

CodeOf == [c \in {SubSeq(Ascii, i, i) : i \in 1 .. Len(Ascii)} |->
             31 + CHOOSE i \in 1 .. Len(Ascii) : SubSeq(Ascii, i, i) = c]

\* A C++ string literal as a text.
Text(s) == [i \in 1 .. Len(s) |-> CodeOf[SubSeq(s, i, i)]]

\* The code points of a text.
CharsOf(t) == {t[i] : i \in DOMAIN t}

-----------------------------------------------------------------------------
\* The parsers.

Class(S) == [op |-> "class", set |-> S]

\* x3::char_("..."): an inner dash is the range between its neighbours, a
\* dash at either end is itself.
CharClass(t) ==
  LET dashes == {i \in 2 .. Len(t) - 1 : t[i] = CodeOf["-"]}
  IN {t[i] : i \in DOMAIN t \ dashes}
       \cup UNION {t[i - 1] .. t[i + 1] : i \in dashes}
char_(s) == Class(CharClass(Text(s)))

lit(s) == [op |-> "lit", text |-> Text(s)]
Then(ps) == [op |-> "then", parts |-> ps]        \* p >> q >> ...
Or(ps) == [op |-> "or", parts |-> ps]            \* p | q | ...
Repeat(lo, hi, p) == [op |-> "repeat", lo |-> lo, hi |-> hi, part |-> p]

Unlimited == 1000                                \* longer than any text
Star(p) == Repeat(0, Unlimited, p)               \* *p
Plus(p) == Repeat(1, Unlimited, p)               \* +p
Opt(p) == Repeat(0, 1, p)                        \* -p

-----------------------------------------------------------------------------
\* No match.
Fail == 0

\* The position after the match of p in t that starts at i, or Fail; then the
\* same for the parts of a sequence from the k-th on, for the alternatives
\* from the k-th on, and for a repetition with k rounds behind it.  (A round
\* that matches nothing would repeat for ever in X3 too; no rule of the
\* grammar has one.)
RECURSIVE Match(_, _, _), MatchAll(_, _, _, _), MatchFirst(_, _, _, _),
          MatchMany(_, _, _, _)

Match(p, t, i) ==
  CASE p.op = "class" -> IF i <= Len(t) /\ t[i] \in p.set THEN i + 1 ELSE Fail
    [] p.op = "or" -> MatchFirst(p.parts, 1, t, i)
    [] p.op = "then" -> MatchAll(p.parts, 1, t, i)
    [] p.op = "repeat" -> MatchMany(p, 0, t, i)
    [] p.op = "lit" -> LET j == i + Len(p.text)
                       IN IF j <= Len(t) + 1 /\ SubSeq(t, i, j - 1) = p.text THEN j ELSE Fail

MatchAll(ps, k, t, i) ==
  IF k > Len(ps) THEN i
  ELSE LET j == Match(ps[k], t, i) IN IF j = Fail THEN Fail ELSE MatchAll(ps, k + 1, t, j)

MatchFirst(ps, k, t, i) ==
  IF k > Len(ps) THEN Fail
  ELSE LET j == Match(ps[k], t, i) IN IF j # Fail THEN j ELSE MatchFirst(ps, k + 1, t, i)

MatchMany(p, k, t, i) ==
  LET j == IF k < p.hi THEN Match(p.part, t, i) ELSE Fail
  IN IF j # Fail THEN MatchMany(p, k + 1, t, j)
     ELSE IF k >= p.lo THEN i ELSE Fail

\* x3::parse succeeds and leaves nothing over.
Matches(p, t) == Match(p, t, 1) = Len(t) + 1

-----------------------------------------------------------------------------
\* Every position at which a derivation of p from position i may end.
RECURSIVE Derives(_, _, _), DerivesAll(_, _, _, _), DerivesMany(_, _, _, _)

Derives(p, t, i) ==
  CASE p.op \in {"class", "lit"} -> {Match(p, t, i)} \ {Fail}
    [] p.op = "then" -> DerivesAll(p.parts, 1, t, {i})
    [] p.op = "or" -> UNION {Derives(p.parts[k], t, i) : k \in DOMAIN p.parts}
    [] p.op = "repeat" -> DerivesMany(p, 0, t, {i})

DerivesAll(ps, k, t, from) ==
  IF k > Len(ps) \/ from = {} THEN from
  ELSE DerivesAll(ps, k + 1, t, UNION {Derives(ps[k], t, i) : i \in from})

DerivesMany(p, k, t, from) ==
  (IF k >= p.lo THEN from ELSE {}) \cup
  (IF k = p.hi \/ from = {} THEN {}
   ELSE DerivesMany(p, k + 1, t, UNION {Derives(p.part, t, i) : i \in from}))

\* The rule generates the whole text.
Generates(p, t) == Len(t) + 1 \in Derives(p, t, 1)
=============================================================================
