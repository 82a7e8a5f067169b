-------------------------------- MODULE Utf8 --------------------------------
(***************************************************************************)
(* include/foxy/utf8.hpp, code_point_iterator.hpp and code_point_view.hpp:  *)
(* code points to UTF-8 bytes and back.  The arithmetic of one code point   *)
(* is boost::locale::utf::utf_traits<char>.                                 *)
(***************************************************************************)
EXTENDS Integers, Sequences

\* utf::illegal and utf::incomplete, the char32_t values 2^32 - 1 and
\* 2^32 - 2, which the decoder returns in the place of a code point.
Illegal == -1
Incomplete == -2

\* utf::is_valid_codepoint
IsValid(c) == 0 <= c /\ c <= 1114111 /\ (c < 55296 \/ c > 57343)

\* utf_traits<char>::width
Width(c) == IF c <= 127 THEN 1 ELSE IF c <= 2047 THEN 2 ELSE IF c <= 65535 THEN 3 ELSE 4

\* c without its lowest six bits, and the trail byte that carries them.
Up(c) == c \div 64
Trail(c) == 128 + (c % 64)

\* utf_traits<char>::encode as utf8_encode(char32_t, sink) calls it, for a
\* code point and for the two error values (which take the four byte form,
\* the lead byte cut down to 8 bits).
utf8_encode(c) ==
  IF c < 0 THEN <<255, Trail(Up(Up(c))), Trail(Up(c)), Trail(c)>>
  ELSE IF Width(c) = 1 THEN <<c>>
  ELSE IF Width(c) = 2 THEN <<192 + Up(c), Trail(c)>>
  ELSE IF Width(c) = 3 THEN <<224 + Up(Up(c)), Trail(Up(c)), Trail(c)>>
  ELSE <<240 + Up(Up(Up(c))), Trail(Up(Up(c))), Trail(Up(c)), Trail(c)>>

\* What an output iterator's sink holds after each of a sequence of writes.
Sink(writes) ==
  LET sink[n \in 0 .. Len(writes)] ==
        IF n = 0 THEN <<>> ELSE sink[n - 1] \o writes[n]
  IN sink

\* utf8_encode(begin, end, sink): the bytes in the sink after i code points,
\* and after all of them.
Encoded(cs) == Sink([i \in DOMAIN cs |-> utf8_encode(cs[i])])

utf8_encode_range(cs) == Encoded(cs)[Len(cs)]

-----------------------------------------------------------------------------
\* utf_traits<char>::trail_length
TrailLength(lead) ==
  IF lead < 128 THEN 0
  ELSE IF lead < 194 \/ lead > 244 THEN -1
  ELSE IF lead < 224 THEN 1 ELSE IF lead < 240 THEN 2 ELSE 3

IsTrail(b) == 128 <= b /\ b <= 191

\* The value the lead byte and n trail bytes from position i carry.
Value(bytes, i, n) ==
  LET Put(v, k) == v * 64 + (bytes[i + k] % 64)
  IN IF n = 0 THEN bytes[i]
     ELSE IF n = 1 THEN Put(bytes[i] % 32, 1)
     ELSE IF n = 2 THEN Put(Put(bytes[i] % 16, 1), 2)
     ELSE Put(Put(Put(bytes[i] % 8, 1), 2), 3)

\* code_point_iterator::operator*: utf_traits<char>::decode, which moves the
\* iterator: past the bytes of a code point, past a byte that cannot follow,
\* or to the end.  i is a position before the end; `next` is where it stands
\* afterwards.
Deref(bytes, i) ==
  LET n == TrailLength(bytes[i])
      bad == {k \in 1 .. n : i + k <= Len(bytes) /\ ~IsTrail(bytes[i + k])}
      first == CHOOSE k \in bad : \A j \in bad : k <= j
      c == Value(bytes, i, n)
  IN IF n < 0 THEN [cp |-> Illegal, next |-> i + 1]
     ELSE IF bad # {} THEN [cp |-> Illegal, next |-> i + first + 1]
     ELSE IF i + n > Len(bytes) THEN [cp |-> Incomplete, next |-> Len(bytes) + 1]
     ELSE IF n > 0 /\ (~IsValid(c) \/ Width(c) # n + 1)
            THEN [cp |-> Illegal, next |-> i + n + 1]
     ELSE [cp |-> c, next |-> i + n + 1]

\* Mutant of Iterated: ++ moves, too.
IteratedSkipping(bytes) ==
  LET turn == [v \in [at : Nat, read : Seq(Int)] |->
        IF v.at > Len(bytes) THEN v
        ELSE [at |-> Deref(bytes, v.at).next + 1, read |-> Append(v.read, Deref(bytes, v.at).cp)]]
      view[n \in 0 .. Len(bytes)] ==
        IF n = 0 THEN [at |-> 1, read |-> <<>>] ELSE turn[view[n - 1]]
  IN view

\* Where the iterator stands after n turns of a loop over the view, and what
\* it has yielded.  ++ does nothing, so a turn is one dereference; the loop
\* ends when the iterator compares equal to end().
Iterated(bytes) ==
  LET turn == [v \in [at : Nat, read : Seq(Int)] |->
        IF v.at = Len(bytes) + 1 THEN v
        ELSE [at |-> Deref(bytes, v.at).next, read |-> Append(v.read, Deref(bytes, v.at).cp)]]
      view[n \in 0 .. Len(bytes)] ==
        IF n = 0 THEN [at |-> 1, read |-> <<>>] ELSE turn[view[n - 1]]
  IN view

\* The code points of code_point_view(bytes), from begin() to end().
code_points(bytes) == Iterated(bytes)[Len(bytes)].read

-----------------------------------------------------------------------------
\* Iterating over the UTF-8 form of valid code points gives them back one for
\* one, although ++ does nothing and only the dereference moves.
ViewInvertsEncoding(cs) ==
  (\A i \in DOMAIN cs : IsValid(cs[i])) => code_points(utf8_encode_range(cs)) = cs

\* A view that yields no error value stands for exactly the bytes it was made
\* over: there is one spelling of each code point, and no byte is skipped.
ViewLosesNothing(bytes) ==
  LET cs == code_points(bytes)
  IN (\A i \in DOMAIN cs : cs[i] \notin {Illegal, Incomplete}) => utf8_encode_range(cs) = bytes
=============================================================================
