----------------------------- MODULE PctCoding -----------------------------
(***************************************************************************)
(* include/foxy/pct_encode.hpp and pct_decode.hpp.  The encoders take code  *)
(* points, the decoder takes and gives bytes; characters are their codes.   *)
(* A loop is a function of the number of its turns.                         *)
(***************************************************************************)
EXTENDS Utf8

\* x3::parse(host, unicode::ip_literal | unicode::ip_v4_address): an address
\* at the FRONT of the host.  The grammar is in the modules Uri and UnicodeUri.
CONSTANT StartsWithAddress(_)

Pct == 37

\* karma::lit("%") << right_align(2, lit("0"))[hex], one byte; the digits
\* Karma writes are lower case.
HexDigit(n) == IF n < 10 THEN 48 + n ELSE 87 + n
PctByte(b) == <<Pct, HexDigit(b \div 16), HexDigit(b % 16)>>

\* The loop over the buffer that holds the bytes of a code point.
Escape(c) ==
  LET buffer == utf8_encode(c)
  IN Sink([n \in DOMAIN buffer |-> PctByte(buffer[n])])[Len(buffer)]

\* The loop the encoders share: a printable ASCII character outside `special`
\* is copied, every other code point escaped byte by byte.
Piece(c, special) ==
  IF c > 32 /\ c < 127 /\ c \notin special THEN utf8_encode(c) ELSE Escape(c)
Encode(cs, special) == Sink([i \in DOMAIN cs |-> Piece(cs[i], special)])[Len(cs)]

\* "#<>[\]^`{|}, and what each encoder adds to them: /?@ and ? and :@
Special == {34, 35, 60, 62, 91, 92, 93, 94, 96, 123, 124, 125}
\* Mutant of HostSpecial: the @ is missing.
HostSpecialNoAt == Special \cup {47, 63}
HostSpecial == Special \cup {47, 63, 64}
PathSpecial == Special \cup {63}
\* Mutant of QuerySpecial: the # is missing.
QuerySpecialNoHash == (Special \ {35}) \cup {58, 64}
QuerySpecial == Special \cup {58, 64}

\* A host with an address at its front is left unescaped as a whole.
encode_host(cs) ==
  IF StartsWithAddress(cs) THEN utf8_encode_range(cs) ELSE Encode(cs, HostSpecial)

encode_path(cs) == Encode(cs, PathSpecial)
encode_query(cs) == Encode(cs, QuerySpecial)
encode_fragment(cs) == encode_query(cs)

-----------------------------------------------------------------------------
\* "%" >> x3::xdigit >> x3::xdigit at position i
IsXdigit(d) == d \in (48 .. 57) \cup (65 .. 70) \cup (97 .. 102)
xpair(str, i) ==
  i + 2 <= Len(str) /\ str[i] = Pct /\ IsXdigit(str[i + 1]) /\ IsXdigit(str[i + 2])

\* Mutant of DigitValue: letters count from zero.
DigitValueFromZero(d) == IF d <= 57 THEN d - 48 ELSE d - 97

\* The value to_utf8_byte gives a digit: everything past '9' is taken for a
\* lower case letter.
DigitValue(d) == IF d <= 57 THEN d - 48 ELSE (d - 97) + 10
to_utf8_byte(str, i) == (16 * DigitValue(str[i + 1]) + DigitValue(str[i + 2])) % 256

\* *(xpair[to_utf8_byte] | (char_ - "%")[append_byte]): where the parse stands
\* after n turns, and what it has written to the sink.  A turn that matches
\* neither alternative ends the loop.
Decoding(str) ==
  LET turn == [p \in [at : Nat, out : Seq(Nat)] |->
        IF xpair(str, p.at)
          THEN [at |-> p.at + 3, out |-> Append(p.out, to_utf8_byte(str, p.at))]
        ELSE IF p.at <= Len(str) /\ str[p.at] # Pct
          THEN [at |-> p.at + 1, out |-> Append(p.out, str[p.at])]
        ELSE p]
      pos[n \in 0 .. Len(str)] ==
        IF n = 0 THEN [at |-> 1, out |-> <<>>] ELSE turn[pos[n - 1]]
  IN pos
pct_decode_impl(str) == Decoding(str)[Len(str)]

\* pct_decode(str, sink, ec): the output iterator has moved over what was
\* decoded whether or not ec is set.
pct_decode(str) ==
  LET p == pct_decode_impl(str)
  IN [ec |-> IF p.at = Len(str) + 1 THEN "none" ELSE "unexpected_pct", out |-> p.out]
=============================================================================
