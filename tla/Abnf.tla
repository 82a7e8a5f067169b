-------------------------------- MODULE Abnf --------------------------------
(***************************************************************************)
(* The reference for the grammar of include/foxy/uri.hpp: the ABNF of       *)
(* RFC 3986, appendix A, which the comments above its rules quote, to be    *)
(* read with Derives; and the division of a URI into components that        *)
(* appendix B of the RFC gives, which needs no grammar at all.              *)
(***************************************************************************)
EXTENDS Peg

Of(s) == Class(CharsOf(Text(s)))
DIGIT == Of("0123456789")
ALPHA == Of("ABCDEFGHIJKLMNOPQRSTUVWXYZabcdefghijklmnopqrstuvwxyz")
HEXDIG == Of("0123456789ABCDEFabcdef")

SubDelims == Of("!$&'()*+,;=")
Unreserved == Or(<<ALPHA, DIGIT, Of("-._~")>>)
PctEncoded == Then(<<lit("%"), HEXDIG, HEXDIG>>)
NameChar == Or(<<Unreserved, PctEncoded, SubDelims>>)
Pchar == Or(<<NameChar, Of(":@")>>)
Query == Star(Or(<<Pchar, Of("/?")>>))

Slashed == Star(Then(<<lit("/"), Star(Pchar)>>))
PathRootless == Then(<<Plus(Pchar), Slashed>>)
PathNoscheme == Then(<<Plus(Or(<<NameChar, lit("@")>>)), Slashed>>)
PathAbsolute == Then(<<lit("/"), Opt(PathRootless)>>)

DecOctet ==
  Or(<<DIGIT, Then(<<Of("123456789"), DIGIT>>), Then(<<lit("1"), DIGIT, DIGIT>>),
       Then(<<lit("2"), Of("01234"), DIGIT>>), Then(<<lit("25"), Of("012345")>>)>>)
IPv4address ==
  Then(<<DecOctet, lit("."), DecOctet, lit("."), DecOctet, lit("."), DecOctet>>)

\* Eight groups of which the last two may be written as an IPv4 address; or
\* at most seven, with "::" in the place of the missing ones.
H16 == Repeat(1, 4, HEXDIG)
Groups(n) == IF n = 0 THEN Then(<<>>)
             ELSE Then(<<H16, Repeat(n - 1, n - 1, Then(<<lit(":"), H16>>))>>)
GroupsOrDotted(n) ==
  IF n < 2 THEN Groups(n)
  ELSE Or(<<Groups(n),
            IF n = 2 THEN IPv4address ELSE Then(<<Groups(n - 2), lit(":"), IPv4address>>)>>)
IPv6address ==
  LET Elided(n) == \* n groups to the right of "::"
        Then(<<Or([b \in 1 .. 8 - n |-> Groups(b - 1)]), lit("::"), GroupsOrDotted(n)>>)
  IN Or(<<GroupsOrDotted(8)>> \o [n \in 1 .. 8 |-> Elided(n - 1)])

IPvFuture ==
  Then(<<Of("vV"), Plus(HEXDIG), lit("."), Plus(Or(<<Unreserved, SubDelims, lit(":")>>))>>)
RegName == Star(NameChar)
IPLiteral == Then(<<lit("["), Or(<<IPv6address, IPvFuture>>), lit("]")>>)
Host == Or(<<IPLiteral, IPv4address, RegName>>)
Userinfo == Star(Or(<<NameChar, lit(":")>>))
Port == Star(DIGIT)
Authority == Then(<<Opt(Then(<<Userinfo, lit("@")>>)), Host, Opt(Then(<<lit(":"), Port>>))>>)

Scheme == Then(<<ALPHA, Star(Or(<<ALPHA, DIGIT, Of("+-.")>>))>>)
NetPath == Then(<<lit("//"), Authority, Slashed>>)
Ends == <<Opt(Then(<<lit("?"), Query>>)), Opt(Then(<<lit("#"), Query>>))>>
HierPart == Or(<<NetPath, PathAbsolute, PathRootless, Then(<<>>)>>)
RelativePart == Or(<<NetPath, PathAbsolute, PathNoscheme, Then(<<>>)>>)
URI == Then(<<Scheme, lit(":"), HierPart>> \o Ends)
NetURI == Then(<<Scheme, lit(":"), NetPath>> \o Ends)
AbsoluteURI == Then(<<Scheme, lit(":"), HierPart, Ends[1]>>)
RelativeRef == Then(<<RelativePart>> \o Ends)

-----------------------------------------------------------------------------
\* The first position from i on that holds one of the characters of s, or the
\* end of the text.
Until(t, s, i) ==
  CHOOSE j \in i .. Len(t) + 1 :
    /\ j <= Len(t) => t[j] \in CharsOf(Text(s))
    /\ \A k \in i .. j - 1 : t[k] \notin CharsOf(Text(s))

\* Host and port of the authority between the positions i and j: what follows
\* the "@", if there is one, up to the ":" outside the brackets.
HostAndPort(t, i, j) ==
  LET at == Until(t, "@", i)
      from == IF at < j THEN at + 1 ELSE i
      colon == Until(t, ":/?#", IF from < j /\ t[from] = CodeOf["["]
                                  THEN Until(t, "]", from) ELSE from)
  IN [host |-> SubSeq(t, from, colon - 1), port |-> SubSeq(t, colon + 1, j - 1)]

\* Appendix B for a text of the form scheme "://" ...
Components(t) ==
  LET s == Until(t, ":", 1)
      p == Until(t, "/?#", s + 3)
      q == Until(t, "?#", p)
      f == Until(t, "#", q)
  IN [scheme |-> SubSeq(t, 1, s - 1), authority |-> HostAndPort(t, s + 3, p),
      path |-> SubSeq(t, p, q - 1), query |-> SubSeq(t, q + 1, f - 1),
      fragment |-> SubSeq(t, f + 1, Len(t))]
=============================================================================
