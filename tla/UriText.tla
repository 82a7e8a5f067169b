------------------------------ MODULE UriText ------------------------------
(***************************************************************************)
(* The text functions of the library (the two URI grammars, parse_uri, the  *)
(* percent coders and the UTF-8 view) on every text of a family.  A family  *)
(* is a sequence of stages, each a set of fragments; a text grows by one    *)
(* fragment of the next stage, and every text on the way is examined.       *)
(***************************************************************************)
EXTENDS CodedText, UriParts, Peg

Narrow == INSTANCE Uri
Wide == INSTANCE UnicodeUri
Rfc == INSTANCE Abnf

Parse == INSTANCE ParseUri WITH
  scheme <- Narrow!scheme, userinfo <- Narrow!userinfo, host <- Narrow!host,
  port <- Narrow!port, path_abempty <- Narrow!path_abempty,
  path_empty <- Narrow!path_empty, query <- Narrow!query, fragment <- Narrow!fragment

\* parse_uri, parse_complete and parse_authority over char32_t
ParseWide == INSTANCE ParseUri WITH
  scheme <- Wide!scheme, userinfo <- Wide!userinfo, host <- Wide!host,
  port <- Wide!port, path_abempty <- Wide!path_abempty,
  path_empty <- Wide!path_empty, query <- Wide!query, fragment <- Wide!fragment

-----------------------------------------------------------------------------
\* The families.

Fragments(ss) == {Text(s) : s \in ss}

\* A URI part by part: each present, absent, or spoilt.
UriFamily ==
  <<Fragments({"", "a:", "a,:"}), Fragments({"", "/", "//"}), Fragments({"", "u:1@"}),
    Fragments({"", "h", "1.2.3.4", "1.2.3.4.h", "[::1]"}), Fragments({"", ":", ":8"}),
    Fragments({"", "/p"}), Fragments({"", "?q"}), Fragments({"", "#f"})>>

\* IPv6 addresses, with elisions before, between and after two rows of groups
\* and a dotted quad in either place.  Bound: the rows have eight groups
\* between them, with the fragments around them more than an address may have.
AddressFamilies ==
  LET Row(n) == SubSeq(Text(":1:1:1:1:1:1:1:1"), 1, 2 * n)
  IN {<<Fragments({"1", "::", "::1"}), {Row(k)}, Fragments({"", "::", "::1", "::1.2.3.4"}),
        {Row(n) : n \in 0 .. 8 - k}, Fragments({"", ":1.2.3.4"})>> : k \in 0 .. 6}

\* Octets of an IPv4 address.
QuadFamily ==
  <<Fragments({"1.", "10.", "255.", "256.", "01."}), Fragments({"2", "25", "199"}),
    Fragments({".0.", ".300.", "."}), Fragments({"0", "249", "1000", "1x"})>>

\* IP literals of a version to come.
FutureFamily ==
  <<Fragments({"", "[", "//["}), Fragments({"", "v", "V"}), Fragments({"", "1", "aF", "g"}),
    Fragments({"", "."}), Fragments({"", "a", ":", "%", "v"}), Fragments({"", "]"})>>

\* Every short text over characters that the rules treat differently, some of
\* them beyond ASCII.
CharFamily ==
  LET chars == Fragments({"a", "4", "%", "/", ":", "?", "#", "@", "[", ",", "."})
                 \cup {<<c>> : c \in {96, 233, 65297, 128512}}
  IN <<chars, chars, chars>>

\* Percent pairs, whole and broken off.
PctFamily ==
  LET pieces == Fragments({"a", "%", "%2f", "%aF", "4"}) \cup {<<195>>}
  IN <<pieces, pieces, pieces, pieces>>

\* Lead, trail and impossible bytes of UTF-8.
ByteFamily ==
  LET bytes == {<<b>> : b \in {97, 128, 169, 195, 224, 237, 240, 255}}
  IN <<bytes, bytes, bytes, bytes>>

AllFamilies ==
  {UriFamily, QuadFamily, FutureFamily, CharFamily, PctFamily, ByteFamily}
    \cup AddressFamilies

-----------------------------------------------------------------------------
IsAscii == \A i \in DOMAIN text : text[i] < 128
Has(c) == CodeOf[c] \in CharsOf(text)

Conform(rule, abnf) == Matches(rule, text) = Generates(abnf, text)

\* Greedy, ordered parsing accepts exactly what the ABNF quoted above each
\* rule generates: no repetition of the character level, path and IPv4 rules
\* (uri.hpp:117-220, 267-270) takes too much, and no alternative hides a later
\* one.  What ip_v6_address (uri.hpp:235-265) accepts without a dotted quad is an
\* IPv6 address: eight groups, or fewer around one "::", however its nine
\* alternatives overlap.  Of the ABNF's "v", which stands for either case,
\* ip_vfuture takes the lower one.
RulesConform ==
  IsAscii =>
    /\ Conform(Narrow!pchar, Rfc!Pchar)
    /\ Conform(Narrow!query, Rfc!Query)
    /\ Conform(Narrow!path_abempty, Rfc!Slashed)
    /\ Conform(Narrow!path_absolute, Rfc!PathAbsolute)
    /\ Conform(Narrow!path_noscheme, Rfc!PathNoscheme)
    /\ Conform(Narrow!path_rootless, Rfc!PathRootless)
    /\ Conform(Narrow!reg_name, Rfc!RegName)
    /\ Conform(Narrow!userinfo, Rfc!Userinfo)
    /\ Conform(Narrow!ip_v4_address, Rfc!IPv4address)
    /\ Match(lit("V"), text, 1) = Fail => Conform(Narrow!ip_vfuture, Rfc!IPvFuture)
    /\ ~Has(".") /\ Matches(Narrow!ip_v6_address, text) => Generates(Rfc!IPv6address, text)

\* The places where the grammar is known to differ from the ABNF: a comma in
\* the scheme, a host that goes on after an IPv4 address, and the IP literals
\* the two judge differently.
Settled ==
  /\ IsAscii /\ ~Has(",")
  /\ \A i \in DOMAIN text :
       LET j == Match(Narrow!ip_v4_address, text, i)
       IN j # Fail => Match(Narrow!reg_name, text, j) = j
  /\ \A i \in DOMAIN text :
       text[i] = CodeOf["["] =>
         (Match(Narrow!ip_literal, text, i) # Fail) = (Derives(Rfc!IPLiteral, text, i) # {})

\* Away from those places the whole-URI rules (uri.hpp:309-350) accept exactly
\* the URIs, absolute URIs and references of the ABNF, although hier_part and
\* relative_part commit to the first alternative that matches a prefix.
UriConforms ==
  Settled =>
    /\ Conform(Narrow!uri, Rfc!URI)
    /\ Conform(Narrow!absolute_uri, Rfc!AbsoluteURI)
    /\ Conform(Narrow!relative_ref, Rfc!RelativeRef)
    /\ Conform(Narrow!uri_reference, Or(<<Rfc!URI, Rfc!RelativeRef>>))

\* The Unicode port of the rules (uri.hpp:353-637) and of parse_uri does on
\* ASCII text what the char version does: the two hand-kept copies have not
\* drifted apart.
WideAgrees ==
  IsAscii =>
    /\ \A pair \in {<<Narrow!uri_reference, Wide!uri_reference>>,
                    <<Narrow!absolute_uri, Wide!absolute_uri>>,
                    <<Narrow!authority, Wide!authority>>,
                    <<Narrow!ip_v6_address, Wide!ip_v6_address>>,
                    <<Narrow!ip_vfuture, Wide!ip_vfuture>>,
                    <<Narrow!path, Wide!path>>,
                    <<Narrow!path_noscheme, Wide!path_noscheme>>,
                    <<Narrow!path_rootless, Wide!path_rootless>>,
                    <<Narrow!reserved, Wide!reserved>>} :
         Match(pair[1], text, 1) = Match(pair[2], text, 1)
    /\ Parse!parse_uri(text) = ParseWide!parse_uri(text)

-----------------------------------------------------------------------------
\* The characters of a part of parse_uri's answer.
Part(p, name) == View(text, p[name])

\* An ordinary URI with an authority is cut where appendix B of the RFC cuts
\* it; in particular it never falls through to the authority form, which would
\* make its scheme the host to connect to.
PartsConform(p) ==
  LET c == Rfc!Components(text)
  IN Settled /\ Generates(Rfc!NetURI, text) =>
       /\ Part(p, "scheme") = c.scheme
       /\ Part(p, "host") = c.authority.host /\ Part(p, "port") = c.authority.port
       /\ Part(p, "path") = c.path
       /\ Part(p, "query") = c.query /\ Part(p, "fragment") = c.fragment

\* Bound: the texts on which every rule is tried at every position.
ShortText == 12

\* parse_uri cuts a text without a loss (for rules that match in place, as
\* those of the grammar do), and cuts a URI where the RFC does.
PartsFaithful ==
  /\ Len(text) <= ShortText => Parse!RulesInPlace(text)
  /\ \A p \in {Parse!parse_uri(text)} :
       (p # basic_uri_parts => Parse!PartsTile(text, p)) /\ PartsConform(p)

\* is_authority, which decides whether the target of a CONNECT is served
\* (tunnel.hpp:154), holds of exactly the authorities with a host, and host and
\* port are then those of the text.  Two things are let through: an empty query
\* or fragment after the authority does not count, and a name followed by ":"
\* alone is taken for a URI.
ConnectTargets ==
  LET p == Parse!parse_uri(text)
      end == Rfc!Until(text, "?#", 1)
      a == Rfc!HostAndPort(text, 1, end)
      isAuthority == Generates(Then(<<Rfc!Authority, Opt(lit("?")), Opt(lit("#"))>>), text)
      isScheme == Matches(Then(<<Narrow!scheme, lit(":")>>), SubSeq(text, 1, end - 1))
  IN Settled =>
       /\ is_authority(p) =>
            isAuthority /\ Part(p, "host") = a.host /\ Part(p, "port") = a.port
       /\ isAuthority /\ a.host # <<>> /\ ~isScheme => is_authority(p)

-----------------------------------------------------------------------------
\* x3::parse(host, unicode::ip_literal | unicode::ip_v4_address)
AddressFirst(cs) == Match(Or(<<Wide!ip_literal, Wide!ip_v4_address>>), cs, 1) # Fail

\* What the encoders make of any code points free of "%" belongs in the place
\* it is made for: the result of encode_path is a path, of encode_query a query,
\* of encode_fragment a fragment and, for a host that neither starts with an
\* address nor holds a ":", of encode_host a reg-name.
EncodedFits ==
  \A cs \in {text} \cup (IF IsBytes THEN {code_points(text)} ELSE {}) :
    Without(Pct, cs) =>
      /\ \E r \in {Narrow!path_abempty, Narrow!path_rootless} : Matches(r, encode_path(cs))
      /\ Matches(Narrow!query, encode_query(cs))
      /\ Matches(Narrow!fragment, encode_fragment(cs))
      /\ Without(CodeOf[":"], cs) /\ ~StartsWithAddress(cs) =>
           Matches(Narrow!reg_name, encode_host(cs))
=============================================================================
