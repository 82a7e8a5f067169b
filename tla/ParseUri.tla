------------------------------ MODULE ParseUri ------------------------------
(***************************************************************************)
(* src/parse_uri.cpp: a request target cut into its parts.  The rules come  *)
(* in as constants, since the code has the functions once over char and     *)
(* once over char32_t; so does the parser that is given the rules.          *)
(***************************************************************************)
EXTENDS UriParts

CONSTANTS
  Match(_, _, _),  \* the position after rule p in text t from position i, or Fail
  lit(_),          \* x3::lit
  scheme, userinfo, host, port, path_abempty, path_empty, query, fragment

Fail == 0

\* raw[p] with the attribute `part`, from position i: the position after p,
\* and the view over what it matched.  Both results travel in one record:
\* `at` is Fail or where the parse stands.
Raw(p, part, t, r) ==
  LET j == IF r.at = Fail THEN Fail ELSE Match(p, t, r.at)
  IN IF j = Fail THEN [r EXCEPT !.at = Fail]
     ELSE [at |-> j, parts |-> [r.parts EXCEPT ![part] = <<r.at, j>>]]

\* A parser without an attribute.
Skip(p, t, r) == [r EXCEPT !.at = IF @ = Fail THEN Fail ELSE Match(p, t, @)]

\* -(delim >> raw[p])
OptRaw(delim, p, part, t, r) ==
  LET q == Raw(p, part, t, Skip(lit(delim), t, r)) IN IF q.at = Fail THEN r ELSE q

\* The rest, common to both forms once the path is behind.
Tails(t, r) == OptRaw("#", fragment, "fragment", t, OptRaw("?", query, "query", t, r))

\* Mutant of HostPart: a userinfo is not looked for.
HostPartNoUser(t, r) == Raw(host, "host", t, r)

\* -(userinfo >> "@") >> raw[host]: the userinfo is dropped.
HostPart(t, r) ==
  LET user == Skip(lit("@"), t, Skip(userinfo, t, r))
  IN Raw(host, "host", t, IF user.at = Fail THEN r ELSE user)

PortPath(t, r) == Raw(path_abempty, "path", t, OptRaw(":", port, "port", t, r))

Start == [at |-> 1, parts |-> basic_uri_parts]

\* scheme ":" then "//" and an authority with its path, or an empty path.
\* A path without an authority is not tried (the TODO in the code).
parse_complete(t) ==
  LET named == Skip(lit(":"), t, Raw(scheme, "scheme", t, Start))
      hosted == HostPart(t, Skip(lit("//"), t, named))
  IN Tails(t, IF named.at = Fail THEN named
              ELSE IF hosted.at # Fail THEN PortPath(t, hosted)
              ELSE Raw(path_empty, "path", t, named))

parse_authority(t) == Tails(t, PortPath(t, HostPart(t, Start)))

Whole(t, r) == r.at = Len(t) + 1

\* The complete form, else the authority form, else no parts at all.
parse_uri(t) ==
  IF Whole(t, parse_complete(t)) THEN parse_complete(t).parts
  ELSE IF Whole(t, parse_authority(t)) THEN parse_authority(t).parts
  ELSE basic_uri_parts

-----------------------------------------------------------------------------
\* The codes cs stand in t from position i.
Reads(t, i, cs) == i + Len(cs) <= Len(t) + 1 /\ \A k \in 1 .. Len(cs) : t[i + k - 1] = cs[k]

\* What is asked of the rules: each matches a piece of the text from where it
\* starts, a delimiter matches itself, and a userinfo holds no "@".
RulesInPlace(t) ==
  LET Moves(p) == \A i \in 1 .. Len(t) + 1 : Match(p, t, i) \in {Fail} \cup (i .. Len(t) + 1)
      Is(d, cs) == \A i \in 1 .. Len(t) + 1 :
                     Match(lit(d), t, i) # Fail => Match(lit(d), t, i) = i + Len(cs) /\ Reads(t, i, cs)
  IN /\ Moves(scheme) /\ Moves(userinfo) /\ Moves(host) /\ Moves(port)
     /\ Moves(path_abempty) /\ Moves(path_empty) /\ Moves(query) /\ Moves(fragment)
     /\ Is(":", <<58>>) /\ Is("//", <<47, 47>>) /\ Is("@", <<64>>)
     /\ Is("?", <<63>>) /\ Is("#", <<35>>)
     /\ \A i \in 1 .. Len(t) + 1 : \A k \in i .. Match(userinfo, t, i) - 1 : t[k] # 64

\* Where the part v ends, if it is there; else `at`, where it would begin.
End(v, at) == IF v = NullView THEN at ELSE v[2]

\* If the part v is there it follows the delimiter d at position i.
Follows(t, v, d, i) == v # NullView => Reads(t, i, <<d>>) /\ v[1] = i + 1

\* The parts p account for the text: each begins where the one before it ends,
\* behind its delimiter, and the last one ends with the text, so that no
\* character is lost, shared or reordered.  Only a userinfo before the host
\* belongs to no part; it ends in the only "@" there.
PartsTile(t, p) ==
  LET begun == IF p.scheme = NullView THEN 1
               ELSE p.scheme[2] + (IF p.host = NullView THEN 1 ELSE 3)
      hostEnd == End(p.host, begun)
      queryEnd == End(p.query, p.path[2])
  IN /\ \A name \in DOMAIN p : p[name][1] <= p[name][2]
     /\ p.scheme # NullView =>
          /\ p.scheme[1] = 1
          /\ Reads(t, p.scheme[2], IF p.host = NullView THEN <<58>> ELSE <<58, 47, 47>>)
     /\ p.host # NullView =>
          /\ begun <= p.host[1]
          /\ {i \in begun .. p.host[1] - 1 : t[i] = 64} = {p.host[1] - 1} \ {begun - 1}
     /\ Follows(t, p.port, 58, hostEnd)
     /\ p.path[1] = End(p.port, hostEnd)
     /\ Follows(t, p.query, 63, p.path[2])
     /\ Follows(t, p.fragment, 35, queryEnd)
     /\ End(p.fragment, queryEnd) = Len(t) + 1
=============================================================================
