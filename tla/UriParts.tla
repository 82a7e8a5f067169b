------------------------------ MODULE UriParts ------------------------------
(***************************************************************************)
(* include/foxy/uri_parts.hpp: the parts of a request target, as views into *)
(* its text, and the questions the server and the tunnel ask of them.       *)
(***************************************************************************)
EXTENDS Integers, Sequences

\* A string_view into the text: the positions it starts at and ends before.
\* The views of basic_uri_parts() are null.
NullView == <<0, 0>>
View(t, v) == IF v = NullView THEN <<>> ELSE SubSeq(t, v[1], v[2] - 1)

basic_uri_parts == [scheme |-> NullView, host |-> NullView, port |-> NullView,
                    path |-> NullView, query |-> NullView, fragment |-> NullView]

IsEmpty(v) == v[1] = v[2]

\* The scheme is "http" or "https".
is_http(t, p) == View(t, p.scheme) \in {<<104, 116, 116, 112>>, <<104, 116, 116, 112, 115>>}

\* Mutant of is_authority: the path is not looked at.
AuthorityAnyPath(p) ==
  IsEmpty(p.scheme) /\ ~IsEmpty(p.host) /\ IsEmpty(p.query) /\ IsEmpty(p.fragment)

is_authority(p) ==
  IsEmpty(p.scheme) /\ ~IsEmpty(p.host) /\ IsEmpty(p.path)
    /\ IsEmpty(p.query) /\ IsEmpty(p.fragment)

is_absolute(p) == ~IsEmpty(p.scheme) /\ IsEmpty(p.fragment)
=============================================================================
