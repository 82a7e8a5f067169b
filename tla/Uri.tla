-------------------------------- MODULE Uri --------------------------------
(***************************************************************************)
(* namespace foxy::uri of include/foxy/uri.hpp: the URI grammar written as  *)
(* Spirit X3 rules over char.  Every rule keeps its name.                   *)
(***************************************************************************)
EXTENDS Peg

alpha == Class((65 .. 90) \cup (97 .. 122))
digit == Class(48 .. 57)
xdigit == Class((48 .. 57) \cup (65 .. 70) \cup (97 .. 102))

sub_delims == char_("!$&'()*+,;=")
gen_delims == char_(":/?#[]@")
reserved == Or(<<gen_delims, sub_delims>>)
unreserved == Or(<<alpha, digit, char_("-._~")>>)
pct_encoded == Then(<<lit("%"), xdigit, xdigit>>)
pchar == Or(<<unreserved, pct_encoded, sub_delims, char_(":@")>>)

query == Star(Or(<<pchar, char_("/?")>>))
fragment == Star(Or(<<pchar, char_("/?")>>))

segment == Star(pchar)
segment_nz == Plus(pchar)
segment_nz_nc == Plus(Or(<<unreserved, pct_encoded, sub_delims, lit("@")>>))

path_empty == Repeat(0, 0, pchar)
path_rootless == Then(<<segment_nz, Star(Then(<<lit("/"), segment>>))>>)
path_noscheme == Then(<<segment_nz_nc, Star(Then(<<lit("/"), segment>>))>>)
path_absolute ==
  Then(<<char_("/"), Opt(Then(<<segment_nz, Star(Then(<<lit("/"), segment>>))>>))>>)
path_abempty == Star(Then(<<char_("/"), segment>>))
path == Or(<<path_abempty, path_absolute, path_noscheme, path_rootless, path_empty>>)

reg_name == Star(Or(<<unreserved, pct_encoded, sub_delims>>))

\* Mutant of dec_octet: the shortest alternative comes first.
DecOctetShortFirst == Or(<<digit, Then(<<char_("1-9"), digit>>)>>)
dec_octet ==
  Or(<<Then(<<lit("25"), char_("0-5")>>),
       Then(<<lit("2"), char_("0-4"), digit>>),
       Then(<<lit("1"), Repeat(2, 2, digit)>>),
       Then(<<char_("1-9"), digit>>),
       digit>>)
ip_v4_address ==
  Then(<<dec_octet, lit("."), dec_octet, lit("."), dec_octet, lit("."), dec_octet>>)

h16 == Repeat(1, 4, xdigit)
ls32 == Or(<<Then(<<h16, lit(":"), h16>>), ip_v4_address>>)

\* The nine alternatives in the order of the code.  The fourth puts the
\* colon after the repeated group and the fifth ends in ls32 followed by two
\* groups, as written there.
ip_v6_address ==
  LET group == Then(<<h16, lit(":")>>)
      Groups(n) == Repeat(n, n, group)
      UpTo(n) == Opt(Then(<<h16, Repeat(0, n, Then(<<lit(":"), h16>>))>>))
  IN Or(<<Then(<<Groups(6), ls32>>),
          Then(<<lit("::"), Groups(5), ls32>>),
          Then(<<Opt(h16), lit("::"), Groups(4), ls32>>),
          Then(<<Opt(Then(<<Repeat(0, 1, group), h16>>)), lit("::"), Groups(3), ls32>>),
          Then(<<UpTo(2), lit("::"), ls32, Repeat(2, 2, Then(<<lit(":"), h16>>))>>),
          Then(<<UpTo(3), lit("::"), h16, lit(":"), ls32>>),
          Then(<<UpTo(4), lit("::"), ls32>>),
          Then(<<UpTo(5), lit("::"), h16>>),
          Then(<<UpTo(6), lit("::")>>)>>)

ip_vfuture ==
  Then(<<lit("v"), Plus(xdigit), lit("."), Plus(Or(<<unreserved, sub_delims, lit(":")>>))>>)
ip_literal == Then(<<lit("["), Or(<<ip_v6_address, ip_vfuture>>), lit("]")>>)

port == Star(digit)
host == Or(<<ip_literal, ip_v4_address, reg_name>>)
userinfo == Star(Or(<<unreserved, pct_encoded, sub_delims, lit(":")>>))
authority ==
  Then(<<Opt(Then(<<userinfo, lit("@")>>)), host, Opt(Then(<<lit(":"), port>>))>>)

\* char_("+-.") is the range from "+" to ".", which holds "," as well.
scheme == Then(<<alpha, Star(Or(<<alpha, digit, char_("+-.")>>))>>)

relative_part ==
  Or(<<Then(<<lit("//"), authority, path_abempty>>), path_absolute, path_noscheme, path_empty>>)
relative_ref ==
  Then(<<relative_part, Opt(Then(<<lit("?"), query>>)), Opt(Then(<<lit("#"), fragment>>))>>)

\* Mutant of hier_part: the empty path comes first.
HierPartEmptyFirst == Or(<<path_empty, path_absolute, path_rootless>>)

hier_part ==
  Or(<<Then(<<lit("//"), authority, path_abempty>>), path_absolute, path_rootless, path_empty>>)
uri ==
  Then(<<scheme, lit(":"), hier_part,
         Opt(Then(<<lit("?"), query>>)), Opt(Then(<<lit("#"), fragment>>))>>)
absolute_uri == Then(<<scheme, lit(":"), hier_part, Opt(Then(<<lit("?"), query>>))>>)
uri_reference == Or(<<uri, relative_ref>>)
=============================================================================
