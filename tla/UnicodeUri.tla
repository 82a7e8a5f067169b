----------------------------- MODULE UnicodeUri -----------------------------
(***************************************************************************)
(* namespace foxy::uri::unicode of include/foxy/uri.hpp: the second copy of *)
(* the grammar, over char32_t.  It is written out rule by rule as the code  *)
(* does, so that the two copies can be compared.                            *)
(***************************************************************************)
EXTENDS Peg

\* Spirit's Unicode classes follow the Unicode character database.  Beyond
\* ASCII one member of each kind stands for the rest: U+00E9 (a letter),
\* U+FF11 (a decimal digit, also a hexadecimal one) and U+FF21 (a letter that
\* is a hexadecimal digit).
alpha == Class((65 .. 90) \cup (97 .. 122) \cup {233, 65313})
digit == Class((48 .. 57) \cup {65297})
xdigit == Class((48 .. 57) \cup (65 .. 70) \cup (97 .. 102) \cup {65297, 65313})

sub_delims == char_("!$&'()*+,;=")
gen_delims == char_(":/?#[]@")
reserved == Or(<<gen_delims, sub_delims>>)
unreserved == Or(<<alpha, digit, char_("-._~")>>)
pct_encoded == Then(<<lit("%"), xdigit, xdigit>>)
pchar == Or(<<unreserved, pct_encoded, sub_delims, char_(":@")>>)

query == Star(Or(<<pchar, char_("/?")>>))
fragment == Star(Or(<<pchar, char_("/?")>>))

segment == Star(pchar)
segment_nz == Plus(pchar)
segment_nz_nc == Plus(Or(<<unreserved, pct_encoded, sub_delims, char_("@")>>))

path_empty == Repeat(0, 0, pchar)
path_rootless == Then(<<segment_nz, Star(Then(<<char_("/"), segment>>))>>)
path_noscheme == Then(<<segment_nz_nc, Star(Then(<<char_("/"), segment>>))>>)
path_absolute ==
  Then(<<char_("/"), Opt(Then(<<segment_nz, Star(Then(<<char_("/"), segment>>))>>))>>)
path_abempty == Star(Then(<<char_("/"), segment>>))
path == Or(<<path_abempty, path_absolute, path_noscheme, path_rootless, path_empty>>)

reg_name == Star(Or(<<unreserved, pct_encoded, sub_delims>>))

dec_octet ==
  Or(<<Then(<<lit("25"), char_("0-5")>>),
       Then(<<lit("2"), char_("0-4"), digit>>),
       Then(<<lit("1"), Repeat(2, 2, digit)>>),
       Then(<<char_("1-9"), digit>>),
       digit>>)
ip_v4_address ==
  Then(<<dec_octet, lit("."), dec_octet, lit("."), dec_octet, lit("."), dec_octet>>)

h16 == Repeat(1, 4, xdigit)
ls32 == Or(<<Then(<<h16, lit(":"), h16>>), ip_v4_address>>)

ip_v6_address ==
  LET group == Then(<<h16, lit(":")>>)
      Groups(n) == Repeat(n, n, group)
      UpTo(n) == Opt(Then(<<h16, Repeat(0, n, Then(<<lit(":"), h16>>))>>))
  IN Or(<<Then(<<Groups(6), ls32>>),
          Then(<<lit("::"), Groups(5), ls32>>),
          Then(<<Opt(h16), lit("::"), Groups(4), ls32>>),
          Then(<<Opt(Then(<<Repeat(0, 1, group), h16>>)), lit("::"), Groups(3), ls32>>),
          Then(<<UpTo(2), lit("::"), ls32, Repeat(2, 2, Then(<<lit(":"), h16>>))>>),
          Then(<<UpTo(3), lit("::"), h16, lit(":"), ls32>>),
          Then(<<UpTo(4), lit("::"), ls32>>),
          Then(<<UpTo(5), lit("::"), h16>>),
          Then(<<UpTo(6), lit("::")>>)>>)

ip_vfuture ==
  Then(<<lit("v"), Plus(xdigit), lit("."), Plus(Or(<<unreserved, sub_delims, lit(":")>>))>>)
ip_literal == Then(<<lit("["), Or(<<ip_v6_address, ip_vfuture>>), lit("]")>>)

port == Star(digit)
host == Or(<<ip_literal, ip_v4_address, reg_name>>)
userinfo == Star(Or(<<unreserved, pct_encoded, sub_delims, lit(":")>>))
authority ==
  Then(<<Opt(Then(<<userinfo, lit("@")>>)), host, Opt(Then(<<lit(":"), port>>))>>)

\* Mutant of scheme: the hyphen stands last, and is no range.
SchemeWithoutComma == Then(<<alpha, Star(Or(<<alpha, digit, char_(".+-")>>))>>)
scheme == Then(<<alpha, Star(Or(<<alpha, digit, char_("+-.")>>))>>)

relative_part ==
  Or(<<Then(<<lit("//"), authority, path_abempty>>), path_absolute, path_noscheme, path_empty>>)
relative_ref ==
  Then(<<relative_part, Opt(Then(<<lit("?"), query>>)), Opt(Then(<<lit("#"), fragment>>))>>)
hier_part ==
  Or(<<Then(<<lit("//"), authority, path_abempty>>), path_absolute, path_rootless, path_empty>>)
uri ==
  Then(<<scheme, lit(":"), hier_part,
         Opt(Then(<<lit("?"), query>>)), Opt(Then(<<lit("#"), fragment>>))>>)
absolute_uri == Then(<<scheme, lit(":"), hier_part, Opt(Then(<<lit("?"), query>>))>>)
uri_reference == Or(<<uri, relative_ref>>)
=============================================================================
