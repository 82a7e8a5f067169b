----------------------------- MODULE HopByHop -----------------------------
(***************************************************************************)
(* What the relay does to the fields of a header: the fields that are      *)
(* meant for one connection only are taken out, and the proxy's own are    *)
(* put in.                                                                 *)
(*                                                                         *)
(* A field has the name Beast knows it by, the spelling it came with and   *)
(* the tokens of its value.  A header's fields are in order, with equally  *)
(* named ones side by side.  Transfer-Encoding, which decides the framing  *)
(* of the body, is kept apart from the other fields.                       *)
(***************************************************************************)
EXTENDS Naturals, Sequences

(* The fields that are hop-by-hop by their name. *)
hop_by_hops ==
    {"Connection", "Keep-Alive", "Proxy-Authenticate",
     "Proxy-Authentication-Info", "Proxy-Authorization", "Proxy-Connection",
     "Proxy-Features", "Proxy-Instruction", "TE", "Trailer",
     "Transfer-Encoding"}

Named(fields, name) == {i \in DOMAIN fields : fields[i].name = name}

(* The Connection options.  Sorting them and std::unique leave no other    *)
(* option behind than there was.                                           *)
connect_opts(fields) == UNION {fields[i].tokens : i \in Named(fields, "Connection")}

(* The options of the first Connection field alone. *)
FirstOptions(fields) ==
    LET at == Named(fields, "Connection")
    IN  UNION {fields[i].tokens : i \in {j \in at : \A k \in at : j <= k}}

(* Mutant of is_connect_opt: only the names known beforehand are looked at. *)
is_connect_opt_known(field, opts) == field.name \in hop_by_hops

(* A field is compared with the options by its spelling. *)
is_connect_opt(field, opts) ==
    field.name \in hop_by_hops \/ field.spelled \in opts

(* The loop over the fields: what it has left in the header when it is     *)
(* behind the i-th one.  The others are moved to fields of the relay's,    *)
(* which nobody reads.                                                     *)
Stays(fields) ==
    LET kept[i \in 0..Len(fields)] ==
            IF i = 0 THEN <<>>
            ELSE IF is_connect_opt(fields[i], connect_opts(fields)) THEN kept[i - 1]
            ELSE Append(kept[i - 1], fields[i])
    IN  kept

export_connect_fields(fields) == Stays(fields)[Len(fields)]

(* A Via field says that the message went through foxy, in whatever case. *)
has_foxy_via(fields) == \E i \in Named(fields, "Via") : "1.1 foxy" \in fields[i].tokens

(* insert() puts a field behind the last one of its name. *)
Insert(fields, f) ==
    LET same == Named(fields, f.name)
        at == IF same = {} THEN Len(fields)
              ELSE CHOOSE i \in same : \A j \in same : j <= i
    IN  SubSeq(fields, 1, at) \o <<f>> \o SubSeq(fields, at + 1, Len(fields))

FoxyVia == [name |-> "Via", spelled |-> "Via", tokens |-> {"1.1 foxy"}]
CloseOption == [name |-> "Connection", spelled |-> "Connection", tokens |-> {"close"}]
=============================================================================
