------------------------------ MODULE MCRelay ------------------------------
(* Field lists for model checking Relay. *)
EXTENDS Relay

Field(name, tokens) == [name |-> name, spelled |-> name, tokens |-> tokens]
Connection(options) == Field("Connection", options)
Host == Field("Host", {})
Lower == [name |-> "X-Hop", spelled |-> "x-hop", tokens |-> {}]
OtherVia == Field("Via", {"1.0 fred"})

(* With and without Connection options; options in two fields; options     *)
(* that name a field in this spelling, in another one, and the Via; a Via  *)
(* that stands behind another one.                                         *)
SampleFieldLists ==
    {<<>>,
     <<Connection({"close"})>>,
     <<Connection({"keep-alive"}), Field("TE", {"gzip"}), Host>>,
     <<Connection({"close", "keep-alive"})>>,
     <<Host, Connection({"x-hop"}), Connection({"close"}), Lower>>,
     <<Field("X-Hop", {}), Lower, Connection({"x-hop", "Via"}), OtherVia, Host>>,
     <<OtherVia, Host>>,
     <<OtherVia, FoxyVia, Host>>}
=============================================================================
