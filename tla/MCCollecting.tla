---------------------------- MODULE MCCollecting ----------------------------
(***************************************************************************)
(* The requests of the runs: one type at a time, and everything at once.   *)
(***************************************************************************)
EXTENDS Collecting

Req(p, types, named) == [provider |-> p, types |-> types, named |-> named]

OneType   == UNION {{Req(p, {t}, TRUE) : t \in Supported(p)} : p \in Providers}
NoneNamed == {Req("github", {"github:team"}, FALSE), Req("gitlab", {}, FALSE)}
Whole     == {Req(p, {}, TRUE) : p \in Providers}

MCRequests == OneType \cup Whole \cup NoneNamed
              \cup {Req("aws", Balancers \cup {"okta:user"}, TRUE)}

\* Three gcp collectors stop silently; the SQL databases may be listed for ever.
Silent   == {"gcp:compute:instance", "gcp:cloudfunctions:function", "gcp:run:service"}
MCSilent == {Req("gcp", {t}, TRUE) : t \in Silent}
MCSQL    == {Req("azure", {"azure:sql:database"}, TRUE)}
==============================================================================
