------------------------------ MODULE MCInspect ------------------------------
(***************************************************************************)
(* Objects of six providers as their APIs give them, converted; scans of   *)
(* none to four providers, one not compiled in, one that finds nothing, an *)
(* object found twice; and filter expressions of each kind, with what they *)
(* describe, according to the documents, in terms of the objects.          *)
(***************************************************************************)
EXTENDS Inspect, Converters, Expressions

\* Chunks with a meaning.  Days of 2024; noon of a day is one more.
Day(n) == 2 * n
MCDates   == ("2024-01-01" :> Day(1)) @@ ("2024-01-10" :> Day(10)) @@ ("2024-01-31" :> Day(31))
MCDays    == DOMAIN MCDates
Reads(n, shows) == [value |-> n, shows |-> <<shows>>]
MCNumbers == ("100" :> Reads(100000, "100")) @@ ("128" :> Reads(128000, "128")) @@
             ("150" :> Reads(150000, "150")) @@ ("256" :> Reads(256000, "256")) @@
             ("1.30" :> Reads(1300, "1.3")) @@ ("20" :> Reads(20000, "20")) @@
             ("3" :> Reads(3000, "3"))
MCBooleans == ("true" :> <<"true">>) @@ ("false" :> <<"false">>)
MCLower   == ("ACTIVE" :> "active") @@ ("RUNNING" :> "running") @@ ("T3." :> "t3.")

Object(via, forms, region, fields) ==
  [via |-> via, forms |-> forms, account |-> "acme", region |-> region, tags |-> NoFields,
   fields |-> fields, refs |-> <<>>, created |-> NoDate, updated |-> NoDate]
Id(id)     == [id |-> id]
Name(name) == [name |-> <<name>>]

Web == [Object(convertEC2InstanceToResource, Id(<<"i-", "1">>), "east",
          [state |-> <<"running">>, instance_type |-> <<"t3.", "medium">>])
        EXCEPT !.tags = [Name |-> <<"web", "-1">>, env |-> <<"pro", "d">>], !.created = Day(10) + 1]
Old == [Object(convertEC2InstanceToResource, Id(<<"i-", "2">>), "west",
          [state |-> <<"stopped">>, instance_type |-> <<"m5.", "large">>])
        EXCEPT !.tags = [env |-> <<"staging">>]]
User == [Object(convertIAMUserToResource, [arn |-> <<"arn:", "ann">>, name |-> <<"ann">>], "east",
           [path |-> <<"/">>])
         EXCEPT !.tags = [team |-> <<"a">>], !.created = Day(10) + 1]
Cluster == [Object(convertEKSClusterToResource, Name("k8s"), "east",
              [version |-> <<"1.30">>, status |-> <<"ACTIVE">>])
            EXCEPT !.tags = [env |-> <<"pro", "d">>], !.created = Day(1)]
Function == Object(convertLambdaFunctionToResource, Name("fn"), "east",
              [runtime |-> <<"go", "1.x">>, memory_size |-> <<"256">>])
Images == [Object(convertECRRepositoryToResource, [arn |-> <<"arn:", "img">>, name |-> <<"img">>],
             "east", [image_scanning |->
               [scan_on_push |-> [type |-> "bool", text |-> <<"true">>]]])
           EXCEPT !.created = Day(31)]
Cache == Object(convertElastiCacheClusterToResource, Name("cache"), "east",
           [num_cache_nodes |-> <<"3">>, status |-> <<"available">>])
Machine(n, status) == Object(convertComputeInstanceToResource,
  [number |-> <<n>>, name |-> <<"vm", n>>], "zone",
  [status |-> <<status>>, machine_type |-> <<"zones/z/machineTypes/", "n1-standard-1", "6">>])
AzureVM == [Object(collectVirtualMachines,
              [path |-> <<"/", "resourceGroups", "/", "main", "/", "vm">>, name |-> <<"vm">>],
              "europe", [provisioning_state |-> <<"Succeeded">>,
                         vm_size |-> <<"Standard_D2", "s_v3">>])
            EXCEPT !.tags = [env |-> <<"pro", "d">>]]
Repo == [Object(GitHubRepositoryToResource, [number |-> <<"7">>, name |-> <<"repo">>], "none",
           [private |-> <<"true">>, stars |-> <<"150">>])
         EXCEPT !.created = Day(10) + 1, !.updated = Day(31) + 1]
Login == Object(Auth0Users, [id |-> <<"auth0|1">>, name |-> <<"ann@x">>], "none",
           [logins_count |-> <<"150">>, user_id |-> <<"auth0|1">>])

Machines == {"web", "old", "gce", "gce off"}
MCObjects == Machines \cup {"user", "user again", "cluster", "function", "images", "cache",
                            "azure vm", "repo", "login"}
MCAttr == [o \in MCObjects |-> ToResource(
  CASE o = "web" -> Web [] o = "old" -> Old [] o = "user" -> User [] o = "user again" -> User
    [] o = "cluster" -> Cluster [] o = "function" -> Function [] o = "images" -> Images
    [] o = "cache" -> Cache [] o = "gce" -> Machine("1", "RUNNING")
    [] o = "gce off" -> Machine("2", "TERMINATED") [] o = "azure vm" -> AzureVM
    [] o = "repo" -> Repo [] o = "login" -> Login)]
MCStopped == {"old", "gce off"}
MCRunning == {"web", "gce"}

Field(f) == {MCAttr[o][f] : o \in MCObjects}
MCTypes == Field("type")
MCProviderNames == Field("provider")
MCAccounts == Field("account") \ {None}
MCRegions == Field("region") \ {None}
MCTags == UNION {{<<t, MCAttr[o].tags[t]>> : t \in DOMAIN MCAttr[o].tags} : o \in MCObjects}

MCCompiled == {"aws", "github", "azure", "gcp", "auth0"}
Prov(name, finds) == [name |-> name, finds |-> finds]
Config(f, ps) == [providers |-> ps, format |-> f]
AWSFinds == <<"user", "web", "old", "cluster", "function", "images", "cache">>
Everything ==
  Config("json", <<Prov("aws", AWSFinds), Prov("gcp", <<"gce", "gce off">>),
                   Prov("azure", <<"azure vm">>), Prov("auth0", <<"login">>),
                   Prov("github", <<"repo">>)>>)
MCConfigs ==
  {Everything,
   Config("json", <<>>),
   Config(Unset, <<Prov("aws", <<"user", "web">>), Prov("github", <<>>),
                   Prov("aws", <<"user again", "old">>)>>),
   Config("xml", <<Prov("github", <<"repo">>)>>),
   Config("dot", <<Prov("github", <<"repo">>), Prov("okta", <<>>)>>)}

-----------------------------------------------------------------------------
(* Filters: the expressions of one or more flags, and what they describe.  *)

NoFilters == [f \in ToSet(FilterFlags) |-> <<>>]
Says(f, e, keeps) == [filters |-> [NoFilters EXCEPT ![f] = <<e>>],
                      means |-> [valid |-> TRUE, keeps |-> keeps]]
Wrong(f, e) == [filters |-> [NoFilters EXCEPT ![f] = <<e>>],
                means |-> [valid |-> FALSE, keeps |-> {}]]
Nothing == [filters |-> NoFilters, means |-> [valid |-> TRUE, keeps |-> {}]]
Both(a, b) ==
  [filters |-> [f \in ToSet(FilterFlags) |-> a.filters[f] \o b.filters[f]],
   means |-> [valid |-> a.means.valid /\ b.means.valid,
              keeps |-> a.means.keeps \cap b.means.keeps]]

Prod == Says("tag", <<"env", "=", "pro", "d">>, {"web", "cluster"})
EC2  == Says("type", <<"aws:ec2:instance">>, {"web", "old"})
Described ==
  {Prod, Both(Prod, EC2), Both(Prod, Says("tag", <<"Name">>, {"web"})),
   Says("type", <<"aws:ec2:instance", "aws:eks:cluster">>, {"web", "old", "cluster"}),
   Says("tag", <<"team">>, {"user", "user again"}),
   Says("tag", <<"env", "~", "pro">>, {"web", "cluster"}),
   Says("tag", <<"env", "=", "/", "^", "pro", ".*", "/">>, {"web", "cluster"}),
   Says("tag", <<"env", "=", "/", "(", "/">>, {}),
   Says("tag", <<"env", "!", "=">>, MCObjects \ {"web", "old", "cluster"}),
   Says("regex", <<"name", ":", "/", "^", "web", ".*", "/">>, {"web"}),
   Says("regex", <<"id", ":", "^", "i-", "1", "$">>, {"web"}),
   Says("date", <<"created", ":", ">", "2024-01-10">>, {"user", "user again", "images", "repo"}),
   Says("date", <<"created", ":", "<", "2024-01-10">>, {"cluster"}),
   Says("date", <<"created", ":", "2024-01-10">>, {"user", "user again", "repo"}),
   Says("date", <<"created", ":", "2024-01-01", "..", "2024-01-31">>,
        {"cluster", "user", "user again", "images", "repo"}),
   Says("state", <<"running", ",", "active">>, {"web", "cluster", "gce"}),
   Says("property", <<"vm_size", "=", "Standard_D2", "s_v3">>, {"azure vm"}),
   Says("property", <<"logins_count", ">", "100">>, {"login"}),
   Says("property", <<"logins_count", ">", "=", "150">>, {"login"}),
   Says("property", <<"logins_count", "<", "=", "100">>, {}),
   Says("property", <<"private", "=", "true">>, {"repo"}),
   Says("property", <<"instance_type", "~", "T3.">>, {"web"}),
   Says("property", <<"state", "!", "=", "running">>, {"old"}),
   Says("property", <<"image_scanning", ".", "scan_on_push", "=", "true">>, {"images"}),
   Says("property", <<"memory_size", "=", "256">>, {"function"}),
   Says("provider", <<"gcp", "github">>, {"gce", "gce off", "repo"})}
Refused ==
  {Wrong("tag", <<"env", "!", "=", "pro">>), Wrong("regex", <<"name">>),
   Wrong("regex", <<"name", ":", "(">>), Wrong("date", <<"created", ":", "soon">>),
   Both(Prod, Wrong("date", <<"created">>)), Wrong("property", <<"state">>),
   Wrong("cost", <<"20">>), Wrong("cost", <<"20", "..">>)}

\* What the documents say, and the program takes otherwise; README.md, 5.
Priced == {"web", "cluster", "images", "cache", "gce", "azure vm"}   \* over 20 dollars
Misreadings ==
  {Says("date", <<"updated", ":", "2024-01-01", "..", "2024-01-31">>, {"repo"}),
   Says("cost", <<">", "20">>, Priced),
   Says("property", <<"runtime", "^", "=", "go">>, {"function"}),
   Says("property", <<"version", "=", "1.30">>, {"cluster"}),
   Says("property", <<"memory_size", ">", "128">>, {"function"})}

\* The ways in which the expression e of flag f can be read: Expressions.
Ranges == {"between", "from", "until", "on"}
Forms(f) ==
  CASE f = "tag"   -> {"exists", "not-exists", "not-equals", "contains", "equals", "matches"}
    [] f = "regex" -> {"no field", "bare", "slashed"}
    [] f = "date"  -> {"no field"} \cup Ranges
    [] f = "cost"  -> Ranges
    [] OTHER       -> {"any"}
Readings(f, e) ==
  {x \in [flag : {f}, op : IF f = "property" THEN PropertyOps \cup {<<>>} ELSE {<<>>},
          form : Forms(f), name : IF f = "cost" THEN {<<>>} ELSE Prefixes(e), value : SubSeqs(e),
          to : IF f \in {"date", "cost"} THEN SubSeqs(e) ELSE {<<>>}] :
     Shaped(x) /\ Written(x) = e}

\* The theorems about documented expressions speak of every expression here.
ASSUME ExpressionsAreShaped ==
  \A c \in Described \cup Refused \cup Misreadings :
    \A f \in DOMAIN c.filters : \A n \in DOMAIN c.filters[f] : Readings(f, c.filters[f][n]) # {}

\* The objects an expression is said to describe are those it means; the costs
\* are estimates, and Priced names them.
ASSUME DescribedIsMeant ==
  \A c \in Described \cup Misreadings :
    c.filters["cost"] = <<>> =>
      c.means.keeps = {o \in MCObjects :
        \A f \in DOMAIN c.filters : \A n \in DOMAIN c.filters[f] :
          \E x \in Readings(f, c.filters[f][n]) : Valid(x) /\ Means(x, MCAttr[o], NoLimit)}

\* Each of the misreadings is one: the filter it is parsed to holds of others.
ASSUME EachIsMisread ==
  \A c \in Misreadings : \E f \in DOMAIN c.filters :
    /\ c.filters[f] # <<>>
    /\ c.means.keeps # {o \in MCObjects : Apply(Parse(f, c.filters[f][1]), MCAttr[o])}

Flags(choices, estimates, formats, files) ==
  {[concurrent |-> 1, estimate |-> e, filters |-> f.filters, means |-> f.means,
    format |-> m, toFile |-> t] : e \in estimates, f \in choices, m \in formats, t \in files}

MCFlags ==
  Flags({Nothing, Prod, Wrong("regex", <<"name">>)}, BOOLEAN, {Unset, "yaml", "csv"}, BOOLEAN)
  \cup Flags(Described \cup Refused, {TRUE}, {Unset}, {TRUE})
MCFilterCounts == Flags({Prod}, {FALSE}, {Unset}, {TRUE})
MCEstimated == Flags({Nothing}, {TRUE}, {Unset}, {TRUE})
MCMisread == Flags(Misreadings, {TRUE}, {Unset}, {TRUE})
MCConcurrent == {[f EXCEPT !.concurrent = 4] : f \in Flags({Nothing}, {FALSE}, {Unset}, {TRUE})}
==============================================================================
