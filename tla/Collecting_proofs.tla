--------------------------- MODULE Collecting_proofs ---------------------------
(***************************************************************************)
(* Proofs about Collecting: for every request, whatever the services hold  *)
(* and whichever of their calls fail, what the collection is when the call *)
(* returns, and the order of the calls.                                    *)
(***************************************************************************)
EXTENDS Collecting, SequenceInduction, FiniteSetTheorems

-----------------------------------------------------------------------------
(* The catalogue.                                                          *)

\* The types that have a collector.
AllTypes == UNION {Supported(p) : p \in Providers}
ResourceTypes == AllTypes \ Unlisted

Yields(c) == {c.yields[i] : i \in DOMAIN c.yields}

\* Those that read one page of several are known by their types.
Collectors ==
  {c \in [yields : Seq(ResourceTypes), list : {"paged", "first", "whole", "static"},
          listError : {"abort", "stop"}, each : {"add", "describe", "list", "name"},
          eachError : {"abort", "skip", "retry"}, checksId : BOOLEAN] :
     c.list = "first" => Yields(c) \subseteq CutShort}

\* The types a step asks for are the ones its listings yield; with the
\* exception of the load balancers that is one type.
Steps ==
  {s \in [when : SUBSET ResourceTypes, listings : Seq(Collectors)] :
     /\ s.listings # <<>>
     /\ \A l \in DOMAIN s.listings :
          s.listings[l].yields # <<>> /\ Yields(s.listings[l]) \subseteq s.when
     /\ s.when = Balancers \/ \E t \in ResourceTypes : s.when = {t}}

LEMMA PagedType ==
  ASSUME NEW t \in ResourceTypes
  PROVE  Paged(t) \in Collectors /\ Paged(t).yields = <<t>> /\ Paged(t).list = "paged"
BY DEF Paged, Collectors, Yields

\* Each modifier keeps the type of a collector, and what it yields.
LEMMA ModifierTypes ==
  ASSUME NEW c \in Collectors
  PROVE  /\ Described(c) \in Collectors /\ Described(c).yields = c.yields
         /\ Identified(c) \in Collectors /\ Identified(c).yields = c.yields
         /\ StopOnError(c) \in Collectors /\ StopOnError(c).yields = c.yields
         /\ Yields(c) \subseteq CutShort => [c EXCEPT !.list = "first"] \in Collectors
         /\ [c EXCEPT !.list = "first"].yields = c.yields
         /\ [c EXCEPT !.list = "whole"] \in Collectors
         /\ [c EXCEPT !.list = "whole"].yields = c.yields
         /\ [c EXCEPT !.list = "static"] \in Collectors
         /\ [c EXCEPT !.list = "static"].yields = c.yields
         /\ [c EXCEPT !.list = "static", !.each = "describe"] \in Collectors
         /\ [c EXCEPT !.list = "static", !.each = "describe"].yields = c.yields
         /\ [c EXCEPT !.each = "list", !.eachError = "retry"] \in Collectors
         /\ [c EXCEPT !.each = "list", !.eachError = "retry"].yields = c.yields
         /\ [c EXCEPT !.each = "name"] \in Collectors
         /\ [c EXCEPT !.each = "name"].each = "name"
         /\ \A y \in Seq(ResourceTypes) :
              c.list = "paged" => /\ [c EXCEPT !.yields = y] \in Collectors
                                  /\ [c EXCEPT !.yields = y].yields = y
BY DEF Described, Identified, StopOnError, Collectors, Yields

LEMMA FirstPageType ==
  ASSUME NEW t \in ResourceTypes
  PROVE  /\ t \in CutShort => FirstPage(t) \in Collectors
         /\ FirstPage(t).yields = <<t>>
         /\ InOneAnswer(t) \in Collectors /\ InOneAnswer(t).yields = <<t>>
<1>1. Paged(t) \in Collectors /\ Paged(t).yields = <<t>>
  BY PagedType
<1>2. Yields(Paged(t)) = {t}
  <2>1. DOMAIN <<t>> = {1} /\ <<t>>[1] = t
    OBVIOUS
  <2>2. QED BY <1>1, <2>1 DEF Yields
<1>3. QED BY <1>1, <1>2, ModifierTypes DEF FirstPage, InOneAnswer

\* A collector of one type.
Collects(c, t) == c \in Collectors /\ c.yields = <<t>>

LEMMA CollectsOne ==
  ASSUME NEW t \in ResourceTypes
  PROVE  /\ Collects(Paged(t), t) /\ Collects(InOneAnswer(t), t)
         /\ t \in CutShort => /\ Collects(FirstPage(t), t)
                             /\ Collects(Described(FirstPage(t)), t)
                             /\ Collects(Identified(FirstPage(t)), t)
         /\ Collects([Paged(t) EXCEPT !.list = "static"], t)
         /\ Collects(Described(Paged(t)), t) /\ Collects(Identified(Paged(t)), t)
         /\ Collects(Identified(Described(Paged(t))), t)
         /\ Collects(StopOnError(Paged(t)), t)
         /\ Collects([Paged(t) EXCEPT !.list = "static", !.each = "describe"], t)
         /\ Collects([Identified(Paged(t)) EXCEPT !.each = "list", !.eachError = "retry"], t)
<1>1. ASSUME NEW c, Collects(c, t)
      PROVE  /\ Collects(Described(c), t) /\ Collects(Identified(c), t)
             /\ Collects(StopOnError(c), t)
             /\ Collects([c EXCEPT !.list = "static"], t)
             /\ Collects([c EXCEPT !.list = "static", !.each = "describe"], t)
             /\ Collects([c EXCEPT !.each = "list", !.eachError = "retry"], t)
  BY <1>1, ModifierTypes DEF Collects
<1>2. /\ Collects(Paged(t), t) /\ Collects(InOneAnswer(t), t)
      /\ t \in CutShort => Collects(FirstPage(t), t)
  BY PagedType, FirstPageType DEF Collects
<1>3. QED BY <1>1, <1>2

LEMMA WithListings ==
  ASSUME NEW w, NEW k, NEW l
  PROVE  [[when |-> w, listings |-> k] EXCEPT !.listings = l] = [when |-> w, listings |-> l]
<1>1. ASSUME NEW s, s = [when |-> w, listings |-> k]
      PROVE  [s EXCEPT !.listings = l] = [when |-> w, listings |-> l]
  BY <1>1
<1>2. QED BY <1>1

LEMMA StepType ==
  ASSUME NEW c, NEW t \in ResourceTypes, Collects(c, t), NEW l \in Seq({c}), l # <<>>
  PROVE  [Step(c) EXCEPT !.listings = l] \in Steps /\ Step(c) \in Steps
<1>1. c \in Collectors /\ c.yields = <<t>>
  BY DEF Collects
<1>2. DOMAIN <<t>> = {1} /\ <<t>>[1] = t /\ <<t>> # <<>>
  OBVIOUS
<1>3. {c.yields[i] : i \in DOMAIN c.yields} = {t}
  <2> HIDE DEF Collects
  <2>1. DOMAIN c.yields = {1} /\ c.yields[1] = t
    BY <1>1, <1>2
  <2>2. QED BY <2>1
<1>4. Step(c) = [when |-> {t}, listings |-> <<c>>]
  BY <1>3 DEF Step
<1>5. [Step(c) EXCEPT !.listings = l] = [when |-> {t}, listings |-> l]
  BY <1>3, WithListings DEF Step
<1>6. ASSUME NEW k \in Seq({c}), k # <<>> PROVE [when |-> {t}, listings |-> k] \in Steps
  <2>1. k \in Seq(Collectors) /\ \A j \in DOMAIN k : k[j] = c
    BY <1>1, <1>6
  <2>2. c.yields # <<>> /\ Yields(c) \subseteq {t} /\ {t} \in SUBSET ResourceTypes
    BY <1>1, <1>2, <1>3 DEF Yields
  <2> DEFINE s == [when |-> {t}, listings |-> k]
  <2>3. s.when = {t} /\ s.listings = k
    OBVIOUS
  <2>4. s \in [when : SUBSET ResourceTypes, listings : Seq(Collectors)]
    BY <2>1, <2>2
  <2> HIDE DEF s
  <2>5. s \in Steps
    BY <1>6, <2>1, <2>2, <2>3, <2>4 DEF Steps
  <2>6. QED BY <2>5 DEF s
<1>7. <<c>> \in Seq({c}) /\ <<c>> # <<>>
  OBVIOUS
<1>8. QED BY <1>4, <1>5, <1>6, <1>7

LEMMA AgainType ==
  ASSUME NEW c, NEW t \in ResourceTypes, Collects(c, t), NEW n \in Nat \ {0}
  PROVE  Again(c, n) \in Steps
<1> DEFINE l == [i \in 1..n |-> c]
<1>1. l \in Seq({c}) /\ l # <<>>
  <2>1. DOMAIN l = 1..n /\ 1 \in 1..n
    OBVIOUS
  <2>2. QED BY <2>1
<1>2. Again(c, n) = [Step(c) EXCEPT !.listings = l]
  BY DEF Again
<1> HIDE DEF l
<1>3. QED BY <1>1, <1>2, StepType

\* The steps of one type.
LEMMA StepsOfOne ==
  ASSUME NEW t \in ResourceTypes
  PROVE  /\ Step(Paged(t)) \in Steps /\ Step(InOneAnswer(t)) \in Steps
         /\ t \in CutShort => /\ Step(FirstPage(t)) \in Steps
                             /\ Step(Described(FirstPage(t))) \in Steps
                             /\ Step(Identified(FirstPage(t))) \in Steps
         /\ Step([Paged(t) EXCEPT !.list = "static"]) \in Steps
         /\ Step(Described(Paged(t))) \in Steps
         /\ Step(Identified(Paged(t))) \in Steps
         /\ Step(Identified(Described(Paged(t)))) \in Steps
         /\ Step(StopOnError(Paged(t))) \in Steps
         /\ Step([Paged(t) EXCEPT !.list = "static", !.each = "describe"]) \in Steps
         /\ Step([Identified(Paged(t)) EXCEPT !.each = "list", !.eachError = "retry"]) \in Steps
<1>1. ASSUME NEW c, Collects(c, t) PROVE Step(c) \in Steps
  <2>1. <<c>> \in Seq({c}) /\ <<c>> # <<>>
    OBVIOUS
  <2>2. QED BY <1>1, <2>1, StepType
<1>2. QED BY <1>1, CollectsOne

\* The types the collectors yield are supported ones.
LEMMA AWSTypes ==
  {"aws:iam:user", "aws:iam:role", "aws:account",
   "aws:cloudfront:distribution", "aws:ec2:vpc", "aws:ec2:subnet",
   "aws:ec2:security-group", "aws:ec2:instance", "aws:ecr:repository",
   "aws:eks:cluster", "aws:elb:classic", "aws:elb:application",
   "aws:elb:network", "aws:lambda:function", "aws:apigateway:api",
   "aws:memorydb:cluster", "aws:elasticache:cluster",
   "aws:secretsmanager:secret", "aws:sns:topic", "aws:sqs:queue",
   "aws:dynamodb:table"}
    \subseteq ResourceTypes
<1>1. {"aws:iam:user", "aws:iam:role", "aws:account",
       "aws:cloudfront:distribution", "aws:ec2:vpc", "aws:ec2:subnet",
       "aws:ec2:security-group", "aws:ec2:instance", "aws:ecr:repository",
       "aws:eks:cluster", "aws:elb:classic", "aws:elb:application",
       "aws:elb:network", "aws:lambda:function", "aws:apigateway:api",
       "aws:memorydb:cluster", "aws:elasticache:cluster",
       "aws:secretsmanager:secret", "aws:sns:topic", "aws:sqs:queue",
       "aws:dynamodb:table"}
        \subseteq AllTypes
  BY DEF AllTypes, Providers, Supported
<1>2. \A t \in {"aws:iam:user", "aws:iam:role", "aws:account",
                "aws:cloudfront:distribution", "aws:ec2:vpc", "aws:ec2:subnet",
                "aws:ec2:security-group", "aws:ec2:instance", "aws:ecr:repository",
                "aws:eks:cluster", "aws:elb:classic", "aws:elb:application",
                "aws:elb:network", "aws:lambda:function", "aws:apigateway:api",
                "aws:memorydb:cluster", "aws:elasticache:cluster",
                "aws:secretsmanager:secret", "aws:sns:topic", "aws:sqs:queue",
                "aws:dynamodb:table"} :
        t \notin Unlisted
  BY DEF Unlisted
<1>3. QED BY <1>1, <1>2 DEF ResourceTypes

LEMMA AzureTypes ==
  {"azure:resourcegroup", "azure:compute:vm", "azure:network:vnet",
   "azure:storage:account", "azure:web:appservice", "azure:sql:database",
   "azure:keyvault:vault"}
    \subseteq ResourceTypes
<1>1. {"azure:resourcegroup", "azure:compute:vm", "azure:network:vnet",
       "azure:storage:account", "azure:web:appservice", "azure:sql:database",
       "azure:keyvault:vault"}
        \subseteq AllTypes
  BY DEF AllTypes, Providers, Supported
<1>2. \A t \in {"azure:resourcegroup", "azure:compute:vm", "azure:network:vnet",
                "azure:storage:account", "azure:web:appservice", "azure:sql:database",
                "azure:keyvault:vault"} :
        t \notin Unlisted
  BY DEF Unlisted
<1>3. QED BY <1>1, <1>2 DEF ResourceTypes

LEMMA GCPTypes ==
  {"gcp:compute:network", "gcp:storage:bucket", "gcp:compute:instance",
   "gcp:compute:subnetwork", "gcp:cloudfunctions:function", "gcp:run:service"}
    \subseteq ResourceTypes
<1>1. {"gcp:compute:network", "gcp:storage:bucket", "gcp:compute:instance",
       "gcp:compute:subnetwork", "gcp:cloudfunctions:function", "gcp:run:service"}
        \subseteq AllTypes
  BY DEF AllTypes, Providers, Supported
<1>2. \A t \in {"gcp:compute:network", "gcp:storage:bucket", "gcp:compute:instance",
                "gcp:compute:subnetwork", "gcp:cloudfunctions:function", "gcp:run:service"} :
        t \notin Unlisted
  BY DEF Unlisted
<1>3. QED BY <1>1, <1>2 DEF ResourceTypes

LEMMA GitHubTypes ==
  {"github:organization", "github:repository", "github:team", "github:user"}
    \subseteq ResourceTypes
<1>1. {"github:organization", "github:repository", "github:team", "github:user"}
        \subseteq AllTypes
  BY DEF AllTypes, Providers, Supported
<1>2. \A t \in {"github:organization", "github:repository", "github:team", "github:user"} :
        t \notin Unlisted
  BY DEF Unlisted
<1>3. QED BY <1>1, <1>2 DEF ResourceTypes

LEMMA GitLabTypes ==
  {"gitlab:group", "gitlab:project", "gitlab:user"}
    \subseteq ResourceTypes
<1>1. {"gitlab:group", "gitlab:project", "gitlab:user"}
        \subseteq AllTypes
  BY DEF AllTypes, Providers, Supported
<1>2. \A t \in {"gitlab:group", "gitlab:project", "gitlab:user"} :
        t \notin Unlisted
  BY DEF Unlisted
<1>3. QED BY <1>1, <1>2 DEF ResourceTypes

LEMMA JFrogTypes ==
  {"jfrog:repository", "jfrog:user", "jfrog:group", "jfrog:permission"}
    \subseteq ResourceTypes
<1>1. {"jfrog:repository", "jfrog:user", "jfrog:group", "jfrog:permission"}
        \subseteq AllTypes
  BY DEF AllTypes, Providers, Supported
<1>2. \A t \in {"jfrog:repository", "jfrog:user", "jfrog:group", "jfrog:permission"} :
        t \notin Unlisted
  BY DEF Unlisted
<1>3. QED BY <1>1, <1>2 DEF ResourceTypes

LEMMA OktaTypes ==
  {"okta:user", "okta:group", "okta:application", "okta:authorizationserver"}
    \subseteq ResourceTypes
<1>1. {"okta:user", "okta:group", "okta:application", "okta:authorizationserver"}
        \subseteq AllTypes
  BY DEF AllTypes, Providers, Supported
<1>2. \A t \in {"okta:user", "okta:group", "okta:application", "okta:authorizationserver"} :
        t \notin Unlisted
  BY DEF Unlisted
<1>3. QED BY <1>1, <1>2 DEF ResourceTypes

LEMMA Auth0Types ==
  {"auth0:user", "auth0:role", "auth0:client", "auth0:resourceserver",
   "auth0:connection"}
    \subseteq ResourceTypes
<1>1. {"auth0:user", "auth0:role", "auth0:client", "auth0:resourceserver",
       "auth0:connection"}
        \subseteq AllTypes
  BY DEF AllTypes, Providers, Supported
<1>2. \A t \in {"auth0:user", "auth0:role", "auth0:client", "auth0:resourceserver",
                "auth0:connection"} :
        t \notin Unlisted
  BY DEF Unlisted
<1>3. QED BY <1>1, <1>2 DEF ResourceTypes

LEMMA AWSSteps == AWSGlobal \in Seq(Steps) /\ AWSRegional \in Seq(Steps)
<1>1. /\ Step(AWSIAMUsers) \in Steps /\ Step(AWSIAMRoles) \in Steps
      /\ Step(AWSAccounts) \in Steps /\ Step(AWSDistributions) \in Steps
  BY AWSTypes, StepsOfOne DEF AWSIAMUsers, AWSIAMRoles, AWSAccounts, AWSDistributions
<1>2. /\ Step(AWSVPCs) \in Steps /\ Step(AWSSubnets) \in Steps
      /\ Step(AWSSecurityGroups) \in Steps /\ Step(AWSEC2Instances) \in Steps
      /\ Step(AWSRepositories) \in Steps /\ Step(AWSEKSClusters) \in Steps
      /\ Step(AWSClassicLBs) \in Steps /\ Step(AWSLambdaFunctions) \in Steps
  BY AWSTypes, StepsOfOne DEF AWSVPCs, AWSSubnets, AWSSecurityGroups, AWSEC2Instances,
     AWSRepositories, AWSEKSClusters, AWSClassicLBs, AWSLambdaFunctions, CutShort
<1>3. /\ Step(AWSMemoryDBClusters) \in Steps /\ Step(AWSElastiCache) \in Steps
      /\ Step(AWSSecrets) \in Steps /\ Step(AWSSNSTopics) \in Steps
      /\ Step(AWSSQSQueues) \in Steps /\ Step(AWSDynamoDBTables) \in Steps
  BY AWSTypes, StepsOfOne DEF AWSMemoryDBClusters, AWSElastiCache, AWSSecrets,
     AWSSNSTopics, AWSSQSQueues, AWSDynamoDBTables, CutShort
<1>4. Step(AWSLoadBalancersV2) \in Steps
  <2> DEFINE y == <<"aws:elb:application", "aws:elb:network">>
             c == AWSLoadBalancersV2
             s == [when |-> Balancers, listings |-> <<c>>]
  <2>1. "aws:elb:application" \in ResourceTypes /\ "aws:elb:network" \in ResourceTypes
    BY AWSTypes
  <2>2. y \in Seq(ResourceTypes) /\ y # <<>> /\ Balancers \in SUBSET ResourceTypes
    BY <2>1 DEF Balancers
  <2>3. {y[i] : i \in DOMAIN y} = Balancers
    BY DEF Balancers
  <2> HIDE DEF y
  <2>4. c \in Collectors /\ c.yields = y
    <3>1. PICK p : p = Paged("aws:elb:application")
      OBVIOUS
    <3>2. p \in Collectors /\ p.list = "paged"
      BY <2>1, <3>1, PagedType
    <3>3. [p EXCEPT !.yields = y] \in Collectors /\ [p EXCEPT !.yields = y].yields = y
      BY <2>2, <3>2, ModifierTypes
    <3>4. c = [p EXCEPT !.yields = y]
      BY <3>1 DEF AWSLoadBalancersV2, y
    <3>5. QED BY <3>3, <3>4
  <2> HIDE DEF c
  <2>5. {c.yields[i] : i \in DOMAIN c.yields} = Balancers
    BY <2>3, <2>4
  <2>6. s.when = Balancers /\ s.listings = <<c>>
    OBVIOUS
  <2>7. s \in [when : SUBSET ResourceTypes, listings : Seq(Collectors)]
    BY <2>2, <2>4
  <2>8. \A l \in DOMAIN <<c>> : <<c>>[l] = c
    OBVIOUS
  <2>9. Step(c) = s
    BY <2>5 DEF Step
  <2> HIDE DEF s
  <2>10. Yields(c) = Balancers /\ <<c>> # <<>>
    BY <2>5 DEF Yields
  <2>11. s \in Steps
    BY <2>2, <2>4, <2>6, <2>7, <2>8, <2>10 DEF Steps
  <2>12. QED BY <2>9, <2>11 DEF c
<1>5. [Step(AWSRESTAPIs) EXCEPT !.listings = <<AWSRESTAPIs, AWSHTTPAPIs>>] \in Steps
  <2>1. "aws:apigateway:api" \in ResourceTypes /\ AWSRESTAPIs = AWSHTTPAPIs
    BY AWSTypes DEF AWSRESTAPIs, AWSHTTPAPIs
  <2>2. Collects(AWSRESTAPIs, "aws:apigateway:api")
    BY <2>1, CollectsOne DEF AWSRESTAPIs
  <2>3. <<AWSRESTAPIs, AWSHTTPAPIs>> \in Seq({AWSRESTAPIs})
        /\ <<AWSRESTAPIs, AWSHTTPAPIs>> # <<>>
    BY <2>1
  <2>4. QED BY <2>1, <2>2, <2>3, StepType
<1>6. QED BY <1>1, <1>2, <1>3, <1>4, <1>5 DEF AWSGlobal, AWSRegional

LEMMA AzureStepsType == AzureSteps \in Seq(Steps)
<1>1. /\ Step(AzureResourceGroups) \in Steps /\ Step(AzureVMs) \in Steps
      /\ Step(AzureVNets) \in Steps /\ Step(AzureStorageAccounts) \in Steps
      /\ Step(AzureAppServices) \in Steps /\ Step(AzureSQLDatabases) \in Steps
      /\ Step(AzureKeyVaults) \in Steps
  BY AzureTypes, StepsOfOne DEF AzureResourceGroups, AzureVMs, AzureVNets,
     AzureStorageAccounts, AzureAppServices, AzureSQLDatabases, AzureKeyVaults
<1>2. QED BY <1>1 DEF AzureSteps

LEMMA GCPStepsType == GCPGlobal \in Seq(Steps) /\ GCPRegional \in Seq(Steps)
<1>1. /\ Step(GCPNetworks) \in Steps /\ Step(GCPBuckets) \in Steps
      /\ Step(GCPSubnetworks) \in Steps /\ Step(GCPFunctions) \in Steps
      /\ Step(GCPRunServices) \in Steps
  BY GCPTypes, StepsOfOne DEF GCPNetworks, GCPBuckets, GCPSubnetworks, GCPFunctions,
     GCPRunServices
<1>2. Again(GCPInstances, GCPZones) \in Steps
  <2>1. "gcp:compute:instance" \in ResourceTypes
    BY GCPTypes
  <2>2. Collects(GCPInstances, "gcp:compute:instance")
    BY <2>1, CollectsOne DEF GCPInstances
  <2>3. QED BY <2>1, <2>2, AgainType DEF GCPZones
<1>3. QED BY <1>1, <1>2 DEF GCPGlobal, GCPRegional

LEMMA GitHubStepsType ==
  <<Step(GitHubOrganizations)>> \in Seq(Steps) /\ GitHubPerOrg \in Seq(Steps)
<1>1. /\ Step(GitHubOrganizations) \in Steps /\ Step(GitHubRepositories) \in Steps
      /\ Step(GitHubTeams) \in Steps /\ Step(GitHubUsers) \in Steps
  BY GitHubTypes, StepsOfOne DEF GitHubOrganizations, GitHubRepositories, GitHubTeams,
     GitHubUsers
<1>2. QED BY <1>1 DEF GitHubPerOrg

LEMMA OtherSteps ==
  /\ \A n \in Nat : GitLabSteps(n) \in Seq(Steps)
  /\ JFrogSteps \in Seq(Steps) /\ OktaSteps \in Seq(Steps) /\ Auth0Steps \in Seq(Steps)
<1>1. ASSUME NEW n \in Nat PROVE GitLabSteps(n) \in Seq(Steps)
  <2> DEFINE m == IF n > 0 THEN n ELSE 1
  <2>1. m \in Nat \ {0}
    OBVIOUS
  <2> HIDE DEF m
  <2>2. /\ Step(GitLabGroups) \in Steps /\ Step(GitLabUsers) \in Steps
        /\ Again(GitLabProjects, m) \in Steps
    BY <2>1, GitLabTypes, StepsOfOne, CollectsOne, AgainType DEF GitLabGroups, GitLabUsers, GitLabProjects
  <2>3. QED BY <2>2 DEF GitLabSteps, m
<1>2. /\ Step(JFrogRepositories) \in Steps /\ Step(JFrogUsers) \in Steps
      /\ Step(JFrogGroups) \in Steps /\ Step(JFrogPermissions) \in Steps
  BY GitLabTypes, JFrogTypes, OktaTypes, Auth0Types, StepsOfOne DEF JFrogRepositories, JFrogUsers, JFrogGroups, JFrogPermissions
<1>3. /\ Step(OktaUsers) \in Steps /\ Step(OktaGroups) \in Steps
      /\ Step(OktaApplications) \in Steps /\ Step(OktaAuthorizationServers) \in Steps
  BY GitLabTypes, JFrogTypes, OktaTypes, Auth0Types, StepsOfOne DEF OktaUsers, OktaGroups, OktaApplications,
     OktaAuthorizationServers, CutShort
<1>4. /\ Step(Auth0Users) \in Steps /\ Step(Auth0Roles) \in Steps
      /\ Step(Auth0Clients) \in Steps /\ Step(Auth0ResourceServers) \in Steps
      /\ Step(Auth0Connections) \in Steps
  BY GitLabTypes, JFrogTypes, OktaTypes, Auth0Types, StepsOfOne DEF Auth0Users, Auth0Roles, Auth0Clients,
     Auth0ResourceServers, Auth0Connections, CutShort
<1>5. QED BY <1>1, <1>2, <1>3, <1>4 DEF JFrogSteps, OktaSteps, Auth0Steps

LEMMA ProviderSteps ==
  ASSUME NEW p \in Providers, NEW n \in Nat
  PROVE  GlobalSteps(p, n) \in Seq(Steps) /\ ScopedSteps(p) \in Seq(Steps)
BY AWSSteps, AzureStepsType, GCPStepsType, GitHubStepsType, OtherSteps
   DEF Providers, GlobalSteps, ScopedSteps

-----------------------------------------------------------------------------
(* The listings of a request.                                              *)

Listing == [step : Nat \X Nat, with : Collectors, last : BOOLEAN]

\* What concatenation keeps, and the listings of each wanted step have, the
\* listings of a request have.
LEMMA ListingsClosed ==
  ASSUME NEW r \in Requests,
         NEW W \in SUBSET Seq(Listing), <<>> \in W, \A s, t \in W : s \o t \in W,
         <<GitHubOwnOrganizations>> \in W,
         \A s \in Steps, place \in Nat \X Nat :
           IfWanted(r, s) => ListingsOfStep(s, place) \in W
  PROVE  ListingsOfRequest(r) \in W
<1>1. ASSUME NEW steps \in Seq(Steps), NEW scope \in Nat
      PROVE  ListingsOf(r, steps, scope) \in W
  <2> DEFINE ss == [i \in DOMAIN steps |->
                      IF IfWanted(r, steps[i]) THEN ListingsOfStep(steps[i], <<scope, i>>)
                                               ELSE <<>>]
  <2>1. ASSUME NEW i \in DOMAIN steps PROVE ss[i] \in W
    <3>1. steps[i] \in Steps /\ <<scope, i>> \in Nat \X Nat
      OBVIOUS
    <3>2. QED BY <3>1
  <2>2. ss \in Seq(W)
    <3>1. Len(steps) \in Nat /\ DOMAIN steps = 1..Len(steps)
      OBVIOUS
    <3>2. DOMAIN ss = 1..Len(steps)
      BY <3>1
    <3> HIDE DEF ss
    <3>3. ss = [i \in 1..Len(steps) |-> ss[i]]
      BY <3>2 DEF ss
    <3>4. QED BY <2>1, <3>1, <3>3
  <2> HIDE DEF ss
  <2>3. FlattenSeq(ss) \in W
    BY <2>2, FlattenClosed
  <2>4. QED BY <2>3 DEF ListingsOf, ss
<1>2. r.provider \in Providers /\ Scopes \in Nat
  BY CollectingAssumption
<1>3. Preamble(r) \in W
  BY DEF Preamble
<1>4. ListingsOf(r, GlobalSteps(r.provider, IF r.named THEN Scopes ELSE 0), 0) \in W
  BY <1>1, <1>2, ProviderSteps
<1>5. FlattenSeq([s \in 1..Scopes |-> ListingsOf(r, ScopedSteps(r.provider), s)]) \in W
  <2> DEFINE ss == [s \in 1..Scopes |-> ListingsOf(r, ScopedSteps(r.provider), s)]
  <2>1. ss \in Seq(W)
    <3>1. ScopedSteps(r.provider) \in Seq(Steps)
      BY <1>2, ProviderSteps
    <3>2. \A s \in 1..Scopes : ListingsOf(r, ScopedSteps(r.provider), s) \in W
      BY <1>1, <1>2, <3>1
    <3>3. QED BY <1>2, <3>2
  <2> HIDE DEF ss
  <2>2. FlattenSeq(ss) \in W
    BY <2>1, FlattenClosed
  <2>3. QED BY <2>2 DEF ss
<1>6. QED BY <1>3, <1>4, <1>5 DEF ListingsOfRequest

\* A step's listings are next to each other, the last one marked.
Sections ==
  {s \in Seq(Listing) : \A u \in DOMAIN s :
     ~s[u].last => u + 1 \in DOMAIN s /\ s[u + 1].step = s[u].step}

LEMMA OwnOrganizationsType ==
  /\ GitHubOwnOrganizations \in Listing
  /\ GitHubOwnOrganizations.last /\ GitHubOwnOrganizations.with.each = "name"
<1>1. Paged("github:organization") \in Collectors
  BY PagedType, GitHubTypes
<1>2. Identified(Paged("github:organization")) \in Collectors
  BY <1>1, ModifierTypes
<1>3. QED BY <1>2, ModifierTypes DEF GitHubOwnOrganizations, Listing

\* Each of a step's listings is of one of its collectors.
LEMMA StepListings ==
  ASSUME NEW s \in Steps, NEW place \in Nat \X Nat
  PROVE  /\ ListingsOfStep(s, place) \in Seq(Listing)
         /\ Len(ListingsOfStep(s, place)) = Len(s.listings)
         /\ \A l \in 1..Len(s.listings) :
              /\ ListingsOfStep(s, place)[l].step = place
              /\ ListingsOfStep(s, place)[l].with = s.listings[l]
              /\ ListingsOfStep(s, place)[l].last <=> l = Len(s.listings)
<1>1. s.listings \in Seq(Collectors)
  BY DEF Steps
<1> DEFINE k == s.listings
           n == Len(k)
           f == [l \in 1..n |-> [step |-> place, with |-> k[l], last |-> l = n]]
<1>2. n \in Nat /\ DOMAIN k = 1..n /\ \A l \in 1..n : k[l] \in Collectors
  BY <1>1
<1>3. ListingsOfStep(s, place) = f
  BY <1>2 DEF ListingsOfStep
<1> HIDE DEF k, n
<1>4. \A l \in 1..n : f[l] \in Listing
  BY <1>2 DEF Listing
<1>5. f \in Seq(Listing) /\ Len(f) = n
  <2>1. DOMAIN f = 1..n
    OBVIOUS
  <2> HIDE DEF f
  <2>2. f = [l \in 1..n |-> f[l]]
    BY DEF f
  <2>3. QED BY <1>2, <1>4, <2>1, <2>2
<1>6. \A l \in 1..n : f[l].step = place /\ f[l].with = k[l] /\ (f[l].last <=> l = n)
  OBVIOUS
<1> HIDE DEF f
<1>7. QED BY <1>3, <1>5, <1>6 DEF k, n

LEMMA InSections == \A r \in Requests : ListingsOfRequest(r) \in Sections
<1> SUFFICES ASSUME NEW r \in Requests PROVE ListingsOfRequest(r) \in Sections
  OBVIOUS
<1>1. Sections \in SUBSET Seq(Listing) /\ <<>> \in Sections
  BY DEF Sections
<1>2. ASSUME NEW s \in Sections, NEW t \in Sections PROVE s \o t \in Sections
  <2>1. s \in Seq(Listing) /\ t \in Seq(Listing) /\ s \o t \in Seq(Listing)
    BY DEF Sections
  <2>2. /\ Len(s) \in Nat /\ Len(t) \in Nat /\ DOMAIN s = 1..Len(s) /\ DOMAIN t = 1..Len(t)
        /\ DOMAIN (s \o t) = 1..(Len(s) + Len(t))
        /\ \A u \in 1..Len(s) : (s \o t)[u] = s[u]
        /\ \A u \in 1..Len(t) : (s \o t)[Len(s) + u] = t[u]
    BY <2>1
  <2>3. ASSUME NEW u \in DOMAIN (s \o t), ~(s \o t)[u].last
        PROVE  u + 1 \in DOMAIN (s \o t) /\ (s \o t)[u + 1].step = (s \o t)[u].step
    <3>1. CASE u \in 1..Len(s)
      <4>1. u + 1 \in 1..Len(s) /\ s[u + 1].step = s[u].step
        BY <2>2, <2>3, <3>1 DEF Sections
      <4>2. QED BY <2>2, <3>1, <4>1
    <3>2. CASE u \notin 1..Len(s)
      <4> DEFINE v == u - Len(s)
      <4>1. v \in 1..Len(t) /\ u = Len(s) + v /\ u + 1 = Len(s) + (v + 1)
        BY <2>2, <3>2
      <4> HIDE DEF v
      <4>2. v + 1 \in 1..Len(t) /\ t[v + 1].step = t[v].step
        BY <2>2, <2>3, <4>1 DEF Sections
      <4>3. u + 1 \in 1..(Len(s) + Len(t))
        BY <2>2, <4>1, <4>2
      <4>4. QED BY <2>2, <4>1, <4>2, <4>3
    <3>3. QED BY <3>1, <3>2
  <2>4. QED BY <2>1, <2>3 DEF Sections
<1>3. <<GitHubOwnOrganizations>> \in Sections
  <2>1. <<GitHubOwnOrganizations>> \in Seq(Listing)
    BY OwnOrganizationsType
  <2>2. \A u \in DOMAIN <<GitHubOwnOrganizations>> : <<GitHubOwnOrganizations>>[u].last
    BY OwnOrganizationsType
  <2>3. QED BY <2>1, <2>2 DEF Sections
<1>4. ASSUME NEW s \in Steps, NEW place \in Nat \X Nat
      PROVE  ListingsOfStep(s, place) \in Sections
  <2> DEFINE k == ListingsOfStep(s, place)
             n == Len(s.listings)
  <2>1. /\ k \in Seq(Listing) /\ Len(k) = n
        /\ \A l \in 1..n : k[l].step = place /\ (k[l].last <=> l = n)
    BY StepListings
  <2> HIDE DEF k, n
  <2>2. n \in Nat /\ DOMAIN k = 1..n
    BY <2>1
  <2>3. ASSUME NEW u \in DOMAIN k, ~k[u].last
        PROVE  u + 1 \in DOMAIN k /\ k[u + 1].step = k[u].step
    <3>1. u \in 1..n /\ u # n
      BY <2>1, <2>2, <2>3
    <3>2. u + 1 \in 1..n
      BY <2>2, <3>1
    <3>3. QED BY <2>1, <2>2, <3>1, <3>2
  <2>4. k \in Sections
    BY <2>1, <2>3 DEF Sections
  <2>5. QED BY <2>4 DEF k
<1>5. QED BY <1>1, <1>2, <1>3, <1>4, ListingsClosed

-----------------------------------------------------------------------------
(* The invariant.  Position says what the cursor of a collector can be;    *)
(* what the cursor has passed is in the collection or explained (Covered), *)
(* and the collection has nothing beyond it (LastPassed).                  *)

Position ==
  /\ pc = "list" =>
       page = 0 \/ (at <= Len(Listings) /\ How.list = "paged" /\ page < NumPages)
  /\ pc \in {"objects", "inside"} =>
       at <= Len(Listings) /\ page >= 1 /\ (page = 1 \/ How.list = "paged")
  /\ pc = "objects" => inner = 0
  /\ pc = "inside" => obj <= PerPage /\ Wanted /\ How.each = "list"
  /\ pc = "wait" => at <= Len(Listings) /\ page = 0
  /\ result = "ok" => at = Len(Listings) + 1

Passed(r) ==
  \/ r[1] < at
  \/ r[1] = at /\ pc = "wait"
  \/ r[1] = at /\ r[2] < page
  \/ r[1] = at /\ r[2] = page /\ pc = "list"
  \/ r[1] = at /\ r[2] = page /\ r[3] < obj
  \/ r[1] = at /\ r[2] = page /\ r[3] = obj /\ pc = "inside" /\ r[4] <= inner

LastPassed ==
  pc # "returned" /\ resources # <<>> => Passed(resources[Len(resources)])

\* All calls since the last wait are of the step that is running.
Paced ==
  RateLimited(request.provider) =>
    \A c \in sinceWait :
      at <= Len(Listings) /\ c[1] \in DOMAIN Listings /\ Listings[c[1]].step = Now.step

IInv == TypeOK /\ Position /\ ListedInOrder /\ LastPassed /\ Paced

Accounted(r) ==
  \/ r \in Range(resources)
  \/ CutOff(r) \/ \E f \in failed : Explains(f, r) /\ Tolerated(f)
Covered ==
  pc # "returned" =>
    \A u \in DOMAIN Listings : \A r \in Holdings(u) : Passed(r) => Accounted(r)

-----------------------------------------------------------------------------
(* What every step keeps, and what is held of a listing.                   *)

LEMMA ListingsType ==
  ASSUME request \in Requests
  PROVE  Listings \in Sections /\ Listings \in Seq(Listing) /\ Len(Listings) \in Nat
<1>1. Listings = ListingsOfRequest(request)
  BY DEF Listings, Program
<1>2. Listings \in Sections
  BY <1>1, InSections
<1>3. QED BY <1>2 DEF Sections

LEMMA Fixed ==
  ASSUME request' = request, nameless' = nameless
  PROVE  /\ Listings' = Listings /\ Held' = Held
         /\ \A u : Holdings(u)' = Holdings(u)
<1>1. Listings' = Listings
  BY DEF Listings, Program
<1>2. \A u : Holdings(u)' = Holdings(u)
  BY <1>1 DEF Holdings, Named
<1>3. QED BY <1>1, <1>2 DEF Held

LEMMA NextFixed == [Next]_vars => request' = request /\ nameless' = nameless
BY DEF Next, vars, input, ListPage, ListAborts, ListStops, PassOver, AddObject, Describe,
   DescribeSkips, DescribeAborts, Enter, InnerPage, InnerRetries, LeaveObject, PageDone,
   Wait, Finish, Terminating

LEMMA HoldingsOf ==
  ASSUME NEW u, NEW r \in Holdings(u)
  PROVE  /\ r = <<r[1], r[2], r[3], r[4]>> /\ r[1] = u
         /\ r[2] \in 1..Pages(Listings[u].with) /\ r[3] \in 1..PerPage
         /\ Named(Listings[u].with, r[3] = PerPage)
         /\ r[4] \in Inside(Listings[u].with)
         /\ r[4] = 0 \/ Named(Listings[u].with, r[4] = NumPages)
         /\ Listings[u].with.each # "name"
BY DEF Holdings

LEMMA InHoldings ==
  ASSUME NEW u, Listings[u].with.each # "name",
         NEW p \in 1..Pages(Listings[u].with), NEW k \in 1..PerPage,
         Named(Listings[u].with, k = PerPage),
         NEW q \in Inside(Listings[u].with), q = 0 \/ Named(Listings[u].with, q = NumPages)
  PROVE  <<u, p, k, q>> \in Holdings(u)
BY DEF Holdings

LEMMA HeldTypes ==
  ASSUME NEW r \in Held, request \in Requests
  PROVE  /\ r[1] \in DOMAIN Listings /\ r \in Holdings(r[1])
         /\ r[1] \in Nat /\ r[2] \in Nat /\ r[3] \in Nat /\ r[4] \in Nat
         /\ r[2] >= 1 /\ r[3] >= 1 /\ r[3] <= PerPage
<1>1. PICK u \in DOMAIN Listings : r \in Holdings(u)
  BY DEF Held
<1>2. u \in Nat /\ Listings[u].with \in Collectors
  <2>1. u \in Nat /\ Listings[u] \in Listing
    BY ListingsType
  <2>2. QED BY <2>1 DEF Listing
<1>3. r[1] = u /\ r[2] \in 1..Pages(Listings[u].with) /\ r[3] \in 1..PerPage
      /\ r[4] \in Inside(Listings[u].with)
  BY <1>1, HoldingsOf
<1>4. Pages(Listings[u].with) \in Nat /\ Inside(Listings[u].with) \subseteq Nat
  BY <1>2, CollectingAssumption DEF Pages, Inside, Collectors
<1>5. QED BY <1>1, <1>2, <1>3, <1>4, CollectingAssumption

\* Each listing of a request yields types that were asked for or brought.
LEMMA YieldsAsked ==
  ASSUME NEW r \in Requests
  PROVE  \A u \in DOMAIN ListingsOfRequest(r) :
           LET c == ListingsOfRequest(r)[u].with
           IN  c.each # "name" => c.yields # <<>> /\ Yields(c) \subseteq Brought(Asked(r))
<1> DEFINE Good(c) == c.each # "name" => c.yields # <<>> /\ Yields(c) \subseteq Brought(Asked(r))
           W == {s \in Seq(Listing) : \A u \in DOMAIN s : Good(s[u].with)}
<1>1. W \in SUBSET Seq(Listing) /\ <<>> \in W
  OBVIOUS
<1>2. ASSUME NEW s \in W, NEW t \in W PROVE s \o t \in W
  <2> HIDE DEF Good
  <2>1. s \in Seq(Listing) /\ t \in Seq(Listing) /\ s \o t \in Seq(Listing)
    OBVIOUS
  <2>2. ASSUME NEW u \in DOMAIN (s \o t) PROVE Good((s \o t)[u].with)
    <3>1. CASE u \in 1..Len(s)
      <4>1. (s \o t)[u] = s[u] /\ u \in DOMAIN s
        BY <2>1, <3>1
      <4>2. QED BY <4>1
    <3>2. CASE u \notin 1..Len(s)
      <4>1. u - Len(s) \in DOMAIN t /\ (s \o t)[u] = t[u - Len(s)]
        BY <2>1, <3>2
      <4>2. QED BY <4>1
    <3>3. QED BY <3>1, <3>2
  <2>3. QED BY <2>1, <2>2
<1>3. <<GitHubOwnOrganizations>> \in W
  <2>1. <<GitHubOwnOrganizations>> \in Seq(Listing) /\ Good(GitHubOwnOrganizations.with)
    BY OwnOrganizationsType
  <2> HIDE DEF Good
  <2>2. \A u \in DOMAIN <<GitHubOwnOrganizations>> :
          <<GitHubOwnOrganizations>>[u] = GitHubOwnOrganizations
    OBVIOUS
  <2>3. QED BY <2>1, <2>2
<1>4. ASSUME NEW s \in Steps, NEW place \in Nat \X Nat, IfWanted(r, s)
      PROVE  ListingsOfStep(s, place) \in W
  <2>1. s.when \subseteq Brought(Asked(r))
    <3>1. s.when = Balancers \/ \E t \in ResourceTypes : s.when = {t}
      BY DEF Steps
    <3>2. QED BY <1>4, <3>1 DEF IfWanted, Brought
  <2> DEFINE k == ListingsOfStep(s, place)
             n == Len(s.listings)
  <2>2. k \in Seq(Listing) /\ Len(k) = n /\ \A l \in 1..n : k[l].with = s.listings[l]
    BY StepListings
  <2> HIDE DEF k
  <2>3. DOMAIN k = 1..n /\ DOMAIN s.listings = 1..n
    <3>1. s.listings \in Seq(Collectors)
      BY DEF Steps
    <3>2. QED BY <2>2, <3>1
  <2>4. \A l \in 1..n : s.listings[l].yields # <<>> /\ Yields(s.listings[l]) \subseteq s.when
    BY <2>3 DEF Steps
  <2> HIDE DEF n
  <2>5. \A u \in DOMAIN k : Good(k[u].with)
    BY <2>1, <2>2, <2>3, <2>4
  <2> HIDE DEF Good
  <2>6. k \in W
    BY <2>2, <2>5
  <2>7. QED BY <2>6 DEF k
<1> HIDE DEF W
<1>5. ListingsOfRequest(r) \in W
  BY <1>1, <1>2, <1>3, <1>4, ListingsClosed
<1>6. QED BY <1>5 DEF W

\* What is held of a listing is of a type that its collector yields.
LEMMA TypeYielded ==
  ASSUME request \in Requests, NEW r \in Held
  PROVE  /\ TypeOf(r) \in Yields(Listings[r[1]].with)
         /\ TypeOf(r) \in ResourceTypes
<1> DEFINE y == Listings[r[1]].with.yields
<1>1. /\ r[1] \in DOMAIN Listings /\ r \in Holdings(r[1])
      /\ r[3] \in Nat /\ r[3] >= 1
  BY HeldTypes
<1>2. Listings[r[1]].with.each # "name"
  BY <1>1, HoldingsOf
<1>3. y # <<>> /\ y \in Seq(ResourceTypes)
  <2>1. y # <<>>
    BY <1>1, <1>2, YieldsAsked DEF Listings, Program
  <2>2. Listings[r[1]] \in Listing
    BY <1>1, ListingsType
  <2>3. QED BY <2>1, <2>2 DEF Listing, Collectors
<1>4. TypeOf(r) = y[((r[3] - 1) % Len(y)) + 1]
  BY DEF TypeOf
<1> HIDE DEF y
<1>5. ((r[3] - 1) % Len(y)) + 1 \in DOMAIN y
  <2>1. Len(y) \in Nat \ {0} /\ DOMAIN y = 1..Len(y) /\ r[3] - 1 \in Nat
    BY <1>1, <1>3
  <2>2. (r[3] - 1) % Len(y) \in 0..(Len(y) - 1)
    BY <2>1
  <2>3. QED BY <2>1, <2>2
<1>6. y[((r[3] - 1) % Len(y)) + 1] \in Yields(Listings[r[1]].with)
  BY <1>5 DEF Yields, y
<1>7. y[((r[3] - 1) % Len(y)) + 1] \in ResourceTypes
  BY <1>3, <1>5
<1>8. QED BY <1>4, <1>6, <1>7

\* The listing the cursor is at.
LEMMA NowTypes ==
  ASSUME TypeOK, at <= Len(Listings)
  PROVE  /\ at \in DOMAIN Listings /\ at \in Nat /\ at + 1 \in 1..(Len(Listings) + 1)
         /\ Now \in Listing /\ How \in Collectors /\ How = Listings[at].with
         /\ Pages(How) \in Nat \ {0}
         /\ How.list = "paged" => Pages(How) = NumPages
         /\ How.each = "list" => Inside(How) = 1..NumPages
         /\ How.each # "list" => Inside(How) = {0}
<1>1. Listings \in Seq(Listing) /\ Len(Listings) \in Nat /\ at \in 1..(Len(Listings) + 1)
  BY ListingsType DEF TypeOK
<1>2. at \in 1..Len(Listings) /\ DOMAIN Listings = 1..Len(Listings)
  BY <1>1
<1>3. Now \in Listing
  BY <1>1, <1>2 DEF Now
<1>4. How \in Collectors
  BY <1>3 DEF How, Listing
<1>5. Pages(How) \in Nat \ {0} /\ (How.list = "paged" => Pages(How) = NumPages)
  BY <1>4, CollectingAssumption DEF Pages, Collectors
<1>6. QED BY <1>1, <1>2, <1>3, <1>4, <1>5 DEF Inside, How, Now

-----------------------------------------------------------------------------
(* Adding a resource, ending a listing.                                    *)

\* The order of the listings, of the pages, of the objects, inside them.
LEMMA Lexicographic ==
  ASSUME NEW r, NEW s,
         \/ r[1] < s[1]
         \/ r[1] = s[1] /\ r[2] < s[2]
         \/ r[1] = s[1] /\ r[2] = s[2] /\ r[3] < s[3]
         \/ r[1] = s[1] /\ r[2] = s[2] /\ r[3] = s[3] /\ r[4] < s[4]
  PROVE  Before(r, s)
<1>1. /\ 1..(1 - 1) = {} /\ 1..(2 - 1) = {1} /\ 1..(3 - 1) = {1, 2}
      /\ 1..(4 - 1) = {1, 2, 3} /\ {1, 2, 3, 4} = 1..4
  OBVIOUS
<1>2. CASE r[1] < s[1]
  BY <1>1, <1>2 DEF Before
<1>3. CASE r[1] = s[1] /\ r[2] < s[2]
  BY <1>1, <1>3 DEF Before
<1>4. CASE r[1] = s[1] /\ r[2] = s[2] /\ r[3] < s[3]
  BY <1>1, <1>4 DEF Before
<1>5. CASE r[1] = s[1] /\ r[2] = s[2] /\ r[3] = s[3] /\ r[4] < s[4]
  BY <1>1, <1>5 DEF Before
<1>6. QED BY <1>2, <1>3, <1>4, <1>5

\* A resource at the cursor comes after those the cursor has passed.
LEMMA AddKeepsOrder ==
  ASSUME IInv, request' = request, nameless' = nameless,
         NEW q \in Nat, <<at, page, obj, q>> \in Held,
         resources' = Append(resources, <<at, page, obj, q>>),
         (pc = "objects" /\ q = 0) \/ (pc = "inside" /\ q = inner + 1)
  PROVE  /\ resources' \in Seq(Held') /\ ListedInOrder'
         /\ resources' # <<>> /\ resources'[Len(resources')] = <<at, page, obj, q>>
<1> DEFINE new == <<at, page, obj, q>>
           n == Len(resources)
<1>1. Held' = Held /\ resources \in Seq(Held) /\ request \in Requests
  BY Fixed DEF IInv, TypeOK, Held
<1>2. /\ n \in Nat /\ resources' \in Seq(Held) /\ Len(resources') = n + 1
      /\ \A j \in 1..n : resources'[j] = resources[j] /\ resources[j] \in Held
      /\ resources'[n + 1] = new
  BY <1>1
<1>3. ASSUME NEW j \in 1..((n + 1) - 1) PROVE Before(resources'[j], resources'[j + 1])
  <2>1. j \in 1..n /\ (j = n \/ (j \in 1..(n - 1) /\ j + 1 \in 1..n))
    BY <1>2
  <2>2. CASE j \in 1..(n - 1)
    <3>1. Before(resources[j], resources[j + 1])
      BY <2>2 DEF IInv, ListedInOrder
    <3>2. resources'[j] = resources[j] /\ resources'[j + 1] = resources[j + 1]
      BY <1>2, <2>1, <2>2
    <3>3. QED BY <3>1, <3>2
  <2>3. CASE j = n
    <3> DEFINE r == resources[n]
    <3>1. r \in Held /\ resources'[j] = r /\ resources'[j + 1] = new
      BY <1>2, <2>1, <2>3
    <3>2. Passed(r)
      <4>1. resources # <<>>
        BY <1>1, <2>1, <2>3
      <4>2. QED BY <4>1 DEF IInv, LastPassed
    <3> HIDE DEF r
    <3>3. r[1] \in Nat /\ r[2] \in Nat /\ r[3] \in Nat /\ r[4] \in Nat
      BY <1>1, <3>1, HeldTypes
    <3>4. inner \in Nat /\ new[1] = at /\ new[2] = page /\ new[3] = obj /\ new[4] = q
      BY CollectingAssumption DEF IInv, TypeOK
    <3> HIDE DEF new
    <3>5. Before(r, new)
      BY SMTT(40), <3>2, <3>3, <3>4, Lexicographic DEF Passed
    <3>6. QED BY <3>1, <3>5
  <2>4. QED BY <2>1, <2>2, <2>3
<1>4. ListedInOrder'
  BY <1>2, <1>3 DEF ListedInOrder
<1>5. QED BY <1>1, <1>2, <1>4

\* Where the cursor goes when a listing ends.
LEMMA EndsListing ==
  ASSUME IInv, request' = request, nameless' = nameless, at <= Len(Listings), EndListing,
         pc \in {"list", "objects"}
  PROVE  /\ page' = 0 /\ obj' = 1 /\ inner' = 0 /\ result' = "none"
         /\ \/ pc' = "wait" /\ at' = at
            \/ pc' = "list" /\ at' = at + 1
         /\ at' \in 1..(Len(Listings') + 1)
         /\ pc' = "wait" => at' <= Len(Listings')
         /\ RateLimited(request.provider) /\ pc' = "list"
              => at' \in DOMAIN Listings /\ Listings[at'].step = Now.step
         /\ \A r \in Held : Passed(r)' => r[1] <= at
         /\ \A r \in Held : Passed(r) => Passed(r)'
<1>1. /\ Listings' = Listings /\ Listings \in Sections /\ Len(Listings) \in Nat
      /\ at \in DOMAIN Listings /\ at \in Nat /\ at + 1 \in 1..(Len(Listings) + 1)
      /\ request \in Requests /\ result = "none"
  BY Fixed, ListingsType, NowTypes DEF IInv, TypeOK
<1>2. /\ page' = 0 /\ obj' = 1 /\ inner' = 0 /\ result' = "none"
      /\ \/ pc' = "wait" /\ at' = at
         \/ pc' = "list" /\ at' = at + 1
      /\ RateLimited(request.provider) /\ pc' = "list" => ~Now.last
  BY <1>1 DEF EndListing
<1>3. RateLimited(request.provider) /\ pc' = "list"
        => at' \in DOMAIN Listings /\ Listings[at'].step = Now.step
  BY <1>1, <1>2 DEF Sections, Now
<1>4. ASSUME NEW r \in Held
      PROVE  (Passed(r)' => r[1] <= at) /\ (Passed(r) => Passed(r)')
  <2>1. r[1] \in Nat /\ r[2] \in Nat /\ r[3] \in Nat /\ r[4] \in Nat
    BY <1>1, HeldTypes
  <2>2. ~(r[2] = 0)
    <3>1. r[2] \in 1..Pages(Listings[r[1]].with)
      BY <1>1, HeldTypes, HoldingsOf
    <3>2. QED BY <3>1, <2>1
  <2>3. QED BY <1>1, <1>2, <2>1, <2>2 DEF Passed
<1>5. QED BY <1>1, <1>2, <1>3, <1>4

-----------------------------------------------------------------------------
(* Each step keeps the invariant.                                          *)

\* What is always known at the start of a step.
LEMMA Known ==
  ASSUME IInv
  PROVE  /\ request \in Requests /\ nameless \in BOOLEAN /\ tries \in {0, 1}
         /\ at \in Nat /\ page \in Nat /\ obj \in Nat /\ inner \in Nat /\ Len(Listings) \in Nat
         /\ at \in 1..(Len(Listings) + 1)
         /\ page \in 0..NumPages /\ obj \in 1..(PerPage + 1) /\ inner \in 0..NumPages
         /\ resources \in Seq(Held) /\ warned \subseteq failed
         /\ NumPages \in Nat \ {0} /\ PerPage \in Nat \ {0}
         /\ pc \in {"list", "objects", "inside", "wait", "returned"}
         /\ result \in {"none", "ok", "error"} /\ (pc = "returned" <=> result # "none")
BY CollectingAssumption, ListingsType DEF IInv, TypeOK, Held

\* The type invariant, with Held.
LEMMA TypesOf ==
  ASSUME request \in Requests, nameless \in BOOLEAN, tries \in {0, 1},
         pc \in {"list", "objects", "inside", "wait", "returned"},
         at \in 1..(Len(Listings) + 1),
         page \in 0..NumPages, obj \in 1..(PerPage + 1), inner \in 0..NumPages,
         resources \in Seq(Held), warned \subseteq failed,
         result \in {"none", "ok", "error"}, pc = "returned" <=> result # "none"
  PROVE  TypeOK
BY DEF TypeOK, Held

LEMMA InitInv == Init => IInv
<1> SUFFICES ASSUME Init PROVE IInv
  OBVIOUS
<1>1. request \in Requests /\ Len(Listings) \in Nat
  BY ListingsType DEF Init
<1>2. <<>> \in Seq(Held) /\ Len(<<>>) = 0 /\ 1..(0 - 1) = {}
  OBVIOUS
<1>3. TypeOK
  BY <1>1, <1>2, CollectingAssumption DEF Init, TypeOK, Held
<1>4. Position /\ ListedInOrder /\ LastPassed /\ Paced
  BY <1>2 DEF Init, Position, ListedInOrder, LastPassed, Paced
<1>5. QED BY <1>3, <1>4 DEF IInv

\* Steps that add nothing: what is left to show of them.
LEMMA WithoutAdding ==
  ASSUME IInv, TypeOK', request' = request, nameless' = nameless,
         resources' = resources, pc # "returned", Position', Paced',
         pc' # "returned" => \A r \in Held : Passed(r) => Passed(r)'
  PROVE  IInv'
<1>1. ListedInOrder'
  BY DEF IInv, ListedInOrder
<1>2. LastPassed'
  <2> SUFFICES ASSUME pc' # "returned", resources # <<>>
               PROVE  Passed(resources[Len(resources)])'
    BY DEF LastPassed
  <2>1. resources[Len(resources)] \in Held
    <3>1. resources \in Seq(Held)
      BY Known
    <3>2. QED BY <3>1
  <2>2. Passed(resources[Len(resources)])
    BY DEF IInv, LastPassed
  <2>3. ASSUME NEW r \in Held, r = resources[Len(resources)], Passed(r)
        PROVE  Passed(resources[Len(resources)])'
    BY <2>3 DEF Passed
  <2>4. QED BY <2>1, <2>2, <2>3
<1>3. QED BY <1>1, <1>2 DEF IInv

\* A call is of the listing that is running.
LEMMA CallPaced ==
  ASSUME IInv, request' = request, at <= Len(Listings), at' = at,
         NEW call, call[1] = at, sinceWait' \in {sinceWait, sinceWait \cup {call}}
  PROVE  Paced'
<1>1. Listings' = Listings /\ at \in DOMAIN Listings
  <2>1. Listings' = Listings
    BY DEF Listings, Program
  <2>2. QED BY <2>1, NowTypes DEF IInv
<1>2. QED BY <1>1 DEF IInv, Paced, Now

LEMMA ListPageInv == IInv /\ ListPage => IInv'
<1> SUFFICES ASSUME IInv, ListPage PROVE IInv'
  OBVIOUS
<1>1. /\ request' = request /\ nameless' = nameless /\ tries' = tries /\ resources' = resources
      /\ pc = "list" /\ pc' = "objects" /\ at <= Len(Listings) /\ at' = at
      /\ page' = page + 1 /\ obj' = 1 /\ inner' = 0
      /\ failed' = failed /\ warned' = warned /\ result' = result
      /\ sinceWait' \in {sinceWait, sinceWait \cup {<<at, page + 1, 0, 0>>}}
  BY DEF ListPage, Goto, Calls, input
<1>2. Listings' = Listings /\ Held' = Held
  BY <1>1, Fixed
<1>3. page' \in 1..NumPages /\ (page' = 1 \/ How.list = "paged")
  BY <1>1, Known DEF IInv, Position
<1>4. TypeOK'
  BY <1>1, <1>2, <1>3, Known, TypesOf DEF TypeOK, Held
<1>5. Position'
  BY <1>1, <1>2, <1>3, Known DEF Position, How, Now
<1>6. Paced'
  <2>1. <<at, page + 1, 0, 0>>[1] = at
    OBVIOUS
  <2>2. QED BY <1>1, <2>1, CallPaced
<1>7. ASSUME NEW r \in Held, Passed(r) PROVE Passed(r)'
  <2>1. r[1] \in Nat /\ r[2] \in Nat /\ r[3] \in Nat /\ r[4] \in Nat
    BY HeldTypes, Known
  <2>2. QED BY SMTT(40), <1>1, <1>7, <2>1, Known DEF Passed
<1>8. QED BY <1>1, <1>4, <1>5, <1>6, <1>7, WithoutAdding

LEMMA AbortInv == IInv /\ (ListAborts \/ DescribeAborts) => IInv'
<1> SUFFICES ASSUME IInv, ListAborts \/ DescribeAborts PROVE IInv'
  OBVIOUS
<1>1. /\ request' = request /\ nameless' = nameless /\ tries' = tries /\ resources' = resources
      /\ pc \in {"list", "objects"} /\ pc' = "returned" /\ at' = at
      /\ page' = page /\ obj' = obj /\ inner' = inner
      /\ failed \subseteq failed' /\ warned' = warned /\ result' = "error"
      /\ \E call : call[1] = at /\ sinceWait' = sinceWait \cup {call}
  <2>1. <<at, page + 1, 0, 0>>[1] = at /\ <<at, page, obj, 0>>[1] = at
    OBVIOUS
  <2>2. CASE ListAborts
    BY <2>1, <2>2 DEF ListAborts, Return, Calls, input
  <2>3. CASE DescribeAborts
    BY <2>1, <2>3 DEF DescribeAborts, AtObject, Return, Calls, input
  <2>4. QED BY <2>2, <2>3
<1>2. Listings' = Listings /\ Held' = Held /\ at <= Len(Listings)
  <2>1. at <= Len(Listings)
    BY DEF ListAborts, DescribeAborts, AtObject, IInv, Position
  <2>2. QED BY <1>1, <2>1, Fixed
<1>3. TypeOK'
  BY <1>1, <1>2, Known DEF TypeOK, Held
<1>4. Position'
  BY <1>1 DEF Position
<1>5. PICK call : call[1] = at /\ sinceWait' = sinceWait \cup {call}
  BY <1>1
<1>6. Paced'
  BY <1>1, <1>2, <1>5, CallPaced
<1>7. QED BY <1>1, <1>3, <1>4, <1>6, WithoutAdding

\* A listing that ends, with or without a call of its own.
LEMMA EndKeepsInv ==
  ASSUME IInv, request' = request, nameless' = nameless, tries' = tries,
         resources' = resources, failed \subseteq failed', warned' = warned,
         at <= Len(Listings), pc \in {"list", "objects"}, EndListing,
         NEW call, call[1] = at, sinceWait' \in {sinceWait, sinceWait \cup {call}}
  PROVE  IInv'
<1>1. /\ page' = 0 /\ obj' = 1 /\ inner' = 0 /\ result' = "none"
      /\ pc' \in {"wait", "list"} /\ at' \in 1..(Len(Listings') + 1)
      /\ pc' = "wait" => at' = at /\ at' <= Len(Listings')
      /\ RateLimited(request.provider) /\ pc' = "list"
              => at' \in DOMAIN Listings /\ Listings[at'].step = Now.step
      /\ \A r \in Held : Passed(r) => Passed(r)'
  BY EndsListing
<1>2. Listings' = Listings /\ Held' = Held /\ Len(Listings) \in Nat
  BY Fixed, Known
<1>3. TypeOK'
  BY <1>1, <1>2, Known DEF TypeOK, Held
<1>4. Position'
  BY <1>1 DEF Position
<1>5. Paced'
  <2> SUFFICES ASSUME RateLimited(request.provider), NEW c \in sinceWait'
               PROVE  /\ at' <= Len(Listings) /\ c[1] \in DOMAIN Listings
                      /\ Listings[c[1]].step = Listings[at'].step
    BY <1>2 DEF Paced, Now
  <2>1. c[1] \in DOMAIN Listings /\ Listings[c[1]].step = Now.step
    <3>1. at \in DOMAIN Listings
      BY NowTypes DEF IInv
    <3>2. QED BY <3>1 DEF IInv, Paced, Now
  <2>2. at' <= Len(Listings) /\ Listings[at'].step = Now.step
    <3>1. CASE pc' = "wait"
      BY <1>1, <1>2, <3>1 DEF Now
    <3>2. CASE pc' = "list"
      <4>1. DOMAIN Listings = 1..Len(Listings)
        BY ListingsType, Known
      <4>2. QED BY <1>1, <1>2, <3>2, <4>1
    <3>3. QED BY <1>1, <3>1, <3>2
  <2>3. QED BY <2>1, <2>2
<1>6. pc # "returned"
  OBVIOUS
<1>7. QED BY <1>1, <1>3, <1>4, <1>5, <1>6, WithoutAdding

LEMMA ListStopsInv == IInv /\ ListStops => IInv'
<1> SUFFICES ASSUME IInv, ListStops PROVE IInv'
  OBVIOUS
<1>1. /\ request' = request /\ nameless' = nameless /\ tries' = tries /\ resources' = resources
      /\ pc = "list" /\ at <= Len(Listings) /\ EndListing
      /\ failed \subseteq failed' /\ warned' = warned
      /\ sinceWait' = sinceWait \cup {<<at, page + 1, 0, 0>>}
  BY DEF ListStops, Calls, input
<1>2. <<at, page + 1, 0, 0>>[1] = at
  OBVIOUS
<1>3. QED BY <1>1, <1>2, EndKeepsInv

\* On to the next object, or into this one; nothing is added.
LEMMA NextKeepsInv ==
  ASSUME IInv, request' = request, nameless' = nameless, tries' = tries,
         resources' = resources, warned' \subseteq failed', result' = result,
         pc \in {"objects", "inside"}, pc' = "objects", at' = at, page' = page,
         obj <= PerPage, obj' = obj + 1, inner' = 0,
         NEW call, call[1] = at, sinceWait' \in {sinceWait, sinceWait \cup {call}}
  PROVE  IInv'
<1>1. Listings' = Listings /\ Held' = Held /\ at <= Len(Listings)
  BY Fixed DEF IInv, Position
<1>2. TypeOK'
  BY <1>1, Known DEF TypeOK, Held
<1>3. Position'
  BY <1>1, Known DEF IInv, Position, How, Now
<1>4. Paced'
  BY <1>1, CallPaced
<1>5. ASSUME NEW r \in Held, Passed(r) PROVE Passed(r)'
  <2>1. r[1] \in Nat /\ r[2] \in Nat /\ r[3] \in Nat /\ r[4] \in Nat
    BY HeldTypes, Known
  <2>2. QED BY SMTT(40), <1>5, <2>1, Known DEF Passed
<1>6. pc # "returned"
  OBVIOUS
<1>7. QED BY <1>2, <1>3, <1>4, <1>5, <1>6, WithoutAdding

LEMMA PassOverInv == IInv /\ PassOver => IInv'
<1> SUFFICES ASSUME IInv, PassOver PROVE IInv'
  OBVIOUS
<1>1. <<at, page, obj, 0>>[1] = at
  OBVIOUS
<1>2. sinceWait' \in {sinceWait, sinceWait \cup {<<at, page, obj, 0>>}}
  BY DEF PassOver, Calls
<1>3. QED BY <1>1, <1>2, NextKeepsInv, Known DEF PassOver, AtObject, NextObject, Goto, input

LEMMA DescribeSkipsInv == IInv /\ DescribeSkips => IInv'
<1> SUFFICES ASSUME IInv, DescribeSkips PROVE IInv'
  OBVIOUS
<1>1. <<at, page, obj, 0>>[1] = at
  OBVIOUS
<1>2. warned' \subseteq failed'
  BY Known DEF DescribeSkips
<1>3. QED BY <1>1, <1>2, NextKeepsInv
          DEF DescribeSkips, AtObject, NextObject, Goto, Calls, input

LEMMA LeaveObjectInv == IInv /\ LeaveObject => IInv'
<1> SUFFICES ASSUME IInv, LeaveObject PROVE IInv'
  OBVIOUS
<1>1. <<at, page, obj, 0>>[1] = at
  OBVIOUS
<1>2. obj <= PerPage
  BY DEF LeaveObject, IInv, Position
<1>3. QED BY <1>1, <1>2, NextKeepsInv, Known DEF LeaveObject, NextObject, Goto, input

LEMMA EnterInv == IInv /\ Enter => IInv'
<1> SUFFICES ASSUME IInv, Enter PROVE IInv'
  OBVIOUS
<1>1. /\ request' = request /\ nameless' = nameless /\ tries' = tries /\ resources' = resources
      /\ pc = "objects" /\ pc' = "inside" /\ obj <= PerPage /\ Wanted /\ How.each = "list"
      /\ at' = at /\ result' = result
      /\ UNCHANGED <<page, obj, inner, failed, warned, sinceWait>>
  BY DEF Enter, AtObject, Goto, input
<1>2. Listings' = Listings /\ Held' = Held /\ at <= Len(Listings)
  BY <1>1, Fixed DEF IInv, Position
<1>3. TypeOK'
  BY <1>1, <1>2, Known DEF TypeOK, Held
<1>4. Position'
  BY <1>1, <1>2, Known DEF IInv, Position, How, Now, Wanted, Named
<1>5. Paced'
  <2>1. <<at, page, obj, 0>>[1] = at
    OBVIOUS
  <2>2. QED BY <1>1, <1>2, <2>1, CallPaced
<1>6. ASSUME NEW r \in Held, Passed(r) PROVE Passed(r)'
  BY <1>1, <1>6 DEF Passed
<1>7. QED BY <1>1, <1>3, <1>4, <1>5, <1>6, WithoutAdding

LEMMA InnerRetriesInv == IInv /\ InnerRetries => IInv'
<1> SUFFICES ASSUME IInv, InnerRetries PROVE IInv'
  OBVIOUS
<1>1. /\ request' = request /\ nameless' = nameless /\ tries' = 1 - tries
      /\ resources' = resources /\ pc = "inside"
      /\ UNCHANGED <<pc, at, page, obj, inner, result>>
      /\ sinceWait' = sinceWait \cup {<<at, page, obj, inner + 1>>}
  BY DEF InnerRetries, Calls
<1>2. Listings' = Listings /\ Held' = Held /\ at <= Len(Listings)
  BY <1>1, Fixed DEF IInv, Position
<1>3. warned' \subseteq failed'
  BY Known DEF InnerRetries
<1>4. TypeOK'
  <2>1. tries' \in {0, 1}
    BY <1>1, Known
  <2>2. QED BY <1>1, <1>2, <1>3, <2>1, Known DEF TypeOK, Held
<1>5. Position'
  BY <1>1, <1>2, Known DEF IInv, Position, How, Now, Wanted, Named
<1>6. Paced'
  <2>1. <<at, page, obj, inner + 1>>[1] = at
    OBVIOUS
  <2>2. QED BY <1>1, <1>2, <2>1, CallPaced
<1>7. ASSUME NEW r \in Held, Passed(r) PROVE Passed(r)'
  BY <1>1, <1>7 DEF Passed
<1>8. QED BY <1>1, <1>4, <1>5, <1>6, <1>7, WithoutAdding

\* Steps that add the resource at the cursor and pass it.
LEMMA AddKeepsInv ==
  ASSUME IInv, request' = request, nameless' = nameless,
         NEW q \in Nat, <<at, page, obj, q>> \in Held,
         resources' = Append(resources, <<at, page, obj, q>>),
         \/ pc = "objects" /\ pc' = "objects" /\ q = 0 /\ obj' = obj + 1
         \/ pc = "inside" /\ pc' = "inside" /\ q = inner + 1 /\ obj' = obj /\ inner' = q,
         at' = at, page' = page, TypeOK', Position', Paced'
  PROVE  IInv'
<1>1. /\ ListedInOrder' /\ resources' # <<>>
      /\ resources'[Len(resources')] = <<at, page, obj, q>>
  BY AddKeepsOrder
<1>2. ASSUME NEW r, r = <<at, page, obj, q>>, r = resources'[Len(resources')]
      PROVE  Passed(resources[Len(resources)])'
  <2>1. r[1] = at /\ r[2] = page /\ r[3] = obj /\ r[4] = q
    BY <1>2
  <2>2. obj \in Nat /\ inner \in Nat
    BY Known
  <2>3. QED BY <1>2, <2>1, <2>2 DEF Passed
<1>3. LastPassed'
  BY <1>1, <1>2 DEF LastPassed
<1>4. QED BY <1>1, <1>3 DEF IInv

\* The object at the cursor is one of those the listing holds.
LEMMA ObjectHeld ==
  ASSUME IInv, pc = "objects", obj <= PerPage, Wanted, How.each \in {"add", "describe"}
  PROVE  <<at, page, obj, 0>> \in Holdings(at) /\ <<at, page, obj, 0>> \in Held
<1>1. at <= Len(Listings) /\ page >= 1 /\ (page = 1 \/ How.list = "paged")
  BY DEF IInv, Position
<1>2. /\ at \in DOMAIN Listings /\ How = Listings[at].with /\ Pages(How) \in Nat \ {0}
      /\ How.list = "paged" => Pages(How) = NumPages
      /\ How.each # "list" => Inside(How) = {0}
  BY <1>1, NowTypes DEF IInv
<1>3. page \in 1..Pages(How) /\ obj \in 1..PerPage
  BY <1>1, <1>2, Known
<1>4. <<at, page, obj, 0>> \in Holdings(at)
  BY <1>2, <1>3, InHoldings DEF Wanted
<1>5. QED BY <1>2, <1>4 DEF Held

LEMMA AddObjectInv == IInv /\ (AddObject \/ Describe) => IInv'
<1> SUFFICES ASSUME IInv, AddObject \/ Describe PROVE IInv'
  OBVIOUS
<1> DEFINE new == <<at, page, obj, 0>>
<1>1. /\ request' = request /\ nameless' = nameless /\ tries' = tries
      /\ resources' = Append(resources, new)
      /\ pc = "objects" /\ pc' = "objects" /\ obj <= PerPage /\ obj' = obj + 1 /\ inner' = 0
      /\ Wanted /\ How.each \in {"add", "describe"}
      /\ UNCHANGED <<at, page, failed, warned, result>>
      /\ sinceWait' \in {sinceWait, sinceWait \cup {new}}
  <2>1. CASE AddObject
    BY <2>1 DEF AddObject, AtObject, Add, NextObject, Goto, input
  <2>2. CASE Describe
    BY <2>2 DEF Describe, AtObject, Add, NextObject, Goto, Calls, input
  <2>3. QED BY <2>1, <2>2
<1>2. /\ Listings' = Listings /\ Held' = Held
      /\ at <= Len(Listings) /\ page >= 1 /\ (page = 1 \/ How.list = "paged")
  BY <1>1, Fixed DEF IInv, Position
<1>3. new[1] = at /\ 0 \in Nat
  OBVIOUS
<1> HIDE DEF new
<1>4. new \in Held
  BY <1>1, ObjectHeld DEF new
<1>5. TypeOK'
  <2>1. resources' \in Seq(Held)
    BY <1>1, <1>4, Known
  <2>2. QED BY <1>1, <1>2, <2>1, Known DEF TypeOK, Held
<1>6. Position'
  BY <1>1, <1>2, Known DEF IInv, Position, How, Now
<1>7. Paced'
  BY <1>1, <1>2, <1>3, CallPaced
<1>8. QED BY <1>1, <1>3, <1>4, <1>5, <1>6, <1>7, AddKeepsInv DEF new

LEMMA InnerPageInv == IInv /\ InnerPage => IInv'
<1> SUFFICES ASSUME IInv, InnerPage PROVE IInv'
  OBVIOUS
<1> DEFINE new == <<at, page, obj, inner + 1>>
<1>1. /\ request' = request /\ nameless' = nameless /\ tries' = tries
      /\ resources' = IF Named(How, inner + 1 = NumPages) THEN Append(resources, new)
                      ELSE resources
      /\ pc = "inside" /\ pc' = "inside" /\ inner < NumPages /\ inner' = inner + 1
      /\ UNCHANGED <<at, page, obj, failed, warned, result>>
      /\ sinceWait' = sinceWait \cup {new}
  BY DEF InnerPage, Add, Goto, Calls, input
<1>2. /\ Listings' = Listings /\ Held' = Held
      /\ at <= Len(Listings) /\ page >= 1 /\ (page = 1 \/ How.list = "paged")
      /\ obj <= PerPage /\ Wanted /\ How.each = "list"
  BY <1>1, Fixed DEF IInv, Position
<1>3. new[1] = at /\ inner + 1 \in Nat /\ inner + 1 \in 1..NumPages
  BY SMTT(40), <1>1, Known
<1> HIDE DEF new
<1>4. Position'
  BY <1>1, <1>2, <1>3, Known DEF IInv, Position, How, Now, Wanted, Named
<1>5. Paced'
  BY <1>1, <1>2, <1>3, CallPaced
<1>6. CASE Named(How, inner + 1 = NumPages)
  <2>1. new \in Held
    <3>1. /\ at \in DOMAIN Listings /\ How = Listings[at].with /\ Pages(How) \in Nat \ {0}
          /\ How.list = "paged" => Pages(How) = NumPages
          /\ Inside(How) = 1..NumPages
      BY <1>2, NowTypes DEF IInv
    <3>2. page \in 1..Pages(How) /\ obj \in 1..PerPage
      BY <1>2, <3>1, Known
    <3>3. new \in Holdings(at)
      BY <1>2, <1>3, <1>6, <3>1, <3>2, InHoldings DEF Wanted, new
    <3>4. QED BY <3>1, <3>3 DEF Held
  <2>2. TypeOK'
    <3>1. resources' \in Seq(Held)
      BY <1>1, <1>6, <2>1, Known
    <3>2. QED BY <1>1, <1>2, <1>3, <3>1, Known DEF TypeOK, Held
  <2>3. QED BY <1>1, <1>3, <1>4, <1>5, <1>6, <2>1, <2>2, AddKeepsInv DEF new
<1>7. CASE ~Named(How, inner + 1 = NumPages)
  <2>1. resources' = resources
    BY <1>1, <1>7
  <2>2. TypeOK'
    BY <1>1, <1>2, <1>3, <2>1, Known DEF TypeOK, Held
  <2>3. ASSUME NEW r \in Held, Passed(r) PROVE Passed(r)'
    <3>1. r[4] \in Nat
      BY HeldTypes, Known
    <3>2. QED BY <1>1, <2>3, <3>1, Known DEF Passed
  <2>4. QED BY <1>1, <1>4, <1>5, <2>1, <2>2, <2>3, WithoutAdding
<1>8. QED BY <1>6, <1>7

LEMMA PageDoneInv == IInv /\ PageDone => IInv'
<1> SUFFICES ASSUME IInv, PageDone PROVE IInv'
  OBVIOUS
<1>1. /\ request' = request /\ nameless' = nameless /\ tries' = tries /\ resources' = resources
      /\ pc = "objects" /\ obj > PerPage /\ at <= Len(Listings)
      /\ UNCHANGED <<failed, warned, sinceWait>>
  BY DEF PageDone, input, IInv, Position
<1>2. <<at, page, obj, 0>>[1] = at
  OBVIOUS
<1>3. CASE MorePages(How)
  <2>1. /\ pc' = "list" /\ UNCHANGED <<at, page, obj, inner, result>>
        /\ How.list = "paged" /\ page < NumPages
    BY <1>3 DEF PageDone, Goto, MorePages
  <2>2. Listings' = Listings /\ Held' = Held
    BY <1>1, Fixed
  <2>3. TypeOK'
    BY <1>1, <2>1, <2>2, Known DEF TypeOK, Held
  <2>4. Position'
    BY <1>1, <2>1, <2>2, Known DEF IInv, Position, How, Now
  <2>5. Paced'
    BY <1>1, <1>2, <2>1, CallPaced
  <2>6. ASSUME NEW r \in Held, Passed(r) PROVE Passed(r)'
    BY <1>1, <2>1, <2>6 DEF Passed
  <2>7. QED BY <1>1, <2>3, <2>4, <2>5, <2>6, WithoutAdding
<1>4. CASE ~MorePages(How)
  BY <1>1, <1>2, <1>4, EndKeepsInv DEF PageDone
<1>5. QED BY <1>3, <1>4

LEMMA WaitInv == IInv /\ Wait => IInv'
<1> SUFFICES ASSUME IInv, Wait PROVE IInv'
  OBVIOUS
<1>1. /\ request' = request /\ nameless' = nameless /\ tries' = tries /\ resources' = resources
      /\ pc = "wait" /\ pc' = "list" /\ at' = at + 1 /\ at <= Len(Listings)
      /\ sinceWait' = {} /\ UNCHANGED <<page, obj, inner, failed, warned, result>>
  BY DEF Wait, input, IInv, Position
<1>2. Listings' = Listings /\ Held' = Held
  BY <1>1, Fixed
<1>3. TypeOK'
  BY <1>1, <1>2, Known DEF TypeOK, Held
<1>4. page = 0
  BY <1>1 DEF IInv, Position
<1>5. Position' /\ Paced'
  BY <1>1, <1>4 DEF IInv, TypeOK, Position, Paced
<1>6. ASSUME NEW r \in Held, Passed(r) PROVE Passed(r)'
  <2>1. r[1] \in Nat /\ r[2] \in Nat
    BY HeldTypes, Known
  <2>2. QED BY <1>1, <1>4, <1>6, <2>1, Known DEF Passed
<1>7. QED BY <1>1, <1>3, <1>5, <1>6, WithoutAdding

LEMMA FinishInv == IInv /\ Finish => IInv'
<1> SUFFICES ASSUME IInv, Finish PROVE IInv'
  OBVIOUS
<1>1. /\ request' = request /\ nameless' = nameless /\ tries' = tries /\ resources' = resources
      /\ pc = "list" /\ pc' = "returned" /\ at' = at /\ at > Len(Listings) /\ result' = "ok"
      /\ UNCHANGED <<page, obj, inner, failed, warned, sinceWait>>
  BY DEF Finish, Return, input
<1>2. Listings' = Listings /\ Held' = Held
  BY <1>1, Fixed
<1>3. TypeOK'
  BY <1>1, <1>2, Known DEF TypeOK, Held
<1>4. Position'
  BY <1>1, <1>2, Known DEF Position
<1>5. Paced'
  BY <1>1, <1>2, Known DEF IInv, Paced
<1>6. QED BY <1>1, <1>3, <1>4, <1>5, WithoutAdding

LEMMA Stutters == IInv /\ UNCHANGED vars => IInv'
<1> SUFFICES ASSUME IInv, UNCHANGED vars PROVE IInv'
  OBVIOUS
<1>1. UNCHANGED <<request, nameless, tries, pc, at, page, obj, inner, resources, failed, warned,
                  sinceWait, result>>
  BY DEF vars, input
<1>2. Listings' = Listings /\ Held' = Held
  BY <1>1, Fixed
<1>3. TypeOK'
  BY <1>1, <1>2, Known DEF TypeOK, Held
<1>4. Position'
  BY <1>1, <1>2 DEF IInv, Position, How, Now, Wanted, Named
<1>5. ListedInOrder' /\ LastPassed' /\ Paced'
  BY <1>1, <1>2 DEF IInv, ListedInOrder, LastPassed, Passed, Paced, Now
<1>6. QED BY <1>3, <1>4, <1>5 DEF IInv

(* The invariant of a call, over every request and every failure.          *)
THEOREM Inductive == Spec => []IInv
<1>1. Init => IInv
  BY InitInv
<1>2. IInv /\ [Next]_vars => IInv'
  BY ListPageInv, AbortInv, ListStopsInv, PassOverInv, AddObjectInv, DescribeSkipsInv,
     EnterInv, InnerPageInv, InnerRetriesInv, LeaveObjectInv, PageDoneInv, WaitInv,
     FinishInv, Stutters DEF Next, Terminating
<1>3. QED BY <1>1, <1>2, PTL DEF Spec

(* CollectResources keeps the types of what it builds, its cursor inside   *)
(* the program of the request, and adds only what the services hold.       *)
THEOREM TypeCorrect == Spec => []TypeOK
<1>1. IInv => TypeOK
  BY DEF IInv
<1>2. QED BY <1>1, Inductive, PTL

(* The collection is in the order of the listings, nothing in it twice,    *)
(* whatever fails and whatever is retried.                                 *)
THEOREM InOrder == Spec => []ListedInOrder
<1>1. IInv => ListedInOrder
  BY DEF IInv
<1>2. QED BY <1>1, Inductive, PTL

(* No call of one step follows a call of another without a wait.           *)
THEOREM WaitsBetweenSteps == Spec => []StepsPaced
<1>1. IInv => StepsPaced
  BY DEF IInv, Paced, StepsPaced
<1>2. QED BY <1>1, Inductive, PTL

-----------------------------------------------------------------------------
(* Nothing is left out without a reason: a failure, or a collector of one  *)
(* of the types that are cut short.                                        *)

IGaps == IInv /\ Covered /\ GapsExplained

\* What is accounted for stays so.
LEMMA AccountedStays ==
  ASSUME IInv, request' = request, nameless' = nameless,
         failed \subseteq failed', warned \subseteq warned',
         resources' = resources \/ \E x \in Held : resources' = Append(resources, x),
         NEW r, Accounted(r)
  PROVE  Accounted(r)'
<1>1. Listings' = Listings
  BY Fixed
<1>2. Range(resources) \subseteq Range(resources')
  <2>1. CASE resources' = resources
    BY <2>1
  <2>2. ASSUME NEW x \in Held, resources' = Append(resources, x)
        PROVE  Range(resources) \subseteq Range(resources')
    <3>1. resources \in Seq(Held)
      BY Known
    <3>2. \A j \in DOMAIN resources :
            j \in DOMAIN resources' /\ resources'[j] = resources[j]
      BY <2>2, <3>1
    <3>3. QED BY <3>2 DEF Range
  <2>3. QED BY <2>1, <2>2
<1>3. QED BY <1>1, <1>2 DEF Accounted, Explains, Tolerated, CutOff, TypeOf

\* A step is covered if what it passes is.
LEMMA StepCovers ==
  ASSUME IGaps, request' = request, nameless' = nameless, pc # "returned",
         failed \subseteq failed', warned \subseteq warned', result' # "ok",
         resources' = resources \/ \E x \in Held : resources' = Append(resources, x),
         pc' # "returned" =>
           \A r \in Held : Passed(r)' => Passed(r) \/ Accounted(r)'
  PROVE  Covered' /\ GapsExplained'
<1>1. Listings' = Listings /\ \A u : Holdings(u)' = Holdings(u)
  BY Fixed
<1>2. ASSUME pc' # "returned", NEW u \in DOMAIN Listings, NEW r \in Holdings(u), Passed(r)'
      PROVE  Accounted(r)'
  <2>1. r \in Held
    BY <1>2 DEF Held
  <2>2. CASE Passed(r)
    <3>1. Accounted(r)
      BY <1>2, <2>2 DEF IGaps, Covered
    <3>2. QED BY <3>1, AccountedStays DEF IGaps
  <2>3. QED BY <1>2, <2>1, <2>2
<1>3. Covered'
  BY <1>1, <1>2 DEF Covered
<1>4. QED BY <1>3 DEF GapsExplained

LEMMA StopCovers ==
  ASSUME IGaps, ListStops PROVE Covered' /\ GapsExplained'
<1>0. PICK f : f = <<at, page + 1, 0>>
  OBVIOUS
<1>1. /\ request' = request /\ nameless' = nameless /\ resources' = resources
      /\ pc = "list" /\ at <= Len(Listings) /\ EndListing /\ How.listError = "stop"
      /\ failed' = failed \cup {f} /\ warned' = warned
  BY <1>0 DEF ListStops, input
<1>2. IInv
  BY DEF IGaps
<1>3. result' = "none" /\ \A r \in Held : Passed(r)' => r[1] <= at
  BY <1>1, <1>2, EndsListing
<1>4. f[1] = at /\ f[2] = page + 1 /\ f[3] = 0
  BY <1>0
<1>5. Tolerated(f)'
  <2>1. Listings' = Listings
    BY <1>1, Fixed
  <2>2. QED BY <1>1, <1>4, <2>1 DEF Tolerated, How, Now
<1>6. ASSUME NEW r \in Held, Passed(r)', ~Passed(r) PROVE Accounted(r)'
  <2>1. r[1] \in Nat /\ r[2] \in Nat
    BY HeldTypes, Known, <1>2
  <2>2. r[1] = at /\ page + 1 <= r[2]
    BY SMTT(40), <1>1, <1>2, <1>3, <1>6, <2>1, Known DEF Passed
  <2>3. Explains(f, r)
    BY <1>4, <2>2 DEF Explains
  <2>4. QED BY <1>1, <1>5, <2>3 DEF Accounted, Explains
<1>7. QED BY <1>1, <1>3, <1>6, StepCovers

LEMMA ListPageCovers ==
  ASSUME IGaps, ListPage PROVE Covered' /\ GapsExplained'
<1>1. /\ request' = request /\ nameless' = nameless /\ resources' = resources
      /\ pc = "list" /\ pc' = "objects" /\ page' = page + 1 /\ obj' = 1 /\ inner' = 0
      /\ UNCHANGED <<at, failed, warned, result>>
  BY DEF ListPage, Goto, input
<1>2. IInv
  BY DEF IGaps
<1>3. ASSUME NEW r \in Held, Passed(r)' PROVE Passed(r)
  <2>1. r[1] \in Nat /\ r[2] \in Nat /\ r[3] \in Nat /\ r[3] >= 1
    BY HeldTypes, Known, <1>2
  <2>2. QED BY SMTT(40), <1>1, <1>2, <1>3, <2>1, Known DEF Passed
<1>4. QED BY <1>1, <1>2, <1>3, StepCovers, Known

LEMMA AbortCovers ==
  ASSUME IGaps, ListAborts \/ DescribeAborts PROVE Covered' /\ GapsExplained'
<1>1. /\ request' = request /\ nameless' = nameless /\ resources' = resources
      /\ pc # "returned" /\ pc' = "returned" /\ result' = "error"
      /\ failed \subseteq failed' /\ warned' = warned
  <2>1. CASE ListAborts
    BY <2>1 DEF ListAborts, Return, input
  <2>2. CASE DescribeAborts
    BY <2>2 DEF DescribeAborts, AtObject, Return, input
  <2>3. QED BY <2>1, <2>2
<1>2. QED BY <1>1, StepCovers

\* What a step that goes on with the next object passes is that object.
LEMMA PassesObject ==
  ASSUME IInv, pc = "objects", pc' = "objects", at' = at, page' = page, obj' = obj + 1,
         NEW r \in Held, Passed(r)', ~Passed(r)
  PROVE  /\ r = <<at, page, obj, r[4]>> /\ r \in Holdings(at)
         /\ r[1] = at /\ r[2] = page /\ r[3] = obj
         /\ Wanted /\ How.each # "name" /\ r[4] \in Inside(How)
<1>1. /\ r[1] \in Nat /\ r[2] \in Nat /\ r[3] \in Nat /\ r[4] \in Nat
      /\ r \in Holdings(r[1])
  BY HeldTypes, Known
<1>2. r[1] = at /\ r[2] = page /\ r[3] = obj
  BY SMTT(40), <1>1, Known DEF Passed
<1>3. QED BY <1>1, <1>2, HoldingsOf DEF Wanted, How, Now

LEMMA PassOverCovers ==
  ASSUME IGaps, PassOver PROVE Covered' /\ GapsExplained'
<1>1. /\ request' = request /\ nameless' = nameless /\ resources' = resources
      /\ pc = "objects" /\ pc' = "objects" /\ obj' = obj + 1
      /\ ~Wanted \/ How.each = "name"
      /\ UNCHANGED <<at, page, failed, warned, result>>
  BY DEF PassOver, AtObject, NextObject, Goto, input
<1>2. IInv
  BY DEF IGaps
<1>3. ASSUME NEW r \in Held, Passed(r)' PROVE Passed(r)
  BY <1>1, <1>2, <1>3, PassesObject
<1>4. QED BY <1>1, <1>2, <1>3, StepCovers, Known

LEMMA AddObjectCovers ==
  ASSUME IGaps, AddObject \/ Describe PROVE Covered' /\ GapsExplained'
<1> DEFINE new == <<at, page, obj, 0>>
<1>1. /\ request' = request /\ nameless' = nameless /\ resources' = Append(resources, new)
      /\ pc = "objects" /\ pc' = "objects" /\ obj <= PerPage /\ obj' = obj + 1
      /\ Wanted /\ How.each \in {"add", "describe"}
      /\ UNCHANGED <<at, page, failed, warned, result>>
  <2>1. CASE AddObject
    BY <2>1 DEF AddObject, AtObject, Add, NextObject, Goto, input
  <2>2. CASE Describe
    BY <2>2 DEF Describe, AtObject, Add, NextObject, Goto, Calls, input
  <2>3. QED BY <2>1, <2>2
<1>2. IInv
  BY DEF IGaps
<1>3. new \in Held
  BY <1>1, <1>2, ObjectHeld
<1>4. new \in Range(resources')
  <2> HIDE DEF new
  <2>1. resources \in Seq(Held)
    BY <1>2, Known
  <2>2. Len(resources) + 1 \in DOMAIN resources' /\ resources'[Len(resources) + 1] = new
    BY <1>1, <1>3, <2>1
  <2>3. QED BY <2>2 DEF Range
<1>5. ASSUME NEW r \in Held, Passed(r)', ~Passed(r) PROVE Accounted(r)'
  <2>1. r = <<at, page, obj, r[4]>> /\ r[4] \in Inside(How)
    BY <1>1, <1>2, <1>5, PassesObject
  <2>2. r[4] = 0
    BY <1>1, <2>1 DEF Inside
  <2>3. QED BY <1>4, <2>1, <2>2 DEF Accounted
<1>6. QED BY <1>1, <1>2, <1>3, <1>5, StepCovers, Known

LEMMA SkipCovers ==
  ASSUME IGaps, DescribeSkips PROVE Covered' /\ GapsExplained'
<1> DEFINE f == <<at, page, obj>>
<1>1. /\ request' = request /\ nameless' = nameless /\ resources' = resources
      /\ pc = "objects" /\ pc' = "objects" /\ obj' = obj + 1
      /\ failed' = failed \cup {f} /\ warned' = warned \cup {f}
      /\ UNCHANGED <<at, page, result>>
  BY DEF DescribeSkips, AtObject, NextObject, Goto, input
<1>2. IInv
  BY DEF IGaps
<1>3. f[1] = at /\ f[2] = page /\ f[3] = obj /\ obj # 0
  BY <1>2, Known
<1> HIDE DEF f
<1>4. ASSUME NEW r \in Held, Passed(r)', ~Passed(r) PROVE Accounted(r)'
  <2>1. r[1] = at /\ r[2] = page /\ r[3] = obj
    BY <1>1, <1>2, <1>4, PassesObject
  <2>2. Explains(f, r)
    BY <1>3, <2>1 DEF Explains
  <2>3. QED BY <1>1, <2>2 DEF Accounted, Explains, Tolerated
<1>5. QED BY <1>1, <1>2, <1>4, StepCovers, Known

LEMMA InsideCovers ==
  ASSUME IGaps, Enter \/ InnerRetries \/ LeaveObject PROVE Covered' /\ GapsExplained'
<1>1. IInv
  BY DEF IGaps
<1>2. /\ request' = request /\ nameless' = nameless /\ resources' = resources
      /\ pc \in {"objects", "inside"} /\ at' = at /\ page' = page /\ result' = result
      /\ failed \subseteq failed' /\ warned \subseteq warned'
      /\ at <= Len(Listings) /\ How.each = "list"
      /\ \/ pc = "objects" /\ pc' = "inside" /\ obj' = obj /\ inner' = 0
         \/ pc = "inside" /\ pc' = "inside" /\ obj' = obj /\ inner' = inner
         \/ pc = "inside" /\ pc' = "objects" /\ obj' = obj + 1 /\ inner = NumPages
  <2>1. CASE Enter
    BY <1>1, <2>1 DEF Enter, AtObject, Goto, input, IInv, Position
  <2>2. CASE InnerRetries
    BY <1>1, <2>2 DEF InnerRetries, IInv, Position
  <2>3. CASE LeaveObject
    BY <1>1, <2>3 DEF LeaveObject, NextObject, Goto, input, IInv, Position
  <2>4. QED BY <2>1, <2>2, <2>3
<1>3. ASSUME NEW r \in Held, Passed(r)', ~Passed(r) PROVE FALSE
  <2>1. /\ r[1] \in Nat /\ r[2] \in Nat /\ r[3] \in Nat /\ r[4] \in Nat
        /\ r \in Holdings(r[1])
    BY <1>1, HeldTypes, Known
  <2>2. r[1] = at /\ r[2] = page /\ r[3] = obj
    <3>1. at \in Nat /\ page \in Nat /\ obj \in Nat
      BY <1>1, Known
    <3>2. r[1] = at /\ r[2] = page /\ ~(r[3] < obj) /\ (r[3] < obj' \/ r[3] = obj')
      BY <1>2, <1>3, <2>1, <3>1 DEF Passed
    <3>3. obj' = obj \/ (obj' = obj + 1 /\ r[3] < obj')
      BY <1>2, <1>3, <2>1, <3>1, <3>2 DEF Passed
    <3>5. QED BY <2>1, <3>1, <3>2, <3>3
  <2>3. r[4] \in 1..NumPages
    BY <1>1, <1>2, <2>1, <2>2, HoldingsOf, NowTypes DEF IInv
  <2>4. QED BY <1>1, <1>2, <1>3, <2>2, <2>3, Known DEF Passed
<1>4. QED BY <1>1, <1>2, <1>3, StepCovers, Known

LEMMA InnerPageCovers ==
  ASSUME IGaps, InnerPage PROVE Covered' /\ GapsExplained'
<1> DEFINE new == <<at, page, obj, inner + 1>>
<1>1. IInv
  BY DEF IGaps
<1>2. /\ request' = request /\ nameless' = nameless
      /\ resources' = IF Named(How, inner + 1 = NumPages) THEN Append(resources, new)
                      ELSE resources
      /\ pc = "inside" /\ pc' = "inside" /\ inner' = inner + 1
      /\ UNCHANGED <<at, page, obj, failed, warned, result>>
  BY DEF InnerPage, Add, Goto, input
<1>3. at <= Len(Listings) /\ How.each = "list"
  BY <1>1, <1>2 DEF IInv, Position
<1>4. ASSUME NEW r \in Held, Passed(r)', ~Passed(r)
      PROVE  r = new /\ Named(How, inner + 1 = NumPages)
  <2>1. /\ r[1] \in Nat /\ r[2] \in Nat /\ r[3] \in Nat /\ r[4] \in Nat
        /\ r \in Holdings(r[1])
    BY <1>1, HeldTypes, Known
  <2>2. r[1] = at /\ r[2] = page /\ r[3] = obj /\ r[4] = inner + 1
    BY SMTT(40), <1>1, <1>2, <1>4, <2>1, Known DEF Passed
  <2>3. r = <<r[1], r[2], r[3], r[4]>> /\ Named(How, r[4] = NumPages)
    <3>1. How = Listings[at].with /\ inner \in Nat
      BY <1>1, <1>3, NowTypes, Known DEF IInv
    <3>2. r[4] # 0
      BY <2>2, <3>1
    <3>3. QED BY <2>1, <2>2, <3>1, <3>2, HoldingsOf
  <2>4. QED BY <2>2, <2>3
<1> HIDE DEF new
<1>5. ASSUME NEW r \in Held, Passed(r)', ~Passed(r) PROVE Accounted(r)'
  <2>1. r = new /\ resources' = Append(resources, r)
    BY <1>2, <1>4, <1>5
  <2>2. resources \in Seq(Held)
    BY <1>1, Known
  <2>3. Len(resources) + 1 \in DOMAIN resources' /\ resources'[Len(resources) + 1] = r
    BY <2>1, <2>2
  <2>4. QED BY <2>3 DEF Accounted, Range
<1>6. CASE Named(How, inner + 1 = NumPages)
  <2>1. new \in Held
    <3>1. /\ at \in DOMAIN Listings /\ How = Listings[at].with /\ Pages(How) \in Nat \ {0}
          /\ How.list = "paged" => Pages(How) = NumPages
          /\ Inside(How) = 1..NumPages
      BY <1>1, <1>3, NowTypes DEF IInv
    <3>2. page \in 1..Pages(How) /\ obj \in 1..PerPage /\ inner + 1 \in 1..NumPages /\ Wanted
      <4>1. inner < NumPages
        BY DEF InnerPage
      <4>2. QED BY SMTT(40), <1>1, <1>2, <3>1, <4>1, Known DEF IInv, Position
    <3>3. new \in Holdings(at)
      BY <1>3, <1>6, <3>1, <3>2, InHoldings DEF Wanted, new
    <3>4. QED BY <3>1, <3>3 DEF Held
  <2>2. QED BY <1>1, <1>2, <1>5, <1>6, <2>1, StepCovers, Known
<1>7. CASE ~Named(How, inner + 1 = NumPages)
  BY <1>1, <1>2, <1>5, <1>7, StepCovers, Known
<1>8. QED BY <1>6, <1>7

LEMMA PageDoneCovers ==
  ASSUME IGaps, PageDone PROVE Covered' /\ GapsExplained'
<1>1. IInv
  BY DEF IGaps
<1>2. /\ request' = request /\ nameless' = nameless /\ resources' = resources
      /\ pc = "objects" /\ obj > PerPage /\ failed' = failed /\ warned' = warned
      /\ at <= Len(Listings) /\ page >= 1 /\ (page = 1 \/ How.list = "paged")
  BY <1>1 DEF PageDone, input, IInv, Position
<1>3. CASE MorePages(How)
  <2>1. pc' = "list" /\ UNCHANGED <<at, page, obj, inner, result>>
    BY <1>3 DEF PageDone, Goto
  <2>2. ASSUME NEW r \in Held, Passed(r)' PROVE Passed(r)
    <3>1. r[3] \in Nat /\ r[3] <= PerPage
      BY <1>1, HeldTypes, Known
    <3>2. QED BY <1>1, <1>2, <2>1, <2>2, <3>1, Known DEF Passed
  <2>3. QED BY <1>1, <1>2, <2>1, <2>2, StepCovers, Known
<1>4. CASE ~MorePages(How)
  <2>1. EndListing
    BY <1>4 DEF PageDone
  <2>2. result' = "none" /\ \A r \in Held : Passed(r)' => r[1] <= at
    BY <1>1, <1>2, <2>1, EndsListing
  <2>3. Pages(How) <= page \/ (How.list = "first" /\ page = 1)
    <3>1. How \in Collectors
      BY <1>1, <1>2, NowTypes DEF IInv
    <3>2. page \in Nat /\ NumPages \in Nat
      BY <1>1, Known
    <3>3. QED BY <1>2, <1>4, <3>1, <3>2 DEF MorePages, Pages, Collectors
  <2>4. ASSUME NEW r \in Held, Passed(r)', ~Passed(r) PROVE Accounted(r)'
    <3>1. /\ r[1] \in Nat /\ r[2] \in Nat /\ r[3] \in Nat /\ r[3] <= PerPage
          /\ r \in Holdings(r[1])
      BY <1>1, HeldTypes, Known
    <3>2. r[1] <= at
      BY <2>2, <2>4
    <3>3. /\ at \in Nat /\ page \in Nat /\ obj \in Nat /\ PerPage \in Nat
      BY <1>1, Known
    <3>4. r[1] = at /\ page < r[2]
      BY <1>2, <2>4, <3>1, <3>2, <3>3 DEF Passed
    <3>5. How = Listings[at].with /\ Pages(How) \in Nat
      BY <1>1, <1>2, NowTypes DEF IInv
    <3>6. r[2] \in 1..Pages(How)
      BY <3>1, <3>4, <3>5, HoldingsOf
    <3>7. How.list = "first" /\ page = 1
      BY <2>3, <3>1, <3>3, <3>4, <3>5, <3>6
    <3>8. CutOff(r)
      <4>1. TypeOf(r) \in Yields(Listings[r[1]].with)
        BY <1>1, TypeYielded DEF IInv, TypeOK
      <4>2. Yields(How) \subseteq CutShort
        <5>1. How \in Collectors
          BY <1>1, <1>2, NowTypes DEF IInv
        <5>2. QED BY <3>7, <5>1 DEF Collectors
      <4>3. QED BY <3>1, <3>3, <3>4, <3>5, <3>7, <4>1, <4>2 DEF CutOff
    <3>9. CutOff(r)'
      <4>1. Listings' = Listings
        BY <1>2, Fixed
      <4>2. QED BY <3>8, <4>1 DEF CutOff, TypeOf
    <3>10. QED BY <3>9 DEF Accounted
  <2>5. QED BY <1>1, <1>2, <2>2, <2>4, StepCovers, Known
<1>5. QED BY <1>3, <1>4

LEMMA WaitCovers ==
  ASSUME IGaps, Wait PROVE Covered' /\ GapsExplained'
<1>1. IInv
  BY DEF IGaps
<1>2. /\ request' = request /\ nameless' = nameless /\ resources' = resources
      /\ pc = "wait" /\ pc' = "list" /\ at' = at + 1 /\ page' = 0
      /\ UNCHANGED <<obj, inner, failed, warned, result>>
  BY <1>1 DEF Wait, input, IInv, Position
<1>3. ASSUME NEW r \in Held, Passed(r)' PROVE Passed(r)
  <2>1. r[1] \in Nat /\ r[2] \in Nat /\ r[2] >= 1
    BY <1>1, HeldTypes, Known
  <2>2. QED BY SMTT(40), <1>1, <1>2, <1>3, <2>1, Known DEF Passed
<1>4. QED BY <1>1, <1>2, <1>3, StepCovers, Known

\* When the program is done, everything that is held has been passed.
LEMMA FinishCovers ==
  ASSUME IGaps, Finish PROVE Covered' /\ GapsExplained'
<1>1. IInv
  BY DEF IGaps
<1>2. /\ request' = request /\ nameless' = nameless /\ resources' = resources
      /\ pc = "list" /\ pc' = "returned" /\ at > Len(Listings)
      /\ failed' = failed /\ warned' = warned
  BY DEF Finish, Return, input
<1>3. Listings' = Listings /\ Held' = Held
  BY <1>2, Fixed
<1>4. ASSUME NEW r \in Held \ Range(resources) PROVE r \in Excused
  <2>1. r[1] \in DOMAIN Listings /\ r \in Holdings(r[1])
    BY <1>1, HeldTypes, Known
  <2>2. r[1] < at
    <3>1. DOMAIN Listings = 1..Len(Listings) /\ Len(Listings) \in Nat /\ at \in Nat
      BY <1>1, Known, ListingsType
    <3>2. QED BY <1>2, <2>1, <3>1
  <2>3. Accounted(r)
    BY <1>2, <2>1, <2>2 DEF IGaps, Covered, Passed
  <2>4. QED BY <2>3 DEF Accounted, Excused
<1>5. Missing' = Held \ Range(resources) /\ Excused' = Excused
  BY <1>2, <1>3 DEF Missing, Excused, Explains, Tolerated, CutOff, TypeOf
<1>6. GapsExplained'
  BY <1>4, <1>5 DEF GapsExplained
<1>7. QED BY <1>2, <1>6 DEF Covered

LEMMA StutterCovers ==
  ASSUME IGaps, UNCHANGED vars PROVE Covered' /\ GapsExplained'
<1>1. UNCHANGED <<request, nameless, pc, at, page, obj, inner, resources, failed, warned, result>>
  BY DEF vars, input
<1>2. Listings' = Listings /\ Held' = Held /\ \A u : Holdings(u)' = Holdings(u)
  BY <1>1, Fixed
<1>3. \A r : (Passed(r)' <=> Passed(r)) /\ (Accounted(r)' <=> Accounted(r))
  BY <1>1, <1>2 DEF Passed, Accounted, Explains, Tolerated, CutOff, TypeOf
<1>4. Missing' = Missing /\ Excused' = Excused
  BY <1>1, <1>2 DEF Missing, Held, Excused, Explains, Tolerated, CutOff, TypeOf
<1>5. QED BY <1>1, <1>2, <1>3, <1>4 DEF IGaps, Covered, GapsExplained

(* What the collection of a successful call lacks is explained, object by  *)
(* object, by a failure, or is beyond the first page and of one of the     *)
(* twelve types that are cut short: for every request, and however many    *)
(* pages and objects the services have.                                    *)
THEOREM GapsAreExplained == Spec => []GapsExplained
<1>1. Init => Covered /\ GapsExplained
  <2> SUFFICES ASSUME Init PROVE Covered /\ GapsExplained
    OBVIOUS
  <2>1. request \in Requests /\ at = 1 /\ page = 0 /\ pc = "list" /\ result = "none"
    BY DEF Init
  <2>2. ASSUME NEW r \in Held PROVE ~Passed(r)
    <3>1. r[1] \in DOMAIN Listings /\ r[1] \in Nat /\ r[2] \in Nat /\ r[2] >= 1
      BY <2>1, HeldTypes
    <3>2. DOMAIN Listings = 1..Len(Listings) /\ Len(Listings) \in Nat
      BY <2>1, ListingsType
    <3>3. QED BY <2>1, <3>1, <3>2 DEF Passed
  <2>3. QED BY <2>1, <2>2 DEF Covered, GapsExplained, Held
<1>2. IInv /\ Covered /\ GapsExplained /\ [Next]_vars => Covered' /\ GapsExplained'
  <2>1. ASSUME IGaps, [Next]_vars PROVE Covered' /\ GapsExplained'
    BY <2>1, ListPageCovers, AbortCovers, StopCovers, PassOverCovers, AddObjectCovers,
       SkipCovers, InsideCovers, InnerPageCovers, PageDoneCovers, WaitCovers, FinishCovers,
       StutterCovers DEF Next, Terminating
  <2>2. QED BY <2>1 DEF IGaps
<1>3. QED BY <1>1, <1>2, Inductive, PTL DEF Spec

-----------------------------------------------------------------------------
(* The types of what is collected.                                         *)

(* Nothing is collected of a type that was not asked for, in every request *)
(* of every provider; but that one call lists two kinds of load balancers, *)
(* so that asking for one brings the other.                                *)
THEOREM OnlyRequested == Spec => []OnlyRequestedTypes
<1>1. ASSUME TypeOK PROVE OnlyRequestedTypes
  <2> SUFFICES ASSUME NEW i \in DOMAIN resources
               PROVE  TypeOf(resources[i]) \in Brought(Asked(request))
    BY DEF OnlyRequestedTypes
  <2>1. PICK r : r = resources[i]
    OBVIOUS
  <2>2. request \in Requests /\ r \in Held
    BY <1>1, <2>1 DEF TypeOK
  <2>3. r[1] \in DOMAIN Listings /\ r \in Holdings(r[1])
    BY <2>2, HeldTypes
  <2>4. Listings[r[1]].with.each # "name"
    BY <2>3, HoldingsOf
  <2>5. Yields(Listings[r[1]].with) \subseteq Brought(Asked(request))
    BY <2>2, <2>3, <2>4, YieldsAsked DEF Listings, Program
  <2>6. QED BY <2>1, <2>2, <2>5, TypeYielded
<1>2. QED BY <1>1, TypeCorrect, PTL
-----------------------------------------------------------------------------
(* Every supported type is listed.                                         *)

\* One of the objects that a collector lists is of this type, and it adds objects.
BothBalancers == <<"aws:elb:application", "aws:elb:network">>
Lists(c, t) ==
  /\ c.each # "name"
  /\ \/ c.yields = <<t>>
     \/ c.yields = BothBalancers /\ t \in Balancers /\ ~c.checksId
Provides(s, t) == s.listings # <<>> /\ Lists(s.listings[1], t) /\ t \in s.when
\* Some of the steps is for it.
Offered(steps, t) == \E j \in DOMAIN steps : Provides(steps[j], t)

LEMMA ModifierEach ==
  ASSUME NEW c \in Collectors, c.each # "name"
  PROVE  /\ Described(c).each # "name" /\ Identified(c).each # "name"
         /\ StopOnError(c).each # "name"
         /\ [c EXCEPT !.list = "first"].each # "name"
         /\ [c EXCEPT !.list = "whole"].each # "name"
         /\ [c EXCEPT !.list = "static"].each # "name"
         /\ [c EXCEPT !.list = "static", !.each = "describe"].each # "name"
         /\ [c EXCEPT !.each = "list", !.eachError = "retry"].each # "name"
BY DEF Described, Identified, StopOnError, Collectors

Adds(c, t) == Collects(c, t) /\ c.each # "name"

LEMMA AddsOne ==
  ASSUME NEW t \in ResourceTypes
  PROVE  /\ Adds(Paged(t), t) /\ Adds(InOneAnswer(t), t)
         /\ t \in CutShort => /\ Adds(FirstPage(t), t)
                             /\ Adds(Described(FirstPage(t)), t)
                             /\ Adds(Identified(FirstPage(t)), t)
         /\ Adds([Paged(t) EXCEPT !.list = "static"], t)
         /\ Adds(Described(Paged(t)), t) /\ Adds(Identified(Paged(t)), t)
         /\ Adds(Identified(Described(Paged(t))), t)
         /\ Adds(StopOnError(Paged(t)), t)
         /\ Adds([Paged(t) EXCEPT !.list = "static", !.each = "describe"], t)
         /\ Adds([Identified(Paged(t)) EXCEPT !.each = "list", !.eachError = "retry"], t)
<1>1. ASSUME NEW c, Adds(c, t)
      PROVE  /\ Adds(Described(c), t) /\ Adds(Identified(c), t) /\ Adds(StopOnError(c), t)
             /\ Adds([c EXCEPT !.list = "static"], t)
             /\ Adds([c EXCEPT !.list = "static", !.each = "describe"], t)
             /\ Adds([c EXCEPT !.each = "list", !.eachError = "retry"], t)
  BY <1>1, ModifierTypes, ModifierEach DEF Adds, Collects
<1>2. Adds(Paged(t), t)
  <2>1. Paged(t).each # "name"
    BY DEF Paged
  <2>2. QED BY <2>1, CollectsOne DEF Adds
<1>3. Adds(InOneAnswer(t), t) /\ (t \in CutShort => Adds(FirstPage(t), t))
  <2>1. Paged(t) \in Collectors /\ Paged(t).each # "name"
    BY PagedType DEF Paged
  <2>2. InOneAnswer(t).each # "name" /\ FirstPage(t).each # "name"
    BY <2>1, ModifierEach DEF InOneAnswer, FirstPage
  <2>3. QED BY <2>2, CollectsOne DEF Adds
<1>4. QED BY <1>1, <1>2, <1>3

LEMMA ProvidesOne ==
  ASSUME NEW c, NEW t, Adds(c, t)
  PROVE  /\ Provides(Step(c), t)
         /\ \A l : l # <<>> /\ l[1] = c => Provides([Step(c) EXCEPT !.listings = l], t)
<1>1. c.yields = <<t>> /\ c.each # "name"
  BY DEF Adds, Collects
<1>2. DOMAIN <<t>> = {1} /\ <<t>>[1] = t
  OBVIOUS
<1>3. t \in {c.yields[i] : i \in DOMAIN c.yields}
  <2>1. 1 \in DOMAIN c.yields /\ c.yields[1] = t
    BY <1>1, <1>2
  <2>2. QED BY <2>1
<1>4. PICK w : w = {c.yields[i] : i \in DOMAIN c.yields}
  OBVIOUS
<1>5. Step(c) = [when |-> w, listings |-> <<c>>]
  BY <1>4 DEF Step
<1>6. Lists(c, t)
  BY <1>1 DEF Lists
<1>7. <<c>> # <<>> /\ <<c>>[1] = c
  OBVIOUS
<1>8. ASSUME NEW k, k # <<>>, k[1] = c PROVE Provides([when |-> w, listings |-> k], t)
  BY <1>3, <1>4, <1>6, <1>8 DEF Provides
<1>9. ASSUME NEW l, l # <<>>, l[1] = c
      PROVE  Provides([Step(c) EXCEPT !.listings = l], t)
  <2>1. [Step(c) EXCEPT !.listings = l] = [when |-> w, listings |-> l]
    BY <1>4, WithListings DEF Step
  <2>2. QED BY <1>8, <1>9, <2>1
<1>10. Provides(Step(c), t)
  BY <1>5, <1>7, <1>8
<1>11. QED BY <1>9, <1>10

\* A step of one collector.
LEMMA ProvidesStep ==
  ASSUME NEW c, NEW t, Adds(c, t)
  PROVE  Provides(Step(c), t)
BY ProvidesOne

LEMMA ProvidesAgain ==
  ASSUME NEW c, NEW t, Adds(c, t), NEW n \in Nat \ {0}
  PROVE  Provides(Again(c, n), t)
<1> DEFINE l == [i \in 1..n |-> c]
<1>1. l # <<>> /\ l[1] = c
  <2>1. DOMAIN l = 1..n /\ 1 \in 1..n
    OBVIOUS
  <2>2. QED BY <2>1
<1>2. Again(c, n) = [Step(c) EXCEPT !.listings = l]
  BY DEF Again
<1> HIDE DEF l
<1>3. QED BY <1>1, <1>2, ProvidesOne

LEMMA AWSOffers ==
  \A t \in Supported("aws") : Offered(AWSGlobal, t) \/ Offered(AWSRegional, t)
<1>1. /\ Provides(Step(AWSIAMUsers), "aws:iam:user")
      /\ Provides(Step(AWSIAMRoles), "aws:iam:role")
      /\ Provides(Step(AWSAccounts), "aws:account")
      /\ Provides(Step(AWSDistributions), "aws:cloudfront:distribution")
  BY AWSTypes, AddsOne, ProvidesStep
     DEF AWSIAMUsers, AWSIAMRoles, AWSAccounts, AWSDistributions
<1>2. /\ Provides(Step(AWSVPCs), "aws:ec2:vpc")
      /\ Provides(Step(AWSSubnets), "aws:ec2:subnet")
      /\ Provides(Step(AWSSecurityGroups), "aws:ec2:security-group")
      /\ Provides(Step(AWSEC2Instances), "aws:ec2:instance")
  BY AWSTypes, AddsOne, ProvidesStep
     DEF AWSVPCs, AWSSubnets, AWSSecurityGroups, AWSEC2Instances, CutShort
<1>3. /\ Provides(Step(AWSRepositories), "aws:ecr:repository")
      /\ Provides(Step(AWSEKSClusters), "aws:eks:cluster")
      /\ Provides(Step(AWSClassicLBs), "aws:elb:classic")
      /\ Provides(Step(AWSLambdaFunctions), "aws:lambda:function")
  BY AWSTypes, AddsOne, ProvidesStep
     DEF AWSRepositories, AWSEKSClusters, AWSClassicLBs, AWSLambdaFunctions
<1>4. /\ Provides(Step(AWSMemoryDBClusters), "aws:memorydb:cluster")
      /\ Provides(Step(AWSElastiCache), "aws:elasticache:cluster")
      /\ Provides(Step(AWSSecrets), "aws:secretsmanager:secret")
      /\ Provides(Step(AWSSNSTopics), "aws:sns:topic")
      /\ Provides(Step(AWSSQSQueues), "aws:sqs:queue")
      /\ Provides(Step(AWSDynamoDBTables), "aws:dynamodb:table")
  BY AWSTypes, AddsOne, ProvidesStep
     DEF AWSMemoryDBClusters, AWSElastiCache, AWSSecrets, AWSSNSTopics, AWSSQSQueues,
         AWSDynamoDBTables, CutShort
<1>5. ASSUME NEW t \in Balancers PROVE Provides(Step(AWSLoadBalancersV2), t)
  <2> DEFINE c == AWSLoadBalancersV2
             p == Paged("aws:elb:application")
  <2>1. c = [p EXCEPT !.yields = BothBalancers]
    BY DEF AWSLoadBalancersV2, BothBalancers
  <2>2. c.yields = BothBalancers /\ c.each # "name" /\ ~c.checksId
    BY <2>1 DEF Paged
  <2> HIDE DEF c
  <2>3. Lists(c, t)
    BY <1>5, <2>2 DEF Lists
  <2>4. t \in {c.yields[i] : i \in DOMAIN c.yields}
    <3>1. DOMAIN BothBalancers = 1..2 /\ 1 \in 1..2 /\ 2 \in 1..2
      BY DEF BothBalancers
    <3>2. BothBalancers[1] = "aws:elb:application" /\ BothBalancers[2] = "aws:elb:network"
      BY DEF BothBalancers
    <3>3. QED BY <1>5, <2>2, <3>1, <3>2 DEF Balancers
  <2>5. Step(c).when = {c.yields[i] : i \in DOMAIN c.yields} /\ Step(c).listings = <<c>>
    BY DEF Step
  <2>6. <<c>> # <<>> /\ <<c>>[1] = c
    OBVIOUS
  <2>7. QED BY <2>3, <2>4, <2>5, <2>6 DEF Provides, c
<1> DEFINE api == [Step(AWSRESTAPIs) EXCEPT !.listings = <<AWSRESTAPIs, AWSHTTPAPIs>>]
<1>6. Provides(api, "aws:apigateway:api")
  <2>1. Adds(AWSRESTAPIs, "aws:apigateway:api")
    BY AWSTypes, AddsOne DEF AWSRESTAPIs
  <2>2. PICK l : l = <<AWSRESTAPIs, AWSHTTPAPIs>>
    OBVIOUS
  <2>3. l # <<>> /\ l[1] = AWSRESTAPIs
    BY <2>2
  <2>4. Provides([Step(AWSRESTAPIs) EXCEPT !.listings = l], "aws:apigateway:api")
    BY <2>1, <2>3, ProvidesOne
  <2>5. QED BY <2>2, <2>4
<1>7. /\ DOMAIN AWSGlobal = 1..4
      /\ AWSGlobal[1] = Step(AWSIAMUsers) /\ AWSGlobal[2] = Step(AWSIAMRoles)
      /\ AWSGlobal[3] = Step(AWSAccounts) /\ AWSGlobal[4] = Step(AWSDistributions)
  BY DEF AWSGlobal
<1> HIDE DEF api
<1>8. /\ DOMAIN AWSRegional = 1..16
      /\ AWSRegional[1] = Step(AWSVPCs) /\ AWSRegional[2] = Step(AWSSubnets)
      /\ AWSRegional[3] = Step(AWSSecurityGroups) /\ AWSRegional[4] = Step(AWSEC2Instances)
      /\ AWSRegional[5] = Step(AWSRepositories) /\ AWSRegional[6] = Step(AWSEKSClusters)
      /\ AWSRegional[7] = Step(AWSClassicLBs) /\ AWSRegional[8] = Step(AWSLoadBalancersV2)
      /\ AWSRegional[9] = Step(AWSLambdaFunctions) /\ AWSRegional[10] = api
      /\ AWSRegional[11] = Step(AWSMemoryDBClusters) /\ AWSRegional[12] = Step(AWSElastiCache)
      /\ AWSRegional[13] = Step(AWSSecrets) /\ AWSRegional[14] = Step(AWSSNSTopics)
      /\ AWSRegional[15] = Step(AWSSQSQueues) /\ AWSRegional[16] = Step(AWSDynamoDBTables)
  BY DEF AWSRegional, api
<1>9. \A t \in {"aws:iam:user", "aws:iam:role", "aws:account", "aws:cloudfront:distribution"} :
        Offered(AWSGlobal, t)
  <2>1. 1 \in 1..4 /\ 2 \in 1..4 /\ 3 \in 1..4 /\ 4 \in 1..4
    OBVIOUS
  <2>2. QED BY <1>1, <1>7, <2>1 DEF Offered
<1>10. \A n \in 1..16 : \A t : Provides(AWSRegional[n], t) => Offered(AWSRegional, t)
  BY <1>8 DEF Offered
<1>11. \A t \in {"aws:ec2:vpc", "aws:ec2:subnet", "aws:ec2:security-group", "aws:ec2:instance",
                 "aws:ecr:repository", "aws:eks:cluster", "aws:elb:classic"} \cup Balancers :
         Offered(AWSRegional, t)
  <2>1. 1 \in 1..16 /\ 2 \in 1..16 /\ 3 \in 1..16 /\ 4 \in 1..16 /\ 5 \in 1..16
        /\ 6 \in 1..16 /\ 7 \in 1..16 /\ 8 \in 1..16
    OBVIOUS
  <2>2. QED BY <1>2, <1>3, <1>5, <1>8, <1>10, <2>1
<1>12. \A t \in {"aws:lambda:function", "aws:apigateway:api", "aws:memorydb:cluster",
                 "aws:elasticache:cluster", "aws:secretsmanager:secret", "aws:sns:topic",
                 "aws:sqs:queue", "aws:dynamodb:table"} :
         Offered(AWSRegional, t)
  <2>1. 9 \in 1..16 /\ 10 \in 1..16 /\ 11 \in 1..16 /\ 12 \in 1..16 /\ 13 \in 1..16
        /\ 14 \in 1..16 /\ 15 \in 1..16 /\ 16 \in 1..16
    OBVIOUS
  <2>2. QED BY <1>3, <1>4, <1>6, <1>8, <1>10, <2>1
<1>13. QED BY <1>9, <1>11, <1>12 DEF Supported, Balancers

LEMMA AzureOffers ==
  \A t \in Supported("azure") \ {"azure:network:subnet"} : Offered(AzureSteps, t)
<1>1. /\ Provides(Step(AzureResourceGroups), "azure:resourcegroup")
      /\ Provides(Step(AzureVMs), "azure:compute:vm")
      /\ Provides(Step(AzureVNets), "azure:network:vnet")
      /\ Provides(Step(AzureStorageAccounts), "azure:storage:account")
      /\ Provides(Step(AzureAppServices), "azure:web:appservice")
      /\ Provides(Step(AzureSQLDatabases), "azure:sql:database")
      /\ Provides(Step(AzureKeyVaults), "azure:keyvault:vault")
  BY AzureTypes, AddsOne, ProvidesStep DEF AzureResourceGroups, AzureVMs, AzureVNets,
     AzureStorageAccounts, AzureAppServices, AzureSQLDatabases, AzureKeyVaults
<1>2. /\ DOMAIN AzureSteps = 1..7
      /\ AzureSteps[1] = Step(AzureResourceGroups) /\ AzureSteps[2] = Step(AzureVMs)
      /\ AzureSteps[3] = Step(AzureVNets) /\ AzureSteps[4] = Step(AzureStorageAccounts)
      /\ AzureSteps[5] = Step(AzureAppServices) /\ AzureSteps[6] = Step(AzureSQLDatabases)
      /\ AzureSteps[7] = Step(AzureKeyVaults)
  BY DEF AzureSteps
<1>3. 1 \in 1..7 /\ 2 \in 1..7 /\ 3 \in 1..7 /\ 4 \in 1..7 /\ 5 \in 1..7 /\ 6 \in 1..7 /\ 7 \in 1..7
  OBVIOUS
<1>4. \A t \in {"azure:resourcegroup", "azure:compute:vm", "azure:network:vnet",
                "azure:storage:account", "azure:web:appservice", "azure:sql:database",
                "azure:keyvault:vault"} : Offered(AzureSteps, t)
  BY <1>1, <1>2, <1>3 DEF Offered
<1>5. QED BY <1>4 DEF Supported

LEMMA GCPOffers ==
  \A t \in Supported("gcp") \ {"gcp:project"} : Offered(GCPGlobal, t) \/ Offered(GCPRegional, t)
<1>1. /\ Provides(Step(GCPNetworks), "gcp:compute:network")
      /\ Provides(Step(GCPBuckets), "gcp:storage:bucket")
      /\ Provides(Step(GCPSubnetworks), "gcp:compute:subnetwork")
      /\ Provides(Step(GCPFunctions), "gcp:cloudfunctions:function")
      /\ Provides(Step(GCPRunServices), "gcp:run:service")
  BY GCPTypes, AddsOne, ProvidesStep DEF GCPNetworks, GCPBuckets, GCPSubnetworks,
     GCPFunctions, GCPRunServices
<1>2. Provides(Again(GCPInstances, GCPZones), "gcp:compute:instance")
  <2>1. Adds(GCPInstances, "gcp:compute:instance")
    BY GCPTypes, AddsOne DEF GCPInstances
  <2>2. QED BY <2>1, ProvidesAgain DEF GCPZones
<1>3. /\ DOMAIN GCPGlobal = 1..2
      /\ GCPGlobal[1] = Step(GCPNetworks) /\ GCPGlobal[2] = Step(GCPBuckets)
      /\ DOMAIN GCPRegional = 1..4
      /\ GCPRegional[1] = Again(GCPInstances, GCPZones) /\ GCPRegional[2] = Step(GCPSubnetworks)
      /\ GCPRegional[3] = Step(GCPFunctions) /\ GCPRegional[4] = Step(GCPRunServices)
  BY DEF GCPGlobal, GCPRegional
<1>4. 1 \in 1..2 /\ 2 \in 1..2 /\ 1 \in 1..4 /\ 2 \in 1..4 /\ 3 \in 1..4 /\ 4 \in 1..4
  OBVIOUS
<1>5. /\ \A t \in {"gcp:compute:network", "gcp:storage:bucket"} : Offered(GCPGlobal, t)
      /\ \A t \in {"gcp:compute:instance", "gcp:compute:subnetwork",
                   "gcp:cloudfunctions:function", "gcp:run:service"} : Offered(GCPRegional, t)
  BY <1>1, <1>2, <1>3, <1>4 DEF Offered
<1>6. QED BY <1>5 DEF Supported

LEMMA GitHubOffers ==
  \A t \in Supported("github") :
    Offered(<<Step(GitHubOrganizations)>>, t) \/ Offered(GitHubPerOrg, t)
<1>1. /\ Provides(Step(GitHubOrganizations), "github:organization")
      /\ Provides(Step(GitHubRepositories), "github:repository")
      /\ Provides(Step(GitHubTeams), "github:team")
      /\ Provides(Step(GitHubUsers), "github:user")
  BY GitHubTypes, AddsOne, ProvidesStep DEF GitHubOrganizations, GitHubRepositories,
     GitHubTeams, GitHubUsers
<1>2. /\ DOMAIN GitHubPerOrg = 1..3 /\ GitHubPerOrg[1] = Step(GitHubRepositories)
      /\ GitHubPerOrg[2] = Step(GitHubTeams) /\ GitHubPerOrg[3] = Step(GitHubUsers)
  BY DEF GitHubPerOrg
<1>3. 1 \in 1..3 /\ 2 \in 1..3 /\ 3 \in 1..3
  OBVIOUS
<1>4. DOMAIN <<Step(GitHubOrganizations)>> = {1}
      /\ <<Step(GitHubOrganizations)>>[1] = Step(GitHubOrganizations)
  OBVIOUS
<1>5. /\ Offered(<<Step(GitHubOrganizations)>>, "github:organization")
      /\ \A t \in {"github:repository", "github:team", "github:user"} : Offered(GitHubPerOrg, t)
  BY <1>1, <1>2, <1>3, <1>4 DEF Offered
<1>6. QED BY <1>5 DEF Supported

LEMMA OthersOffer ==
  /\ \A n \in Nat : \A t \in Supported("gitlab") : Offered(GitLabSteps(n), t)
  /\ \A t \in Supported("jfrog") : Offered(JFrogSteps, t)
  /\ \A t \in Supported("okta") : Offered(OktaSteps, t)
  /\ \A t \in Supported("auth0") : Offered(Auth0Steps, t)
<1>1. 1 \in 1..3 /\ 2 \in 1..3 /\ 3 \in 1..3
  OBVIOUS
<1>2. 1 \in 1..4 /\ 2 \in 1..4 /\ 3 \in 1..4 /\ 4 \in 1..4
  OBVIOUS
<1>3. 1 \in 1..5 /\ 2 \in 1..5 /\ 3 \in 1..5 /\ 4 \in 1..5 /\ 5 \in 1..5
  OBVIOUS
<1>4. ASSUME NEW n \in Nat
      PROVE  \A t \in Supported("gitlab") : Offered(GitLabSteps(n), t)
  <2> DEFINE m == IF n > 0 THEN n ELSE 1
             s == GitLabSteps(n)
  <2>1. m \in Nat \ {0}
    OBVIOUS
  <2>2. /\ DOMAIN s = 1..3 /\ s[1] = Step(GitLabGroups) /\ s[2] = Again(GitLabProjects, m)
        /\ s[3] = Step(GitLabUsers)
    BY DEF GitLabSteps
  <2> HIDE DEF m, s
  <2>3. /\ Adds(GitLabGroups, "gitlab:group") /\ Adds(GitLabProjects, "gitlab:project")
        /\ Adds(GitLabUsers, "gitlab:user")
    BY GitLabTypes, AddsOne DEF GitLabGroups, GitLabProjects, GitLabUsers
  <2>4. /\ Provides(s[1], "gitlab:group") /\ Provides(s[2], "gitlab:project")
        /\ Provides(s[3], "gitlab:user")
    BY <2>1, <2>2, <2>3, ProvidesStep, ProvidesAgain
  <2>5. \A t \in {"gitlab:group", "gitlab:project", "gitlab:user"} : Offered(s, t)
    BY <1>1, <2>2, <2>4 DEF Offered
  <2>6. QED BY <2>5 DEF Supported, s
<1>5. \A t \in Supported("jfrog") : Offered(JFrogSteps, t)
  <2>1. /\ DOMAIN JFrogSteps = 1..4
        /\ JFrogSteps[1] = Step(JFrogRepositories) /\ JFrogSteps[2] = Step(JFrogUsers)
        /\ JFrogSteps[3] = Step(JFrogGroups) /\ JFrogSteps[4] = Step(JFrogPermissions)
    BY DEF JFrogSteps
  <2>2. /\ Provides(Step(JFrogRepositories), "jfrog:repository")
        /\ Provides(Step(JFrogUsers), "jfrog:user") /\ Provides(Step(JFrogGroups), "jfrog:group")
        /\ Provides(Step(JFrogPermissions), "jfrog:permission")
    BY JFrogTypes, AddsOne, ProvidesStep
       DEF JFrogRepositories, JFrogUsers, JFrogGroups, JFrogPermissions
  <2>3. \A t \in {"jfrog:repository", "jfrog:user", "jfrog:group", "jfrog:permission"} :
          Offered(JFrogSteps, t)
    BY <1>2, <2>1, <2>2 DEF Offered
  <2>4. QED BY <2>3 DEF Supported
<1>6. \A t \in Supported("okta") : Offered(OktaSteps, t)
  <2>1. /\ DOMAIN OktaSteps = 1..4
        /\ OktaSteps[1] = Step(OktaUsers) /\ OktaSteps[2] = Step(OktaGroups)
        /\ OktaSteps[3] = Step(OktaApplications) /\ OktaSteps[4] = Step(OktaAuthorizationServers)
    BY DEF OktaSteps
  <2>2. /\ Provides(Step(OktaUsers), "okta:user") /\ Provides(Step(OktaGroups), "okta:group")
        /\ Provides(Step(OktaApplications), "okta:application")
        /\ Provides(Step(OktaAuthorizationServers), "okta:authorizationserver")
    BY OktaTypes, AddsOne, ProvidesStep
       DEF OktaUsers, OktaGroups, OktaApplications, OktaAuthorizationServers, CutShort
  <2>3. \A t \in {"okta:user", "okta:group", "okta:application", "okta:authorizationserver"} :
          Offered(OktaSteps, t)
    BY <1>2, <2>1, <2>2 DEF Offered
  <2>4. QED BY <2>3 DEF Supported
<1>7. \A t \in Supported("auth0") : Offered(Auth0Steps, t)
  <2>1. /\ DOMAIN Auth0Steps = 1..5
        /\ Auth0Steps[1] = Step(Auth0Users) /\ Auth0Steps[2] = Step(Auth0Roles)
        /\ Auth0Steps[3] = Step(Auth0Clients) /\ Auth0Steps[4] = Step(Auth0ResourceServers)
        /\ Auth0Steps[5] = Step(Auth0Connections)
    BY DEF Auth0Steps
  <2>2. /\ Provides(Step(Auth0Users), "auth0:user") /\ Provides(Step(Auth0Roles), "auth0:role")
        /\ Provides(Step(Auth0Clients), "auth0:client")
        /\ Provides(Step(Auth0ResourceServers), "auth0:resourceserver")
        /\ Provides(Step(Auth0Connections), "auth0:connection")
    BY Auth0Types, AddsOne, ProvidesStep DEF Auth0Users, Auth0Roles, Auth0Clients,
       Auth0ResourceServers, Auth0Connections, CutShort
  <2>3. \A t \in {"auth0:user", "auth0:role", "auth0:client", "auth0:resourceserver",
                 "auth0:connection"} : Offered(Auth0Steps, t)
    BY <1>3, <2>1, <2>2 DEF Offered
  <2>4. QED BY <2>3 DEF Supported
<1>8. QED BY <1>4, <1>5, <1>6, <1>7

LEMMA AllOffered ==
  ASSUME NEW p \in Providers, NEW n \in Nat, NEW t \in Supported(p) \ Unlisted
  PROVE  Offered(GlobalSteps(p, n), t) \/ Offered(ScopedSteps(p), t)
<1>1. CASE p = "aws"
  BY <1>1, AWSOffers DEF GlobalSteps, ScopedSteps
<1>2. CASE p = "azure"
  BY <1>2, AzureOffers DEF GlobalSteps, Unlisted
<1>3. CASE p = "gcp"
  BY <1>3, GCPOffers DEF GlobalSteps, ScopedSteps, Unlisted
<1>4. CASE p = "github"
  BY <1>4, GitHubOffers DEF GlobalSteps, ScopedSteps
<1>5. CASE p \in {"gitlab", "jfrog", "okta", "auth0"}
  BY <1>5, OthersOffer DEF GlobalSteps
<1>6. QED BY <1>1, <1>2, <1>3, <1>4, <1>5 DEF Providers

\* What some step is for is listed, if it was asked for.
LEMMA OfferedListed ==
  ASSUME NEW r \in Requests, Scopes # 0, NEW t \in Asked(r) \cap Supported(r.provider), t \notin Unlisted
  PROVE  \E u \in DOMAIN ListingsOfRequest(r) : Lists(ListingsOfRequest(r)[u].with, t)
<1>1. r.provider \in Providers /\ Scopes \in Nat /\ 1 \in 1..Scopes
  BY CollectingAssumption
<1> DEFINE groups  == IF r.named THEN Scopes ELSE 0
           global  == GlobalSteps(r.provider, groups)
           scoped  == ScopedSteps(r.provider)
           ss      == [s \in 1..Scopes |-> ListingsOf(r, scoped, s)]
           Has(s)  == \E l \in ToSet(s) : Lists(l.with, t)
<1>2. groups \in Nat
  BY <1>1
<1>3. global \in Seq(Steps) /\ scoped \in Seq(Steps)
  BY <1>1, <1>2, ProviderSteps
<1>4. Offered(global, t) \/ Offered(scoped, t)
  BY <1>1, <1>2, AllOffered
<1>5. ASSUME NEW steps \in Seq(Steps), NEW scope \in Nat
      PROVE  /\ ListingsOf(r, steps, scope) \in Seq(Listing)
             /\ Offered(steps, t) => Has(ListingsOf(r, steps, scope))
  <2> DEFINE n == Len(steps)
             f == [j \in 1..n |-> IF IfWanted(r, steps[j]) THEN ListingsOfStep(steps[j], <<scope, j>>)
                                                           ELSE <<>>]
  <2>1. n \in Nat /\ DOMAIN steps = 1..n /\ \A j \in 1..n : steps[j] \in Steps
    OBVIOUS
  <2>2. ListingsOf(r, steps, scope) = FlattenSeq(f)
    BY <2>1 DEF ListingsOf
  <2>3. ASSUME NEW j \in 1..n PROVE f[j] \in Seq(Listing)
    <3>1. <<scope, j>> \in Nat \X Nat /\ steps[j] \in Steps
      BY <2>1
    <3>2. ListingsOfStep(steps[j], <<scope, j>>) \in Seq(Listing)
      BY <3>1, StepListings
    <3>3. QED BY <3>2
  <2>4. \A j \in 1..n : f[j] = IF IfWanted(r, steps[j]) THEN ListingsOfStep(steps[j], <<scope, j>>)
                                                          ELSE <<>>
    OBVIOUS
  <2>5. f \in Seq(Seq(Listing)) /\ DOMAIN f = 1..n
    <3>1. PICK T : T = Seq(Listing)
      OBVIOUS
    <3>2. DOMAIN f = 1..n /\ f = [j \in 1..n |-> f[j]]
      OBVIOUS
    <3> HIDE DEF f, n
    <3>3. f \in [1..n -> T]
      BY <2>3, <3>1, <3>2
    <3>4. f \in Seq(T)
      BY <2>1, <3>3
    <3>5. QED BY <3>1, <3>2, <3>4
  <2> HIDE DEF f, n
  <2>6. FlattenSeq(f) \in Seq(Listing)
    BY <2>5, FlattenType
  <2>7. \A x : x \in ToSet(FlattenSeq(f)) <=> \E j \in DOMAIN f : x \in ToSet(f[j])
    BY <2>5, FlattenMembers
  <2>8. ASSUME Offered(steps, t) PROVE Has(FlattenSeq(f))
    <3>1. PICK j \in 1..n : Provides(steps[j], t)
      BY <2>1, <2>8 DEF Offered
    <3>2. IfWanted(r, steps[j])
      BY <3>1 DEF Provides, IfWanted
    <3> DEFINE k == ListingsOfStep(steps[j], <<scope, j>>)
    <3>3. f[j] = k
      BY <2>4, <3>2
    <3>4. <<scope, j>> \in Nat \X Nat /\ steps[j] \in Steps
      BY <2>1
    <3>5. /\ k \in Seq(Listing) /\ Len(k) = Len(steps[j].listings)
          /\ \A l \in 1..Len(steps[j].listings) : k[l].with = steps[j].listings[l]
      BY <3>4, StepListings
    <3>6. 1 \in 1..Len(steps[j].listings)
      <4>1. steps[j].listings \in Seq(Collectors) /\ steps[j].listings # <<>>
        BY <3>1, <3>4 DEF Steps, Provides
      <4>2. QED BY <4>1
    <3> HIDE DEF k
    <3>7. k[1] \in ToSet(k) /\ k[1].with = steps[j].listings[1]
      BY <3>5, <3>6 DEF ToSet
    <3>8. k[1] \in ToSet(FlattenSeq(f))
      BY <2>5, <2>7, <3>3, <3>7
    <3>9. Lists(k[1].with, t)
      BY <3>1, <3>7 DEF Provides
    <3>10. QED BY <3>8, <3>9
  <2> HIDE DEF Has
  <2>9. QED BY <2>2, <2>6, <2>8
<1> HIDE DEF global, scoped, groups
<1>6. ss \in Seq(Seq(Listing)) /\ DOMAIN ss = 1..Scopes /\ ss[1] = ListingsOf(r, scoped, 1)
  <2>1. PICK T : T = Seq(Listing)
    OBVIOUS
  <2>2. \A s \in 1..Scopes : ListingsOf(r, scoped, s) \in T
    BY <1>1, <1>3, <1>5, <2>1
  <2>3. ss \in Seq(T)
    BY <1>1, <2>2
  <2>4. QED BY <1>1, <2>1, <2>3
<1> HIDE DEF ss
<1>7. /\ FlattenSeq(ss) \in Seq(Listing)
      /\ ToSet(ss[1]) \subseteq ToSet(FlattenSeq(ss))
  <2>1. FlattenSeq(ss) \in Seq(Listing)
    BY <1>6, FlattenType
  <2>2. \A x : x \in ToSet(FlattenSeq(ss)) <=> \E j \in DOMAIN ss : x \in ToSet(ss[j])
    BY <1>6, FlattenMembers
  <2>3. QED BY <1>1, <1>6, <2>1, <2>2
<1> DEFINE g == ListingsOf(r, global, 0)
           a == Preamble(r)
           b == a \o g
           all == b \o FlattenSeq(ss)
<1>8. g \in Seq(Listing) /\ (Offered(global, t) => Has(g))
  BY <1>3, <1>5
<1>9. Offered(scoped, t) => Has(FlattenSeq(ss))
  <2>1. Offered(scoped, t) => Has(ss[1])
    BY <1>3, <1>5, <1>6
  <2>2. QED BY <1>7, <2>1
<1>10. a \in Seq(Listing)
  BY OwnOrganizationsType DEF Preamble
<1>11. ListingsOfRequest(r) = all
  BY DEF ListingsOfRequest, global, scoped, groups, ss
<1> HIDE DEF a, g
<1>12. b \in Seq(Listing) /\ ToSet(b) = ToSet(a) \cup ToSet(g)
  BY <1>8, <1>10, ConcatMembers
<1> HIDE DEF b
<1>13. ToSet(all) = ToSet(b) \cup ToSet(FlattenSeq(ss))
  BY <1>7, <1>12, ConcatMembers
<1>14. Has(all)
  BY <1>4, <1>8, <1>9, <1>12, <1>13
<1> HIDE DEF all
<1>15. PICK l \in ToSet(all) : Lists(l.with, t)
  BY <1>14
<1>16. PICK u \in DOMAIN all : all[u] = l
  BY <1>15 DEF ToSet
<1>17. QED BY <1>11, <1>15, <1>16

\* Of a listing for a type something is held that is of the type.
LEMMA ListedHeld ==
  ASSUME request \in Requests, PerPage >= 2, NumPages >= 2,
         NEW t, NEW u \in DOMAIN Listings, Lists(Listings[u].with, t)
  PROVE  \E x \in Held : TypeOf(x) = t /\ x[2] = 1
<1> DEFINE c == Listings[u].with
<1>1. c \in Collectors
  <2>1. Listings[u] \in Listing
    BY ListingsType
  <2>2. QED BY <2>1 DEF Listing
<1>2. PerPage \in Nat /\ NumPages \in Nat /\ 1 \in 1..PerPage /\ 2 \in 1..PerPage /\ 1 \in 1..NumPages
      /\ 1 # PerPage /\ 1 # NumPages
  BY CollectingAssumption
<1>3. 1 \in 1..Pages(c)
  BY <1>1, <1>2, CollectingAssumption DEF Pages, Collectors
<1>4. PICK q \in Inside(c) : q = 0 \/ Named(c, q = NumPages)
  <2>1. CASE c.each = "list"
    <3>1. 1 \in Inside(c) /\ Named(c, 1 = NumPages)
      BY <1>2, <2>1 DEF Inside, Named
    <3>2. QED BY <3>1
  <2>2. CASE c.each # "list"
    BY <2>2 DEF Inside
  <2>3. QED BY <2>1, <2>2
<1>5. ASSUME NEW k \in {1, 2}, Named(c, k = PerPage),
             c.yields[((k - 1) % Len(c.yields)) + 1] = t
      PROVE  \E x \in Held : TypeOf(x) = t /\ x[2] = 1
  <2>1. c.each # "name"
    BY DEF Lists
  <2> DEFINE x == <<u, 1, k, q>>
  <2>2. x \in Holdings(u)
    BY <1>2, <1>3, <1>4, <1>5, <2>1, InHoldings
  <2>3. x[1] = u /\ x[2] = 1 /\ x[3] = k
    OBVIOUS
  <2> HIDE DEF x
  <2>4. TypeOf(x) = t
    BY <1>5, <2>3 DEF TypeOf
  <2>5. QED BY <2>2, <2>3, <2>4 DEF Held
<1> HIDE DEF c
<1>6. CASE c.yields = <<t>>
  <2>1. Len(<<t>>) = 1 /\ <<t>>[1] = t /\ ((1 - 1) % 1) + 1 = 1
    OBVIOUS
  <2>2. Named(c, 1 = PerPage)
    BY <1>2 DEF Named
  <2>3. QED BY <1>5, <1>6, <2>1, <2>2
<1>7. CASE c.yields = BothBalancers /\ t \in Balancers /\ ~c.checksId
  <2>1. /\ Len(BothBalancers) = 2 /\ BothBalancers[1] = "aws:elb:application"
        /\ BothBalancers[2] = "aws:elb:network"
    BY DEF BothBalancers
  <2>2. ((1 - 1) % 2) + 1 = 1 /\ ((2 - 1) % 2) + 1 = 2
    OBVIOUS
  <2>3. \A k \in {1, 2} : Named(c, k = PerPage)
    BY <1>7 DEF Named
  <2>4. CASE t = "aws:elb:application"
    BY <1>5, <1>7, <2>1, <2>2, <2>3, <2>4
  <2>5. CASE t = "aws:elb:network"
    BY <1>5, <1>7, <2>1, <2>2, <2>3, <2>5
  <2>6. QED BY <1>7, <2>4, <2>5 DEF Balancers
<1>8. QED BY <1>6, <1>7 DEF Lists, c

(* Of every type that was asked for and is supported a run without         *)
(* failures has what exists of it, where there is an object with an ID and *)
(* a scope; but for two types of Azure's and GCP's lists, of which it has  *)
(* nothing: no other collector of the eight providers is never called.     *)
THEOREM SupportedCollected ==
  ASSUME Scopes # 0, PerPage >= 2, NumPages >= 2
  PROVE  Spec => []SupportedIsCollected
<1>1. ASSUME TypeOK, GapsExplained PROVE SupportedIsCollected
  <2> SUFFICES ASSUME result = "ok", failed = {},
                      NEW t \in Asked(request) \cap Supported(request.provider)
               PROVE  t \in Unlisted <=> t \notin {TypeOf(r) : r \in Range(resources)}
    BY DEF SupportedIsCollected
  <2>1. request \in Requests /\ Range(resources) \subseteq Held
    BY <1>1 DEF TypeOK, Range
  <2>2. ASSUME t \in Unlisted, NEW r \in Range(resources) PROVE TypeOf(r) # t
    <3>1. TypeOf(r) \in ResourceTypes
      BY <2>1, TypeYielded
    <3>2. QED BY <2>2, <3>1 DEF ResourceTypes
  <2>3. ASSUME t \notin Unlisted PROVE \E r \in Range(resources) : TypeOf(r) = t
    <3>1. PICK u \in DOMAIN Listings : Lists(Listings[u].with, t)
      BY <2>1, <2>3, OfferedListed DEF Listings, Program
    <3>2. PICK x \in Held : TypeOf(x) = t /\ x[2] = 1
      BY <2>1, <3>1, ListedHeld
    <3>3. x \in Range(resources)
      BY <1>1, <3>2 DEF GapsExplained, Missing, Excused, CutOff
    <3>4. QED BY <3>2, <3>3
  <2>4. QED BY <2>2, <2>3
<1>2. QED BY <1>1, TypeCorrect, GapsAreExplained, PTL
-----------------------------------------------------------------------------
(* The contract.                                                           *)

\* Before is an order of what is held.
LEMMA BeforeParts ==
  ASSUME NEW r, NEW s, Before(r, s)
  PROVE  \/ r[1] < s[1]
         \/ r[1] = s[1] /\ r[2] < s[2]
         \/ r[1] = s[1] /\ r[2] = s[2] /\ r[3] < s[3]
         \/ r[1] = s[1] /\ r[2] = s[2] /\ r[3] = s[3] /\ r[4] < s[4]
<1>1. PICK i \in 1..4 : r[i] < s[i] /\ \A j \in 1..(i - 1) : r[j] = s[j]
  BY DEF Before
<1>2. 1..4 = {1, 2, 3, 4} /\ 1 \in 1..(2 - 1) /\ {1, 2} \subseteq 1..(3 - 1)
      /\ {1, 2, 3} \subseteq 1..(4 - 1)
  OBVIOUS
<1>3. QED BY <1>1, <1>2

LEMMA BeforeOrders ==
  ASSUME request \in Requests, NEW r \in Held, NEW s \in Held
  PROVE  /\ ~Before(r, r)
         /\ \A t \in Held : Before(r, s) /\ Before(s, t) => Before(r, t)
<1>1. \A t \in Held : t[1] \in Nat /\ t[2] \in Nat /\ t[3] \in Nat /\ t[4] \in Nat
  BY HeldTypes
<1>2. ~Before(r, r)
  BY <1>1, BeforeParts
<1>3. ASSUME NEW t \in Held, Before(r, s), Before(s, t) PROVE Before(r, t)
  BY SMTT(40), <1>1, <1>3, BeforeParts, Lexicographic
<1>4. QED BY <1>2, <1>3

\* What is in order is there once.
LEMMA InOrderOnce ==
  ASSUME IInv PROVE IsInjective(resources)
<1> DEFINE n == Len(resources)
           T == {d \in Nat : \A i \in 1..n :
                   (i + d) + 1 \in 1..n => Before(resources[i], resources[(i + d) + 1])}
<1>1. /\ request \in Requests /\ n \in Nat /\ DOMAIN resources = 1..n
      /\ \A i \in 1..n : resources[i] \in Held
  BY Known
<1>2. \A i \in 1..(n - 1) : Before(resources[i], resources[i + 1])
  BY DEF IInv, ListedInOrder
<1> HIDE DEF n
<1>3. 0 \in T
  <2> SUFFICES ASSUME NEW i \in 1..n, (i + 0) + 1 \in 1..n
               PROVE  Before(resources[i], resources[(i + 0) + 1])
    OBVIOUS
  <2>1. (i + 0) + 1 = i + 1 /\ i \in 1..(n - 1)
    BY <1>1
  <2>2. QED BY <1>2, <2>1
<1>4. ASSUME NEW d \in T PROVE d + 1 \in T
  <2> SUFFICES ASSUME NEW i \in 1..n, (i + (d + 1)) + 1 \in 1..n
               PROVE  Before(resources[i], resources[(i + (d + 1)) + 1])
    OBVIOUS
  <2>1. PICK k \in 1..n : /\ k = (i + d) + 1 /\ k + 1 = (i + (d + 1)) + 1
                         /\ k \in 1..(n - 1) /\ k + 1 \in 1..n
    BY <1>1
  <2>2. Before(resources[i], resources[k])
    BY <2>1
  <2>3. Before(resources[k], resources[k + 1])
    BY <1>2, <2>1
  <2>4. Before(resources[i], resources[k + 1])
    BY <1>1, <2>1, <2>2, <2>3, BeforeOrders
  <2>5. QED BY <2>1, <2>4
<1>5. T \in SUBSET Nat
  OBVIOUS
<1> HIDE DEF T
<1>6. T = Nat
  BY <1>3, <1>4, <1>5, SetInduction
<1>7. ASSUME NEW i \in 1..n, NEW j \in 1..n, i < j PROVE resources[i] # resources[j]
  <2>1. PICK d \in Nat : j = (i + d) + 1
    <3>1. (j - i) - 1 \in Nat /\ j = (i + ((j - i) - 1)) + 1
      BY <1>1, <1>7
    <3>2. QED BY <3>1
  <2>2. Before(resources[i], resources[j])
    BY <1>6, <2>1 DEF T
  <2>3. QED BY <1>1, <2>2, BeforeOrders
<1>8. ASSUME NEW i \in 1..n, NEW j \in 1..n, resources[i] = resources[j] PROVE i = j
  <2>1. i < j \/ j < i \/ i = j
    BY <1>1
  <2>2. QED BY <1>7, <1>8, <2>1
<1>9. QED BY <1>1, <1>8 DEF IsInjective

\* The failures and the warnings of a call stay, and it ends once.
LEMMA StepsOfCall ==
  ASSUME IInv, Next
  PROVE  /\ failed \subseteq failed' /\ warned \subseteq warned'
         /\ result # "none" => UNCHANGED vars
         /\ result = "none" /\ result' = "ok" => failed' = failed /\ warned' = warned
<1>1. pc = "returned" <=> result # "none"
  BY Known
<1>2. CASE Terminating
  BY <1>2 DEF Terminating, vars
<1>3. CASE ~Terminating
  <2>1. failed \subseteq failed' /\ warned \subseteq warned' /\ pc # "returned"
    BY <1>3 DEF Next, ListPage, ListAborts, ListStops, PassOver, AddObject, Describe,
       DescribeSkips, DescribeAborts, Enter, InnerPage, InnerRetries, LeaveObject, PageDone,
       Wait, Finish, AtObject
  <2>2. result = "none" /\ result' = "ok" => Finish
    BY <1>3 DEF Next, ListPage, ListAborts, ListStops, PassOver, AddObject, Describe,
       DescribeSkips, DescribeAborts, Enter, InnerPage, InnerRetries, LeaveObject, PageDone,
       Wait, Return, Goto, EndListing
  <2>3. QED BY <1>1, <2>1, <2>2 DEF Finish
<1>4. QED BY <1>2, <1>3

(* CollectResources implements its contract: an error and nothing, or what *)
(* the services hold, each resource once, but for those that a failure     *)
(* passed over explains and those of the twelve types cut short that are   *)
(* beyond the first page: for every request, page and object count, and    *)
(* whichever calls fail.                                                   *)
THEOREM Implements == Spec => ContractSpec
<1>1. Init => Contract!Init
  BY DEF Init, Contract!Init, Excused
<1>2. IInv /\ IInv' /\ GapsExplained' /\ [Next]_vars
        => [Contract!Next]_(Contract!contractVars)
  <2> SUFFICES ASSUME IInv, IInv', GapsExplained', [Next]_vars
               PROVE  Contract!Next \/ UNCHANGED Contract!contractVars
    OBVIOUS
  <2>1. CASE UNCHANGED vars
    BY <2>1 DEF vars, input, Contract!contractVars, Excused, Held, Listings, Program, Holdings,
       Named, Explains, Tolerated, CutOff, TypeOf
  <2>2. CASE Next /\ ~UNCHANGED vars
    <3>1. /\ failed \subseteq failed' /\ warned \subseteq warned' /\ result = "none"
          /\ result' = "ok" => failed' = failed /\ warned' = warned
      BY <2>2, StepsOfCall
    <3>2. Listings' = Listings /\ Held' = Held
      BY <2>2, NextFixed, Fixed
    <3>3. Excused \subseteq Excused' /\ (result' = "ok" => Excused' = Excused)
      BY <3>1, <3>2 DEF Excused, Explains, Tolerated, CutOff, TypeOf
    <3>4. result' \in {"none", "ok", "error"}
      BY DEF IInv, TypeOK
    <3>5. CASE result' = "none"
      BY <3>1, <3>2, <3>3, <3>5 DEF Contract!Next, Contract!PassOver
    <3>6. CASE result' = "error"
      BY <3>1, <3>2, <3>3, <3>6 DEF Contract!Next, Contract!Fail
    <3>7. CASE result' = "ok"
      <4>1. IsInjective(resources')
        <5>1. (IInv => IsInjective(resources))'
          BY InOrderOnce, PTL
        <5>2. QED BY <5>1 DEF IsInjective
      <4>2. ToSet(resources') \subseteq Held
        <5>1. resources' \in Seq(Held)
          BY <3>2 DEF IInv, TypeOK
        <5>2. QED BY <5>1 DEF ToSet
      <4>3. Held \ Excused \subseteq ToSet(resources')
        <5>1. \A r \in Held \ Range(resources') : r \in Excused'
          BY <3>2, <3>7 DEF GapsExplained, Missing
        <5>2. QED BY <3>3, <3>7, <5>1 DEF Range, ToSet
      <4>4. Contract!ListsOnce(resources', Held, Held \ Excused)
        BY <4>1, <4>2, <4>3 DEF Contract!ListsOnce, Contract!ToSet, Contract!IsInjective,
           ToSet, IsInjective
      <4>5. (IF result = "ok" THEN resources ELSE <<>>)' = resources'
        BY <3>7
      <4>6. QED
        BY <3>1, <3>2, <3>3, <3>7, <4>4, <4>5 DEF Contract!Next, Contract!Succeed
    <3>8. QED BY <3>4, <3>5, <3>6, <3>7
  <2>3. QED BY <2>1, <2>2
<1>3. QED
  BY <1>1, <1>2, Inductive, GapsAreExplained, PTL DEF Spec, ContractSpec, Contract!Spec

-----------------------------------------------------------------------------
(* The way of the cursor.                                                  *)

LEMMA LaterCursor ==
  ASSUME NEW x, NEW y, DOMAIN x = 1..7,
         \/ y[1] < x[1]
         \/ x[1] = y[1] /\ y[2] < x[2]
         \/ x[1] = y[1] /\ x[2] = y[2] /\ y[3] < x[3]
         \/ x[1] = y[1] /\ x[2] = y[2] /\ x[3] = y[3] /\ y[4] < x[4]
         \/ x[1] = y[1] /\ x[2] = y[2] /\ x[3] = y[3] /\ x[4] = y[4] /\ y[5] < x[5]
         \/ x[1] = y[1] /\ x[2] = y[2] /\ x[3] = y[3] /\ x[4] = y[4] /\ x[5] = y[5] /\ y[6] < x[6]
         \/ x[1] = y[1] /\ x[2] = y[2] /\ x[3] = y[3] /\ x[4] = y[4] /\ x[5] = y[5]
            /\ x[6] = y[6] /\ y[7] < x[7]
  PROVE  Later(x, y)
<1>1. CASE y[1] < x[1]
  BY <1>1 DEF Later
<1>2. CASE x[1] = y[1] /\ y[2] < x[2]
  BY <1>2 DEF Later
<1>3. CASE x[1] = y[1] /\ x[2] = y[2] /\ y[3] < x[3]
  BY <1>3 DEF Later
<1>4. CASE x[1] = y[1] /\ x[2] = y[2] /\ x[3] = y[3] /\ y[4] < x[4]
  BY <1>4 DEF Later
<1>5. CASE x[1] = y[1] /\ x[2] = y[2] /\ x[3] = y[3] /\ x[4] = y[4] /\ y[5] < x[5]
  BY <1>5 DEF Later
<1>6. CASE x[1] = y[1] /\ x[2] = y[2] /\ x[3] = y[3] /\ x[4] = y[4] /\ x[5] = y[5] /\ y[6] < x[6]
  BY <1>6 DEF Later
<1>7. CASE x[1] = y[1] /\ x[2] = y[2] /\ x[3] = y[3] /\ x[4] = y[4] /\ x[5] = y[5]
           /\ x[6] = y[6] /\ y[7] < x[7]
  BY <1>7 DEF Later
<1>8. QED BY <1>1, <1>2, <1>3, <1>4, <1>5, <1>6, <1>7

\* A step of the program that is no retry takes the cursor on.
LEMMA CursorMoves ==
  ASSUME IInv, Next, pc # "returned", ~InnerRetries
  PROVE  Later(Cursor', Cursor)
<1> DEFINE Ret == IF pc = "returned" THEN 1 ELSE 0
           Wt  == IF pc = "wait" THEN 1 ELSE 0
           Obj == IF pc = "list" THEN PerPage + 2 ELSE obj
           Ins == IF pc = "inside" THEN 1 ELSE 0
<1>1. /\ at \in Nat /\ page \in Nat /\ obj \in Nat /\ inner \in Nat /\ PerPage \in Nat
      /\ obj \in 1..(PerPage + 1)
  BY Known
<1>2. \/ Ret < Ret'
      \/ Ret' = Ret /\ at < at'
      \/ Ret' = Ret /\ at' = at /\ Wt < Wt'
      \/ Ret' = Ret /\ at' = at /\ Wt' = Wt /\ page < page'
      \/ Ret' = Ret /\ at' = at /\ Wt' = Wt /\ page' = page /\ Obj < Obj'
      \/ Ret' = Ret /\ at' = at /\ Wt' = Wt /\ page' = page /\ Obj' = Obj /\ Ins < Ins'
      \/ Ret' = Ret /\ at' = at /\ Wt' = Wt /\ page' = page /\ Obj' = Obj /\ Ins' = Ins
         /\ inner < inner'
  <2>1. CASE ListPage
    BY <1>1, <2>1 DEF ListPage, Goto
  <2>2. CASE ListAborts \/ DescribeAborts \/ Finish
    <3>1. pc \in {"list", "objects"} /\ pc' = "returned"
      BY <2>2 DEF ListAborts, DescribeAborts, Finish, AtObject, Return
    <3>2. Ret < Ret'
      BY <3>1
    <3>3. QED BY <3>2
  <2>3. ASSUME EndListing, pc \in {"list", "objects"}
        PROVE  (Ret' = Ret /\ at < at') \/ (Ret' = Ret /\ at' = at /\ Wt < Wt')
    BY <1>1, <2>3 DEF EndListing
  <2>4. CASE ListStops
    BY <2>3, <2>4 DEF ListStops
  <2>5. CASE PassOver \/ AddObject \/ Describe \/ DescribeSkips
    <3>1. /\ pc = "objects" /\ pc' = "objects" /\ at' = at /\ page' = page
          /\ obj' = obj + 1
      BY <2>5 DEF PassOver, AddObject, Describe, DescribeSkips, AtObject, NextObject, Goto
    <3>2. Obj < Obj'
      BY <1>1, <3>1
    <3>3. QED BY <3>1, <3>2
  <2>6. CASE Enter
    BY <1>1, <2>6 DEF Enter, AtObject, Goto
  <2>7. CASE InnerPage
    <3>1. /\ pc = "inside" /\ pc' = "inside" /\ at' = at /\ page' = page /\ obj' = obj
          /\ inner' = inner + 1
      BY <2>7 DEF InnerPage, Goto
    <3>2. Obj' = Obj /\ inner < inner'
      BY <1>1, <3>1
    <3>3. QED BY <3>1, <3>2
  <2>8. CASE LeaveObject
    <3>1. /\ pc = "inside" /\ pc' = "objects" /\ at' = at /\ page' = page
          /\ obj' = obj + 1
      BY <2>8 DEF LeaveObject, NextObject, Goto
    <3>2. Obj < Obj'
      BY <1>1, <3>1
    <3>3. QED BY <3>1, <3>2
  <2>9. CASE PageDone
    <3>1. CASE EndListing
      BY <2>3, <2>9, <3>1 DEF PageDone
    <3>2. CASE ~EndListing
      <4>1. /\ pc = "objects" /\ pc' = "list" /\ at' = at /\ page' = page
        BY <2>9, <3>2 DEF PageDone, Goto
      <4>2. Obj < Obj'
        BY <1>1, <4>1
      <4>3. QED BY <4>1, <4>2
    <3>3. QED BY <3>1, <3>2
  <2>10. CASE Wait
    BY <1>1, <2>10 DEF Wait
  <2>11. QED
    BY <2>1, <2>2, <2>4, <2>5, <2>6, <2>7, <2>8, <2>9, <2>10 DEF Next, Terminating
<1>3. /\ Cursor  = <<Ret, at, Wt, page, Obj, Ins, inner>>
      /\ Cursor' = <<Ret', at', Wt', page', Obj', Ins', inner'>>
  BY DEF Cursor
<1> HIDE DEF Ret, Wt, Obj, Ins
<1>4. PICK x, y : x = Cursor' /\ y = Cursor
  OBVIOUS
<1>5. /\ DOMAIN x = 1..7
      /\ x[1] = Ret' /\ x[2] = at' /\ x[3] = Wt' /\ x[4] = page' /\ x[5] = Obj'
      /\ x[6] = Ins' /\ x[7] = inner'
      /\ y[1] = Ret /\ y[2] = at /\ y[3] = Wt /\ y[4] = page /\ y[5] = Obj
      /\ y[6] = Ins /\ y[7] = inner
  BY <1>3, <1>4
<1>6. Later(x, y)
  BY <1>2, <1>5, LaterCursor
<1>7. QED BY <1>4, <1>6

(* No step repeats anything, but for the call of a collector that makes a  *)
(* failed call again: but for those, a call takes finitely many steps.     *)
THEOREM AlwaysForward == Spec => OnlyForward
<1> DEFINE Onward ==
      \/ Later(Cursor', Cursor)
      \/ /\ Cursor' = Cursor /\ pc = "inside" /\ How.eachError = "retry"
         /\ <<at, page, obj>> \in failed'
<1>1. IInv /\ [Next]_vars => [Onward]_vars
  <2> SUFFICES ASSUME IInv, Next, ~UNCHANGED vars PROVE Onward
    OBVIOUS
  <2>1. CASE InnerRetries
    BY <2>1 DEF InnerRetries, Cursor
  <2>2. CASE ~InnerRetries
    <3>1. pc # "returned"
      BY StepsOfCall, Known
    <3>2. QED BY <2>2, <3>1, CursorMoves
  <2>3. QED BY <2>1, <2>2
<1>2. QED BY <1>1, Inductive, PTL DEF Spec, OnlyForward
==============================================================================
