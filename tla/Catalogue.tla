------------------------------ MODULE Catalogue ------------------------------
(***************************************************************************)
(* What every collector of every provider does with its service's API.     *)
(*                                                                         *)
(* A collector is a record:                                                *)
(*   yields      the types of the resources it adds, as a sequence: the    *)
(*               i-th object listed is of the i-th type, cyclically        *)
(*   list        "paged": calls until no further page is announced         *)
(*               "first": one call, whatever the answer announces          *)
(*               "whole": one call, which the service answers in full      *)
(*               "static": no call, goes over names it already has         *)
(*   listError   what a failed list call does: "abort" the whole           *)
(*               collection, or "stop" listing here and go on              *)
(*   each        what it does with each object: "add" it, "describe" it    *)
(*               with a further call and add the answer, or "list" what    *)
(*               it contains, page by page, and add that                   *)
(*   eachError   what a failure of that call does: "abort"; "skip" the     *)
(*               object with a warning; "retry" the same page, with a      *)
(*               warning each time                                         *)
(*   checksId    objects without an ID or a name are passed over           *)
(*                                                                         *)
(* A provider's CollectResources is a list of steps, each guarded by the   *)
(* requested types: the global ones, then the ones repeated for each of    *)
(* its regions (AWS, GCP) or organizations (GitHub).                       *)
(***************************************************************************)
EXTENDS Integers, Sequences

Paged(t) == [yields |-> <<t>>, list |-> "paged", listError |-> "abort",
             each |-> "add", eachError |-> "abort", checksId |-> FALSE]
FirstPage(t)    == [Paged(t) EXCEPT !.list = "first"]
InOneAnswer(t)  == [Paged(t) EXCEPT !.list = "whole"]
Described(c)    == [c EXCEPT !.each = "describe", !.eachError = "skip"]
Identified(c)   == [c EXCEPT !.checksId = TRUE]
StopOnError(c)  == [c EXCEPT !.listError = "stop"]

-----------------------------------------------------------------------------
(* aws: a nil TopicArn is passed over before the topic is described.       *)

AWSIAMUsers         == Paged("aws:iam:user")
AWSIAMRoles         == Paged("aws:iam:role")
AWSAccounts         == [Paged("aws:account") EXCEPT !.list = "static"]
AWSDistributions    == Paged("aws:cloudfront:distribution")
AWSVPCs             == FirstPage("aws:ec2:vpc")
AWSSubnets          == FirstPage("aws:ec2:subnet")
AWSSecurityGroups   == FirstPage("aws:ec2:security-group")
AWSEC2Instances     == Paged("aws:ec2:instance")
AWSRepositories     == Paged("aws:ecr:repository")
AWSEKSClusters      == Described(Paged("aws:eks:cluster"))
AWSClassicLBs       == Paged("aws:elb:classic")
AWSLoadBalancersV2  == [Paged("aws:elb:application") EXCEPT
                          !.yields = <<"aws:elb:application", "aws:elb:network">>]
AWSLambdaFunctions  == Paged("aws:lambda:function")
AWSRESTAPIs         == Paged("aws:apigateway:api")
AWSHTTPAPIs         == Paged("aws:apigateway:api")
AWSMemoryDBClusters == Paged("aws:memorydb:cluster")
AWSElastiCache      == Paged("aws:elasticache:cluster")
AWSSecrets          == Paged("aws:secretsmanager:secret")
AWSSNSTopics        == Identified(Described(Paged("aws:sns:topic")))
AWSSQSQueues        == Described(FirstPage("aws:sqs:queue"))
AWSDynamoDBTables   == Identified(Described(Paged("aws:dynamodb:table")))
\* A table is passed over once its description has come back without one.
ChecksAnswer(c)     == c = AWSDynamoDBTables

(* azure: NextPage of the databases of one SQL server is called again after *)
(* an error, and the pager has not moved; the "master" database of a server *)
(* is passed over with those that have no name.                             *)
AzureResourceGroups  == Identified(Paged("azure:resourcegroup"))
AzureVMs             == Identified(Paged("azure:compute:vm"))
AzureVNets           == Identified(Paged("azure:network:vnet"))
AzureStorageAccounts == Identified(Paged("azure:storage:account"))
AzureAppServices     == Identified(Paged("azure:web:appservice"))
AzureSQLDatabases    == [Identified(Paged("azure:sql:database")) EXCEPT
                           !.each = "list", !.eachError = "retry"]
AzureKeyVaults       == Identified(Paged("azure:keyvault:vault"))

(* gcp: "Zone might not exist", "Region might not support Cloud Run": any   *)
(* error of these three ends the listing as if it were complete.            *)
GCPNetworks     == Paged("gcp:compute:network")
GCPBuckets      == Paged("gcp:storage:bucket")
GCPInstances    == StopOnError(Paged("gcp:compute:instance"))
GCPSubnetworks  == Paged("gcp:compute:subnetwork")
GCPFunctions    == StopOnError(Paged("gcp:cloudfunctions:function"))
GCPRunServices  == StopOnError(Paged("gcp:run:service"))
GCPZones == 3                       \* the zones -a, -b and -c of a region

(* github: an organization is fetched by name, its error aborts.            *)
GitHubOrganizations == [Paged("github:organization") EXCEPT
                          !.list = "static", !.each = "describe"]
GitHubRepositories  == Paged("github:repository")
GitHubTeams         == Paged("github:team")
GitHubUsers         == Paged("github:user")

GitLabGroups   == Paged("gitlab:group")
GitLabProjects == Paged("gitlab:project")
GitLabUsers    == Paged("gitlab:user")

JFrogRepositories == InOneAnswer("jfrog:repository")
JFrogUsers        == InOneAnswer("jfrog:user")
JFrogGroups       == InOneAnswer("jfrog:group")
JFrogPermissions  == InOneAnswer("jfrog:permission")

OktaUsers                == FirstPage("okta:user")
OktaGroups               == FirstPage("okta:group")
OktaApplications         == FirstPage("okta:application")
OktaAuthorizationServers == FirstPage("okta:authorizationserver")

Auth0Users           == Identified(Paged("auth0:user"))
Auth0Roles           == Identified(FirstPage("auth0:role"))
Auth0Clients         == Identified(FirstPage("auth0:client"))
Auth0ResourceServers == Identified(FirstPage("auth0:resourceserver"))
Auth0Connections     == Identified(FirstPage("auth0:connection"))

-----------------------------------------------------------------------------
(* A step: the types that ask for it, and the listings it makes, in order. *)

Step(c)         == [when |-> {c.yields[i] : i \in DOMAIN c.yields},
                    listings |-> <<c>>]
Again(c, n)     == [Step(c) EXCEPT !.listings = [i \in 1..n |-> c]]

Providers == {"aws", "azure", "gcp", "github", "gitlab", "jfrog", "okta", "auth0"}

Supported(p) ==
  CASE p = "aws" ->
         {"aws:iam:user", "aws:iam:role", "aws:account", "aws:ec2:vpc",
          "aws:ec2:subnet", "aws:ec2:security-group", "aws:ec2:instance",
          "aws:ecr:repository", "aws:eks:cluster", "aws:elb:classic",
          "aws:elb:application", "aws:elb:network", "aws:lambda:function",
          "aws:apigateway:api", "aws:cloudfront:distribution",
          "aws:memorydb:cluster", "aws:elasticache:cluster",
          "aws:secretsmanager:secret", "aws:sns:topic", "aws:sqs:queue",
          "aws:dynamodb:table"}
    [] p = "azure" ->
         {"azure:resourcegroup", "azure:compute:vm", "azure:network:vnet",
          "azure:network:subnet", "azure:storage:account",
          "azure:web:appservice", "azure:sql:database", "azure:keyvault:vault"}
    [] p = "gcp" ->
         {"gcp:project", "gcp:compute:instance", "gcp:compute:network",
          "gcp:compute:subnetwork", "gcp:storage:bucket",
          "gcp:cloudfunctions:function", "gcp:run:service"}
    [] p = "github" ->
         {"github:organization", "github:repository", "github:team",
          "github:user"}
    [] p = "gitlab" -> {"gitlab:project", "gitlab:group", "gitlab:user"}
    [] p = "jfrog" ->
         {"jfrog:repository", "jfrog:user", "jfrog:group", "jfrog:permission"}
    [] p = "okta" ->
         {"okta:user", "okta:group", "okta:application",
          "okta:authorizationserver"}
    [] p = "auth0" ->
         {"auth0:user", "auth0:role", "auth0:client", "auth0:resourceserver",
          "auth0:connection"}

AWSGlobal   == <<Step(AWSIAMUsers), Step(AWSIAMRoles), Step(AWSAccounts),
                 Step(AWSDistributions)>>
AWSRegional == <<Step(AWSVPCs), Step(AWSSubnets), Step(AWSSecurityGroups),
                 Step(AWSEC2Instances), Step(AWSRepositories),
                 Step(AWSEKSClusters), Step(AWSClassicLBs),
                 Step(AWSLoadBalancersV2), Step(AWSLambdaFunctions),
                 [Step(AWSRESTAPIs) EXCEPT
                    !.listings = <<AWSRESTAPIs, AWSHTTPAPIs>>],
                 Step(AWSMemoryDBClusters), Step(AWSElastiCache),
                 Step(AWSSecrets), Step(AWSSNSTopics), Step(AWSSQSQueues),
                 Step(AWSDynamoDBTables)>>

AzureSteps  == <<Step(AzureResourceGroups), Step(AzureVMs), Step(AzureVNets),
                 Step(AzureStorageAccounts), Step(AzureAppServices),
                 Step(AzureSQLDatabases), Step(AzureKeyVaults)>>

GCPGlobal   == <<Step(GCPNetworks), Step(GCPBuckets)>>
GCPRegional == <<Again(GCPInstances, GCPZones), Step(GCPSubnetworks),
                 Step(GCPFunctions), Step(GCPRunServices)>>

GitHubPerOrg_NoTeams ==                  \* mutant: a collector never called
  <<Step(GitHubRepositories), Step(GitHubUsers)>>
GitHubPerOrg == <<Step(GitHubRepositories), Step(GitHubTeams),
                  Step(GitHubUsers)>>

\* With groups configured the projects are listed group by group.
GitLabSteps(groups) ==
  <<Step(GitLabGroups),
    Again(GitLabProjects, IF groups > 0 THEN groups ELSE 1),
    Step(GitLabUsers)>>

JFrogSteps == <<Step(JFrogRepositories), Step(JFrogUsers), Step(JFrogGroups),
                Step(JFrogPermissions)>>
OktaSteps  == <<Step(OktaUsers), Step(OktaGroups), Step(OktaApplications),
                Step(OktaAuthorizationServers)>>
Auth0Steps == <<Step(Auth0Users), Step(Auth0Roles), Step(Auth0Clients),
                Step(Auth0ResourceServers), Step(Auth0Connections)>>

GlobalSteps(p, groups) ==
  CASE p = "aws"    -> AWSGlobal
    [] p = "azure"  -> AzureSteps
    [] p = "gcp"    -> GCPGlobal
    [] p = "github" -> <<Step(GitHubOrganizations)>>
    [] p = "gitlab" -> GitLabSteps(groups)
    [] p = "jfrog"  -> JFrogSteps
    [] p = "okta"   -> OktaSteps
    [] p = "auth0"  -> Auth0Steps

ScopedSteps(p) ==
  CASE p = "aws"    -> AWSRegional
    [] p = "gcp"    -> GCPRegional
    [] p = "github" -> GitHubPerOrg
    [] OTHER        -> <<>>

\* The providers whose steps each end with rateLimiter.Wait(ctx).
RateLimited(p) == p \in {"aws", "azure", "gcp"}
==============================================================================
