--------------------------- MODULE MCRelationships ---------------------------
(***************************************************************************)
(* What each provider may have collected: containers listed twice or not   *)
(* at all, IDs that two types share, references to what was not collected. *)
(***************************************************************************)
EXTENDS Relationships

Object(via, forms, account, refs) ==
  [via |-> via, forms |-> forms, account |-> account, region |-> "east", tags |-> NoFields,
   fields |-> NoFields, refs |-> refs, created |-> NoDate, updated |-> NoDate]
Inventory(p, objects) == [provider |-> p, objects |-> objects, answers |-> <<>>]

-----------------------------------------------------------------------------
Id(kind, n) == [id |-> <<kind, "-", n>>]
VPC(n)        == Object(convertVPCToResource, Id("vpc", n), "123", <<>>)
In(via, kind, n, vpc) == Object(via, Id(kind, n), "123", [vpc |-> <<Id("vpc", vpc)>>])
Group(n, vpc) == Object(convertSecurityGroupToResource,
                        [id |-> <<"sg", "-", n>>, name |-> <<"default">>], "123",
                        [vpc |-> <<Id("vpc", vpc)>>])
Instance == Object(convertEC2InstanceToResource, Id("i", "1"), "123",
                   [vpc |-> <<Id("vpc", "1")>>, subnet |-> <<Id("subnet", "1")>>])
Subnet(n, vpc) == In(convertSubnetToResource, "subnet", n, vpc)
\* A region configured twice; a VPC whose type was not asked for.
AWSInventories ==
  {Inventory("aws", <<VPC("1"), VPC("2"), Subnet("1", "1"), Subnet("2", "2"),
                      Group("1", "1"), Instance>>),
   Inventory("aws", <<VPC("1"), Subnet("1", "1"), Group("1", "1"),
                      VPC("1"), Subnet("1", "1"), Group("1", "1")>>),
   Inventory("aws", <<Subnet("1", "1"), Group("1", "3"), Instance, VPC("2")>>)}

\* Numbers are unique among the organizations, among the repositories, ...
Number(n, name) == [number |-> <<n>>, name |-> <<name>>]
Org(n, login)   == Object(convertOrganizationToResource, Number(n, login), login, <<>>)
Repo(n, owner)  == Object(GitHubRepositoryToResource, Number(n, "repo"), "acme",
                          [owner |-> <<owner>>])
Team(n, org)    == Object(convertTeamToResource, Number(n, "team"), "acme",
                          [organization |-> <<org>>])
Login(n, org)   == Object(GitHubUserToResource, Number(n, "ann"), org, <<>>)
Acme  == Number("7", "acme")
Rival == Number("8", "other")
GitHubInventories ==
  {Inventory("github", <<Org("7", "acme"), Repo("1", Acme), Team("1", Acme),
                         Login("7", "acme"), Login("9", "other")>>),
   Inventory("github", <<Org("7", "acme"), Org("8", "other"), Repo("7", Acme),
                         Repo("8", Rival), Team("8", Acme), Login("9", "acme"),
                         Login("9", "other")>>)}

Path(group, name) == [path |-> <<"/", "resourceGroups", "/", group, "/", name>>, name |-> <<name>>]
RG(group) == Object(collectResourceGroups,
                    [path |-> <<"/", "resourceGroups", "/", group>>, name |-> <<group>>],
                    "none", <<>>)
InRG(via, group) == Object(via, Path(group, "x"), "none", <<>>)
AzureInventories ==
  {Inventory("azure", <<RG("main"), RG("web"), InRG(collectVirtualMachines, "web"),
                        InRG(collectVirtualNetworks, "main"),
                        InRG(collectVirtualMachines, "MAIN"), InRG(collectKeyVaults, "main")>>)}

Entity(via, id, name) == Object(via, [id |-> <<id>>, name |-> <<name>>], "none", <<>>)
OktaInventories ==
  {[Inventory("okta", <<Entity(OktaUsers, "u1", "ann"), Entity(OktaGroups, "g1", "staff"),
                        Entity(OktaGroups, "g2", "ops"), Entity(OktaApplications, "a1", "mail"),
                        Entity(OktaGroups, "g3", "none")>>)
    EXCEPT !.answers = (<<"g1">> :> <<<<"u1">>, <<"u2">>>>) @@ (<<"g2">> :> <<<<"u1">>>>)]}
Auth0Inventories ==
  {[Inventory("auth0", <<Entity(Auth0Users, "auth0|1", "ann@x"), Entity(Auth0Users, "auth0|2", "bob@x"),
                         Entity(Auth0Roles, "rol_1", "admin")>>)
    EXCEPT !.answers = (<<"auth0|1">> :> <<<<"rol_1">>>>)
                         @@ (<<"auth0|2">> :> <<<<"rol_1">>, <<"rol_2">>>>)]}

Network == [number |-> <<"11">>, name |-> <<"default">>, url |-> <<"https:", "/", "default">>]
GitLabGroup == Number("5", "web")
Space == Number("6", "ann")
Key(n) == [name |-> <<n>>]
OtherInventories ==
  {Inventory("gcp", <<Object(convertNetworkToResource, Network, "proj", <<>>),
                      Object(convertSubnetworkToResource, Number("12", "sub"), "proj",
                             [network |-> <<Network>>])>>),
   Inventory("gitlab", <<Object(convertGroupToResource, GitLabGroup, "none", <<>>),
                         Object(convertProjectToResource, Number("5", "site"), "none",
                                [namespace |-> <<GitLabGroup>>]),
                         Object(convertProjectToResource, Number("6", "home"), "none",
                                [namespace |-> <<Space>>])>>),
   Inventory("jfrog", <<Object(JFrogRepositoryToResource, Key("libs"), "none", <<>>),
                        Object(JFrogUserToResource, Key("ann"), "none",
                               [groups |-> <<Key("readers"), Key("gone")>>]),
                        Object(JFrogGroupToResource, Key("readers"), "none", <<>>),
                        Object(convertPermissionToResource, Key("any"), "none",
                               [repositories |-> <<Key("libs")>>])>>)}

MCInventories == AWSInventories \cup GitHubInventories \cup AzureInventories
  \cup OktaInventories \cup Auth0Inventories \cup OtherInventories

-----------------------------------------------------------------------------
Addition(from, target, type) ==
  [from |-> from, rel |-> Relationship("references", target, type)]
MCAdditions ==
  {Addition(<<"7">>, <<"1">>, "github:team"), Addition(<<"1">>, <<"7">>, "github:user"),
   Addition(<<"vpc", "-", "1">>, <<"i", "-", "1">>, "aws:ec2:instance"),
   Addition(<<"u2">>, <<"g1">>, "okta:group")}
MCTypeSets ==
  {{}, {"github:organization", "github:repository"}, {"github:organization", "github:team"},
   {"aws:ec2:vpc", "aws:ec2:subnet"}, {"okta:group", "okta:user"}}
==============================================================================
