------------------------------ MODULE Converters ------------------------------
(***************************************************************************)
(* From an API object to a resource.Resource: one row per converter (or    *)
(* per literal in a collector that has none), and the conversion itself,   *)
(* ToResource, which reads the row.                                        *)
(*                                                                         *)
(* A text is a sequence of chunks, cut where the program cuts or maps it.  *)
(* An API object is a record:                                              *)
(*   via       the row that converts it                                    *)
(*   forms     the texts that name it: its "id", "name", "arn", ...        *)
(*   account, region, created, updated                                     *)
(*   tags      a function from keys to values                              *)
(*   fields    the values the API gives, by the property that stores them  *)
(*   refs      the forms of the objects it refers to, by role              *)
(* A row says which form is the ID and which the name, where the tags go,  *)
(* whether the dates are kept, the Go type each property is stored as, and *)
(* the relationships made of the references.                               *)
(***************************************************************************)
EXTENDS Integers, Sequences, SequencesExt, TLC

Blank  == "none"                     \* an account or region left empty
NoDate == -1
NoFields == [p \in {} |-> ""]

As(goType, names) == [p \in names |-> goType]
Str(names)     == As("string", names)
Bools(names)   == As("bool", names)
Int32(names)   == As("int32", names)
Int64(names)   == As("int64", names)
Ints(names)    == As("int", names)
Pointers(names) == As("pointer", names)
Nested(names)  == As("map", names)          \* map[string]interface{}
Other(names)   == As("other", names)

Link(ref, form, rel, target) == [ref |-> ref, form |-> form, rel |-> rel, target |-> target]
BelongsTo(ref, form, target) == Link(ref, form, "belongs_to", target)

Row(provider, type, id, name, props) ==
  [provider |-> provider, type |-> type, id |-> id, name |-> name,
   account |-> FALSE, region |-> TRUE, tags |-> "dropped", nameTag |-> FALSE,
   created |-> FALSE, updated |-> FALSE, props |-> props, anyProp |-> FALSE,
   links |-> <<>>]

-----------------------------------------------------------------------------
(* aws: the first account, and the region that is scanned.                 *)

AWS(type, id, name, props) ==
  [Row("aws", type, id, name, props) EXCEPT !.account = TRUE]
Named(row)  == [row EXCEPT !.tags = "kept", !.nameTag = TRUE]
InVPC(row)  == [row EXCEPT !.links = <<BelongsTo("vpc", "id", "aws:ec2:vpc")>>]

convertVPCToResource == Named(AWS("aws:ec2:vpc", "id", "id",
  Str({"cidr_block", "state", "dhcp_options_id", "instance_tenancy"}) @@ Bools({"is_default"})))
convertSubnetToResource == InVPC(Named(AWS("aws:ec2:subnet", "id", "id",
  Str({"cidr_block", "state", "availability_zone", "availability_zone_id"})
    @@ Pointers({"available_ip_count", "map_public_ip_on_launch"}))))
convertSecurityGroupToResource == InVPC(Named(AWS("aws:ec2:security-group", "id", "name",
  Str({"description"}) @@ Other({"ingress_rules", "egress_rules"}))))
convertEC2InstanceToResource ==
  [Named(AWS("aws:ec2:instance", "id", "id",
     Str({"instance_type", "state", "private_ip", "public_ip", "vpc_id", "subnet_id",
          "availability_zone"})))
   EXCEPT !.links = <<BelongsTo("vpc", "id", "aws:ec2:vpc"),
                      BelongsTo("subnet", "id", "aws:ec2:subnet")>>]
convertEKSClusterToResource ==
  [InVPC(AWS("aws:eks:cluster", "name", "name",
     Str({"version", "status", "endpoint", "platform_version", "vpc_id"})
       @@ Other({"subnet_ids"})))
   EXCEPT !.tags = "kept", !.created = TRUE]
convertLambdaFunctionToResource == InVPC(AWS("aws:lambda:function", "name", "name",
  Str({"runtime", "handler", "last_modified", "vpc_id"})
    @@ Int64({"code_size"}) @@ Int32({"memory_size", "timeout"})))
convertClassicLoadBalancerToResource == InVPC(AWS("aws:elb:classic", "name", "name",
  Str({"dns_name", "scheme", "vpc_id"})
    @@ Other({"availability_zones", "subnets", "instances"})))
\* A type that is neither application nor network is taken for application.
convertLoadBalancerV2ToResource(lbType) ==
  [InVPC(AWS(IF lbType = "network" THEN "aws:elb:network" ELSE "aws:elb:application",
     "arn", "name",
     Str({"dns_name", "type", "scheme", "state", "vpc_id", "ip_address_type"})
       @@ Other({"availability_zones"})))
   EXCEPT !.created = TRUE]
convertSecretToResource ==
  [AWS("aws:secretsmanager:secret", "arn", "name",
     Str({"description", "rotation_lambda_arn", "kms_key_id", "last_rotated_date",
          "last_changed_date", "last_accessed_date"}) @@ Bools({"rotation_enabled"}))
   EXCEPT !.created = TRUE, !.updated = TRUE,
          !.links = <<Link("key", "id", "depends_on", "aws:kms:key")>>]
convertIAMUserToResource ==
  [AWS("aws:iam:user", "arn", "name", Str({"user_id", "path", "create_date", "password_last_used"}))
   EXCEPT !.region = FALSE, !.tags = "kept", !.created = TRUE]
convertIAMRoleToResource ==
  [AWS("aws:iam:role", "arn", "name",
     Str({"role_id", "path", "create_date", "description"}) @@ Int32({"max_session_duration"}))
   EXCEPT !.region = FALSE, !.tags = "kept", !.created = TRUE]
collectAccounts ==
  [AWS("aws:account", "id", "id", Str({"account_id"})) EXCEPT !.region = FALSE]
convertCloudFrontDistributionToResource ==      \* its region is "global"
  [AWS("aws:cloudfront:distribution", "id", "id",
     Str({"domain_name", "status", "comment", "price_class", "http_version", "web_acl_id"})
       @@ Bools({"enabled", "ipv6_enabled"}))
   EXCEPT !.updated = TRUE]
convertECRRepositoryToResource ==
  [AWS("aws:ecr:repository", "arn", "name",
     Str({"registry_id", "repository_uri", "created_at", "image_tag_mutability"})
       @@ Nested({"image_scanning", "encryption"}))
   EXCEPT !.created = TRUE]
convertRESTAPIToResource ==
  [AWS("aws:apigateway:api", "id", "name",
     Str({"description", "version", "api_key_source"}) @@ Other({"endpoint_types"}))
   EXCEPT !.created = TRUE]
convertHTTPAPIToResource ==
  [AWS("aws:apigateway:api", "id", "name",
     Str({"protocol_type", "description", "version", "api_endpoint",
          "route_selection_expression"}))
   EXCEPT !.created = TRUE]
convertMemoryDBClusterToResource == AWS("aws:memorydb:cluster", "name", "name",
  Str({"status", "node_type", "engine", "description", "engine_version",
       "subnet_group_name", "parameter_group_name"})
    @@ Int32({"num_shards"}) @@ Bools({"tls_enabled"}) @@ Nested({"endpoint"}))
convertElastiCacheClusterToResource ==
  [AWS("aws:elasticache:cluster", "name", "name",
     Str({"status", "node_type", "engine", "preferred_az", "engine_version",
          "subnet_group_name", "parameter_group_name"})
       @@ Int32({"num_cache_nodes"}) @@ Nested({"endpoint"}))
   EXCEPT !.created = TRUE]

\* Built in the collectors, without the account; every attribute a property.
Attributes(type, id) ==
  [Row("aws", type, id, "name", NoFields) EXCEPT !.anyProp = TRUE]
collectSNSTopics == Attributes("aws:sns:topic", "arn")
collectSQSQueues == Attributes("aws:sqs:queue", "url")
collectDynamoDBTables == Row("aws", "aws:dynamodb:table", "name", "name",
  As("named string", {"TableStatus", "StreamViewType"})
    @@ Pointers({"ItemCount", "TableSizeBytes", "StreamEnabled"})
    @@ Other({"BillingModeSummary", "ProvisionedThroughput", "KeySchema",
              "AttributeDefinitions", "GlobalSecondaryIndexes", "LocalSecondaryIndexes"}))

-----------------------------------------------------------------------------
(* azure: the tags become a property, a map[string]string.                 *)

Azure(type, props) ==
  [Row("azure", type, "path", "name", props @@ Str({"location"})) EXCEPT !.tags = "property"]
InGroup(props) == props @@ As("resource group", {"resource_group"})

collectResourceGroups  == Azure("azure:resourcegroup", Str({"provisioning_state"}))
collectVirtualMachines == Azure("azure:compute:vm",
  InGroup(Str({"provisioning_state", "vm_size", "computer_name"})))
collectVirtualNetworks == Azure("azure:network:vnet", InGroup(Other({"address_prefixes"})))
collectStorageAccounts == Azure("azure:storage:account",
  InGroup(Str({"kind", "sku", "provisioning_state", "primary_location"})))
collectAppServices     == Azure("azure:web:appservice",
  InGroup(Str({"kind", "state", "default_hostname"}) @@ Bools({"enabled"})))
collectSQLDatabases    == Azure("azure:sql:database", InGroup(Str({"server_name", "status", "sku"})))
collectKeyVaults       == Azure("azure:keyvault:vault", InGroup(NoFields))

-----------------------------------------------------------------------------
(* gcp: the account is the project; compute objects go by their number.    *)

GCP(type, id, props) == [Row("gcp", type, id, "name", props) EXCEPT !.account = TRUE]

convertComputeInstanceToResource == GCP("gcp:compute:instance", "number",
  Str({"machine_type", "status", "zone", "cpu_platform", "creation_timestamp"}))
convertNetworkToResource ==
  [GCP("gcp:compute:network", "number",
     Str({"description"}) @@ Bools({"auto_create_subnetworks"})) EXCEPT !.region = FALSE]
convertSubnetworkToResource ==               \* subnet.Network is a URL
  [GCP("gcp:compute:subnetwork", "number",
     Str({"ip_cidr_range", "network", "description"}) @@ Bools({"private_ip_google_access"}))
   EXCEPT !.links = <<BelongsTo("network", "url", "gcp:compute:network")>>]
convertStorageBucketToResource ==
  [GCP("gcp:storage:bucket", "name",
     Str({"location", "storage_class"}) @@ Bools({"versioning_enabled"}))
   EXCEPT !.created = TRUE]
convertCloudFunctionToResource == GCP("gcp:cloudfunctions:function", "name",
  Str({"runtime", "entry_point", "description"}) @@ Int32({"memory_mb"}) @@ Int64({"timeout"}))
convertCloudRunServiceToResource ==
  [GCP("gcp:run:service", "name", Str({"uri", "description"})) EXCEPT !.created = TRUE]

-----------------------------------------------------------------------------
(* github: the account is the organization's login; IDs are numbers.       *)

GitHub(type, props) ==
  [Row("github", type, "number", "name", props) EXCEPT !.account = TRUE, !.region = FALSE]
Dated(row) == [row EXCEPT !.created = TRUE, !.updated = TRUE]
OfOrg_ByName(ref, row) ==                    \* mutant: linked by the login
  [row EXCEPT !.links = <<BelongsTo(ref, "name", "github:organization")>>]
OfOrg(ref, row) == [row EXCEPT !.links = <<BelongsTo(ref, "number", "github:organization")>>]

convertOrganizationToResource == Dated(GitHub("github:organization",
  Str({"description", "company", "location", "email"})
    @@ Ints({"public_repos", "public_gists", "followers", "following"})))
GitHubRepositoryToResource == OfOrg("owner", Dated(GitHub("github:repository",
  Str({"description", "language", "visibility", "default_branch"})
    @@ Ints({"stars", "forks", "open_issues", "size_kb"}) @@ Bools({"private"}))))
convertTeamToResource == OfOrg("organization", GitHub("github:team",
  Str({"description", "privacy", "permission"}) @@ Ints({"members_count", "repos_count"})))
GitHubUserToResource == GitHub("github:user",
  Str({"name", "email", "company", "location", "type"}) @@ Bools({"site_admin"}))

-----------------------------------------------------------------------------
(* gitlab: the namespace of a project is taken for a group.                *)

GitLab(type, props) ==
  [Row("gitlab", type, "number", "name", props) EXCEPT !.region = FALSE, !.created = TRUE]
convertGroupToResource == GitLab("gitlab:group",
  Str({"full_path", "description"}) @@ As("named string", {"visibility"}) @@ Ints({"parent_id"}))
convertProjectToResource ==
  [GitLab("gitlab:project",
     Str({"path_with_namespace", "description", "default_branch", "web_url", "ssh_url", "http_url"})
       @@ As("named string", {"visibility"}) @@ Bools({"archived"}))
   EXCEPT !.updated = TRUE, !.links = <<BelongsTo("namespace", "number", "gitlab:group")>>]
GitLabUserToResource == GitLab("gitlab:user",
  Str({"username", "email", "state", "web_url", "avatar_url"}))

-----------------------------------------------------------------------------
(* jfrog: everything goes by its name.                                     *)

JFrog(type, props) == [Row("jfrog", type, "name", "name", props) EXCEPT !.region = FALSE]
JFrogRepositoryToResource == JFrog("jfrog:repository",
  Str({"type", "description", "url", "package_type"}))
JFrogUserToResource ==
  [JFrog("jfrog:user",
     Str({"email"}) @@ Bools({"admin", "profile_updatable", "internal_password_disabled"})
       @@ Other({"groups"}))
   EXCEPT !.links = <<BelongsTo("groups", "name", "jfrog:group")>>]
JFrogGroupToResource == JFrog("jfrog:group",
  Str({"description"}) @@ Bools({"auto_join", "admin_privileges"}))
convertPermissionToResource ==
  [JFrog("jfrog:permission", Other({"repositories", "principals"}))
   EXCEPT !.links = <<Link("repositories", "name", "references", "jfrog:repository")>>]

-----------------------------------------------------------------------------
(* okta and auth0: built in the collectors.                                *)

Okta(type, props) == Dated([Row("okta", type, "id", "name",
  props @@ Other({"created", "lastUpdated", "profile"})) EXCEPT !.region = FALSE])
OktaUsers == Okta("okta:user",
  Str({"status", "transitioningToStatus", "email", "firstName", "lastName"})
    @@ Other({"activated", "statusChanged", "lastLogin", "passwordChanged"}))
OktaGroups == Okta("okta:group",
  Str({"type", "name", "description"}) @@ Other({"lastMembershipUpdated"}))
OktaApplications == Okta("okta:application",
  Str({"status", "signOnMode", "name", "label"})
    @@ Other({"settings", "credentialsSigning", "credentialsUserNameTemplate"}))
OktaAuthorizationServers == Okta("okta:authorizationserver",
  Str({"status", "issuer", "name", "description"}) @@ Other({"audiences", "credentialsSigning"}))

Auth0(type, props) == [Row("auth0", type, "id", "name", props) EXCEPT !.region = FALSE]
Auth0Users == Auth0("auth0:user",
  Str({"user_id", "email", "username", "phone_number", "name"})
    @@ Bools({"email_verified", "blocked"}) @@ Int64({"logins_count"})
    @@ Other({"created_at", "updated_at", "last_login", "user_metadata", "app_metadata"}))
Auth0Roles == Auth0("auth0:role", Str({"name", "description"}))
Auth0Clients == Auth0("auth0:client",
  Str({"client_id", "name", "description", "app_type"}) @@ Bools({"is_first_party"})
    @@ Other({"callbacks", "allowed_origins", "web_origins", "grant_types"}))
Auth0ResourceServers == Auth0("auth0:resourceserver",
  Str({"identifier", "name", "signing_alg"})
    @@ Bools({"allow_offline_access", "skip_consent_for_verifiable_first_party_clients"})
    @@ Other({"scopes"}))
Auth0Connections == Auth0("auth0:connection",
  Str({"name", "strategy"}) @@ Other({"enabled_clients"}))

-----------------------------------------------------------------------------
(* All rows.                                                               *)

Rows ==
  {convertVPCToResource, convertSubnetToResource, convertSecurityGroupToResource,
   convertEC2InstanceToResource, convertEKSClusterToResource, convertLambdaFunctionToResource,
   convertClassicLoadBalancerToResource, convertLoadBalancerV2ToResource("application"),
   convertLoadBalancerV2ToResource("network"), convertSecretToResource, convertIAMUserToResource,
   convertIAMRoleToResource, collectAccounts, convertCloudFrontDistributionToResource,
   convertECRRepositoryToResource, convertRESTAPIToResource, convertHTTPAPIToResource,
   convertMemoryDBClusterToResource, convertElastiCacheClusterToResource,
   collectSNSTopics, collectSQSQueues, collectDynamoDBTables,
   collectResourceGroups, collectVirtualMachines, collectVirtualNetworks,
   collectStorageAccounts, collectAppServices, collectSQLDatabases, collectKeyVaults,
   convertComputeInstanceToResource, convertNetworkToResource, convertSubnetworkToResource,
   convertStorageBucketToResource, convertCloudFunctionToResource, convertCloudRunServiceToResource,
   convertOrganizationToResource, GitHubRepositoryToResource, convertTeamToResource,
   GitHubUserToResource, convertGroupToResource, convertProjectToResource, GitLabUserToResource,
   JFrogRepositoryToResource, JFrogUserToResource, JFrogGroupToResource, convertPermissionToResource,
   OktaUsers, OktaGroups, OktaApplications, OktaAuthorizationServers,
   Auth0Users, Auth0Roles, Auth0Clients, Auth0ResourceServers, Auth0Connections}

-----------------------------------------------------------------------------
(* The conversion.                                                         *)

\* extractResourceGroup: the part of the path after "resourceGroups", in any case.
extractResourceGroup(path) ==
  LET at == {i \in DOMAIN path : /\ path[i] \in {"resourceGroups", "resourcegroups"}
                                 /\ i + 2 \in DOMAIN path}
  IN  IF at = {} THEN <<>> ELSE <<path[Min(at) + 2]>>

\* A property: its Go type and its text as "%v" prints it, which for a pointer
\* is an address; or its own properties.
Property(goType, raw) ==
  CASE goType = "map"     -> [type |-> "map", fields |-> raw, text |-> <<"map[...]">>]
    [] goType = "pointer" -> [type |-> "pointer", text |-> <<"0x", "c000">>]
    [] OTHER              -> [type |-> goType, text |-> raw]

Properties(o) ==
  LET row == o.via
      given == IF row.anyProp THEN DOMAIN o.fields ELSE DOMAIN o.fields \cap DOMAIN row.props
      type(p) == IF row.anyProp THEN "string" ELSE row.props[p]
      group == {"resource_group"} \cap DOMAIN row.props
      tags  == IF row.tags = "property" THEN {"tags"} ELSE {}
  IN  [p \in given \cup group \cup tags |->
         IF p \in given THEN Property(type(p), o.fields[p])
         ELSE IF p \in group THEN Property("string", extractResourceGroup(o.forms.path))
         ELSE Property("other", <<"map[...]">>)]

Relationship(rel, target, type) == [rel |-> rel, target |-> target, type |-> type]

\* One relationship for each object the API object refers to, role by role.
Links(o) ==
  FlattenSeq([i \in DOMAIN o.via.links |->
    LET l == o.via.links[i] IN
    IF l.ref \notin DOMAIN o.refs THEN <<>>
    ELSE [j \in DOMAIN o.refs[l.ref] |->
            Relationship(l.rel, o.refs[l.ref][j][l.form], l.target)]])

ToResource(o) ==
  LET row == o.via IN
  [id       |-> o.forms[row.id],
   type     |-> row.type,
   name     |-> IF row.nameTag /\ "Name" \in DOMAIN o.tags /\ o.tags["Name"] # <<>>
                THEN o.tags["Name"] ELSE o.forms[row.name],
   provider |-> row.provider,
   account  |-> IF row.account THEN o.account ELSE Blank,
   region   |-> IF row.region THEN o.region ELSE Blank,
   tags     |-> IF row.tags = "kept" THEN o.tags ELSE NoFields,
   props    |-> Properties(o),
   created  |-> IF row.created THEN o.created ELSE NoDate,
   updated  |-> IF row.updated THEN o.updated ELSE NoDate,
   links    |-> Links(o)]
==============================================================================
