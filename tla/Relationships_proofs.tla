-------------------------- MODULE Relationships_proofs --------------------------
(***************************************************************************)
(* What the discovery pass, the DOT export and resource.Graph make of any  *)
(* inventories.                                                            *)
(***************************************************************************)
EXTENDS Relationships, SequenceInduction

-----------------------------------------------------------------------------
(* A map filled in a loop.                                                 *)

\* Of the first n keys, the last that is k is the j-th.
LastAt(keys, n, k, j) ==
  j \in 1..n /\ keys[j] = k /\ \A m \in 1..n : m > j => keys[m] # k
KeysTo(keys, n) == {keys[j] : j \in 1..n}

LEMMA LastUnique ==
  ASSUME NEW keys, NEW n \in Nat, NEW k, NEW m, NEW j,
         LastAt(keys, n, k, m), LastAt(keys, n, k, j)
  PROVE  m = j
BY DEF LastAt

LEMMA LastExists ==
  ASSUME NEW keys, NEW n \in Nat, NEW k \in KeysTo(keys, n)
  PROVE  \E j : LastAt(keys, n, k, j)
<1> DEFINE T == {j \in 1..n : keys[j] = k}
<1>1. T \in SUBSET (0..n) /\ T # {}
  <2>1. PICK j \in 1..n : keys[j] = k
    BY DEF KeysTo
  <2>2. j \in T
    BY <2>1
  <2>3. QED BY <2>2
<1>2. PICK j \in T : \A m \in T : m <= j
  <2> HIDE DEF T
  <2>1. QED BY <1>1, GreatestNatural
<1>3. \A m \in 1..n : m > j => keys[m] # k
  BY <1>2
<1>4. QED BY <1>2, <1>3 DEF LastAt

\* One more key: it is the last of itself, and nothing changes for the others.
LEMMA LastNext ==
  ASSUME NEW keys, NEW n \in Nat, n # 0
  PROVE  /\ KeysTo(keys, n) = KeysTo(keys, n - 1) \cup {keys[n]}
         /\ LastAt(keys, n, keys[n], n)
         /\ \A k, j : k # keys[n] => (LastAt(keys, n, k, j) <=> LastAt(keys, n - 1, k, j))
<1>1. n - 1 \in Nat /\ n \in 1..n /\ \A m : m \in 1..n <=> m \in 1..(n - 1) \/ m = n
  OBVIOUS
<1>2. KeysTo(keys, n) = KeysTo(keys, n - 1) \cup {keys[n]}
  BY <1>1 DEF KeysTo
<1>3. LastAt(keys, n, keys[n], n)
  BY <1>1 DEF LastAt
<1>4. ASSUME NEW k, NEW j, k # keys[n]
      PROVE  LastAt(keys, n, k, j) <=> LastAt(keys, n - 1, k, j)
  BY <1>1, <1>4 DEF LastAt
<1>5. QED BY <1>2, <1>3, <1>4

\* The map has the keys, and for each the value that was assigned last.
LEMMA AssignedLast ==
  ASSUME NEW keys, NEW values, Len(keys) \in Nat
  PROVE  /\ DOMAIN Assigned(keys, values) = KeysTo(keys, Len(keys))
         /\ \A k, j : LastAt(keys, Len(keys), k, j) => Assigned(keys, values)[k] = values[j]
<1> DEFINE len == Len(keys)
           Latest(n, k) == CHOOSE j : LastAt(keys, n, k, j)
           Value(f, n) == IF n = 0 THEN [k \in {} |-> k]
                          ELSE [k \in DOMAIN f[n - 1] \cup {keys[n]} |->
                                  IF k = keys[n] THEN values[n] ELSE f[n - 1][k]]
           Def(f) == [n \in 0..len |-> IF n = 0 THEN [k \in {} |-> k]
                          ELSE [k \in DOMAIN f[n - 1] \cup {keys[n]} |->
                                  IF k = keys[n] THEN values[n] ELSE f[n - 1][k]]]
           At(n) == [k \in KeysTo(keys, n) |-> values[Latest(n, k)]]
           h == [n \in 0..len |-> At(n)]
           upTo == CHOOSE f : f = Def(f)
<1>1. len \in Nat
  OBVIOUS
<1>2. ASSUME NEW n \in Nat, NEW k, NEW j, LastAt(keys, n, k, j) PROVE Latest(n, k) = j
  <2>1. LastAt(keys, n, k, Latest(n, k))
    BY <1>2
  <2> HIDE DEF Latest
  <2>2. QED BY <1>2, <2>1, LastUnique
<1> HIDE DEF Latest, len
<1>3. ASSUME NEW n \in 0..len PROVE h[n] = Value(h, n)
  <2>1. n \in Nat /\ h[n] = At(n) /\ (n # 0 => n - 1 \in 0..len /\ n - 1 \in Nat)
    BY <1>1
  <2>2. CASE n = 0
    <3>1. KeysTo(keys, 0) = {}
      BY DEF KeysTo
    <3>2. QED BY <2>1, <2>2, <3>1
  <2>3. CASE n # 0
    <3>1. h[n - 1] = At(n - 1)
      BY <2>1, <2>3
    <3>2. DOMAIN h[n - 1] = KeysTo(keys, n - 1)
      BY <3>1
    <3>3. KeysTo(keys, n) = DOMAIN h[n - 1] \cup {keys[n]}
      BY <2>1, <2>3, <3>2, LastNext
    <3>4. ASSUME NEW k \in KeysTo(keys, n)
          PROVE  values[Latest(n, k)] = IF k = keys[n] THEN values[n] ELSE h[n - 1][k]
      <4>1. CASE k = keys[n]
        <5>1. LastAt(keys, n, k, n)
          BY <2>1, <2>3, <4>1, LastNext
        <5>2. Latest(n, k) = n
          BY <1>2, <2>1, <5>1
        <5>3. QED BY <4>1, <5>2
      <4>2. CASE k # keys[n]
        <5>1. k \in KeysTo(keys, n - 1)
          BY <3>2, <3>3, <4>2
        <5>2. PICK j : LastAt(keys, n - 1, k, j)
          BY <2>1, <2>3, <5>1, LastExists
        <5>3. LastAt(keys, n, k, j)
          BY <2>1, <2>3, <4>2, <5>2, LastNext
        <5>4. Latest(n, k) = j /\ Latest(n - 1, k) = j
          BY <1>2, <2>1, <2>3, <5>2, <5>3
        <5>5. h[n - 1][k] = values[Latest(n - 1, k)]
          BY <3>1, <5>1
        <5>6. QED BY <4>2, <5>4, <5>5
      <4>3. QED BY <4>1, <4>2
    <3> HIDE DEF h
    <3>5. QED BY <2>1, <2>3, <3>3, <3>4
  <2>4. QED BY <2>2, <2>3
<1> HIDE DEF At
<1>4. h = Def(h)
  <2>1. h = [n \in 0..len |-> h[n]]
    OBVIOUS
  <2> HIDE DEF h
  <2>2. QED BY <1>3, <2>1
<1>5. upTo = Def(upTo)
  BY <1>4
<1>6. \A n \in 0..len : upTo[n] = Value(upTo, n)
  <2> HIDE DEF upTo
  <2>1. PICK f : f = upTo
    OBVIOUS
  <2>2. f = Def(f)
    BY <1>5, <2>1
  <2>3. \A n \in 0..len : f[n] = Value(f, n)
    BY <2>2
  <2>4. QED BY <2>1, <2>3
<1>7. Assigned(keys, values) = upTo[len]
  BY DEF Assigned, len
<1> HIDE DEF upTo, Def, h
<1>8. \A n \in 0..len : h[n] = upTo[n]
  <2>1. h[0] = upTo[0]
    <3>1. 0 \in 0..len
      BY <1>1
    <3>2. h[0] = Value(h, 0) /\ upTo[0] = Value(upTo, 0)
      BY <1>3, <1>6, <3>1
    <3>3. Value(h, 0) = Value(upTo, 0)
      OBVIOUS
    <3>4. QED BY <3>2, <3>3
  <2>2. ASSUME NEW n \in 1..len, h[n - 1] = upTo[n - 1] PROVE h[n] = upTo[n]
    <3>1. n \in 0..len
      BY <1>1
    <3>2. h[n] = Value(h, n) /\ upTo[n] = Value(upTo, n)
      BY <1>3, <1>6, <3>1
    <3>3. QED BY <2>2, <3>2
  <2>3. PICK m, f, g : m = len /\ f = h /\ g = upTo
    OBVIOUS
  <2>4. m \in Nat /\ f[0] = g[0] /\ \A n \in 1..m : f[n - 1] = g[n - 1] => f[n] = g[n]
    BY <1>1, <2>1, <2>2, <2>3
  <2>5. \A n \in 0..m : f[n] = g[n]
    BY SMTT(40), <2>4, StepsAgree
  <2>6. QED BY <2>3, <2>5
<1>9. Assigned(keys, values) = At(len)
  <2>1. len \in 0..len
    BY <1>1
  <2>2. h[len] = At(len)
    BY <2>1 DEF h
  <2>3. QED BY <1>7, <1>8, <2>1, <2>2
<1>10. ASSUME NEW k, NEW j, LastAt(keys, len, k, j) PROVE At(len)[k] = values[j]
  <2>1. k \in KeysTo(keys, len)
    BY <1>10 DEF LastAt, KeysTo
  <2>2. Latest(len, k) = j
    BY <1>1, <1>2, <1>10
  <2>3. QED BY <2>1, <2>2 DEF At
<1>11. DOMAIN At(len) = KeysTo(keys, len)
  BY DEF At
<1>12. QED BY <1>9, <1>10, <1>11 DEF len

-----------------------------------------------------------------------------
(* The rows of the converters.                                             *)

\* What the linking reads of a row.
Fits(row, type, id, links) == row.type = type /\ row.id = id /\ row.links = links

LEMMA AWSRows ==
  /\ Fits(convertVPCToResource, "aws:ec2:vpc", "id", <<>>)
  /\ Fits(convertSubnetToResource, "aws:ec2:subnet", "id",
          <<BelongsTo("vpc", "id", "aws:ec2:vpc")>>)
  /\ Fits(convertSecurityGroupToResource, "aws:ec2:security-group", "id",
          <<BelongsTo("vpc", "id", "aws:ec2:vpc")>>)
  /\ Fits(convertEC2InstanceToResource, "aws:ec2:instance", "id",
          <<BelongsTo("vpc", "id", "aws:ec2:vpc"), BelongsTo("subnet", "id", "aws:ec2:subnet")>>)
  /\ Fits(convertEKSClusterToResource, "aws:eks:cluster", "name",
          <<BelongsTo("vpc", "id", "aws:ec2:vpc")>>)
  /\ Fits(convertLambdaFunctionToResource, "aws:lambda:function", "name",
          <<BelongsTo("vpc", "id", "aws:ec2:vpc")>>)
  /\ Fits(convertClassicLoadBalancerToResource, "aws:elb:classic", "name",
          <<BelongsTo("vpc", "id", "aws:ec2:vpc")>>)
  /\ Fits(convertLoadBalancerV2ToResource("application"), "aws:elb:application", "arn",
          <<BelongsTo("vpc", "id", "aws:ec2:vpc")>>)
  /\ Fits(convertLoadBalancerV2ToResource("network"), "aws:elb:network", "arn",
          <<BelongsTo("vpc", "id", "aws:ec2:vpc")>>)
  /\ Fits(convertSecretToResource, "aws:secretsmanager:secret", "arn",
          <<Link("key", "id", "depends_on", "aws:kms:key")>>)
  /\ Fits(convertIAMUserToResource, "aws:iam:user", "arn", <<>>)
  /\ Fits(convertIAMRoleToResource, "aws:iam:role", "arn", <<>>)
  /\ Fits(collectAccounts, "aws:account", "id", <<>>)
  /\ Fits(convertCloudFrontDistributionToResource, "aws:cloudfront:distribution", "id", <<>>)
  /\ Fits(convertECRRepositoryToResource, "aws:ecr:repository", "arn", <<>>)
  /\ Fits(convertRESTAPIToResource, "aws:apigateway:api", "id", <<>>)
  /\ Fits(convertHTTPAPIToResource, "aws:apigateway:api", "id", <<>>)
  /\ Fits(convertMemoryDBClusterToResource, "aws:memorydb:cluster", "name", <<>>)
  /\ Fits(convertElastiCacheClusterToResource, "aws:elasticache:cluster", "name", <<>>)
  /\ Fits(collectSNSTopics, "aws:sns:topic", "arn", <<>>)
  /\ Fits(collectSQSQueues, "aws:sqs:queue", "url", <<>>)
  /\ Fits(collectDynamoDBTables, "aws:dynamodb:table", "name", <<>>)
<1>1. Fits(convertVPCToResource, "aws:ec2:vpc", "id", <<>>)
  BY DEF Fits, convertVPCToResource, AWS, Row, Named, InVPC, BelongsTo, Link
<1>2. Fits(convertSubnetToResource, "aws:ec2:subnet", "id",
          <<BelongsTo("vpc", "id", "aws:ec2:vpc")>>)
  BY DEF Fits, convertSubnetToResource, AWS, Row, Named, InVPC, BelongsTo, Link
<1>3. Fits(convertSecurityGroupToResource, "aws:ec2:security-group", "id",
          <<BelongsTo("vpc", "id", "aws:ec2:vpc")>>)
  BY DEF Fits, convertSecurityGroupToResource, AWS, Row, Named, InVPC, BelongsTo, Link
<1>4. Fits(convertEC2InstanceToResource, "aws:ec2:instance", "id",
          <<BelongsTo("vpc", "id", "aws:ec2:vpc"), BelongsTo("subnet", "id", "aws:ec2:subnet")>>)
  BY DEF Fits, convertEC2InstanceToResource, AWS, Row, Named, InVPC, BelongsTo, Link
<1>5. Fits(convertEKSClusterToResource, "aws:eks:cluster", "name",
          <<BelongsTo("vpc", "id", "aws:ec2:vpc")>>)
  BY DEF Fits, convertEKSClusterToResource, AWS, Row, Named, InVPC, BelongsTo, Link
<1>6. Fits(convertLambdaFunctionToResource, "aws:lambda:function", "name",
          <<BelongsTo("vpc", "id", "aws:ec2:vpc")>>)
  BY DEF Fits, convertLambdaFunctionToResource, AWS, Row, Named, InVPC, BelongsTo, Link
<1>7. Fits(convertClassicLoadBalancerToResource, "aws:elb:classic", "name",
          <<BelongsTo("vpc", "id", "aws:ec2:vpc")>>)
  BY DEF Fits, convertClassicLoadBalancerToResource, AWS, Row, Named, InVPC, BelongsTo, Link
<1>8. Fits(convertLoadBalancerV2ToResource("application"), "aws:elb:application", "arn",
          <<BelongsTo("vpc", "id", "aws:ec2:vpc")>>)
  BY DEF Fits, convertLoadBalancerV2ToResource, AWS, Row, Named, InVPC, BelongsTo, Link
<1>9. Fits(convertLoadBalancerV2ToResource("network"), "aws:elb:network", "arn",
          <<BelongsTo("vpc", "id", "aws:ec2:vpc")>>)
  BY DEF Fits, convertLoadBalancerV2ToResource, AWS, Row, Named, InVPC, BelongsTo, Link
<1>10. Fits(convertSecretToResource, "aws:secretsmanager:secret", "arn",
          <<Link("key", "id", "depends_on", "aws:kms:key")>>)
  BY DEF Fits, convertSecretToResource, AWS, Row, Named, InVPC, BelongsTo, Link
<1>11. Fits(convertIAMUserToResource, "aws:iam:user", "arn", <<>>)
  BY DEF Fits, convertIAMUserToResource, AWS, Row, Named, InVPC, BelongsTo, Link
<1>12. Fits(convertIAMRoleToResource, "aws:iam:role", "arn", <<>>)
  BY DEF Fits, convertIAMRoleToResource, AWS, Row, Named, InVPC, BelongsTo, Link
<1>13. Fits(collectAccounts, "aws:account", "id", <<>>)
  BY DEF Fits, collectAccounts, AWS, Row, Named, InVPC, BelongsTo, Link
<1>14. Fits(convertCloudFrontDistributionToResource, "aws:cloudfront:distribution", "id", <<>>)
  BY DEF Fits, convertCloudFrontDistributionToResource, AWS, Row, Named, InVPC, BelongsTo, Link
<1>15. Fits(convertECRRepositoryToResource, "aws:ecr:repository", "arn", <<>>)
  BY DEF Fits, convertECRRepositoryToResource, AWS, Row, Named, InVPC, BelongsTo, Link
<1>16. Fits(convertRESTAPIToResource, "aws:apigateway:api", "id", <<>>)
  BY DEF Fits, convertRESTAPIToResource, AWS, Row, Named, InVPC, BelongsTo, Link
<1>17. Fits(convertHTTPAPIToResource, "aws:apigateway:api", "id", <<>>)
  BY DEF Fits, convertHTTPAPIToResource, AWS, Row, Named, InVPC, BelongsTo, Link
<1>18. Fits(convertMemoryDBClusterToResource, "aws:memorydb:cluster", "name", <<>>)
  BY DEF Fits, convertMemoryDBClusterToResource, AWS, Row, Named, InVPC, BelongsTo, Link
<1>19. Fits(convertElastiCacheClusterToResource, "aws:elasticache:cluster", "name", <<>>)
  BY DEF Fits, convertElastiCacheClusterToResource, AWS, Row, Named, InVPC, BelongsTo, Link
<1>20. Fits(collectSNSTopics, "aws:sns:topic", "arn", <<>>)
  BY DEF Fits, collectSNSTopics, AWS, Row, Named, InVPC, BelongsTo, Link, Attributes
<1>21. Fits(collectSQSQueues, "aws:sqs:queue", "url", <<>>)
  BY DEF Fits, collectSQSQueues, AWS, Row, Named, InVPC, BelongsTo, Link, Attributes
<1>22. Fits(collectDynamoDBTables, "aws:dynamodb:table", "name", <<>>)
  BY DEF Fits, collectDynamoDBTables, AWS, Row, Named, InVPC, BelongsTo, Link
<1>23. QED BY <1>1, <1>2, <1>3, <1>4, <1>5, <1>6, <1>7, <1>8, <1>9, <1>10, <1>11, <1>12, <1>13, <1>14, <1>15, <1>16, <1>17, <1>18, <1>19, <1>20, <1>21, <1>22

LEMMA AzureRows ==
  /\ Fits(collectResourceGroups, "azure:resourcegroup", "path", <<>>)
  /\ Fits(collectVirtualMachines, "azure:compute:vm", "path", <<>>)
  /\ Fits(collectVirtualNetworks, "azure:network:vnet", "path", <<>>)
  /\ Fits(collectStorageAccounts, "azure:storage:account", "path", <<>>)
  /\ Fits(collectAppServices, "azure:web:appservice", "path", <<>>)
  /\ Fits(collectSQLDatabases, "azure:sql:database", "path", <<>>)
  /\ Fits(collectKeyVaults, "azure:keyvault:vault", "path", <<>>)
<1>1. Fits(collectResourceGroups, "azure:resourcegroup", "path", <<>>)
  BY DEF Fits, collectResourceGroups, Azure, Row
<1>2. Fits(collectVirtualMachines, "azure:compute:vm", "path", <<>>)
  BY DEF Fits, collectVirtualMachines, Azure, Row
<1>3. Fits(collectVirtualNetworks, "azure:network:vnet", "path", <<>>)
  BY DEF Fits, collectVirtualNetworks, Azure, Row
<1>4. Fits(collectStorageAccounts, "azure:storage:account", "path", <<>>)
  BY DEF Fits, collectStorageAccounts, Azure, Row
<1>5. Fits(collectAppServices, "azure:web:appservice", "path", <<>>)
  BY DEF Fits, collectAppServices, Azure, Row
<1>6. Fits(collectSQLDatabases, "azure:sql:database", "path", <<>>)
  BY DEF Fits, collectSQLDatabases, Azure, Row
<1>7. Fits(collectKeyVaults, "azure:keyvault:vault", "path", <<>>)
  BY DEF Fits, collectKeyVaults, Azure, Row
<1>8. QED BY <1>1, <1>2, <1>3, <1>4, <1>5, <1>6, <1>7

LEMMA GCPRows ==
  /\ Fits(convertComputeInstanceToResource, "gcp:compute:instance", "number", <<>>)
  /\ Fits(convertNetworkToResource, "gcp:compute:network", "number", <<>>)
  /\ Fits(convertSubnetworkToResource, "gcp:compute:subnetwork", "number",
          <<BelongsTo("network", "url", "gcp:compute:network")>>)
  /\ Fits(convertStorageBucketToResource, "gcp:storage:bucket", "name", <<>>)
  /\ Fits(convertCloudFunctionToResource, "gcp:cloudfunctions:function", "name", <<>>)
  /\ Fits(convertCloudRunServiceToResource, "gcp:run:service", "name", <<>>)
<1>1. Fits(convertComputeInstanceToResource, "gcp:compute:instance", "number", <<>>)
  BY DEF Fits, convertComputeInstanceToResource, GCP, Row, BelongsTo, Link
<1>2. Fits(convertNetworkToResource, "gcp:compute:network", "number", <<>>)
  BY DEF Fits, convertNetworkToResource, GCP, Row, BelongsTo, Link
<1>3. Fits(convertSubnetworkToResource, "gcp:compute:subnetwork", "number",
          <<BelongsTo("network", "url", "gcp:compute:network")>>)
  BY DEF Fits, convertSubnetworkToResource, GCP, Row, BelongsTo, Link
<1>4. Fits(convertStorageBucketToResource, "gcp:storage:bucket", "name", <<>>)
  BY DEF Fits, convertStorageBucketToResource, GCP, Row, BelongsTo, Link
<1>5. Fits(convertCloudFunctionToResource, "gcp:cloudfunctions:function", "name", <<>>)
  BY DEF Fits, convertCloudFunctionToResource, GCP, Row, BelongsTo, Link
<1>6. Fits(convertCloudRunServiceToResource, "gcp:run:service", "name", <<>>)
  BY DEF Fits, convertCloudRunServiceToResource, GCP, Row, BelongsTo, Link
<1>7. QED BY <1>1, <1>2, <1>3, <1>4, <1>5, <1>6

LEMMA GitRows ==
  /\ Fits(convertOrganizationToResource, "github:organization", "number", <<>>)
  /\ Fits(GitHubRepositoryToResource, "github:repository", "number",
          <<BelongsTo("owner", "number", "github:organization")>>)
  /\ Fits(convertTeamToResource, "github:team", "number",
          <<BelongsTo("organization", "number", "github:organization")>>)
  /\ Fits(GitHubUserToResource, "github:user", "number", <<>>)
  /\ Fits(convertGroupToResource, "gitlab:group", "number", <<>>)
  /\ Fits(convertProjectToResource, "gitlab:project", "number",
          <<BelongsTo("namespace", "number", "gitlab:group")>>)
  /\ Fits(GitLabUserToResource, "gitlab:user", "number", <<>>)
<1>1. Fits(convertOrganizationToResource, "github:organization", "number", <<>>)
  BY DEF Fits, convertOrganizationToResource, GitHub, GitLab, Dated, OfOrg, Row, BelongsTo, Link
<1>2. Fits(GitHubRepositoryToResource, "github:repository", "number",
          <<BelongsTo("owner", "number", "github:organization")>>)
  BY DEF Fits, GitHubRepositoryToResource, GitHub, GitLab, Dated, OfOrg, Row, BelongsTo, Link
<1>3. Fits(convertTeamToResource, "github:team", "number",
          <<BelongsTo("organization", "number", "github:organization")>>)
  BY DEF Fits, convertTeamToResource, GitHub, GitLab, Dated, OfOrg, Row, BelongsTo, Link
<1>4. Fits(GitHubUserToResource, "github:user", "number", <<>>)
  BY DEF Fits, GitHubUserToResource, GitHub, GitLab, Dated, OfOrg, Row, BelongsTo, Link
<1>5. Fits(convertGroupToResource, "gitlab:group", "number", <<>>)
  BY DEF Fits, convertGroupToResource, GitHub, GitLab, Dated, OfOrg, Row, BelongsTo, Link
<1>6. Fits(convertProjectToResource, "gitlab:project", "number",
          <<BelongsTo("namespace", "number", "gitlab:group")>>)
  BY DEF Fits, convertProjectToResource, GitHub, GitLab, Dated, OfOrg, Row, BelongsTo, Link
<1>7. Fits(GitLabUserToResource, "gitlab:user", "number", <<>>)
  BY DEF Fits, GitLabUserToResource, GitHub, GitLab, Dated, OfOrg, Row, BelongsTo, Link
<1>8. QED BY <1>1, <1>2, <1>3, <1>4, <1>5, <1>6, <1>7

LEMMA JFrogRows ==
  /\ Fits(JFrogRepositoryToResource, "jfrog:repository", "name", <<>>)
  /\ Fits(JFrogUserToResource, "jfrog:user", "name",
          <<BelongsTo("groups", "name", "jfrog:group")>>)
  /\ Fits(JFrogGroupToResource, "jfrog:group", "name", <<>>)
  /\ Fits(convertPermissionToResource, "jfrog:permission", "name",
          <<Link("repositories", "name", "references", "jfrog:repository")>>)
<1>1. Fits(JFrogRepositoryToResource, "jfrog:repository", "name", <<>>)
  BY DEF Fits, JFrogRepositoryToResource, JFrog, Row, BelongsTo, Link
<1>2. Fits(JFrogUserToResource, "jfrog:user", "name",
          <<BelongsTo("groups", "name", "jfrog:group")>>)
  BY DEF Fits, JFrogUserToResource, JFrog, Row, BelongsTo, Link
<1>3. Fits(JFrogGroupToResource, "jfrog:group", "name", <<>>)
  BY DEF Fits, JFrogGroupToResource, JFrog, Row, BelongsTo, Link
<1>4. Fits(convertPermissionToResource, "jfrog:permission", "name",
          <<Link("repositories", "name", "references", "jfrog:repository")>>)
  BY DEF Fits, convertPermissionToResource, JFrog, Row, BelongsTo, Link
<1>5. QED BY <1>1, <1>2, <1>3, <1>4

LEMMA DirectoryRows ==
  /\ Fits(OktaUsers, "okta:user", "id", <<>>)
  /\ Fits(OktaGroups, "okta:group", "id", <<>>)
  /\ Fits(OktaApplications, "okta:application", "id", <<>>)
  /\ Fits(OktaAuthorizationServers, "okta:authorizationserver", "id", <<>>)
  /\ Fits(Auth0Users, "auth0:user", "id", <<>>)
  /\ Fits(Auth0Roles, "auth0:role", "id", <<>>)
  /\ Fits(Auth0Clients, "auth0:client", "id", <<>>)
  /\ Fits(Auth0ResourceServers, "auth0:resourceserver", "id", <<>>)
  /\ Fits(Auth0Connections, "auth0:connection", "id", <<>>)
<1>1. Fits(OktaUsers, "okta:user", "id", <<>>)
  BY DEF Fits, OktaUsers, Okta, Auth0, Dated, Row
<1>2. Fits(OktaGroups, "okta:group", "id", <<>>)
  BY DEF Fits, OktaGroups, Okta, Auth0, Dated, Row
<1>3. Fits(OktaApplications, "okta:application", "id", <<>>)
  BY DEF Fits, OktaApplications, Okta, Auth0, Dated, Row
<1>4. Fits(OktaAuthorizationServers, "okta:authorizationserver", "id", <<>>)
  BY DEF Fits, OktaAuthorizationServers, Okta, Auth0, Dated, Row
<1>5. Fits(Auth0Users, "auth0:user", "id", <<>>)
  BY DEF Fits, Auth0Users, Okta, Auth0, Dated, Row
<1>6. Fits(Auth0Roles, "auth0:role", "id", <<>>)
  BY DEF Fits, Auth0Roles, Okta, Auth0, Dated, Row
<1>7. Fits(Auth0Clients, "auth0:client", "id", <<>>)
  BY DEF Fits, Auth0Clients, Okta, Auth0, Dated, Row
<1>8. Fits(Auth0ResourceServers, "auth0:resourceserver", "id", <<>>)
  BY DEF Fits, Auth0ResourceServers, Okta, Auth0, Dated, Row
<1>9. Fits(Auth0Connections, "auth0:connection", "id", <<>>)
  BY DEF Fits, Auth0Connections, Okta, Auth0, Dated, Row
<1>10. QED BY <1>1, <1>2, <1>3, <1>4, <1>5, <1>6, <1>7, <1>8, <1>9


\* What the converters agree on: the form of the IDs that links use.
IdForm(type) ==
  IF type \in {"aws:ec2:vpc", "aws:ec2:subnet", "aws:kms:key"} THEN "id"
  ELSE IF type \in {"github:organization", "gitlab:group", "gcp:compute:network"} THEN "number"
  ELSE "name"
LinkedTypes == {"aws:ec2:vpc", "aws:ec2:subnet", "aws:kms:key", "github:organization",
                "gitlab:group", "gcp:compute:network", "jfrog:group", "jfrog:repository"}
Contained == {"aws:ec2:subnet", "aws:ec2:security-group", "github:repository", "github:team"}

RowLinkOK(type, l) ==
  /\ l.rel \in RelationTypes
  /\ l.target \in LinkedTypes
  /\ l.form # "url" => l.form = IdForm(l.target)
  /\ type \in {"aws:ec2:subnet", "aws:ec2:security-group"} => l.target = "aws:ec2:vpc"
  /\ type \in {"github:repository", "github:team"} => l.target = "github:organization"
RowOK(row) ==
  /\ IsSequence(row.links)
  /\ \A n \in DOMAIN row.links : RowLinkOK(row.type, row.links[n])
  /\ row.type \in LinkedTypes => row.id = IdForm(row.type)
  /\ row.type \in Containers => row.links = <<>>

LEMMA NoLink ==
  ASSUME NEW row, NEW type, NEW id, Fits(row, type, id, <<>>),
         type \in LinkedTypes => id = IdForm(type)
  PROVE  RowOK(row)
<1>1. Len(<<>>) = 0 /\ DOMAIN <<>> = {} /\ 1..0 = {}
  OBVIOUS
<1>2. QED BY <1>1 DEF RowOK, Fits, IsSequence

LEMMA OneLink ==
  ASSUME NEW row, NEW type, NEW id, NEW l, Fits(row, type, id, <<l>>),
         type \in LinkedTypes => id = IdForm(type),
         type \notin Containers, RowLinkOK(type, l)
  PROVE  RowOK(row)
<1>1. Len(<<l>>) = 1 /\ DOMAIN <<l>> = 1..1 /\ <<l>>[1] = l
  OBVIOUS
<1>2. \A n \in 1..1 : n = 1
  OBVIOUS
<1>3. QED BY <1>1, <1>2 DEF RowOK, Fits, IsSequence

LEMMA TwoLinks ==
  ASSUME NEW row, NEW type, NEW id, NEW l, NEW m, Fits(row, type, id, <<l, m>>),
         type \in LinkedTypes => id = IdForm(type),
         type \notin Containers, RowLinkOK(type, l), RowLinkOK(type, m)
  PROVE  RowOK(row)
<1>1. Len(<<l, m>>) = 2 /\ DOMAIN <<l, m>> = 1..2 /\ <<l, m>>[1] = l /\ <<l, m>>[2] = m
  OBVIOUS
<1>2. \A n \in 1..2 : n = 1 \/ n = 2
  OBVIOUS
<1>3. QED BY <1>1, <1>2 DEF RowOK, Fits, IsSequence

\* Links have a type and a form that a row of that type has its ID in.
LEMMA RowsAgree == \A row \in Rows : RowOK(row)
<1>1. RowOK(convertVPCToResource)
  <2>1. "aws:ec2:vpc" \in LinkedTypes => "id" = IdForm("aws:ec2:vpc")
    BY DEF LinkedTypes, IdForm
  <2>2. QED BY <2>1, AWSRows, NoLink
<1>2. RowOK(convertSubnetToResource)
  <2>1. "aws:ec2:subnet" \in LinkedTypes => "id" = IdForm("aws:ec2:subnet")
    BY DEF LinkedTypes, IdForm
  <2>2. RowLinkOK("aws:ec2:subnet",
          BelongsTo("vpc", "id", "aws:ec2:vpc"))
    BY DEF RowLinkOK, RelationTypes, LinkedTypes, IdForm, BelongsTo, Link
  <2>3. "aws:ec2:subnet" \notin Containers
    BY DEF Containers
  <2>4. QED BY <2>1, <2>2, <2>3, AWSRows, OneLink
<1>3. RowOK(convertSecurityGroupToResource)
  <2>1. "aws:ec2:security-group" \in LinkedTypes => "id" = IdForm("aws:ec2:security-group")
    BY DEF LinkedTypes, IdForm
  <2>2. RowLinkOK("aws:ec2:security-group",
          BelongsTo("vpc", "id", "aws:ec2:vpc"))
    BY DEF RowLinkOK, RelationTypes, LinkedTypes, IdForm, BelongsTo, Link
  <2>3. "aws:ec2:security-group" \notin Containers
    BY DEF Containers
  <2>4. QED BY <2>1, <2>2, <2>3, AWSRows, OneLink
<1>4. RowOK(convertEC2InstanceToResource)
  <2>1. "aws:ec2:instance" \in LinkedTypes => "id" = IdForm("aws:ec2:instance")
    BY DEF LinkedTypes, IdForm
  <2>2. RowLinkOK("aws:ec2:instance",
          BelongsTo("vpc", "id", "aws:ec2:vpc"))
    BY DEF RowLinkOK, RelationTypes, LinkedTypes, IdForm, BelongsTo, Link
  <2>3. RowLinkOK("aws:ec2:instance",
          BelongsTo("subnet", "id", "aws:ec2:subnet"))
    BY DEF RowLinkOK, RelationTypes, LinkedTypes, IdForm, BelongsTo, Link
  <2>4. "aws:ec2:instance" \notin Containers
    BY DEF Containers
  <2>5. QED BY <2>1, <2>2, <2>3, <2>4, AWSRows, TwoLinks
<1>5. RowOK(convertEKSClusterToResource)
  <2>1. "aws:eks:cluster" \in LinkedTypes => "name" = IdForm("aws:eks:cluster")
    BY DEF LinkedTypes, IdForm
  <2>2. RowLinkOK("aws:eks:cluster",
          BelongsTo("vpc", "id", "aws:ec2:vpc"))
    BY DEF RowLinkOK, RelationTypes, LinkedTypes, IdForm, BelongsTo, Link
  <2>3. "aws:eks:cluster" \notin Containers
    BY DEF Containers
  <2>4. QED BY <2>1, <2>2, <2>3, AWSRows, OneLink
<1>6. RowOK(convertLambdaFunctionToResource)
  <2>1. "aws:lambda:function" \in LinkedTypes => "name" = IdForm("aws:lambda:function")
    BY DEF LinkedTypes, IdForm
  <2>2. RowLinkOK("aws:lambda:function",
          BelongsTo("vpc", "id", "aws:ec2:vpc"))
    BY DEF RowLinkOK, RelationTypes, LinkedTypes, IdForm, BelongsTo, Link
  <2>3. "aws:lambda:function" \notin Containers
    BY DEF Containers
  <2>4. QED BY <2>1, <2>2, <2>3, AWSRows, OneLink
<1>7. RowOK(convertClassicLoadBalancerToResource)
  <2>1. "aws:elb:classic" \in LinkedTypes => "name" = IdForm("aws:elb:classic")
    BY DEF LinkedTypes, IdForm
  <2>2. RowLinkOK("aws:elb:classic",
          BelongsTo("vpc", "id", "aws:ec2:vpc"))
    BY DEF RowLinkOK, RelationTypes, LinkedTypes, IdForm, BelongsTo, Link
  <2>3. "aws:elb:classic" \notin Containers
    BY DEF Containers
  <2>4. QED BY <2>1, <2>2, <2>3, AWSRows, OneLink
<1>8. RowOK(convertLoadBalancerV2ToResource("application"))
  <2>1. "aws:elb:application" \in LinkedTypes => "arn" = IdForm("aws:elb:application")
    BY DEF LinkedTypes, IdForm
  <2>2. RowLinkOK("aws:elb:application",
          BelongsTo("vpc", "id", "aws:ec2:vpc"))
    BY DEF RowLinkOK, RelationTypes, LinkedTypes, IdForm, BelongsTo, Link
  <2>3. "aws:elb:application" \notin Containers
    BY DEF Containers
  <2>4. QED BY <2>1, <2>2, <2>3, AWSRows, OneLink
<1>9. RowOK(convertLoadBalancerV2ToResource("network"))
  <2>1. "aws:elb:network" \in LinkedTypes => "arn" = IdForm("aws:elb:network")
    BY DEF LinkedTypes, IdForm
  <2>2. RowLinkOK("aws:elb:network",
          BelongsTo("vpc", "id", "aws:ec2:vpc"))
    BY DEF RowLinkOK, RelationTypes, LinkedTypes, IdForm, BelongsTo, Link
  <2>3. "aws:elb:network" \notin Containers
    BY DEF Containers
  <2>4. QED BY <2>1, <2>2, <2>3, AWSRows, OneLink
<1>10. RowOK(convertSecretToResource)
  <2>1. "aws:secretsmanager:secret" \in LinkedTypes => "arn" = IdForm("aws:secretsmanager:secret")
    BY DEF LinkedTypes, IdForm
  <2>2. RowLinkOK("aws:secretsmanager:secret",
          Link("key", "id", "depends_on", "aws:kms:key"))
    BY DEF RowLinkOK, RelationTypes, LinkedTypes, IdForm, BelongsTo, Link
  <2>3. "aws:secretsmanager:secret" \notin Containers
    BY DEF Containers
  <2>4. QED BY <2>1, <2>2, <2>3, AWSRows, OneLink
<1>11. RowOK(convertIAMUserToResource)
  <2>1. "aws:iam:user" \in LinkedTypes => "arn" = IdForm("aws:iam:user")
    BY DEF LinkedTypes, IdForm
  <2>2. QED BY <2>1, AWSRows, NoLink
<1>12. RowOK(convertIAMRoleToResource)
  <2>1. "aws:iam:role" \in LinkedTypes => "arn" = IdForm("aws:iam:role")
    BY DEF LinkedTypes, IdForm
  <2>2. QED BY <2>1, AWSRows, NoLink
<1>13. RowOK(collectAccounts)
  <2>1. "aws:account" \in LinkedTypes => "id" = IdForm("aws:account")
    BY DEF LinkedTypes, IdForm
  <2>2. QED BY <2>1, AWSRows, NoLink
<1>14. RowOK(convertCloudFrontDistributionToResource)
  <2>1. "aws:cloudfront:distribution" \in LinkedTypes => "id" = IdForm("aws:cloudfront:distribution")
    BY DEF LinkedTypes, IdForm
  <2>2. QED BY <2>1, AWSRows, NoLink
<1>15. RowOK(convertECRRepositoryToResource)
  <2>1. "aws:ecr:repository" \in LinkedTypes => "arn" = IdForm("aws:ecr:repository")
    BY DEF LinkedTypes, IdForm
  <2>2. QED BY <2>1, AWSRows, NoLink
<1>16. RowOK(convertRESTAPIToResource)
  <2>1. "aws:apigateway:api" \in LinkedTypes => "id" = IdForm("aws:apigateway:api")
    BY DEF LinkedTypes, IdForm
  <2>2. QED BY <2>1, AWSRows, NoLink
<1>17. RowOK(convertHTTPAPIToResource)
  <2>1. "aws:apigateway:api" \in LinkedTypes => "id" = IdForm("aws:apigateway:api")
    BY DEF LinkedTypes, IdForm
  <2>2. QED BY <2>1, AWSRows, NoLink
<1>18. RowOK(convertMemoryDBClusterToResource)
  <2>1. "aws:memorydb:cluster" \in LinkedTypes => "name" = IdForm("aws:memorydb:cluster")
    BY DEF LinkedTypes, IdForm
  <2>2. QED BY <2>1, AWSRows, NoLink
<1>19. RowOK(convertElastiCacheClusterToResource)
  <2>1. "aws:elasticache:cluster" \in LinkedTypes => "name" = IdForm("aws:elasticache:cluster")
    BY DEF LinkedTypes, IdForm
  <2>2. QED BY <2>1, AWSRows, NoLink
<1>20. RowOK(collectSNSTopics)
  <2>1. "aws:sns:topic" \in LinkedTypes => "arn" = IdForm("aws:sns:topic")
    BY DEF LinkedTypes, IdForm
  <2>2. QED BY <2>1, AWSRows, NoLink
<1>21. RowOK(collectSQSQueues)
  <2>1. "aws:sqs:queue" \in LinkedTypes => "url" = IdForm("aws:sqs:queue")
    BY DEF LinkedTypes, IdForm
  <2>2. QED BY <2>1, AWSRows, NoLink
<1>22. RowOK(collectDynamoDBTables)
  <2>1. "aws:dynamodb:table" \in LinkedTypes => "name" = IdForm("aws:dynamodb:table")
    BY DEF LinkedTypes, IdForm
  <2>2. QED BY <2>1, AWSRows, NoLink
<1>23. RowOK(collectResourceGroups)
  <2>1. "azure:resourcegroup" \in LinkedTypes => "path" = IdForm("azure:resourcegroup")
    BY DEF LinkedTypes, IdForm
  <2>2. QED BY <2>1, AzureRows, NoLink
<1>24. RowOK(collectVirtualMachines)
  <2>1. "azure:compute:vm" \in LinkedTypes => "path" = IdForm("azure:compute:vm")
    BY DEF LinkedTypes, IdForm
  <2>2. QED BY <2>1, AzureRows, NoLink
<1>25. RowOK(collectVirtualNetworks)
  <2>1. "azure:network:vnet" \in LinkedTypes => "path" = IdForm("azure:network:vnet")
    BY DEF LinkedTypes, IdForm
  <2>2. QED BY <2>1, AzureRows, NoLink
<1>26. RowOK(collectStorageAccounts)
  <2>1. "azure:storage:account" \in LinkedTypes => "path" = IdForm("azure:storage:account")
    BY DEF LinkedTypes, IdForm
  <2>2. QED BY <2>1, AzureRows, NoLink
<1>27. RowOK(collectAppServices)
  <2>1. "azure:web:appservice" \in LinkedTypes => "path" = IdForm("azure:web:appservice")
    BY DEF LinkedTypes, IdForm
  <2>2. QED BY <2>1, AzureRows, NoLink
<1>28. RowOK(collectSQLDatabases)
  <2>1. "azure:sql:database" \in LinkedTypes => "path" = IdForm("azure:sql:database")
    BY DEF LinkedTypes, IdForm
  <2>2. QED BY <2>1, AzureRows, NoLink
<1>29. RowOK(collectKeyVaults)
  <2>1. "azure:keyvault:vault" \in LinkedTypes => "path" = IdForm("azure:keyvault:vault")
    BY DEF LinkedTypes, IdForm
  <2>2. QED BY <2>1, AzureRows, NoLink
<1>30. RowOK(convertComputeInstanceToResource)
  <2>1. "gcp:compute:instance" \in LinkedTypes => "number" = IdForm("gcp:compute:instance")
    BY DEF LinkedTypes, IdForm
  <2>2. QED BY <2>1, GCPRows, NoLink
<1>31. RowOK(convertNetworkToResource)
  <2>1. "gcp:compute:network" \in LinkedTypes => "number" = IdForm("gcp:compute:network")
    BY DEF LinkedTypes, IdForm
  <2>2. QED BY <2>1, GCPRows, NoLink
<1>32. RowOK(convertSubnetworkToResource)
  <2>1. "gcp:compute:subnetwork" \in LinkedTypes => "number" = IdForm("gcp:compute:subnetwork")
    BY DEF LinkedTypes, IdForm
  <2>2. RowLinkOK("gcp:compute:subnetwork",
          BelongsTo("network", "url", "gcp:compute:network"))
    BY DEF RowLinkOK, RelationTypes, LinkedTypes, IdForm, BelongsTo, Link
  <2>3. "gcp:compute:subnetwork" \notin Containers
    BY DEF Containers
  <2>4. QED BY <2>1, <2>2, <2>3, GCPRows, OneLink
<1>33. RowOK(convertStorageBucketToResource)
  <2>1. "gcp:storage:bucket" \in LinkedTypes => "name" = IdForm("gcp:storage:bucket")
    BY DEF LinkedTypes, IdForm
  <2>2. QED BY <2>1, GCPRows, NoLink
<1>34. RowOK(convertCloudFunctionToResource)
  <2>1. "gcp:cloudfunctions:function" \in LinkedTypes => "name" = IdForm("gcp:cloudfunctions:function")
    BY DEF LinkedTypes, IdForm
  <2>2. QED BY <2>1, GCPRows, NoLink
<1>35. RowOK(convertCloudRunServiceToResource)
  <2>1. "gcp:run:service" \in LinkedTypes => "name" = IdForm("gcp:run:service")
    BY DEF LinkedTypes, IdForm
  <2>2. QED BY <2>1, GCPRows, NoLink
<1>36. RowOK(convertOrganizationToResource)
  <2>1. "github:organization" \in LinkedTypes => "number" = IdForm("github:organization")
    BY DEF LinkedTypes, IdForm
  <2>2. QED BY <2>1, GitRows, NoLink
<1>37. RowOK(GitHubRepositoryToResource)
  <2>1. "github:repository" \in LinkedTypes => "number" = IdForm("github:repository")
    BY DEF LinkedTypes, IdForm
  <2>2. RowLinkOK("github:repository",
          BelongsTo("owner", "number", "github:organization"))
    BY DEF RowLinkOK, RelationTypes, LinkedTypes, IdForm, BelongsTo, Link
  <2>3. "github:repository" \notin Containers
    BY DEF Containers
  <2>4. QED BY <2>1, <2>2, <2>3, GitRows, OneLink
<1>38. RowOK(convertTeamToResource)
  <2>1. "github:team" \in LinkedTypes => "number" = IdForm("github:team")
    BY DEF LinkedTypes, IdForm
  <2>2. RowLinkOK("github:team",
          BelongsTo("organization", "number", "github:organization"))
    BY DEF RowLinkOK, RelationTypes, LinkedTypes, IdForm, BelongsTo, Link
  <2>3. "github:team" \notin Containers
    BY DEF Containers
  <2>4. QED BY <2>1, <2>2, <2>3, GitRows, OneLink
<1>39. RowOK(GitHubUserToResource)
  <2>1. "github:user" \in LinkedTypes => "number" = IdForm("github:user")
    BY DEF LinkedTypes, IdForm
  <2>2. QED BY <2>1, GitRows, NoLink
<1>40. RowOK(convertGroupToResource)
  <2>1. "gitlab:group" \in LinkedTypes => "number" = IdForm("gitlab:group")
    BY DEF LinkedTypes, IdForm
  <2>2. QED BY <2>1, GitRows, NoLink
<1>41. RowOK(convertProjectToResource)
  <2>1. "gitlab:project" \in LinkedTypes => "number" = IdForm("gitlab:project")
    BY DEF LinkedTypes, IdForm
  <2>2. RowLinkOK("gitlab:project",
          BelongsTo("namespace", "number", "gitlab:group"))
    BY DEF RowLinkOK, RelationTypes, LinkedTypes, IdForm, BelongsTo, Link
  <2>3. "gitlab:project" \notin Containers
    BY DEF Containers
  <2>4. QED BY <2>1, <2>2, <2>3, GitRows, OneLink
<1>42. RowOK(GitLabUserToResource)
  <2>1. "gitlab:user" \in LinkedTypes => "number" = IdForm("gitlab:user")
    BY DEF LinkedTypes, IdForm
  <2>2. QED BY <2>1, GitRows, NoLink
<1>43. RowOK(JFrogRepositoryToResource)
  <2>1. "jfrog:repository" \in LinkedTypes => "name" = IdForm("jfrog:repository")
    BY DEF LinkedTypes, IdForm
  <2>2. QED BY <2>1, JFrogRows, NoLink
<1>44. RowOK(JFrogUserToResource)
  <2>1. "jfrog:user" \in LinkedTypes => "name" = IdForm("jfrog:user")
    BY DEF LinkedTypes, IdForm
  <2>2. RowLinkOK("jfrog:user",
          BelongsTo("groups", "name", "jfrog:group"))
    BY DEF RowLinkOK, RelationTypes, LinkedTypes, IdForm, BelongsTo, Link
  <2>3. "jfrog:user" \notin Containers
    BY DEF Containers
  <2>4. QED BY <2>1, <2>2, <2>3, JFrogRows, OneLink
<1>45. RowOK(JFrogGroupToResource)
  <2>1. "jfrog:group" \in LinkedTypes => "name" = IdForm("jfrog:group")
    BY DEF LinkedTypes, IdForm
  <2>2. QED BY <2>1, JFrogRows, NoLink
<1>46. RowOK(convertPermissionToResource)
  <2>1. "jfrog:permission" \in LinkedTypes => "name" = IdForm("jfrog:permission")
    BY DEF LinkedTypes, IdForm
  <2>2. RowLinkOK("jfrog:permission",
          Link("repositories", "name", "references", "jfrog:repository"))
    BY DEF RowLinkOK, RelationTypes, LinkedTypes, IdForm, BelongsTo, Link
  <2>3. "jfrog:permission" \notin Containers
    BY DEF Containers
  <2>4. QED BY <2>1, <2>2, <2>3, JFrogRows, OneLink
<1>47. RowOK(OktaUsers)
  <2>1. "okta:user" \in LinkedTypes => "id" = IdForm("okta:user")
    BY DEF LinkedTypes, IdForm
  <2>2. QED BY <2>1, DirectoryRows, NoLink
<1>48. RowOK(OktaGroups)
  <2>1. "okta:group" \in LinkedTypes => "id" = IdForm("okta:group")
    BY DEF LinkedTypes, IdForm
  <2>2. QED BY <2>1, DirectoryRows, NoLink
<1>49. RowOK(OktaApplications)
  <2>1. "okta:application" \in LinkedTypes => "id" = IdForm("okta:application")
    BY DEF LinkedTypes, IdForm
  <2>2. QED BY <2>1, DirectoryRows, NoLink
<1>50. RowOK(OktaAuthorizationServers)
  <2>1. "okta:authorizationserver" \in LinkedTypes => "id" = IdForm("okta:authorizationserver")
    BY DEF LinkedTypes, IdForm
  <2>2. QED BY <2>1, DirectoryRows, NoLink
<1>51. RowOK(Auth0Users)
  <2>1. "auth0:user" \in LinkedTypes => "id" = IdForm("auth0:user")
    BY DEF LinkedTypes, IdForm
  <2>2. QED BY <2>1, DirectoryRows, NoLink
<1>52. RowOK(Auth0Roles)
  <2>1. "auth0:role" \in LinkedTypes => "id" = IdForm("auth0:role")
    BY DEF LinkedTypes, IdForm
  <2>2. QED BY <2>1, DirectoryRows, NoLink
<1>53. RowOK(Auth0Clients)
  <2>1. "auth0:client" \in LinkedTypes => "id" = IdForm("auth0:client")
    BY DEF LinkedTypes, IdForm
  <2>2. QED BY <2>1, DirectoryRows, NoLink
<1>54. RowOK(Auth0ResourceServers)
  <2>1. "auth0:resourceserver" \in LinkedTypes => "id" = IdForm("auth0:resourceserver")
    BY DEF LinkedTypes, IdForm
  <2>2. QED BY <2>1, DirectoryRows, NoLink
<1>55. RowOK(Auth0Connections)
  <2>1. "auth0:connection" \in LinkedTypes => "id" = IdForm("auth0:connection")
    BY DEF LinkedTypes, IdForm
  <2>2. QED BY <2>1, DirectoryRows, NoLink
<1>56. QED
  BY <1>1, <1>2, <1>3, <1>4, <1>5, <1>6, <1>7, <1>8, <1>9, <1>10, <1>11, <1>12, <1>13,
     <1>14, <1>15, <1>16, <1>17, <1>18, <1>19, <1>20, <1>21, <1>22, <1>23, <1>24, <1>25,
     <1>26, <1>27, <1>28, <1>29, <1>30, <1>31, <1>32, <1>33, <1>34, <1>35, <1>36, <1>37,
     <1>38, <1>39, <1>40, <1>41, <1>42, <1>43, <1>44, <1>45, <1>46, <1>47, <1>48, <1>49,
     <1>50, <1>51, <1>52, <1>53, <1>54, <1>55 DEF Rows


-----------------------------------------------------------------------------
(* Resources and their relationships.                                      *)

\* The objects of the inventories, and what becomes of them: the conversion with
\* some relationships.
Collected == UNION {{v.objects[j] : j \in DOMAIN v.objects} : v \in Inventories}
WithLinks(o, links) == [ToResource(o) EXCEPT !.links = links]
ResourceType == {WithLinks(o, links) : o \in Collected, links \in Seq(LinkType)}

LEMMA CollectedConvertible ==
  ASSUME NEW o \in Collected
  PROVE  Convertible(o)
BY RelationshipsAssumption DEF Collected

LEMMA Fields ==
  ASSUME NEW o, NEW links
  PROVE  /\ ToResource(o).id = o.forms[o.via.id]
         /\ ToResource(o).type = o.via.type
         /\ ToResource(o).links = Links(o)
         /\ WithLinks(o, links).id = o.forms[o.via.id]
         /\ WithLinks(o, links).type = o.via.type
         /\ WithLinks(o, links).links = links
         /\ \A more : [WithLinks(o, links) EXCEPT !.links = more] = WithLinks(o, more)
         /\ WithLinks(o, Links(o)) = ToResource(o)
<1>1. PICK name, provider, account, region, tags, props, created, updated :
        ToResource(o) =
          [id |-> o.forms[o.via.id], type |-> o.via.type, name |-> name, provider |-> provider,
           account |-> account, region |-> region, tags |-> tags, props |-> props,
           created |-> created, updated |-> updated, links |-> Links(o)]
  <2> DEFINE row == o.via
             res == ToResource(o)
  <2>1. res = [id |-> o.forms[row.id], type |-> row.type, name |-> res.name,
               provider |-> res.provider, account |-> res.account, region |-> res.region,
               tags |-> res.tags, props |-> res.props, created |-> res.created,
               updated |-> res.updated, links |-> Links(o)]
    BY DEF ToResource
  <2> HIDE DEF res
  <2>2. QED BY <2>1 DEF res
<1>2. \A x : WithLinks(o, x) =
        [id |-> o.forms[o.via.id], type |-> o.via.type, name |-> name, provider |-> provider,
         account |-> account, region |-> region, tags |-> tags, props |-> props,
         created |-> created, updated |-> updated, links |-> x]
  BY <1>1 DEF WithLinks
<1>3. ToResource(o).id = o.forms[o.via.id] /\ ToResource(o).type = o.via.type
      /\ ToResource(o).links = Links(o)
  BY <1>1
<1>4. /\ WithLinks(o, links).id = o.forms[o.via.id]
      /\ WithLinks(o, links).type = o.via.type
      /\ WithLinks(o, links).links = links
  BY <1>2
<1>5. \A more : [WithLinks(o, links) EXCEPT !.links = more] = WithLinks(o, more)
  <2>1. TAKE more
  <2>2. PICK r : r = WithLinks(o, links)
    OBVIOUS
  <2>3. PICK q : q = WithLinks(o, more)
    OBVIOUS
  <2>4. r = [id |-> o.forms[o.via.id], type |-> o.via.type, name |-> name, provider |-> provider,
             account |-> account, region |-> region, tags |-> tags, props |-> props,
             created |-> created, updated |-> updated, links |-> links]
    BY <1>2, <2>2
  <2>5. q = [id |-> o.forms[o.via.id], type |-> o.via.type, name |-> name, provider |-> provider,
             account |-> account, region |-> region, tags |-> tags, props |-> props,
             created |-> created, updated |-> updated, links |-> more]
    BY <1>2, <2>3
  <2>6. [r EXCEPT !.links = more] = q
    BY <2>4, <2>5
  <2>7. QED BY <2>2, <2>3, <2>6
<1>6. WithLinks(o, Links(o)) = ToResource(o)
  BY <1>1, <1>2
<1>7. QED BY <1>3, <1>4, <1>5, <1>6

LEMMA LinkedTypesKnown == LinkedTypes \subseteq ResourceTypes
<1>1. \A row \in Rows : row.type \in ResourceTypes
  BY DEF ResourceTypes
<1>2. /\ convertVPCToResource \in Rows /\ convertSubnetToResource \in Rows
      /\ convertOrganizationToResource \in Rows /\ convertGroupToResource \in Rows
      /\ convertNetworkToResource \in Rows
      /\ JFrogGroupToResource \in Rows /\ JFrogRepositoryToResource \in Rows
  BY DEF Rows
<1>3. {"aws:ec2:vpc", "aws:ec2:subnet"} \subseteq ResourceTypes
  BY <1>1, <1>2, AWSRows DEF Fits
<1>4. {"github:organization", "gitlab:group"} \subseteq ResourceTypes
  BY <1>1, <1>2, GitRows DEF Fits
<1>5. "gcp:compute:network" \in ResourceTypes
  BY <1>1, <1>2, GCPRows DEF Fits
<1>6. {"jfrog:group", "jfrog:repository"} \subseteq ResourceTypes
  BY <1>1, <1>2, JFrogRows DEF Fits
<1>7. "aws:kms:key" \in ResourceTypes
  BY DEF ResourceTypes
<1>8. QED BY <1>3, <1>4, <1>5, <1>6, <1>7 DEF LinkedTypes

\* The relationships that the discovery adds.
LEMMA AddedTypes ==
  {"azure:resourcegroup", "github:user", "okta:user", "auth0:role"} \subseteq ResourceTypes
<1>1. \A row \in Rows : row.type \in ResourceTypes
  BY DEF ResourceTypes
<1>2. /\ collectResourceGroups \in Rows /\ GitHubUserToResource \in Rows
      /\ OktaUsers \in Rows /\ Auth0Roles \in Rows
  BY DEF Rows
<1>3. "azure:resourcegroup" \in ResourceTypes
  BY <1>1, <1>2, AzureRows DEF Fits
<1>4. "github:user" \in ResourceTypes
  BY <1>1, <1>2, GitRows DEF Fits
<1>5. {"okta:user", "auth0:role"} \subseteq ResourceTypes
  BY <1>1, <1>2, DirectoryRows DEF Fits
<1>6. QED BY <1>3, <1>4, <1>5

LEMMA RelationshipType ==
  ASSUME NEW rel \in RelationTypes, NEW target \in Text, NEW type \in ResourceTypes
  PROVE  Relationship(rel, target, type) \in LinkType
BY DEF Relationship, LinkType

\* The relationships made of the references of one role.
LinksOfRole(o, m) ==
  LET l == o.via.links[m] IN
  IF l.ref \notin DOMAIN o.refs THEN <<>>
  ELSE [n \in DOMAIN o.refs[l.ref] |-> Relationship(l.rel, o.refs[l.ref][n][l.form], l.target)]

LEMMA RoleType ==
  ASSUME NEW o \in Collected, NEW m \in DOMAIN o.via.links
  PROVE  LinksOfRole(o, m) \in Seq(LinkType)
<1> DEFINE l == o.via.links[m]
           refs == o.refs[l.ref]
<1>1. Convertible(o)
  BY CollectedConvertible
<1>2. RowLinkOK(o.via.type, l)
  BY <1>1, RowsAgree DEF Convertible, RowOK
<1>3. l.rel \in RelationTypes /\ l.target \in ResourceTypes
  BY <1>2, LinkedTypesKnown DEF RowLinkOK
<1>4. CASE l.ref \notin DOMAIN o.refs
  BY <1>4 DEF LinksOfRole
<1>5. CASE l.ref \in DOMAIN o.refs
  <2>1. IsSequence(refs) /\ \A n \in DOMAIN refs : refs[n][l.form] \in Text
    BY <1>1, <1>5 DEF Convertible, ToSet
  <2>2. \A n \in DOMAIN refs : Relationship(l.rel, refs[n][l.form], l.target) \in LinkType
    BY <1>3, <2>1, RelationshipType
  <2>3. Len(refs) \in Nat /\ DOMAIN refs = 1..Len(refs)
    BY <2>1 DEF IsSequence
  <2>4. LinksOfRole(o, m) = [n \in 1..Len(refs) |-> Relationship(l.rel, refs[n][l.form], l.target)]
    BY <1>5, <2>3 DEF LinksOfRole
  <2> HIDE DEF l, refs
  <2>5. [n \in 1..Len(refs) |-> Relationship(l.rel, refs[n][l.form], l.target)] \in Seq(LinkType)
    BY <2>2, <2>3
  <2>6. QED BY <2>4, <2>5
<1>6. QED BY <1>4, <1>5

\* The relationships of a converted object are those of its roles.
LEMMA LinksMean ==
  ASSUME NEW o \in Collected
  PROVE  /\ Links(o) \in Seq(LinkType)
         /\ \A x : x \in ToSet(Links(o)) <=>
              \E m \in DOMAIN o.via.links : x \in ToSet(LinksOfRole(o, m))
<1>1. Len(o.via.links) \in Nat /\ DOMAIN o.via.links = 1..Len(o.via.links)
  BY CollectedConvertible, RowsAgree DEF Convertible, RowOK, IsSequence
<1> DEFINE n == Len(o.via.links)
           ss == [m \in 1..n |-> LinksOfRole(o, m)]
<1>2. Links(o) = FlattenSeq(ss)
  BY <1>1 DEF Links, LinksOfRole
<1>3. \A m \in 1..n : LinksOfRole(o, m) \in Seq(LinkType)
  BY <1>1, RoleType
<1>4. PICK T : T = Seq(LinkType)
  OBVIOUS
<1>5. ss \in Seq(T) /\ DOMAIN ss = 1..n /\ \A m \in 1..n : ss[m] = LinksOfRole(o, m)
  BY <1>1, <1>3, <1>4
<1> HIDE DEF ss
<1>6. FlattenSeq(ss) \in Seq(LinkType)
  BY <1>4, <1>5, FlattenType
<1>7. \A x : x \in ToSet(FlattenSeq(ss)) <=> \E m \in DOMAIN ss : x \in ToSet(ss[m])
  BY <1>4, <1>5, FlattenMembers
<1>8. QED BY <1>1, <1>2, <1>5, <1>6, <1>7

-----------------------------------------------------------------------------
(* Operators on resources.                                                 *)

\* A resource with other relationships is the same one otherwise.
LEMMA ResourceFacts ==
  ASSUME NEW r \in ResourceType
  PROVE  /\ r.id \in Text /\ r.type \in ResourceTypes /\ r.links \in Seq(LinkType)
         /\ \A links \in Seq(LinkType) :
              LET q == [r EXCEPT !.links = links] IN
              q \in ResourceType /\ q.id = r.id /\ q.type = r.type /\ q.links = links
<1>1. PICK o \in Collected, ls \in Seq(LinkType) : r = WithLinks(o, ls)
  BY DEF ResourceType
<1>2. r.id = o.forms[o.via.id] /\ r.type = o.via.type /\ r.links = ls
  BY <1>1, Fields
<1>3. o.forms[o.via.id] \in Text /\ o.via.type \in ResourceTypes
  BY CollectedConvertible DEF Convertible, ResourceTypes
<1>4. ASSUME NEW links \in Seq(LinkType)
      PROVE  LET q == [r EXCEPT !.links = links] IN
             q \in ResourceType /\ q.id = r.id /\ q.type = r.type /\ q.links = links
  <2>1. [r EXCEPT !.links = links] = WithLinks(o, links)
    BY <1>1, Fields
  <2>2. WithLinks(o, links) \in ResourceType
    BY DEF ResourceType
  <2>3. /\ WithLinks(o, links).id = r.id /\ WithLinks(o, links).type = r.type
        /\ WithLinks(o, links).links = links
    BY <1>2, Fields
  <2>4. QED BY <2>1, <2>2, <2>3
<1>5. QED BY <1>2, <1>3, <1>4

\* What was collected.
LEMMA ObjectsConverted ==
  ASSUME inventory \in Inventories
  PROVE  /\ Len(Objects) \in Nat /\ DOMAIN Objects = 1..Len(Objects)
         /\ AsCollected \in Seq(ResourceType) /\ Len(AsCollected) = Len(Objects)
         /\ \A j \in DOMAIN Objects :
              /\ Objects[j] \in Collected
              /\ AsCollected[j] = ToResource(Objects[j])
<1>1. Len(Objects) \in Nat /\ DOMAIN Objects = 1..Len(Objects)
  BY RelationshipsAssumption DEF Objects, IsSequence
<1>2. ASSUME NEW j \in DOMAIN Objects PROVE Objects[j] \in Collected
  BY DEF Collected, Objects
<1>3. ASSUME NEW j \in DOMAIN Objects PROVE ToResource(Objects[j]) \in ResourceType
  <2>1. Objects[j] \in Collected
    BY <1>2
  <2>2. Links(Objects[j]) \in Seq(LinkType)
    BY <2>1, LinksMean
  <2>3. ToResource(Objects[j]) = WithLinks(Objects[j], Links(Objects[j]))
    BY Fields
  <2>4. QED BY <2>1, <2>2, <2>3 DEF ResourceType
<1> DEFINE n == Len(Objects)
<1>4. AsCollected = [j \in 1..n |-> ToResource(Objects[j])] /\ n \in Nat
  BY <1>1 DEF AsCollected
<1>5. \A j \in 1..n : ToResource(Objects[j]) \in ResourceType
  BY <1>1, <1>3
<1> HIDE DEF n
<1>6. AsCollected \in Seq(ResourceType) /\ Len(AsCollected) = n
  BY <1>4, <1>5
<1>7. QED BY <1>1, <1>2, <1>4, <1>6 DEF n

\* A choice by type.
LEMMA OfTypesMeans ==
  ASSUME NEW S, NEW s \in Seq(S), NEW types
  PROVE  /\ OfTypes(s, types) \in Seq(S)
         /\ \A x : x \in ToSet(OfTypes(s, types)) <=> x \in ToSet(s) /\ x.type \in types
<1> DEFINE n == Len(s)
           ss == [j \in 1..n |-> IF s[j].type \in types THEN <<s[j]>> ELSE <<>>]
<1>1. n \in Nat /\ DOMAIN s = 1..n /\ \A j \in 1..n : s[j] \in S
  OBVIOUS
<1>2. OfTypes(s, types) = FlattenSeq(ss)
  BY <1>1 DEF OfTypes
<1>3. PICK T : T = Seq(S)
  OBVIOUS
<1>4. \A x \in S : <<x>> \in T /\ <<>> \in T
  BY <1>3
<1> HIDE DEF n
<1>5. ss \in Seq(T) /\ DOMAIN ss = 1..n
  <2>1. \A j \in 1..n : (IF s[j].type \in types THEN <<s[j]>> ELSE <<>>) \in T
    BY <1>1, <1>4
  <2>2. QED BY <1>1, <2>1
<1>6. \A j \in 1..n : ss[j] = IF s[j].type \in types THEN <<s[j]>> ELSE <<>>
  OBVIOUS
<1> HIDE DEF ss
<1>7. FlattenSeq(ss) \in Seq(S)
  BY <1>3, <1>5, FlattenType
<1>8. \A x : x \in ToSet(FlattenSeq(ss)) <=> \E j \in DOMAIN ss : x \in ToSet(ss[j])
  BY <1>3, <1>5, FlattenMembers
<1>9. \A x, y : x \in ToSet(<<y>>) <=> x = y
  BY DEF ToSet
<1>10. \A x : x \notin ToSet(<<>>)
  BY DEF ToSet
<1>11. \A x : \A j \in 1..n : x \in ToSet(ss[j]) <=> x = s[j] /\ s[j].type \in types
  BY <1>6, <1>9, <1>10
<1>12. \A x : x \in ToSet(s) <=> \E j \in 1..n : x = s[j]
  BY <1>1 DEF ToSet
<1>13. QED BY <1>2, <1>5, <1>7, <1>8, <1>11, <1>12

\* The index gives the last resource of an ID, and the graph has its targets.
LEMMA IndexMeans ==
  ASSUME NEW rs, Len(rs) \in Nat, DOMAIN rs = 1..Len(rs)
  PROVE  /\ DOMAIN buildGraph(rs) = IdsOf(rs)
         /\ \A id \in IdsOf(rs) :
              /\ Get(rs, id) \in DOMAIN rs /\ rs[Get(rs, id)].id = id
              /\ buildGraph(rs)[id] = Targets(rs[Get(rs, id)])
<1> DEFINE n == Len(rs)
           keys == Ids(rs)
           numbers == [j \in DOMAIN rs |-> j]
           targets == [j \in DOMAIN rs |-> Targets(rs[j])]
<1>1. /\ n \in Nat /\ DOMAIN rs = 1..n
      /\ keys = [j \in 1..n |-> rs[j].id] /\ numbers = [j \in 1..n |-> j]
      /\ targets = [j \in 1..n |-> Targets(rs[j])]
  BY DEF Ids
<1>2. /\ Index(rs) = Assigned(keys, numbers) /\ buildGraph(rs) = Assigned(keys, targets)
      /\ \A id : Get(rs, id) = Index(rs)[id]
  BY DEF Index, buildGraph, Get
<1> HIDE DEF n, keys, numbers, targets
<1>3. Len(keys) = n
  BY <1>1
<1>4. KeysTo(keys, n) = IdsOf(rs)
  BY <1>1 DEF KeysTo, IdsOf
<1>5. DOMAIN buildGraph(rs) = IdsOf(rs)
  BY <1>1, <1>2, <1>3, <1>4, AssignedLast
<1>6. ASSUME NEW id \in IdsOf(rs)
      PROVE  /\ Get(rs, id) \in DOMAIN rs /\ rs[Get(rs, id)].id = id
             /\ buildGraph(rs)[id] = Targets(rs[Get(rs, id)])
  <2>1. PICK j : LastAt(keys, n, id, j)
    BY <1>1, <1>4, LastExists
  <2>2. j \in 1..n /\ rs[j].id = id
    BY <1>1, <2>1 DEF LastAt
  <2>3. Assigned(keys, numbers)[id] = numbers[j]
    BY <1>1, <1>3, <2>1, AssignedLast
  <2>4. Assigned(keys, targets)[id] = targets[j]
    BY <1>1, <1>3, <2>1, AssignedLast
  <2>5. Get(rs, id) = j
    BY <1>1, <1>2, <2>2, <2>3
  <2>6. buildGraph(rs)[id] = Targets(rs[j])
    BY <1>1, <1>2, <2>2, <2>4
  <2>7. QED BY <1>1, <2>2, <2>5, <2>6
<1>7. QED BY <1>5, <1>6

\* What the index gives depends on the IDs only.
LEMMA SameIndex ==
  ASSUME NEW rs, NEW qs, DOMAIN rs = DOMAIN qs, \A j \in DOMAIN rs : rs[j].id = qs[j].id
  PROVE  IdsOf(rs) = IdsOf(qs) /\ \A id : Get(rs, id) = Get(qs, id)
<1>1. IdsOf(rs) = IdsOf(qs)
  BY DEF IdsOf
<1>2. Ids(rs) = Ids(qs) /\ [j \in DOMAIN rs |-> j] = [j \in DOMAIN qs |-> j]
  BY DEF Ids
<1>3. Index(rs) = Index(qs)
  BY <1>2 DEF Index
<1>4. QED BY <1>1, <1>3 DEF Get

\* One resource with more relationships.
Longer(rs, qs, n, more) ==
  /\ qs \in Seq(ResourceType) /\ Len(qs) = Len(rs) /\ DOMAIN qs = DOMAIN rs
  /\ \A j \in DOMAIN rs : qs[j].id = rs[j].id /\ qs[j].type = rs[j].type
  /\ \A j \in DOMAIN rs : j # n => qs[j] = rs[j]
  /\ qs[n].links = rs[n].links \o more

LEMMA AppendedMeans ==
  ASSUME NEW rs \in Seq(ResourceType), NEW n \in DOMAIN rs, NEW more \in Seq(LinkType),
         NEW qs, qs = [rs EXCEPT ![n].links = @ \o more]
  PROVE  Longer(rs, qs, n, more)
<1>1. rs[n] \in ResourceType /\ Len(rs) \in Nat /\ DOMAIN rs = 1..Len(rs)
      /\ \A j \in DOMAIN rs : rs[j] \in ResourceType
  OBVIOUS
<1>2. PICK links : links = rs[n].links \o more
  OBVIOUS
<1>3. rs[n].links \in Seq(LinkType)
  BY <1>1, ResourceFacts
<1>4. links \in Seq(LinkType)
  <2>1. \A S : \A x, y \in Seq(S) : x \o y \in Seq(S)
    OBVIOUS
  <2>2. QED BY <1>2, <1>3, <2>1
<1>5. PICK q : q = [rs[n] EXCEPT !.links = links]
  OBVIOUS
<1>6. q \in ResourceType /\ q.id = rs[n].id /\ q.type = rs[n].type /\ q.links = links
  BY <1>1, <1>4, <1>5, ResourceFacts
<1>7. qs = [rs EXCEPT ![n] = q]
  BY <1>2, <1>5
<1>8. qs \in Seq(ResourceType) /\ Len(qs) = Len(rs) /\ DOMAIN qs = DOMAIN rs
  <2>1. PICK R, m : R = ResourceType /\ m = Len(rs)
    OBVIOUS
  <2>2. q \in R /\ m \in Nat /\ rs \in [1..m -> R] /\ n \in 1..m
    BY <1>1, <1>6, <2>1
  <2>3. qs \in [1..m -> R]
    BY <1>7, <2>2
  <2>4. qs \in Seq(R) /\ Len(qs) = m /\ DOMAIN qs = 1..m
    BY <2>2, <2>3
  <2>5. QED BY <1>1, <2>1, <2>4
<1>9. \A j \in DOMAIN rs : qs[j] = IF j = n THEN q ELSE rs[j]
  BY <1>1, <1>7
<1>10. QED BY <1>2, <1>6, <1>8, <1>9 DEF Longer

\* One more relationship is one more target.
LEMMA TargetsNext ==
  ASSUME NEW r, r.links \in Seq(LinkType), NEW l \in LinkType,
         NEW q, q.links = Append(r.links, l)
  PROVE  Targets(q) = Append(Targets(r), l.target)
<1> DEFINE n == Len(r.links)
           s == [m \in 1..n |-> r.links[m].target]
           t == [m \in 1..(n + 1) |-> q.links[m].target]
<1>1. /\ n \in Nat /\ DOMAIN r.links = 1..n /\ DOMAIN q.links = 1..(n + 1)
      /\ \A m \in 1..n : q.links[m] = r.links[m] /\ r.links[m] \in LinkType
      /\ q.links[n + 1] = l
  OBVIOUS
<1>2. Targets(r) = s /\ Targets(q) = t
  BY <1>1 DEF Targets
<1>3. \A m \in 1..n : t[m] = s[m]
  BY <1>1
<1>4. t[n + 1] = l.target
  BY <1>1
<1>5. \A m \in 1..n : s[m] \in Text
  BY <1>1 DEF LinkType
<1>6. l.target \in Text
  BY DEF LinkType
<1>7. s \in [1..n -> Text] /\ DOMAIN t = 1..(n + 1)
  BY <1>5
<1> HIDE DEF n, s, t
<1>8. t \in [1..(n + 1) -> Text]
  <2>1. t = [m \in 1..(n + 1) |-> t[m]]
    BY DEF t
  <2>2. \A m \in 1..(n + 1) : m \in 1..n \/ m = n + 1
    BY <1>1
  <2>3. \A m \in 1..(n + 1) : t[m] \in Text
    BY <1>3, <1>4, <1>6, <1>7, <2>2
  <2>4. QED BY <2>1, <2>3
<1>9. t = Append([m \in 1..n |-> t[m]], t[n + 1])
  BY <1>1, <1>8, LastOne
<1>10. [m \in 1..n |-> t[m]] = s
  BY <1>3, <1>7
<1>11. QED BY <1>2, <1>4, <1>9, <1>10

LEMMA NoneAppended ==
  ASSUME NEW rs \in Seq(ResourceType), NEW n \in DOMAIN rs
  PROVE  Longer(rs, rs, n, <<>>)
<1>1. rs[n] \in ResourceType
  OBVIOUS
<1>2. rs[n].links \in Seq(LinkType)
  BY <1>1, ResourceFacts
<1>3. \A S : \A s \in Seq(S) : s \o <<>> = s
  OBVIOUS
<1>4. rs[n].links = rs[n].links \o <<>>
  BY <1>2, <1>3
<1>5. QED BY <1>4 DEF Longer

\* Prefixes.
LEMMA PrefixFacts ==
  ASSUME NEW S, NEW s \in Seq(S), NEW t \in Seq(S), NEW u \in Seq(S), IsPrefix(s, t)
  PROVE  IsPrefix(s, t \o u) /\ ToSet(s) \subseteq ToSet(t)
<1>1. Len(s) \in Nat /\ Len(t) \in Nat /\ Len(s) <= Len(t)
  BY DEF IsPrefix
<1>2. \A j \in 1..Len(s) : s[j] = t[j]
  <2>1. SubSeq(s, 1, Len(s)) = SubSeq(t, 1, Len(s))
    BY DEF IsPrefix
  <2>2. \A j \in 1..Len(s) : SubSeq(s, 1, Len(s))[j] = s[j] /\ SubSeq(t, 1, Len(s))[j] = t[j]
    BY <1>1
  <2>3. QED BY <2>1, <2>2
<1>3. ToSet(s) \subseteq ToSet(t)
  <2>1. DOMAIN s = 1..Len(s) /\ DOMAIN t = 1..Len(t) /\ 1..Len(s) \subseteq 1..Len(t)
    BY <1>1
  <2>2. QED BY <1>2, <2>1 DEF ToSet
<1> DEFINE v == t \o u
<1>4. /\ v \in Seq(S) /\ Len(v) \in Nat /\ Len(s) <= Len(v)
      /\ \A j \in 1..Len(s) : v[j] = t[j]
  BY <1>1
<1> HIDE DEF v
<1>5. SubSeq(s, 1, Len(s)) = SubSeq(v, 1, Len(s))
  <2>1. SubSeq(s, 1, Len(s)) = [j \in 1..Len(s) |-> s[j]]
    BY <1>1
  <2>2. SubSeq(v, 1, Len(s)) = [j \in 1..Len(s) |-> v[j]]
    BY <1>1, <1>4
  <2>3. QED BY <1>2, <1>4, <2>1, <2>2
<1>6. QED BY <1>3, <1>4, <1>5 DEF IsPrefix, v

-----------------------------------------------------------------------------
(* What each round adds.                                                   *)

LEMMA InversesMean ==
  ASSUME NEW c \in ResourceType, NEW r \in ResourceType
  PROVE  /\ Inverses(c, r) \in Seq(LinkType)
         /\ \A x : x \in ToSet(Inverses(c, r)) <=>
              /\ r.type \in ContainedTypes(c.type)
              /\ x = Relationship("contains", r.id, r.type)
              /\ \E l \in ToSet(r.links) : l.target = c.id /\ l.rel = "belongs_to"
<1> DEFINE x0 == Relationship("contains", r.id, r.type)
           n == Len(r.links)
           Back(l) == l.target = c.id /\ l.rel = "belongs_to"
           ss == [m \in 1..n |-> IF Back(r.links[m]) THEN <<x0>> ELSE <<>>]
<1>1. r.id \in Text /\ r.type \in ResourceTypes /\ r.links \in Seq(LinkType)
  BY ResourceFacts
<1>2. x0 \in LinkType
  BY <1>1, RelationshipType DEF RelationTypes
<1>3. n \in Nat /\ DOMAIN r.links = 1..n
  BY <1>1
<1>4. CASE r.type \notin ContainedTypes(c.type)
  <2>1. Inverses(c, r) = <<>>
    BY <1>4 DEF Inverses
  <2>2. \A x : x \notin ToSet(<<>>)
    BY DEF ToSet
  <2>3. <<>> \in Seq(LinkType)
    OBVIOUS
  <2>4. QED BY <1>4, <2>1, <2>2, <2>3
<1>5. CASE r.type \in ContainedTypes(c.type)
  <2>1. Inverses(c, r) = FlattenSeq(ss)
    BY <1>3, <1>5 DEF Inverses
  <2>2. PICK T : T = Seq(LinkType)
    OBVIOUS
  <2> HIDE DEF x0, Back, n
  <2>3. <<x0>> \in T /\ <<>> \in T
    BY <1>2, <2>2
  <2>4. ss \in Seq(T) /\ DOMAIN ss = 1..n
    BY <1>3, <2>3
  <2>5. \A m \in 1..n : ss[m] = IF Back(r.links[m]) THEN <<x0>> ELSE <<>>
    OBVIOUS
  <2> HIDE DEF ss
  <2>6. FlattenSeq(ss) \in Seq(LinkType)
    BY <2>2, <2>4, FlattenType
  <2>7. \A x : x \in ToSet(FlattenSeq(ss)) <=> \E m \in DOMAIN ss : x \in ToSet(ss[m])
    BY <2>2, <2>4, FlattenMembers
  <2>8. \A x, y : x \in ToSet(<<y>>) <=> x = y
    BY DEF ToSet
  <2>9. \A x : x \notin ToSet(<<>>)
    BY DEF ToSet
  <2>10. \A x : \A m \in 1..n : x \in ToSet(ss[m]) <=> x = x0 /\ Back(r.links[m])
    BY <2>5, <2>8, <2>9
  <2>11. (\E l \in ToSet(r.links) : Back(l)) <=> \E m \in 1..n : Back(r.links[m])
    BY <1>3 DEF ToSet
  <2>12. \A x : x \in ToSet(Inverses(c, r)) <=> x = x0 /\ \E l \in ToSet(r.links) : Back(l)
    BY <2>1, <2>4, <2>7, <2>10, <2>11
  <2>13. QED BY <1>5, <2>1, <2>6, <2>12 DEF x0, Back
<1>6. QED BY <1>4, <1>5

LEMMA MemberMeans ==
  ASSUME NEW c \in ResourceType, NEW r \in ResourceType
  PROVE  /\ Member(c, r) \in Seq(LinkType)
         /\ \A x \in ToSet(Member(c, r)) : x.type = "github:user"
<1> DEFINE x0 == Relationship("contains", r.id, "github:user")
<1>1. x0 \in LinkType /\ x0.type = "github:user"
  <2>1. r.id \in Text /\ "github:user" \in ResourceTypes /\ "contains" \in RelationTypes
    BY ResourceFacts, AddedTypes DEF RelationTypes
  <2>2. x0 \in LinkType
    BY <2>1, RelationshipType
  <2>3. x0.type = "github:user"
    BY DEF Relationship
  <2>4. QED BY <2>2, <2>3
<1> HIDE DEF x0
<1>2. Member(c, r) = <<x0>> \/ Member(c, r) = <<>>
  BY DEF Member, x0
<1>3. <<x0>> \in Seq(LinkType) /\ <<>> \in Seq(LinkType)
  BY <1>1
<1>4. \A x : (x \in ToSet(<<x0>>) <=> x = x0) /\ x \notin ToSet(<<>>)
  BY DEF ToSet
<1>5. QED BY <1>1, <1>2, <1>3, <1>4

\* What a container gets.
ContentsOf(c, rs) == FlattenSeq([j \in DOMAIN rs |-> Inverses(c, rs[j]) \o Member(c, rs[j])])

LEMMA ContentsMean ==
  ASSUME NEW c \in ResourceType, NEW rs \in Seq(ResourceType)
  PROVE  /\ ContentsOf(c, rs) \in Seq(LinkType)
         /\ \A x : x \in ToSet(ContentsOf(c, rs)) <=>
              \E j \in DOMAIN rs : x \in ToSet(Inverses(c, rs[j])) \/ x \in ToSet(Member(c, rs[j]))
<1> DEFINE n == Len(rs)
           ss == [j \in 1..n |-> Inverses(c, rs[j]) \o Member(c, rs[j])]
<1>1. n \in Nat /\ DOMAIN rs = 1..n /\ \A j \in 1..n : rs[j] \in ResourceType
  OBVIOUS
<1>2. PICK T : T = Seq(LinkType)
  OBVIOUS
<1>3. \A x, y \in T : x \o y \in T
  BY <1>2
<1>4. ASSUME NEW j \in 1..n
      PROVE  /\ Inverses(c, rs[j]) \o Member(c, rs[j]) \in T
             /\ ToSet(Inverses(c, rs[j]) \o Member(c, rs[j])) =
                  ToSet(Inverses(c, rs[j])) \cup ToSet(Member(c, rs[j]))
  <2>1. Inverses(c, rs[j]) \in Seq(LinkType) /\ Member(c, rs[j]) \in Seq(LinkType)
    BY <1>1, InversesMean, MemberMeans
  <2>2. Inverses(c, rs[j]) \o Member(c, rs[j]) \in T
    BY <1>2, <1>3, <2>1
  <2>3. QED BY <2>1, <2>2, ConcatMembers
<1>5. ContentsOf(c, rs) = FlattenSeq(ss)
  BY <1>1 DEF ContentsOf
<1> HIDE DEF n
<1>6. ss \in Seq(T) /\ DOMAIN ss = 1..n
  BY <1>1, <1>4
<1>7. \A j \in 1..n : ss[j] = Inverses(c, rs[j]) \o Member(c, rs[j])
  OBVIOUS
<1> HIDE DEF ss
<1>8. FlattenSeq(ss) \in Seq(LinkType)
  BY <1>2, <1>6, FlattenType
<1>9. \A x : x \in ToSet(FlattenSeq(ss)) <=> \E j \in DOMAIN ss : x \in ToSet(ss[j])
  BY <1>2, <1>6, FlattenMembers
<1>10. QED BY ZenonT(40), <1>1, <1>4, <1>5, <1>6, <1>7, <1>8, <1>9

LEMMA AnswerType ==
  ASSUME inventory \in Inventories, NEW r \in ResourceType
  PROVE  Answer(r) \in Seq(LinkType)
<1> DEFINE members == IF r.id \in DOMAIN inventory.answers THEN inventory.answers[r.id] ELSE <<>>
<1>1. members \in Seq(Text)
  <2>1. \A id \in DOMAIN inventory.answers : inventory.answers[id] \in Seq(Text)
    BY RelationshipsAssumption
  <2>2. <<>> \in Seq(Text)
    OBVIOUS
  <2>3. QED BY <2>1, <2>2
<1> HIDE DEF members
<1>2. Len(members) \in Nat /\ DOMAIN members = 1..Len(members)
      /\ \A m \in DOMAIN members : members[m] \in Text
  BY <1>1
<1>3. ASSUME NEW m \in DOMAIN members
      PROVE  /\ Relationship("contains", members[m], "okta:user") \in LinkType
             /\ Relationship("has_role", members[m], "auth0:role") \in LinkType
  <2>1. "contains" \in RelationTypes /\ "has_role" \in RelationTypes
    BY DEF RelationTypes
  <2>2. QED BY <1>2, <2>1, RelationshipType, AddedTypes
<1>4. Answer(r) = [m \in DOMAIN members |->
        IF r.type = "okta:group" THEN Relationship("contains", members[m], "okta:user")
                                 ELSE Relationship("has_role", members[m], "auth0:role")]
  BY DEF Answer, members
<1>5. PICK f : f = [m \in DOMAIN members |->
        IF r.type = "okta:group" THEN Relationship("contains", members[m], "okta:user")
                                 ELSE Relationship("has_role", members[m], "auth0:role")]
  OBVIOUS
<1>6. f \in [1..Len(members) -> LinkType]
  BY <1>2, <1>3, <1>5
<1>7. f \in Seq(LinkType)
  BY <1>2, <1>6
<1>8. QED BY <1>4, <1>5, <1>7

-----------------------------------------------------------------------------
(* The inductive invariant.                                                *)

\* The discovery has been over resources[j].
Visited(j) == pc = "ready" \/ j < i
Finding == pc \in {"discover", "ready"}

\* Resources, nodes and arrows are of their sets.
NodeType  == {sanitizeID(id) : id \in Text}
ArrowType == [from : NodeType, to : NodeType, label : RelationTypes]
Typed ==
  resources \in Seq(ResourceType) /\ nodes \in Seq(NodeType) /\ arrows \in Seq(ArrowType)

\* Until a graph is made the resources are the converted objects, with more
\* relationships at most, and none before their turn.
AsConverted ==
  pc # "graph" =>
    /\ Len(resources) = Len(Objects)
    /\ \A j \in DOMAIN resources :
         /\ resources[j].id = AsCollected[j].id /\ resources[j].type = AsCollected[j].type
         /\ IsPrefix(AsCollected[j].links, resources[j].links)
         /\ (Finding /\ (resources[j].type \in Contained \/ ~Visited(j)))
              => resources[j].links = AsCollected[j].links

\* Calls that did not fail are answered, failed ones of Okta reported.
Answered ==
  Finding =>
    /\ \A j \in failed : Visited(j)
    /\ \A j \in DOMAIN resources : Visited(j) =>
         /\ (resources[j].type \in Asking /\ j \notin failed) =>
              ToSet(Answer(resources[j])) \subseteq ToSet(resources[j].links)
         /\ (resources[j].type = "okta:group" /\ j \in failed) => j \in warned

\* The containers that the discovery has been over mirror what belongs to them.
Mirroring ==
  Finding =>
    \A j, k \in DOMAIN resources :
      (/\ Visited(j) /\ resources[j].type \in Containers
       /\ resources[k].type \in ContainedTypes(resources[j].type))
        => Mirrored(resources[j], resources[k])

\* What the DOT file has.
NodesTo(rs, n) == [j \in 1..n |-> sanitizeID(rs[j].id)]
ArrowOf(rs, j, l) ==
  Arrow(sanitizeID(rs[j].id), sanitizeID(rs[j].links[l].target), rs[j].links[l].rel)
ArrowsTo(rs, n) == UNION {{ArrowOf(rs, j, l) : l \in DOMAIN rs[j].links} : j \in 1..n}
Written ==
  /\ (Finding \/ pc = "graph") => nodes = <<>>
  /\ pc \in {"discover", "ready", "nodes"} => arrows = <<>>
  /\ pc = "ready" => i = 1
  /\ pc = "nodes" => nodes = NodesTo(resources, i - 1)
  /\ pc \in {"edges", "done"} => nodes = NodesTo(resources, Len(resources))
  /\ pc = "edges" => ToSet(arrows) = ArrowsTo(resources, i - 1)
  /\ pc = "done" => ToSet(arrows) = ArrowsTo(resources, Len(resources))

IInv ==
  TypeOK /\ Typed /\ AsConverted /\ Answered /\ Mirroring /\ Written /\ GraphAgrees

LEMMA InputFixed ==
  ASSUME inventory' = inventory
  PROVE  /\ Objects' = Objects /\ AsCollected' = AsCollected
         /\ \A r : Answer(r)' = Answer(r)
BY DEF Objects, AsCollected, Answer

LEMMA OwnPrefix ==
  ASSUME NEW S, NEW s \in Seq(S)
  PROVE  IsPrefix(s, s)
BY DEF IsPrefix

LEMMA InitInv == Init => IInv
<1> SUFFICES ASSUME Init PROVE IInv
  OBVIOUS
<1>1. /\ inventory \in Inventories /\ resources = AsCollected /\ pc = "discover" /\ i = 1
      /\ failed = {} /\ warned = {} /\ nodes = <<>> /\ arrows = <<>> /\ uses = 0
  BY DEF Init
<1>2. /\ Len(Objects) \in Nat /\ resources \in Seq(ResourceType)
      /\ Len(resources) = Len(Objects)
  BY <1>1, ObjectsConverted
<1>3. \A j \in DOMAIN resources : resources[j].links \in Seq(LinkType)
  BY <1>2, ResourceFacts
<1>4. TypeOK
  <2>1. i \in 1..(Len(Objects) + 1) /\ uses \in 0..MaxUses /\ MaxUses \in Nat
    BY <1>1, <1>2, RelationshipsAssumption
  <2>2. Len(nodes) <= Len(resources)
    BY <1>1, <1>2
  <2>3. QED BY <1>1, <1>3, <2>1, <2>2 DEF TypeOK
<1>5. Typed
  BY <1>1, <1>2 DEF Typed
<1>6. AsConverted
  BY <1>1, <1>2, <1>3, OwnPrefix DEF AsConverted
<1>7. Answered /\ Mirroring
  <2>1. \A j \in DOMAIN resources : ~Visited(j)
    BY <1>1, <1>2 DEF Visited
  <2>2. QED BY <1>1, <2>1 DEF Answered, Mirroring
<1>8. Written /\ GraphAgrees
  BY <1>1 DEF Written, GraphAgrees
<1>9. QED BY <1>4, <1>5, <1>6, <1>7, <1>8 DEF IInv

\* A round of the discovery: what it adds to resources[i] must answer the call if
\* there was one, and the belongs_to of all others if it is a container.
Round(more) ==
  /\ pc = "discover" /\ i <= Len(resources) /\ NextResource
  /\ more \in Seq(LinkType) /\ Longer(resources, resources', i, more)
  /\ resources[i].type \in Contained => more = <<>>
  /\ \/ UNCHANGED <<failed, warned>>
        /\ (resources[i].type \in Asking => ToSet(Answer(resources[i])) \subseteq ToSet(more))
     \/ /\ failed' = failed \cup {i}
        /\ warned' = IF resources[i].type = "okta:group" THEN warned \cup {i} ELSE warned
  /\ resources[i].type \in Containers =>
       \A k \in DOMAIN resources :
         resources[k].type \in ContainedTypes(resources[i].type) =>
           Mirrored(resources'[i], resources[k])

LEMMA RoundInv ==
  ASSUME IInv, NEW more, Round(more)
  PROVE  IInv'
<1>1. /\ pc = "discover" /\ pc' = "discover" /\ i' = i + 1 /\ i <= Len(resources)
      /\ inventory' = inventory /\ nodes' = nodes /\ arrows' = arrows
      /\ edges' = edges /\ uses' = uses
  BY DEF Round, NextResource, drawing, graph
<1>2. /\ Len(Objects) \in Nat /\ Len(resources) = Len(Objects)
      /\ resources \in Seq(ResourceType) /\ DOMAIN resources = 1..Len(resources)
      /\ i \in DOMAIN resources /\ i \in Nat
  <2>1. inventory \in Inventories /\ i \in 1..(Len(Objects) + 1)
    BY DEF IInv, TypeOK
  <2>2. Len(Objects) \in Nat
    BY <2>1, ObjectsConverted
  <2>3. resources \in Seq(ResourceType) /\ Len(resources) = Len(Objects)
    BY <1>1 DEF IInv, Typed, AsConverted
  <2>4. DOMAIN resources = 1..Len(resources)
    BY <2>3
  <2>5. QED BY <1>1, <2>1, <2>2, <2>3, <2>4
<1>3. /\ resources' \in Seq(ResourceType) /\ Len(resources') = Len(resources)
      /\ DOMAIN resources' = DOMAIN resources
      /\ \A j \in DOMAIN resources :
           /\ resources'[j].id = resources[j].id /\ resources'[j].type = resources[j].type
           /\ j # i => resources'[j] = resources[j]
      /\ resources'[i].links = resources[i].links \o more /\ more \in Seq(LinkType)
  BY DEF Round, Longer
<1>4. /\ \A j \in DOMAIN resources : Visited(j)' <=> Visited(j) \/ j = i
      /\ ~Visited(i) /\ Finding /\ Finding'
  BY <1>1, <1>2 DEF Visited, Finding
<1>5. \A j \in DOMAIN resources :
        resources[j].links \in Seq(LinkType) /\ resources'[j].links \in Seq(LinkType)
  BY <1>2, <1>3, ResourceFacts
<1>6. /\ failed \subseteq failed' /\ failed' \subseteq failed \cup {i}
      /\ warned \subseteq warned' /\ warned' \subseteq failed'
      /\ failed' \subseteq DOMAIN Objects
  <2>1. warned \subseteq failed /\ failed \subseteq DOMAIN Objects
    BY DEF IInv, TypeOK
  <2>2. inventory \in Inventories
    BY DEF IInv, TypeOK
  <2>3. i \in DOMAIN Objects
    BY <1>2, <2>2, ObjectsConverted
  <2>4. QED BY <2>1, <2>3 DEF Round
<1>7. TypeOK'
  <2>1. i' \in 1..(Len(Objects) + 1)
    BY <1>1, <1>2
  <2>2. Len(nodes') <= Len(resources')
    BY <1>1, <1>3 DEF IInv, TypeOK
  <2>3. inventory' \in Inventories /\ uses' \in 0..MaxUses
    BY <1>1 DEF IInv, TypeOK
  <2>4. QED BY <1>1, <1>3, <1>5, <1>6, <2>1, <2>2, <2>3, InputFixed DEF TypeOK
<1>8. Typed'
  BY <1>1, <1>3 DEF IInv, Typed
<1>9. AsConverted'
  <2>1. Len(resources') = Len(Objects')
    BY <1>1, <1>2, <1>3, InputFixed
  <2>2. ASSUME NEW j \in DOMAIN resources
        PROVE  /\ resources'[j].id = AsCollected[j].id
               /\ resources'[j].type = AsCollected[j].type
               /\ IsPrefix(AsCollected[j].links, resources'[j].links)
               /\ (resources'[j].type \in Contained \/ ~Visited(j)') =>
                    resources'[j].links = AsCollected[j].links
    <3>1. /\ resources[j].id = AsCollected[j].id /\ resources[j].type = AsCollected[j].type
          /\ IsPrefix(AsCollected[j].links, resources[j].links)
          /\ (resources[j].type \in Contained \/ ~Visited(j))
               => resources[j].links = AsCollected[j].links
      BY <1>1, <1>4 DEF IInv, AsConverted
    <3>2. CASE j # i
      BY <1>3, <1>4, <3>1, <3>2
    <3>3. CASE j = i
      <4>1. AsCollected[j].links \in Seq(LinkType)
        BY <1>4, <1>5, <3>1, <3>3
      <4>2. IsPrefix(AsCollected[j].links, resources[j].links \o more)
        BY <1>3, <1>5, <3>1, <4>1, PrefixFacts
      <4>3. resources[j].type \in Contained => resources'[j].links = resources[j].links
        <5>1. SUFFICES ASSUME resources[j].type \in Contained
                       PROVE  resources'[j].links = resources[j].links
          OBVIOUS
        <5>2. more = <<>>
          BY <3>3, <5>1 DEF Round
        <5>3. \A S : \A s \in Seq(S) : s \o <<>> = s
          OBVIOUS
        <5>4. resources[j].links \o <<>> = resources[j].links
          BY <1>5, <5>3
        <5>5. QED BY <1>3, <3>3, <5>2, <5>4
      <4>4. QED BY <1>3, <1>4, <3>1, <3>3, <4>2, <4>3
    <3>4. QED BY <3>2, <3>3
  <2>3. QED BY <1>1, <1>3, <1>4, <2>1, <2>2, InputFixed DEF AsConverted
<1>10. Answered'
  <2>1. /\ \A j \in failed : Visited(j)
        /\ \A j \in DOMAIN resources : Visited(j) =>
             /\ (resources[j].type \in Asking /\ j \notin failed) =>
                  ToSet(Answer(resources[j])) \subseteq ToSet(resources[j].links)
             /\ (resources[j].type = "okta:group" /\ j \in failed) => j \in warned
    BY <1>4 DEF IInv, Answered
  <2>2. \A j \in failed' : Visited(j)'
    <3>1. TAKE j \in failed'
    <3>2. j \in DOMAIN resources
      <4>1. inventory \in Inventories
        BY DEF IInv, TypeOK
      <4>2. QED BY <1>2, <1>6, <4>1, ObjectsConverted
    <3>3. QED BY <1>4, <1>6, <2>1, <3>2
  <2>3. \A j \in DOMAIN resources : Answer(resources'[j]) = Answer(resources[j])
    BY <1>3 DEF Answer
  <2>4. ASSUME NEW j \in DOMAIN resources, Visited(j)'
        PROVE  /\ (resources'[j].type \in Asking /\ j \notin failed') =>
                    ToSet(Answer(resources[j])) \subseteq ToSet(resources'[j].links)
               /\ (resources'[j].type = "okta:group" /\ j \in failed') => j \in warned'
    <3>1. CASE j # i
      BY <1>3, <1>4, <1>6, <2>1, <2>4, <3>1
    <3>2. CASE j = i
      <4>1. j \notin failed
        BY <1>4, <2>1, <3>2
      <4>2. resources'[j].type = "okta:group" /\ j \in failed' => j \in warned'
        BY <1>3, <3>2, <4>1 DEF Round
      <4>3. ASSUME resources'[j].type \in Asking, j \notin failed'
            PROVE  ToSet(Answer(resources[j])) \subseteq ToSet(resources'[j].links)
        <5>1. ToSet(Answer(resources[j])) \subseteq ToSet(more)
          BY <1>3, <3>2, <4>3 DEF Round
        <5>2. ToSet(resources[i].links \o more) = ToSet(resources[i].links) \cup ToSet(more)
          BY <1>2, <1>3, <1>5, ConcatMembers
        <5>3. QED BY <1>3, <3>2, <5>1, <5>2
      <4>4. QED BY <4>2, <4>3
    <3>3. QED BY <3>1, <3>2
  <2>5. \A j \in DOMAIN resources : Answer(resources[j])' = Answer(resources'[j])
    BY <1>1 DEF Answer
  <2>6. QED BY <1>3, <2>2, <2>3, <2>4, <2>5 DEF Answered
<1>11. Mirroring'
  <2>1. ASSUME NEW j \in DOMAIN resources, NEW k \in DOMAIN resources,
               Visited(j)', resources'[j].type \in Containers,
               resources'[k].type \in ContainedTypes(resources'[j].type)
        PROVE  Mirrored(resources'[j], resources'[k])
    <3>1. resources'[k].type \in Contained
      BY <2>1 DEF Containers, ContainedTypes, Contained
    <3>2. /\ resources[k].type \in ContainedTypes(resources[j].type)
          /\ resources[j].type \in Containers
      BY <1>3, <2>1
    <3>3. CASE j # i
      <4>1. Mirrored(resources[j], resources[k])
        BY <1>4, <2>1, <3>2, <3>3 DEF IInv, Mirroring
      <4>2. resources'[k].links = resources[k].links
        <5>1. CASE k # i
          BY <1>3, <5>1
        <5>2. CASE k = i
          <6>1. more = <<>>
            BY <1>3, <3>1, <5>2 DEF Round
          <6>2. \A S : \A s \in Seq(S) : s \o <<>> = s
            OBVIOUS
          <6>3. resources[k].links \o <<>> = resources[k].links
            BY <1>5, <6>2
          <6>4. QED BY <1>3, <5>2, <6>1, <6>3
        <5>3. QED BY <5>1, <5>2
      <4>3. resources'[j] = resources[j] /\ resources'[k].id = resources[k].id
            /\ resources'[k].type = resources[k].type
        BY <1>3, <3>3
      <4>4. QED BY <4>1, <4>2, <4>3 DEF Mirrored, Has
    <3>4. CASE j = i
      <4>1. k # i
        BY <1>3, <3>1, <3>2, <3>4 DEF Containers, Contained
      <4>2. resources'[k] = resources[k]
        BY <1>3, <4>1
      <4>3. Mirrored(resources'[j], resources[k])
        BY <3>2, <3>4 DEF Round
      <4>4. QED BY <4>2, <4>3
    <3>5. QED BY <3>3, <3>4
  <2>2. QED BY <1>3, <2>1 DEF Mirroring
<1>12. Written' /\ GraphAgrees'
  BY <1>1, <1>4 DEF IInv, Written, GraphAgrees, Finding
<1>13. QED BY <1>7, <1>8, <1>9, <1>10, <1>11, <1>12 DEF IInv

\* What the converters link a contained object to, and a container to.
LEMMA ContainedLinks ==
  ASSUME NEW o \in Collected, NEW type \in Containers, o.via.type \in ContainedTypes(type),
         NEW l \in ToSet(Links(o))
  PROVE  l.type = type
<1>1. PICK m \in DOMAIN o.via.links : l \in ToSet(LinksOfRole(o, m))
  BY LinksMean
<1>2. l.type = o.via.links[m].target
  <2>1. o.via.links[m].ref \in DOMAIN o.refs
    <3>1. \A x : x \notin ToSet(<<>>)
      BY DEF ToSet
    <3>2. LinksOfRole(o, m) # <<>>
      BY <1>1, <3>1
    <3>3. QED BY <3>2 DEF LinksOfRole
  <2> DEFINE row  == o.via.links[m]
             refs == o.refs[row.ref]
  <2>2. LinksOfRole(o, m) =
          [n \in DOMAIN refs |-> Relationship(row.rel, refs[n][row.form], row.target)]
    BY <2>1 DEF LinksOfRole
  <2> HIDE DEF row, refs
  <2>3. PICK n \in DOMAIN refs : l = Relationship(row.rel, refs[n][row.form], row.target)
    BY <1>1, <2>2 DEF ToSet
  <2>4. l.type = row.target
    BY <2>3 DEF Relationship
  <2>5. QED BY <2>4 DEF row
<1>3. RowLinkOK(o.via.type, o.via.links[m])
  BY CollectedConvertible, RowsAgree DEF Convertible, RowOK
<1>4. QED BY <1>2, <1>3 DEF RowLinkOK, Containers, ContainedTypes

LEMMA ContainerLinks ==
  ASSUME NEW o \in Collected, o.via.type \in Containers
  PROVE  Links(o) = <<>>
<1>1. o.via.links = <<>>
  BY CollectedConvertible, RowsAgree DEF Convertible, RowOK
<1>2. DOMAIN o.via.links = {}
  BY <1>1
<1>3. \A x : x \notin ToSet(Links(o))
  BY <1>2, LinksMean
<1>4. Links(o) \in Seq(LinkType)
  BY LinksMean
<1>5. DOMAIN Links(o) = {}
  BY <1>3 DEF ToSet
<1>6. Len(Links(o)) = 0
  BY <1>4, <1>5
<1>7. QED BY <1>4, <1>6

\* While the discovery runs.
LEMMA Discovery ==
  ASSUME IInv, pc = "discover", i <= Len(resources)
  PROVE  /\ inventory \in Inventories
         /\ resources \in Seq(ResourceType) /\ i \in DOMAIN resources
         /\ DOMAIN resources = DOMAIN Objects
         /\ resources[i] \in ResourceType
         /\ ~Visited(i) /\ Finding
<1>1. inventory \in Inventories /\ i \in 1..(Len(Objects) + 1)
  BY DEF IInv, TypeOK
<1>2. Len(Objects) \in Nat /\ DOMAIN Objects = 1..Len(Objects)
  BY <1>1, ObjectsConverted
<1>3. resources \in Seq(ResourceType) /\ Len(resources) = Len(Objects)
  BY DEF IInv, Typed, AsConverted
<1>4. DOMAIN resources = 1..Len(resources) /\ i \in DOMAIN resources
  BY <1>1, <1>2, <1>3
<1>5. resources[i] \in ResourceType
  BY <1>3, <1>4
<1>6. ~Visited(i) /\ Finding
  BY <1>1, <1>2 DEF Visited, Finding
<1>7. QED BY <1>1, <1>2, <1>3, <1>4, <1>5, <1>6

\* Before their turn, and ever if something may contain them, resources have the
\* relationships of their object.
LEMMA StillConverted ==
  ASSUME IInv, pc = "discover", NEW j \in DOMAIN resources,
         resources[j].type \in Contained \/ ~Visited(j)
  PROVE  /\ Objects[j] \in Collected
         /\ resources[j].links = Links(Objects[j])
         /\ resources[j].type = Objects[j].via.type
         /\ resources[j].id = Objects[j].forms[Objects[j].via.id]
<1>1. Finding /\ inventory \in Inventories
  BY DEF Finding, IInv, TypeOK
<1>2. j \in DOMAIN Objects
  <2>1. resources \in Seq(ResourceType) /\ Len(resources) = Len(Objects)
    BY DEF IInv, Typed, AsConverted
  <2>2. DOMAIN resources = 1..Len(resources)
    BY <2>1
  <2>3. QED BY <1>1, <2>1, <2>2, ObjectsConverted
<1>3. /\ resources[j].id = AsCollected[j].id /\ resources[j].type = AsCollected[j].type
      /\ resources[j].links = AsCollected[j].links
  BY <1>1 DEF IInv, AsConverted
<1>4. Objects[j] \in Collected /\ AsCollected[j] = ToResource(Objects[j])
  BY <1>1, <1>2, ObjectsConverted
<1>5. QED BY <1>3, <1>4, Fields

LEMMA ContentsMirror ==
  ASSUME IInv, pc = "discover", i <= Len(resources), resources[i].type \in Containers,
         NEW c, c.id = resources[i].id, c.type = resources[i].type,
         c.links = resources[i].links \o ContentsOf(resources[i], resources),
         NEW k \in DOMAIN resources, resources[k].type \in ContainedTypes(resources[i].type)
  PROVE  Mirrored(c, resources[k])
<1> DEFINE v == resources[i]
           r == resources[k]
           T == v.type
<1>1. /\ inventory \in Inventories /\ DOMAIN resources = DOMAIN Objects
      /\ resources \in Seq(ResourceType) /\ i \in DOMAIN resources /\ v \in ResourceType
      /\ ~Visited(i) /\ \A j \in DOMAIN resources : resources[j] \in ResourceType
  BY Discovery
<1>2. ToSet(c.links) = ToSet(ContentsOf(v, resources))
  <2>1. v.links = Links(Objects[i]) /\ Objects[i] \in Collected /\ v.type = Objects[i].via.type
    BY <1>1, StillConverted
  <2>2. v.links = <<>>
    BY <2>1, ContainerLinks
  <2>3. ContentsOf(v, resources) \in Seq(LinkType)
    BY <1>1, ContentsMean
  <2>4. \A S : \A s \in Seq(S) : <<>> \o s = s
    OBVIOUS
  <2>5. <<>> \o ContentsOf(v, resources) = ContentsOf(v, resources)
    BY <2>3, <2>4
  <2>6. QED BY <2>2, <2>5
<1>3. T \in Containers /\ ContainedTypes(T) \subseteq Contained \ {"github:user"}
  BY DEF Containers, ContainedTypes, Contained
<1>4. ASSUME NEW j \in DOMAIN resources, resources[j].type \in ContainedTypes(T)
      PROVE  /\ Objects[j] \in Collected /\ resources[j].links = Links(Objects[j])
             /\ resources[j].type = Objects[j].via.type
             /\ resources[j].id = Objects[j].forms[Objects[j].via.id]
             /\ \A l \in ToSet(resources[j].links) : l.type = T
  <2>1. /\ Objects[j] \in Collected /\ resources[j].links = Links(Objects[j])
        /\ resources[j].type = Objects[j].via.type
        /\ resources[j].id = Objects[j].forms[Objects[j].via.id]
    BY <1>3, <1>4, StillConverted
  <2>2. \A l \in ToSet(Links(Objects[j])) : l.type = T
    BY <1>3, <1>4, <2>1, ContainedLinks
  <2>3. QED BY <2>1, <2>2
<1>5. ASSUME Has(r, "belongs_to", c.id, c.type)
      PROVE  Has(c, "contains", r.id, r.type)
  <2>1. PICK l \in ToSet(r.links) : l.rel = "belongs_to" /\ l.target = v.id
    BY <1>5 DEF Has
  <2> DEFINE x == Relationship("contains", r.id, r.type)
  <2>2. x \in ToSet(Inverses(v, r))
    BY <1>1, <2>1, InversesMean
  <2>3. x \in ToSet(c.links)
    BY <1>1, <1>2, <2>2, ContentsMean
  <2>4. x.rel = "contains" /\ x.target = r.id /\ x.type = r.type
    BY DEF Relationship
  <2> HIDE DEF x
  <2>5. QED BY <2>3, <2>4 DEF Has
<1>6. ASSUME Has(c, "contains", r.id, r.type)
      PROVE  Has(r, "belongs_to", c.id, c.type)
  <2>1. PICK x \in ToSet(c.links) : x.rel = "contains" /\ x.target = r.id /\ x.type = r.type
    BY <1>6 DEF Has
  <2>2. PICK j \in DOMAIN resources :
          x \in ToSet(Inverses(v, resources[j])) \/ x \in ToSet(Member(v, resources[j]))
    BY <1>1, <1>2, <2>1, ContentsMean
  <2>3. x \notin ToSet(Member(v, resources[j]))
    BY <1>1, <1>3, <2>1, MemberMeans
  <2>4. /\ resources[j].type \in ContainedTypes(T)
        /\ x = Relationship("contains", resources[j].id, resources[j].type)
        /\ \E l \in ToSet(resources[j].links) : l.target = v.id /\ l.rel = "belongs_to"
    BY <1>1, <2>2, <2>3, InversesMean
  <2>5. resources[j].id = r.id /\ resources[j].type = r.type
    BY <2>1, <2>4 DEF Relationship
  <2>6. Links(Objects[j]) = Links(Objects[k])
    <3>1. /\ Objects[j].via.type = Objects[k].via.type
          /\ Objects[j].forms[Objects[j].via.id] = Objects[k].forms[Objects[k].via.id]
      BY <1>4, <2>4, <2>5
    <3>2. Objects[j].via.type \in Contained
      BY <1>3, <1>4, <2>4
    <3>3. QED BY <1>1, <3>1, <3>2, IdsAssumption DEF Objects, Contained
  <2>7. r.links = resources[j].links
    BY <1>4, <2>4, <2>6
  <2>8. PICK l \in ToSet(r.links) : l.target = v.id /\ l.rel = "belongs_to"
    BY <2>4, <2>7
  <2>9. l.type = T
    BY <1>4, <2>8
  <2>10. QED BY <2>8, <2>9 DEF Has
<1>7. QED BY <1>5, <1>6 DEF Mirrored

LEMMA ContentsInv == IInv /\ DiscoverContents => IInv'
<1> SUFFICES ASSUME IInv, DiscoverContents PROVE IInv'
  OBVIOUS
<1> DEFINE more == ContentsOf(resources[i], resources)
<1>1. /\ pc = "discover" /\ i <= Len(resources) /\ resources[i].type \in Containers
      /\ resources' = [resources EXCEPT ![i].links = @ \o more]
      /\ NextResource /\ UNCHANGED <<failed, warned>>
  BY DEF DiscoverContents, Discovering, Appended, ContentsOf
<1>2. resources \in Seq(ResourceType) /\ i \in DOMAIN resources /\ resources[i] \in ResourceType
  BY <1>1, Discovery
<1>3. more \in Seq(LinkType)
  BY <1>2, ContentsMean
<1>4. Longer(resources, resources', i, more)
  <2> HIDE DEF more
  <2>1. QED BY <1>1, <1>2, <1>3, AppendedMeans
<1>5. /\ resources'[i].id = resources[i].id /\ resources'[i].type = resources[i].type
      /\ resources'[i].links = resources[i].links \o more
  BY <1>2, <1>4 DEF Longer
<1>6. resources[i].type \notin Contained /\ resources[i].type \notin Asking
  BY <1>1 DEF Containers, Contained, Asking
<1>7. ASSUME NEW k \in DOMAIN resources, resources[k].type \in ContainedTypes(resources[i].type)
      PROVE  Mirrored(resources'[i], resources[k])
  BY <1>1, <1>5, <1>7, ContentsMirror
<1> HIDE DEF more
<1>8. Round(more)
  BY <1>1, <1>3, <1>4, <1>6, <1>7 DEF Round
<1>9. QED BY <1>8, RoundInv

LEMMA GroupInv == IInv /\ DiscoverResourceGroup => IInv'
<1> SUFFICES ASSUME IInv, DiscoverResourceGroup PROVE IInv'
  OBVIOUS
<1> DEFINE groups == {j \in DOMAIN resources :
             /\ resources[j].type = "azure:resourcegroup"
             /\ resources[j].name = resources[i].props.resource_group.text}
           more == IF groups = {} THEN <<>>
                   ELSE <<Relationship("in_resource_group", resources[Min(groups)].id,
                                       "azure:resourcegroup")>>
<1>1. /\ pc = "discover" /\ i <= Len(resources)
      /\ resources[i].type \in {"azure:compute:vm", "azure:network:vnet"}
      /\ resources' = [resources EXCEPT ![i].links = @ \o more]
      /\ NextResource /\ UNCHANGED <<failed, warned>>
  BY DEF DiscoverResourceGroup, Discovering, Appended
<1>2. resources \in Seq(ResourceType) /\ i \in DOMAIN resources
  BY <1>1, Discovery
<1>3. more \in Seq(LinkType)
  <2>1. CASE groups = {}
    <3>1. more = <<>> /\ <<>> \in Seq(LinkType)
      BY <2>1
    <3>2. QED BY <3>1
  <2>2. CASE groups # {}
    <3>1. Min(groups) \in DOMAIN resources
      <4>1. Len(resources) \in Nat /\ DOMAIN resources = 1..Len(resources)
        BY <1>2
      <4>2. groups \in SUBSET Nat /\ groups \subseteq DOMAIN resources
        BY <4>1
      <4> HIDE DEF groups
      <4>3. \E x \in groups : \A y \in groups : x <= y
        BY <2>2, <4>2, LeastNatural
      <4>4. Min(groups) \in groups
        BY <4>3 DEF Min
      <4>5. QED BY <4>2, <4>4
    <3> HIDE DEF groups
    <3>2. resources[Min(groups)] \in ResourceType
      BY <1>2, <3>1
    <3>3. resources[Min(groups)].id \in Text
      BY <3>2, ResourceFacts
    <3>4. "in_resource_group" \in RelationTypes /\ "azure:resourcegroup" \in ResourceTypes
      BY AddedTypes DEF RelationTypes
    <3>5. PICK x : x = Relationship("in_resource_group", resources[Min(groups)].id,
                                    "azure:resourcegroup")
      OBVIOUS
    <3>6. x \in LinkType
      BY <3>3, <3>4, <3>5, RelationshipType
    <3>7. more = <<x>>
      BY <2>2, <3>5
    <3>8. QED BY <3>6, <3>7
  <2>3. QED BY <2>1, <2>2
<1> HIDE DEF groups
<1>4. Longer(resources, resources', i, more)
  <2> HIDE DEF more
  <2>1. QED BY <1>1, <1>2, <1>3, AppendedMeans
<1> HIDE DEF more
<1>5. /\ resources[i].type \notin Contained /\ resources[i].type \notin Asking
      /\ resources[i].type \notin Containers
  BY <1>1 DEF Containers, Contained, Asking
<1>6. Round(more)
  BY <1>1, <1>3, <1>4, <1>5 DEF Round
<1>7. QED BY <1>6, RoundInv

LEMMA MembersInv == IInv /\ DiscoverMembers => IInv'
<1> SUFFICES ASSUME IInv, DiscoverMembers PROVE IInv'
  OBVIOUS
<1> DEFINE more == Answer(resources[i])
<1>1. /\ pc = "discover" /\ i <= Len(resources) /\ resources[i].type \in Asking
      /\ resources' = [resources EXCEPT ![i].links = @ \o more]
      /\ NextResource /\ UNCHANGED <<failed, warned>>
  BY DEF DiscoverMembers, Discovering, Appended
<1>2. /\ resources \in Seq(ResourceType) /\ i \in DOMAIN resources
      /\ resources[i] \in ResourceType /\ inventory \in Inventories
  BY <1>1, Discovery
<1>3. more \in Seq(LinkType)
  BY <1>2, AnswerType
<1>4. Longer(resources, resources', i, more)
  <2> HIDE DEF more
  <2>1. QED BY <1>1, <1>2, <1>3, AppendedMeans
<1>5. resources[i].type \notin Contained /\ resources[i].type \notin Containers
  BY <1>1 DEF Containers, Contained, Asking
<1>6. ToSet(Answer(resources[i])) \subseteq ToSet(more)
  OBVIOUS
<1> HIDE DEF more
<1>7. Round(more)
  BY <1>1, <1>3, <1>4, <1>5, <1>6 DEF Round
<1>8. QED BY <1>7, RoundInv

LEMMA MembersFailInv == IInv /\ MembersFail => IInv'
<1> SUFFICES ASSUME IInv, MembersFail PROVE IInv'
  OBVIOUS
<1>1. /\ pc = "discover" /\ i <= Len(resources) /\ resources[i].type \in Asking
      /\ resources' = resources /\ NextResource
      /\ failed' = failed \cup {i}
      /\ warned' = IF resources[i].type = "okta:group" THEN warned \cup {i} ELSE warned
  BY DEF MembersFail, Discovering
<1>2. resources \in Seq(ResourceType) /\ i \in DOMAIN resources
  BY <1>1, Discovery
<1>3. Longer(resources, resources', i, <<>>)
  BY <1>1, <1>2, NoneAppended
<1>4. resources[i].type \notin Containers
  BY <1>1 DEF Containers, Asking
<1>5. <<>> \in Seq(LinkType)
  OBVIOUS
<1>6. Round(<<>>)
  BY <1>1, <1>3, <1>4, <1>5 DEF Round
<1>7. QED BY <1>6, RoundInv

LEMMA NothingInv == IInv /\ DiscoverNothing => IInv'
<1> SUFFICES ASSUME IInv, DiscoverNothing PROVE IInv'
  OBVIOUS
<1>1. /\ pc = "discover" /\ i <= Len(resources)
      /\ resources[i].type \notin Containers /\ resources[i].type \notin Asking
      /\ resources' = resources /\ NextResource /\ UNCHANGED <<failed, warned>>
  BY DEF DiscoverNothing
<1>2. resources \in Seq(ResourceType) /\ i \in DOMAIN resources
  BY <1>1, Discovery
<1>3. Longer(resources, resources', i, <<>>)
  BY <1>1, <1>2, NoneAppended
<1>4. <<>> \in Seq(LinkType)
  OBVIOUS
<1>5. Round(<<>>)
  BY <1>1, <1>3, <1>4 DEF Round
<1>6. QED BY <1>5, RoundInv

-----------------------------------------------------------------------------
(* The DOT file.                                                           *)

\* What the invariant says of resources that do not change.
LEMMA SameResources ==
  ASSUME IInv, UNCHANGED <<inventory, resources, failed, warned, uses, edges>>,
         pc # "graph", pc' # "graph",
         pc' \in {"discover", "ready", "nodes", "edges", "done"},
         i' \in 1..(Len(Objects) + 1),
         Finding' => Finding /\ \A j \in DOMAIN resources : Visited(j)' <=> Visited(j),
         Len(nodes') <= Len(resources), nodes' \in Seq(NodeType), arrows' \in Seq(ArrowType),
         Written'
  PROVE  IInv'
<1>1. resources \in Seq(ResourceType) /\ inventory \in Inventories
      /\ Len(resources) = Len(Objects) /\ failed \subseteq DOMAIN Objects
  BY DEF IInv, Typed, TypeOK, AsConverted
<1>2. DOMAIN resources = DOMAIN Objects
  BY <1>1, ObjectsConverted
<1>3. TypeOK'
  BY InputFixed DEF IInv, TypeOK
<1>4. Typed'
  BY <1>1 DEF Typed
<1>5. AsConverted'
  BY InputFixed DEF IInv, AsConverted
<1>6. Answered'
  <2>1. \A j \in DOMAIN resources : Answer(resources[j])' = Answer(resources[j])
    BY DEF Answer
  <2>2. QED BY <1>1, <1>2, <2>1 DEF IInv, Answered
<1>7. Mirroring'
  BY DEF IInv, Mirroring, Mirrored, Has
<1>8. GraphAgrees'
  BY DEF GraphAgrees
<1>9. QED BY <1>3, <1>4, <1>5, <1>6, <1>7, <1>8 DEF IInv

LEMMA DiscoveredInv == IInv /\ Discovered => IInv'
<1> SUFFICES ASSUME IInv, Discovered PROVE IInv'
  OBVIOUS
<1>1. /\ pc = "discover" /\ i > Len(resources) /\ pc' = "ready" /\ i' = 1
      /\ UNCHANGED <<inventory, resources, failed, warned, nodes, arrows, edges, uses>>
  BY DEF Discovered, drawing, graph
<1>2. /\ resources \in Seq(ResourceType) /\ Len(Objects) \in Nat /\ i \in Nat
      /\ DOMAIN resources = 1..Len(resources) /\ Len(resources) \in Nat
  <2>1. resources \in Seq(ResourceType) /\ inventory \in Inventories /\ i \in 1..(Len(Objects) + 1)
    BY DEF IInv, Typed, TypeOK
  <2>2. Len(Objects) \in Nat
    BY <2>1, ObjectsConverted
  <2>3. QED BY <2>1, <2>2
<1>3. Finding /\ \A j \in DOMAIN resources : Visited(j)' <=> Visited(j)
  BY <1>1, <1>2 DEF Finding, Visited
<1>4. Written'
  BY <1>1, <1>3 DEF IInv, Written, Finding
<1>5. 1 \in 1..(Len(Objects) + 1)
  BY <1>2
<1>6. Len(nodes) <= Len(resources) /\ nodes \in Seq(NodeType) /\ arrows \in Seq(ArrowType)
  BY DEF IInv, TypeOK, Typed
<1>7. QED BY <1>1, <1>3, <1>4, <1>5, <1>6, SameResources

\* While something is written.
LEMMA Writing ==
  ASSUME IInv, pc # "graph"
  PROVE  /\ inventory \in Inventories /\ Len(Objects) \in Nat
         /\ resources \in Seq(ResourceType) /\ Len(resources) = Len(Objects)
         /\ DOMAIN resources = 1..Len(resources)
         /\ i \in Nat /\ i >= 1 /\ i <= Len(resources) + 1
         /\ Len(nodes) <= Len(resources) /\ nodes \in Seq(NodeType) /\ arrows \in Seq(ArrowType)
<1>1. /\ inventory \in Inventories /\ i \in 1..(Len(Objects) + 1)
      /\ Len(nodes) <= Len(resources) /\ nodes \in Seq(NodeType) /\ arrows \in Seq(ArrowType)
      /\ resources \in Seq(ResourceType) /\ Len(resources) = Len(Objects)
  BY DEF IInv, TypeOK, Typed, AsConverted
<1>2. Len(Objects) \in Nat
  BY <1>1, ObjectsConverted
<1>3. DOMAIN resources = 1..Len(resources)
  BY <1>1
<1>4. i \in Nat /\ i >= 1 /\ i <= Len(resources) + 1
  BY <1>1, <1>2
<1>5. QED BY <1>1, <1>2, <1>3, <1>4

LEMMA DrawInv == IInv /\ Draw => IInv'
<1> SUFFICES ASSUME IInv, Draw PROVE IInv'
  OBVIOUS
<1>1. /\ pc = "ready" /\ pc' = "nodes"
      /\ UNCHANGED <<inventory, i, resources, failed, warned, nodes, arrows, edges, uses>>
  BY DEF Draw, drawing, graph
<1>2. ~Finding'
  BY <1>1 DEF Finding
<1>3. Written'
  <2>1. nodes = <<>> /\ arrows = <<>> /\ i = 1
    BY <1>1 DEF IInv, Written, Finding
  <2>2. NodesTo(resources, 0) = <<>>
    <3>1. 1..0 = {}
      OBVIOUS
    <3>2. QED BY <3>1 DEF NodesTo
  <2>3. i' - 1 = 0
    BY <1>1, <2>1
  <2>4. QED BY <1>1, <1>2, <2>1, <2>2, <2>3 DEF Written
<1>4. i \in 1..(Len(Objects) + 1)
  BY DEF IInv, TypeOK
<1>5. QED BY <1>1, <1>2, <1>3, <1>4, Writing, SameResources

LEMMA WriteNodeInv == IInv /\ writeNode => IInv'
<1> SUFFICES ASSUME IInv, writeNode PROVE IInv'
  OBVIOUS
<1>1. /\ pc = "nodes" /\ pc' = "nodes" /\ i <= Len(resources) /\ i' = i + 1
      /\ nodes' = Append(nodes, sanitizeID(resources[i].id))
      /\ UNCHANGED <<inventory, resources, failed, warned, arrows, edges, uses>>
  BY DEF writeNode, drawing, graph
<1>2. /\ Len(Objects) \in Nat /\ resources \in Seq(ResourceType) /\ Len(resources) = Len(Objects)
      /\ DOMAIN resources = 1..Len(resources) /\ i \in Nat /\ i >= 1
      /\ nodes \in Seq(NodeType) /\ arrows \in Seq(ArrowType)
  BY <1>1, Writing
<1>3. sanitizeID(resources[i].id) \in NodeType
  <2>1. i \in DOMAIN resources
    BY <1>1, <1>2
  <2>2. resources[i] \in ResourceType
    BY <1>2, <2>1
  <2>3. resources[i].id \in Text
    BY <2>2, ResourceFacts
  <2>4. QED BY <2>3 DEF NodeType
<1>4. nodes = NodesTo(resources, i - 1)
  BY <1>1 DEF IInv, Written
<1>5. nodes' = NodesTo(resources, i) /\ Len(nodes') = i
  <2> DEFINE f == [j \in 1..i |-> sanitizeID(resources[j].id)]
             m == i - 1
  <2>1. m \in Nat /\ m + 1 = i
    BY <1>2
  <2>2. \A j \in 1..i : sanitizeID(resources[j].id) \in NodeType
    <3>1. TAKE j \in 1..i
    <3>2. j \in DOMAIN resources
      BY <1>1, <1>2
    <3>3. resources[j] \in ResourceType
      BY <1>2, <3>2
    <3>4. resources[j].id \in Text
      BY <3>3, ResourceFacts
    <3>5. QED BY <3>4 DEF NodeType
  <2> HIDE DEF m
  <2>3. f \in [1..(m + 1) -> NodeType]
    BY <2>1, <2>2
  <2>4. f = Append([j \in 1..m |-> f[j]], f[m + 1])
    <3> HIDE DEF f
    <3>1. QED BY <2>1, <2>3, LastOne
  <2>5. [j \in 1..m |-> f[j]] = NodesTo(resources, m)
    BY <2>1 DEF NodesTo
  <2>6. f[m + 1] = sanitizeID(resources[i].id)
    BY <1>2, <2>1
  <2>7. f = NodesTo(resources, i) /\ Len(f) = i
    BY <1>2 DEF NodesTo
  <2> HIDE DEF f
  <2>8. QED BY <1>1, <1>4, <2>4, <2>5, <2>6, <2>7 DEF m
<1>6. nodes' \in Seq(NodeType) /\ Len(nodes') <= Len(resources)
  <2>1. \A S : \A s \in Seq(S), x \in S : Append(s, x) \in Seq(S)
    OBVIOUS
  <2>2. QED BY <1>1, <1>2, <1>3, <1>5, <2>1
<1>7. Written'
  <2>1. i' - 1 = i
    BY <1>1, <1>2
  <2>2. arrows = <<>>
    BY <1>1 DEF IInv, Written
  <2>3. QED BY <1>1, <1>5, <2>1, <2>2 DEF Written, Finding
<1>8. i' \in 1..(Len(Objects) + 1) /\ ~Finding'
  BY <1>1, <1>2 DEF Finding
<1>9. QED BY <1>1, <1>2, <1>6, <1>7, <1>8, SameResources

LEMMA NodesWrittenInv == IInv /\ NodesWritten => IInv'
<1> SUFFICES ASSUME IInv, NodesWritten PROVE IInv'
  OBVIOUS
<1>1. /\ pc = "nodes" /\ pc' = "edges" /\ i > Len(resources) /\ i' = 1
      /\ UNCHANGED <<inventory, resources, failed, warned, nodes, arrows, edges, uses>>
  BY DEF NodesWritten, drawing, graph
<1>2. /\ Len(Objects) \in Nat /\ i \in Nat /\ i <= Len(resources) + 1 /\ Len(resources) \in Nat
      /\ Len(nodes) <= Len(resources) /\ nodes \in Seq(NodeType) /\ arrows \in Seq(ArrowType)
  BY <1>1, Writing
<1>3. i - 1 = Len(resources)
  BY <1>1, <1>2
<1>4. Written'
  <2>1. nodes = NodesTo(resources, Len(resources)) /\ arrows = <<>>
    BY <1>1, <1>3 DEF IInv, Written
  <2>2. i' - 1 = 0 /\ ArrowsTo(resources, 0) = {}
    <3>1. i' - 1 = 0 /\ 1..0 = {}
      BY <1>1
    <3>2. QED BY <3>1 DEF ArrowsTo
  <2>3. ToSet(arrows) = {}
    BY <2>1 DEF ToSet
  <2>4. QED BY <1>1, <2>1, <2>2, <2>3 DEF Written, Finding
<1>5. 1 \in 1..(Len(Objects) + 1) /\ ~Finding'
  BY <1>1, <1>2 DEF Finding
<1>6. QED BY <1>1, <1>2, <1>4, <1>5, SameResources

LEMMA WriteEdgesInv == IInv /\ writeEdges => IInv'
<1> SUFFICES ASSUME IInv, writeEdges PROVE IInv'
  OBVIOUS
<1> DEFINE res == resources[i]
           more == [l \in DOMAIN res.links |->
                      Arrow(sanitizeID(res.id), sanitizeID(res.links[l].target), res.links[l].rel)]
<1>1. /\ pc = "edges" /\ pc' = "edges" /\ i <= Len(resources) /\ i' = i + 1
      /\ arrows' = arrows \o more
      /\ UNCHANGED <<inventory, resources, failed, warned, nodes, edges, uses>>
  BY DEF writeEdges, drawing, graph
<1>2. /\ Len(Objects) \in Nat /\ resources \in Seq(ResourceType) /\ Len(resources) = Len(Objects)
      /\ DOMAIN resources = 1..Len(resources) /\ i \in Nat /\ i >= 1
      /\ Len(nodes) <= Len(resources) /\ nodes \in Seq(NodeType) /\ arrows \in Seq(ArrowType)
  BY <1>1, Writing
<1>3. i \in DOMAIN resources /\ res \in ResourceType
  BY <1>1, <1>2
<1>4. res.id \in Text /\ res.links \in Seq(LinkType)
  BY <1>3, ResourceFacts
<1>5. /\ Len(res.links) \in Nat /\ DOMAIN res.links = 1..Len(res.links)
      /\ \A l \in DOMAIN res.links :
           res.links[l].target \in Text /\ res.links[l].rel \in RelationTypes
  <2>1. \A l \in DOMAIN res.links : res.links[l] \in LinkType
    BY <1>4
  <2>2. QED BY <1>4, <2>1 DEF LinkType
<1>6. \A l \in DOMAIN res.links : more[l] = ArrowOf(resources, i, l) /\ more[l] \in ArrowType
  <2>1. TAKE l \in DOMAIN res.links
  <2>2. more[l] = ArrowOf(resources, i, l)
    BY DEF ArrowOf
  <2>3. sanitizeID(res.id) \in NodeType /\ sanitizeID(res.links[l].target) \in NodeType
    BY <1>4, <1>5 DEF NodeType
  <2>4. QED BY <1>5, <2>2, <2>3 DEF Arrow, ArrowType
<1>7. more \in Seq(ArrowType) /\ DOMAIN more = DOMAIN res.links
  <2>1. DOMAIN more = DOMAIN res.links
    OBVIOUS
  <2>2. PICK n, A : n = Len(res.links) /\ A = ArrowType
    OBVIOUS
  <2>3. more \in [1..n -> A]
    BY <1>5, <1>6, <2>2
  <2>4. more \in Seq(A)
    BY <1>5, <2>2, <2>3
  <2>5. QED BY <2>1, <2>2, <2>4
<1>8. ToSet(more) = {ArrowOf(resources, i, l) : l \in DOMAIN res.links}
  BY <1>6, <1>7 DEF ToSet
<1> HIDE DEF more
<1>9. /\ ToSet(arrows') = ToSet(arrows) \cup ToSet(more)
      /\ arrows' \in Seq(ArrowType)
  <2>1. \A S : \A x, y \in Seq(S) : x \o y \in Seq(S)
    OBVIOUS
  <2>2. arrows \o more \in Seq(ArrowType)
    BY <1>2, <1>7, <2>1
  <2>3. QED BY <1>1, <1>2, <1>7, <2>2, ConcatMembers
<1>10. ArrowsTo(resources, i) = ArrowsTo(resources, i - 1) \cup {ArrowOf(resources, i, l) : l \in DOMAIN res.links}
  <2>1. \A j : j \in 1..i <=> j \in 1..(i - 1) \/ j = i
    BY <1>2
  <2>2. QED BY <2>1 DEF ArrowsTo
<1>11. Written'
  <2>1. ToSet(arrows) = ArrowsTo(resources, i - 1) /\ nodes = NodesTo(resources, Len(resources))
    BY <1>1 DEF IInv, Written
  <2>2. i' - 1 = i
    BY <1>1, <1>2
  <2>3. ToSet(arrows') = ArrowsTo(resources, i)
    BY <1>8, <1>9, <1>10, <2>1
  <2>4. QED BY <1>1, <2>1, <2>2, <2>3 DEF Written, Finding
<1>12. i' \in 1..(Len(Objects) + 1) /\ ~Finding'
  BY <1>1, <1>2 DEF Finding
<1> HIDE DEF res
<1>13. QED BY <1>1, <1>2, <1>9, <1>11, <1>12, SameResources

LEMMA DrawnInv == IInv /\ Drawn => IInv'
<1> SUFFICES ASSUME IInv, Drawn PROVE IInv'
  OBVIOUS
<1>1. /\ pc = "edges" /\ pc' = "done" /\ i > Len(resources)
      /\ UNCHANGED <<inventory, i, resources, failed, warned, nodes, arrows, edges, uses>>
  BY DEF Drawn, drawing, graph
<1>2. /\ Len(Objects) \in Nat /\ i \in Nat /\ i <= Len(resources) + 1 /\ Len(resources) \in Nat
      /\ Len(nodes) <= Len(resources) /\ nodes \in Seq(NodeType) /\ arrows \in Seq(ArrowType)
  BY <1>1, Writing
<1>3. i - 1 = Len(resources)
  BY <1>1, <1>2
<1>4. Written'
  <2>1. nodes = NodesTo(resources, Len(resources)) /\ ToSet(arrows) = ArrowsTo(resources, Len(resources))
    BY <1>1, <1>3 DEF IInv, Written
  <2>2. QED BY <1>1, <2>1 DEF Written, Finding
<1>5. i \in 1..(Len(Objects) + 1) /\ ~Finding'
  BY <1>1 DEF Finding, IInv, TypeOK
<1>6. QED BY <1>1, <1>2, <1>4, <1>5, SameResources

-----------------------------------------------------------------------------
(* The graph.                                                              *)

\* Resources and edges that agree, with everything else as it was.
LEMMA Graphing ==
  ASSUME IInv, pc \in {"ready", "graph"}, pc' = "graph",
         UNCHANGED <<inventory, i, failed, warned, nodes, arrows>>,
         uses' \in 0..MaxUses, resources' \in Seq(ResourceType),
         DOMAIN edges' = IdsOf(resources'),
         \A id \in DOMAIN edges' : edges'[id] = Targets(resources'[Get(resources', id)])
  PROVE  IInv'
<1>1. nodes = <<>>
  BY DEF IInv, Written, Finding
<1>2. TypeOK'
  <2>1. \A j \in DOMAIN resources' : resources'[j] \in ResourceType
    OBVIOUS
  <2>2. \A j \in DOMAIN resources' : resources'[j].links \in Seq(LinkType)
    BY <2>1, ResourceFacts
  <2>3. Len(nodes') <= Len(resources')
    BY <1>1
  <2>4. QED BY <2>2, <2>3, InputFixed DEF IInv, TypeOK
<1>3. Typed'
  BY DEF IInv, Typed
<1>4. AsConverted' /\ Answered' /\ Mirroring'
  BY DEF AsConverted, Answered, Mirroring, Finding
<1>5. Written'
  BY <1>1 DEF Written, Finding
<1>6. GraphAgrees'
  BY DEF GraphAgrees
<1>7. QED BY <1>2, <1>3, <1>4, <1>5, <1>6 DEF IInv

LEMMA NewGraphInv == IInv /\ NewGraph => IInv'
<1> SUFFICES ASSUME IInv, NewGraph PROVE IInv'
  OBVIOUS
<1>1. /\ pc = "ready" /\ pc' = "graph" /\ edges' = buildGraph(resources)
      /\ UNCHANGED <<inventory, i, resources, failed, warned, nodes, arrows, uses>>
  BY DEF NewGraph, drawing
<1>2. resources \in Seq(ResourceType) /\ uses \in 0..MaxUses
  BY DEF IInv, Typed, TypeOK
<1>3. Len(resources) \in Nat /\ DOMAIN resources = 1..Len(resources)
  BY <1>2
<1>4. /\ DOMAIN edges' = IdsOf(resources)
      /\ \A id \in DOMAIN edges' : edges'[id] = Targets(resources[Get(resources, id)])
  BY <1>1, <1>3, IndexMeans
<1>5. QED BY <1>1, <1>2, <1>4, Graphing

\* A use of the graph leaves the rest alone.
LEMMA UsingFacts ==
  ASSUME IInv, Using
  PROVE  /\ pc = "graph" /\ pc' = "graph" /\ uses' \in 0..MaxUses
         /\ UNCHANGED <<inventory, i, failed, warned, nodes, arrows>>
         /\ resources \in Seq(ResourceType)
         /\ Len(resources) \in Nat /\ DOMAIN resources = 1..Len(resources)
         /\ DOMAIN edges = IdsOf(resources)
<1>1. /\ pc = "graph" /\ pc' = "graph" /\ uses < MaxUses /\ uses' = uses + 1
      /\ UNCHANGED <<inventory, i, failed, warned, nodes, arrows>>
  BY DEF Using, drawing
<1>2. uses \in 0..MaxUses /\ MaxUses \in Nat
  BY RelationshipsAssumption DEF IInv, TypeOK
<1>3. uses' \in 0..MaxUses
  BY <1>1, <1>2
<1>4. resources \in Seq(ResourceType) /\ DOMAIN edges = IdsOf(resources)
  BY <1>1 DEF IInv, Typed, TypeOK
<1>5. Len(resources) \in Nat /\ DOMAIN resources = 1..Len(resources)
  BY <1>4
<1>6. QED BY <1>1, <1>3, <1>4, <1>5

LEMMA AddRelationshipInv ==
  ASSUME IInv, NEW a \in Additions, AddRelationship(a.from, a.rel)
  PROVE  IInv'
<1> DEFINE n == Get(resources, a.from)
<1>1. /\ Using /\ a.from \in IdsOf(resources)
      /\ resources' = [resources EXCEPT ![n].links = Append(@, a.rel)]
      /\ edges' = [edges EXCEPT ![a.from] = Append(@, a.rel.target)]
  BY DEF AddRelationship
<1>2. /\ pc = "graph" /\ pc' = "graph" /\ uses' \in 0..MaxUses
      /\ UNCHANGED <<inventory, i, failed, warned, nodes, arrows>>
      /\ resources \in Seq(ResourceType)
      /\ Len(resources) \in Nat /\ DOMAIN resources = 1..Len(resources)
      /\ DOMAIN edges = IdsOf(resources)
  BY <1>1, UsingFacts
<1>3. n \in DOMAIN resources /\ resources[n].id = a.from
  BY <1>1, <1>2, IndexMeans
<1> HIDE DEF n
<1>4. resources[n].links \in Seq(LinkType) /\ a.rel \in LinkType
  <2>1. resources[n] \in ResourceType
    BY <1>2, <1>3
  <2>2. QED BY <2>1, ResourceFacts, RelationshipsAssumption
<1>5. \A s : s \in Seq(LinkType) => Append(s, a.rel) = s \o <<a.rel>>
  BY <1>4
<1>6. <<a.rel>> \in Seq(LinkType)
  BY <1>4
<1>7. resources' = [resources EXCEPT ![n].links = @ \o <<a.rel>>]
  BY <1>1, <1>4, <1>5
<1>8. Longer(resources, resources', n, <<a.rel>>)
  BY <1>2, <1>3, <1>6, <1>7, AppendedMeans
<1>9. /\ resources' \in Seq(ResourceType) /\ DOMAIN resources' = DOMAIN resources
      /\ \A j \in DOMAIN resources : resources'[j].id = resources[j].id
      /\ \A j \in DOMAIN resources : j # n => resources'[j] = resources[j]
      /\ resources'[n].links = Append(resources[n].links, a.rel)
  BY <1>4, <1>5, <1>8 DEF Longer
<1>10. IdsOf(resources') = IdsOf(resources) /\ \A id : Get(resources', id) = Get(resources, id)
  BY <1>9, SameIndex
<1>11. DOMAIN edges' = IdsOf(resources')
  BY <1>1, <1>2, <1>10
<1>12. \A id \in DOMAIN edges' : edges'[id] = Targets(resources'[Get(resources', id)])
  <2>1. SUFFICES ASSUME NEW id \in IdsOf(resources)
                 PROVE  edges'[id] = Targets(resources'[Get(resources, id)])
    BY <1>10, <1>11
  <2>2. Get(resources, id) \in DOMAIN resources /\ resources[Get(resources, id)].id = id
    BY <1>2, IndexMeans
  <2>3. edges[id] = Targets(resources[Get(resources, id)])
    BY <1>2 DEF IInv, GraphAgrees
  <2>4. CASE id # a.from
    <3>1. edges'[id] = edges[id]
      BY <1>1, <1>2, <2>4
    <3>2. resources'[Get(resources, id)] = resources[Get(resources, id)]
      BY <1>3, <1>9, <2>2, <2>4
    <3>3. QED BY <2>3, <3>1, <3>2
  <2>5. CASE id = a.from
    <3>1. Get(resources, id) = n
      BY <2>5 DEF n
    <3>2. edges'[id] = Append(Targets(resources[n]), a.rel.target)
      BY <1>1, <1>2, <2>3, <2>5, <3>1
    <3>3. Targets(resources'[n]) = Append(Targets(resources[n]), a.rel.target)
      BY <1>4, <1>9, TargetsNext
    <3>4. QED BY <3>1, <3>2, <3>3
  <2>6. QED BY <2>4, <2>5
<1>13. QED BY <1>2, <1>9, <1>11, <1>12, Graphing

LEMMA GetSubgraphInv ==
  ASSUME IInv, NEW types, GetSubgraph(types)
  PROVE  IInv'
<1> DEFINE of  == OfTypes(resources, types)
           sub == [j \in DOMAIN of |-> [of[j] EXCEPT !.links = OfTypes(@, types)]]
<1>1. Using /\ resources' = sub /\ edges' = buildGraph(sub)
  BY DEF GetSubgraph
<1>2. /\ pc = "graph" /\ pc' = "graph" /\ uses' \in 0..MaxUses
      /\ UNCHANGED <<inventory, i, failed, warned, nodes, arrows>>
      /\ resources \in Seq(ResourceType)
  BY <1>1, UsingFacts
<1>3. of \in Seq(ResourceType)
  BY <1>2, OfTypesMeans
<1>4. Len(of) \in Nat /\ DOMAIN of = 1..Len(of)
  BY <1>3
<1>5. \A j \in DOMAIN of : sub[j] \in ResourceType
  <2>1. TAKE j \in DOMAIN of
  <2>2. of[j] \in ResourceType
    BY <1>3
  <2>3. OfTypes(of[j].links, types) \in Seq(LinkType)
    BY <2>2, ResourceFacts, OfTypesMeans
  <2> HIDE DEF of
  <2>4. QED BY <2>2, <2>3, ResourceFacts
<1>6. DOMAIN sub = DOMAIN of
  OBVIOUS
<1>7. sub = [j \in DOMAIN of |-> sub[j]]
  OBVIOUS
<1> HIDE DEF sub, of
<1>8. sub \in Seq(ResourceType) /\ Len(sub) \in Nat /\ DOMAIN sub = 1..Len(sub)
  <2>1. PICK R, n : R = ResourceType /\ n = Len(of)
    OBVIOUS
  <2>2. sub \in [1..n -> R] /\ n \in Nat
    BY <1>4, <1>5, <1>7, <2>1
  <2>3. sub \in Seq(R) /\ Len(sub) = n
    BY <2>2
  <2>4. QED BY <2>1, <2>2, <2>3
<1>9. /\ DOMAIN edges' = IdsOf(sub)
      /\ \A id \in DOMAIN edges' : edges'[id] = Targets(sub[Get(sub, id)])
  BY <1>1, <1>8, IndexMeans
<1>10. QED BY <1>1, <1>2, <1>8, <1>9, Graphing

-----------------------------------------------------------------------------
(* The theorems.                                                           *)

\* Whatever was collected, the pass, the drawing and every use of a graph keep
\* the invariant.
THEOREM Inductive == Spec => []IInv
<1>1. Init => IInv
  BY InitInv
<1>2. IInv /\ [Next]_vars => IInv'
  <2> SUFFICES ASSUME IInv, [Next]_vars PROVE IInv'
    OBVIOUS
  <2>1. CASE DiscoverContents \/ DiscoverResourceGroup \/ DiscoverNothing
    BY <2>1, ContentsInv, GroupInv, NothingInv
  <2>2. CASE DiscoverMembers \/ MembersFail \/ Discovered
    BY <2>2, MembersInv, MembersFailInv, DiscoveredInv
  <2>3. CASE Draw \/ writeNode \/ NodesWritten \/ writeEdges \/ Drawn
    BY <2>3, DrawInv, WriteNodeInv, NodesWrittenInv, WriteEdgesInv, DrawnInv
  <2>4. CASE NewGraph
    BY <2>4, NewGraphInv
  <2>5. CASE \E a \in Additions : AddRelationship(a.from, a.rel)
    BY <2>5, AddRelationshipInv
  <2>6. CASE \E types \in TypeSets : GetSubgraph(types)
    BY <2>6, GetSubgraphInv
  <2>7. CASE UNCHANGED vars
    <3>1. UNCHANGED <<inventory, pc, i, resources, failed, warned, nodes, arrows, edges, uses>>
      BY <2>7 DEF vars
    <3>2. /\ TypeOK' /\ Typed' /\ AsConverted' /\ Mirroring' /\ Written' /\ GraphAgrees'
      BY <3>1, InputFixed DEF IInv, TypeOK, Typed, AsConverted, Mirroring, Mirrored, Has,
                              Written, GraphAgrees, Finding, Visited
    <3>3. Answered'
      <4>1. \A r : Answer(r)' = Answer(r)
        BY <3>1, InputFixed
      <4>2. QED BY <3>1, <4>1 DEF IInv, Answered, Finding, Visited
    <3>4. QED BY <3>2, <3>3 DEF IInv
  <2>8. CASE Terminating
    BY <2>7, <2>8 DEF Terminating
  <2>9. QED
    BY <2>1, <2>2, <2>3, <2>4, <2>5, <2>6, <2>7, <2>8 DEF Next
<1>3. QED BY <1>1, <1>2, PTL DEF Spec

\* Every variable has its type, for any inventories: in particular a graph has an
\* entry for each ID of its resources, after any uses.
THEOREM TypeCorrect == Spec => []TypeOK
<1>1. IInv => TypeOK
  BY DEF IInv
<1>2. QED BY <1>1, Inductive, PTL

\* The edges of an ID are the relationships of the resource that the index gives
\* for it, after any additions and in any subgraph of a subgraph.
THEOREM GraphCorrect == Spec => []GraphAgrees
<1>1. IInv => GraphAgrees
  BY DEF IInv
<1>2. QED BY <1>1, Inductive, PTL

\* The contents of a VPC or an organization are what belongs to it: the loops of
\* DiscoverRelationships find all the inverses of what the converters linked.
THEOREM MirrorCorrect == Spec => []MirrorHolds
<1>1. IInv => MirrorHolds
  <2> SUFFICES ASSUME IInv, pc = "ready", NEW c \in ToSet(resources), NEW r \in ToSet(resources),
                      c.type \in Containers, r.type \in ContainedTypes(c.type)
               PROVE  Mirrored(c, r)
    BY DEF MirrorHolds, Containers, ContainedTypes
  <2>1. PICK j \in DOMAIN resources : c = resources[j]
    BY DEF ToSet
  <2>2. PICK k \in DOMAIN resources : r = resources[k]
    BY DEF ToSet
  <2>3. Visited(j) /\ Finding
    BY DEF Visited, Finding
  <2>4. QED BY <2>1, <2>2, <2>3 DEF IInv, Mirroring
<1>2. QED BY <1>1, Inductive, PTL

\* A failed call costs the relationships that it was to give and nothing else, and
\* those of Okta are reported.
THEOREM FailuresLocal == Spec => []MembershipFailuresLocal
<1>1. IInv => MembershipFailuresLocal
  <2> SUFFICES ASSUME IInv, pc = "ready", NEW j \in DOMAIN resources
               PROVE  /\ IsPrefix(AsCollected[j].links, resources[j].links)
                      /\ (resources[j].type \in Asking /\ j \notin failed) =>
                           ToSet(Answer(resources[j])) \subseteq ToSet(resources[j].links)
                      /\ (resources[j].type = "okta:group" /\ j \in failed) => j \in warned
    BY DEF MembershipFailuresLocal
  <2>1. Visited(j) /\ Finding
    BY DEF Visited, Finding
  <2>2. IsPrefix(AsCollected[j].links, resources[j].links)
    BY DEF IInv, AsConverted
  <2>3. QED BY <2>1, <2>2 DEF IInv, Answered
<1>2. QED BY <1>1, Inductive, PTL

\* The DOT file has each edge between the nodes that it has for the resources.
THEOREM EdgesCorrect == Spec => []EdgesMeetNodes
<1>1. IInv => EdgesMeetNodes
  <2> SUFFICES ASSUME IInv, pc = "done" PROVE EdgesMeetNodes
    BY DEF EdgesMeetNodes
  <2>1. resources \in Seq(ResourceType)
    BY DEF IInv, Typed
  <2>2. Len(resources) \in Nat /\ DOMAIN resources = 1..Len(resources)
    BY <2>1
  <2>3. /\ nodes = NodesTo(resources, Len(resources))
        /\ ToSet(arrows) = ArrowsTo(resources, Len(resources))
    BY DEF IInv, Written
  <2>4. /\ DOMAIN nodes = DOMAIN resources
        /\ \A j \in DOMAIN resources : nodes[j] = sanitizeID(resources[j].id)
    BY <2>2, <2>3 DEF NodesTo
  <2>5. ASSUME NEW a \in ToSet(arrows)
        PROVE  a.from \in ToSet(nodes)
    <3>1. PICK j \in DOMAIN resources : \E l \in DOMAIN resources[j].links : a = ArrowOf(resources, j, l)
      BY <2>2, <2>3 DEF ArrowsTo
    <3>2. a.from = nodes[j]
      BY <2>4, <3>1 DEF ArrowOf, Arrow
    <3>3. QED BY <2>4, <3>2 DEF ToSet
  <2>6. ASSUME NEW j \in DOMAIN resources, NEW l \in ToSet(resources[j].links),
               l.target \in IdsOf(resources)
        PROVE  Arrow(nodes[j], nodes[Get(resources, l.target)], l.rel) \in ToSet(arrows)
    <3>1. PICK m \in DOMAIN resources[j].links : l = resources[j].links[m]
      BY DEF ToSet
    <3>2. /\ Get(resources, l.target) \in DOMAIN resources
          /\ resources[Get(resources, l.target)].id = l.target
      BY <2>2, <2>6, IndexMeans
    <3>3. Arrow(nodes[j], nodes[Get(resources, l.target)], l.rel) = ArrowOf(resources, j, m)
      BY <2>4, <3>1, <3>2 DEF ArrowOf
    <3>4. ArrowOf(resources, j, m) \in ToSet(arrows)
      BY <2>2, <2>3, <3>1 DEF ArrowsTo
    <3>5. QED BY <3>3, <3>4
  <2>7. QED BY <2>5, <2>6 DEF EdgesMeetNodes
<1>2. QED BY <1>1, Inductive, PTL

\* What an API object refers to is linked under the ID and the type that the
\* converter of the other object gives it, GCP's subnetworks excepted.
THEOREM LinksCorrect == Spec => []LinksResolve
<1>1. IInv => LinksResolve
  <2> SUFFICES ASSUME IInv, pc = "ready", NEW j \in DOMAIN Objects, NEW k \in DOMAIN Objects,
                      NEW role \in DOMAIN Objects[j].refs,
                      Objects[k].forms \in ToSet(Objects[j].refs[role]),
                      ~RefersByURL(Objects[j])
               PROVE  \E l \in ToSet(resources[j].links) :
                        l.target = resources[k].id /\ l.type = resources[k].type
    BY DEF LinksResolve
  <2> DEFINE o == Objects[j]
             p == Objects[k]
  <2>1. inventory \in Inventories /\ resources \in Seq(ResourceType)
        /\ Len(resources) = Len(Objects)
    BY DEF IInv, TypeOK, Typed, AsConverted
  <2>2. /\ o \in Collected /\ p \in Collected
        /\ AsCollected[j] = ToResource(o) /\ AsCollected[k] = ToResource(p)
        /\ j \in DOMAIN resources /\ k \in DOMAIN resources
    <3>1. DOMAIN resources = 1..Len(resources)
      BY <2>1
    <3>2. QED BY <2>1, <3>1, ObjectsConverted
  <2>3. PICK row \in ToSet(o.via.links) : row.ref = role /\ row.target = p.via.type
    BY <2>1, RefsAssumption DEF Objects
  <2>4. PICK m \in DOMAIN o.via.links : row = o.via.links[m]
    BY <2>3 DEF ToSet
  <2>5. row.form = p.via.id
    <3>1. Convertible(o) /\ Convertible(p)
      BY <2>2, CollectedConvertible
    <3>2. RowLinkOK(o.via.type, row)
      BY <2>4, <3>1, RowsAgree DEF Convertible, RowOK
    <3>3. row.form # "url"
      BY <2>3 DEF RefersByURL
    <3>4. row.form = IdForm(row.target) /\ row.target \in LinkedTypes
      BY <3>2, <3>3 DEF RowLinkOK
    <3>5. RowOK(p.via)
      BY <3>1, RowsAgree DEF Convertible
    <3>6. QED BY <2>3, <3>4, <3>5 DEF RowOK
  <2> DEFINE l == Relationship(row.rel, p.forms[p.via.id], p.via.type)
  <2>6. l \in ToSet(Links(o))
    <3>1. PICK n \in DOMAIN o.refs[role] : o.refs[role][n] = p.forms
      BY DEF ToSet
    <3>2. LinksOfRole(o, m)[n] = l /\ n \in DOMAIN LinksOfRole(o, m)
      BY <2>3, <2>4, <2>5, <3>1 DEF LinksOfRole
    <3>3. l \in ToSet(LinksOfRole(o, m))
      BY <3>2 DEF ToSet
    <3>4. QED BY <2>2, <3>3, LinksMean
  <2>7. l \in ToSet(resources[j].links)
    <3>1. IsPrefix(AsCollected[j].links, resources[j].links)
      BY <2>2 DEF IInv, AsConverted
    <3>2. AsCollected[j].links = Links(o) /\ Links(o) \in Seq(LinkType)
      BY <2>2, Fields, LinksMean
    <3>3. resources[j].links \in Seq(LinkType) /\ <<>> \in Seq(LinkType)
      BY <2>2 DEF IInv, TypeOK
    <3>4. QED BY <2>6, <3>1, <3>2, <3>3, PrefixFacts
  <2>8. resources[k].id = p.forms[p.via.id] /\ resources[k].type = p.via.type
    <3>1. resources[k].id = AsCollected[k].id /\ resources[k].type = AsCollected[k].type
      BY <2>2 DEF IInv, AsConverted
    <3>2. QED BY <2>2, <3>1, Fields
  <2>9. l.target = p.forms[p.via.id] /\ l.type = p.via.type
    BY DEF Relationship
  <2>10. QED BY <2>7, <2>8, <2>9
<1>2. QED BY <1>1, Inductive, PTL
==============================================================================
