------------------------------ MODULE Estimators ------------------------------
(***************************************************************************)
(* pkg/cost: the three estimators.  A price is in tenths of a cent per     *)
(* month: the pricing tables, in cents, times the multipliers, in tenths.  *)
(* Resources and texts are those of Converters.                            *)
(***************************************************************************)
EXTENDS Integers, Sequences, SequencesExt, FiniteSetsExt

NoEstimate == -1
Baseline   == 10

\* A map of prices, given by its pairs of a type and a price.
Pricing(pairs) == [t \in {p[1] : p \in pairs} |-> (CHOOSE p \in pairs : p[1] = t)[2]]

awsPricing ==
  Pricing({<<"aws:ec2:instance", 3037>>, <<"aws:lambda:function", 20>>,
           <<"aws:dynamodb:table", 2500>>, <<"aws:eks:cluster", 7200>>,
           <<"aws:elb:application", 2226>>, <<"aws:elb:network", 2226>>,
           <<"aws:cloudfront:distribution", 5000>>,
           <<"aws:elasticache:cluster", 4745>>,
           <<"aws:memorydb:cluster", 5000>>, <<"aws:apigateway:api", 350>>,
           <<"aws:sns:topic", 50>>, <<"aws:sqs:queue", 40>>,
           <<"aws:secretsmanager:secret", 40>>,
           <<"aws:ecr:repository", 5000>>})
azurePricing ==
  Pricing({<<"azure:compute:vm", 7008>>, <<"azure:network:vnet", 0>>,
           <<"azure:storage:account", 2000>>,
           <<"azure:web:appservice", 1314>>, <<"azure:sql:database", 499>>,
           <<"azure:keyvault:vault", 500>>})
gcpPricing ==
  Pricing({<<"gcp:compute:instance", 2427>>, <<"gcp:compute:network", 0>>,
           <<"gcp:storage:bucket", 260>>,
           <<"gcp:cloudfunctions:function", 40>>,
           <<"gcp:run:service", 800>>})

\* res.Properties[p].(string), where the property is one.
IsString(res, p) == p \in DOMAIN res.props /\ res.props[p].type = "string"
IsFloat64(res, p) == p \in DOMAIN res.props /\ res.props[p].type = "float64"
Text(res, p) == res.props[p].text
In(res, p, states) == IsString(res, p) /\ \E s \in states : Text(res, p) = <<s>>

\* A switch: the multiplier of the first case whose text is among these.
Switch(cases, texts) ==
  LET hits == {n \in DOMAIN cases : cases[n][1] \in texts} IN
  IF hits = {} THEN Baseline ELSE cases[Min(hits)][2]

\* A prefix: an instance type is cut after its family, <<"t3.", "medium">>.
getInstanceTypeMultiplier(instanceType) ==
  Switch(<<<<"t2.", 5>>, <<"t3.", 10>>, <<"m5.", 20>>, <<"c5.", 25>>, <<"r5.", 30>>,
           <<"p3.", 250>>>>, ToSet(SubSeq(instanceType, 1, 1)))

\* A substring: a size is cut around each text that a case looks for, and
\* Standard_D48s_v3 is <<"Standard_D4", "8s_v3">>.
getVMSizeMultiplier(vmSize) ==
  Switch(<<<<"Standard_B", 3>>, <<"Standard_D2", 10>>, <<"Standard_D4", 20>>,
           <<"Standard_D8", 40>>, <<"Standard_D16", 80>>, <<"Standard_E", 30>>,
           <<"Standard_F", 25>>, <<"Standard_NC", 200>>>>, ToSet(vmSize))

\* The same for the URL of a machine type: <<url, "n1-standard-1", "6">>.
getMachineTypeMultiplier(machineType) ==
  Switch(<<<<"f1-micro", 3>>, <<"g1-small", 5>>, <<"n1-standard-1", 10>>,
           <<"n1-standard-2", 20>>, <<"n1-standard-4", 40>>, <<"n1-standard-8", 80>>,
           <<"n1-highmem", 30>>, <<"n1-highcpu", 25>>, <<"a2-", 300>>>>, ToSet(machineType))

estimateEC2Cost_AnyState(res, basePrice) ==      \* mutant: stopped machines are priced
  IF IsString(res, "instance_type")
  THEN basePrice * getInstanceTypeMultiplier(Text(res, "instance_type"))
  ELSE basePrice * Baseline
estimateEC2Cost(res, basePrice) ==
  IF In(res, "state", {"stopped", "terminated"}) THEN 0
  ELSE IF IsString(res, "instance_type")
  THEN basePrice * getInstanceTypeMultiplier(Text(res, "instance_type"))
  ELSE basePrice * Baseline

\* The node count is used if it is a float64; no collector stores one.
PerNode(res, basePrice, p) ==
  basePrice * Baseline * IF IsFloat64(res, p) THEN res.props[p].value ELSE 1
estimateElastiCacheCost(res, basePrice) == PerNode(res, basePrice, "num_cache_nodes")
estimateMemoryDBCost(res, basePrice)    == PerNode(res, basePrice, "number_of_shards")

estimateVMCost(res, basePrice) ==
  IF In(res, "provisioning_state", {"Deallocated", "Stopped"}) THEN 0
  ELSE IF IsString(res, "vm_size") THEN basePrice * getVMSizeMultiplier(Text(res, "vm_size"))
  ELSE basePrice * Baseline

estimateComputeCost(res, basePrice) ==
  IF In(res, "status", {"TERMINATED", "STOPPED"}) THEN 0
  ELSE IF IsString(res, "machine_type")
  THEN basePrice * getMachineTypeMultiplier(Text(res, "machine_type"))
  ELSE basePrice * Baseline

AWSEstimator(res) ==
  LET price == awsPricing[res.type] IN
  CASE res.type = "aws:ec2:instance"        -> estimateEC2Cost(res, price)
    [] res.type = "aws:elasticache:cluster" -> estimateElastiCacheCost(res, price)
    [] res.type = "aws:memorydb:cluster"    -> estimateMemoryDBCost(res, price)
    [] OTHER                                -> price * Baseline
AzureEstimator(res) ==
  LET price == azurePricing[res.type] IN
  IF res.type = "azure:compute:vm" THEN estimateVMCost(res, price) ELSE price * Baseline
GCPEstimator(res) ==
  LET price == gcpPricing[res.type] IN
  IF res.type = "gcp:compute:instance" THEN estimateComputeCost(res, price)
  ELSE price * Baseline

\* The registry: no estimate without an estimator or a price.
EstimateCost(res) ==
  CASE res.provider = "aws" /\ res.type \in DOMAIN awsPricing     -> AWSEstimator(res)
    [] res.provider = "azure" /\ res.type \in DOMAIN azurePricing -> AzureEstimator(res)
    [] res.provider = "gcp" /\ res.type \in DOMAIN gcpPricing     -> GCPEstimator(res)
    [] OTHER                                                      -> NoEstimate
==============================================================================
