----------------------------- MODULE Inspect_proofs -----------------------------
(***************************************************************************)
(* What runInspect does for any configuration and any flags: the inductive *)
(* invariant says where the collection, the filters, the costs and the     *)
(* output file stand at each step.                                         *)
(***************************************************************************)
EXTENDS Inspect, Converters, Collection_proofs, Filters_proofs

-----------------------------------------------------------------------------
(* What each loop has done after n steps.                                  *)

\* The resources of the first n providers.
Joined(ps, n) == FlattenSeq([j \in 1..n |-> ps[j].finds])

\* The filters of the first n expressions.
ParsedTo(given, n)   == [j \in 1..n |-> Parse(given[j][1], given[j][2])]
WellFormed(given, n) == \A j \in 1..n : Parse(given[j][1], given[j][2]) # Error

\* Those of the first n resources that all the filters hold of.
KeptTo(fs, s, n) ==
  FlattenSeq([j \in 1..n |-> IF ApplyAll(fs, Attr[s[j]]) THEN <<s[j]>> ELSE <<>>])

\* The first n resources have their estimates.
PriceOf(o) == IF EstimateCost(Attr[o]) = NoEstimate THEN NoCost ELSE EstimateCost(Attr[o])
PricedTo(s, c, n) == \A j \in 1..n : c[s[j]] = PriceOf(s[j])

LEMMA JoinedNext ==
  ASSUME NEW ps \in Seq([name : STRING, finds : Seq(Objects)]), NEW n \in 1..Len(ps)
  PROVE  /\ Joined(ps, n - 1) \in Seq(Objects)
         /\ Joined(ps, n) = Joined(ps, n - 1) \o ps[n].finds
         /\ ps[n].finds \in Seq(Objects)
<1>1. /\ n - 1 \in Nat /\ (n - 1) + 1 = n
      /\ \A j \in 1..n : ps[j] \in [name : STRING, finds : Seq(Objects)]
  <2>1. PICK P : P = [name : STRING, finds : Seq(Objects)]
    OBVIOUS
  <2>2. ps \in Seq(P)
    BY <2>1
  <2>3. \A j \in 1..Len(ps) : ps[j] \in P
    BY <2>2
  <2>4. Len(ps) \in Nat
    BY <2>2
  <2>5. n - 1 \in Nat /\ (n - 1) + 1 = n /\ 1..n \subseteq 1..Len(ps)
    BY <2>4
  <2>6. QED BY <2>1, <2>3, <2>5
<1> DEFINE f == [j \in 1..n |-> ps[j].finds]
           m == n - 1
<1>2. f \in [1..n -> Seq(Objects)] /\ n \in 1..n /\ \A j \in 1..n : f[j] = ps[j].finds
  BY <1>1
<1>3. [j \in 1..m |-> f[j]] = [j \in 1..m |-> ps[j].finds]
  BY <1>1, <1>2
<1> HIDE DEF f
<1>4. m \in Nat /\ m + 1 = n
  BY <1>1
<1> HIDE DEF m
<1>5. /\ FlattenSeq([j \in 1..m |-> f[j]]) \in Seq(Objects)
      /\ FlattenSeq(f) = FlattenSeq([j \in 1..m |-> f[j]]) \o f[n]
      /\ f[n] \in Seq(Objects)
  <2>1. f \in [1..(m + 1) -> Seq(Objects)]
    BY <1>2, <1>4
  <2>2. QED BY <1>4, <2>1, FlattenLast
<1>6. QED BY <1>2, <1>3, <1>5 DEF Joined, f, m

LEMMA JoinedNone == \A ps : Joined(ps, 0) = <<>>
BY FlattenNone DEF Joined

LEMMA KeptNext ==
  ASSUME NEW fs, NEW s \in Seq(Objects), NEW n \in 1..Len(s)
  PROVE  /\ KeptTo(fs, s, n - 1) \in Seq(Objects)
         /\ KeptTo(fs, s, n) = IF ApplyAll(fs, Attr[s[n]])
                               THEN Append(KeptTo(fs, s, n - 1), s[n])
                               ELSE KeptTo(fs, s, n - 1)
<1>1. n - 1 \in Nat /\ (n - 1) + 1 = n /\ \A j \in 1..n : s[j] \in Objects
  OBVIOUS
<1> DEFINE f == [j \in 1..n |-> IF ApplyAll(fs, Attr[s[j]]) THEN <<s[j]>> ELSE <<>>]
           m == n - 1
<1>2. /\ f \in [1..n -> Seq(Objects)] /\ n \in 1..n
      /\ \A j \in 1..n : f[j] = IF ApplyAll(fs, Attr[s[j]]) THEN <<s[j]>> ELSE <<>>
  BY <1>1
<1>3. [j \in 1..m |-> f[j]]
        = [j \in 1..m |-> IF ApplyAll(fs, Attr[s[j]]) THEN <<s[j]>> ELSE <<>>]
  BY <1>1, <1>2
<1>f. FlattenSeq(f) = KeptTo(fs, s, n)
  BY DEF KeptTo
<1> HIDE DEF f
<1>4. m \in Nat /\ m + 1 = n
  BY <1>1
<1>m. FlattenSeq([j \in 1..m |-> f[j]]) = KeptTo(fs, s, m)
  BY <1>3 DEF KeptTo
<1> HIDE DEF m
<1>5. /\ KeptTo(fs, s, m) \in Seq(Objects)
      /\ KeptTo(fs, s, n) = KeptTo(fs, s, m) \o f[n]
  <2>1. f \in [1..(m + 1) -> Seq(Objects)]
    BY <1>2, <1>4
  <2>2. QED BY <1>4, <1>f, <1>m, <2>1, FlattenLast
<1>6. s[n] \in Objects
  BY <1>1
<1>7. \A t \in Seq(Objects) : t \o <<>> = t /\ t \o <<s[n]>> = Append(t, s[n])
  BY <1>6
<1>8. f[n] = IF ApplyAll(fs, Attr[s[n]]) THEN <<s[n]>> ELSE <<>>
  BY <1>2
<1>9. QED BY <1>5, <1>7, <1>8 DEF m

LEMMA KeptNone == \A fs, s : KeptTo(fs, s, 0) = <<>>
BY FlattenNone DEF KeptTo

-----------------------------------------------------------------------------
(* The command line and the configuration.                                 *)

LEMMA InputFixed ==
  ASSUME UNCHANGED input
  PROVE  /\ config' = config /\ flags' = flags /\ providers' = providers
         /\ Given' = Given /\ OutputFormat' = OutputFormat
         /\ FoundByAll' = FoundByAll /\ Expected' = Expected
BY DEF input, providers, Given, OutputFormat, FoundByAll, Expected, Only

LEMMA ProvidersType ==
  ASSUME TypeOK
  PROVE  /\ providers \in Seq([name : STRING, finds : Seq(Objects)])
         /\ Len(providers) \in Nat
         /\ FoundByAll = Joined(providers, Len(providers))
<1>1. config \in Configs
  BY DEF TypeOK
<1>2. providers \in Seq([name : STRING, finds : Seq(Objects)])
  BY <1>1, InspectAssumption DEF providers
<1>3. Len(providers) \in Nat /\ DOMAIN providers = 1..Len(providers)
  <2>1. PICK P : P = [name : STRING, finds : Seq(Objects)]
    OBVIOUS
  <2>2. QED BY <1>2, <2>1
<1>4. QED BY <1>2, <1>3 DEF FoundByAll, Joined

Expressions == UNION {ToSet(flags.filters[n]) : n \in ToSet(FilterFlags)}

LEMMA GivenType ==
  ASSUME TypeOK
  PROVE  /\ Given \in Seq(ToSet(FilterFlags) \X Expressions)
         /\ Len(Given) \in Nat
         /\ \A j \in 1..Len(Given) : Given[j][1] \in ToSet(FilterFlags)
<1>1. flags \in FlagChoices
  BY DEF TypeOK
<1>2. \A n \in ToSet(FilterFlags) : flags.filters[n] \in Seq(ToSet(flags.filters[n]))
  BY <1>1, InspectAssumption
<1>3. DOMAIN FilterFlags = 1..8 /\ \A n \in 1..8 : FilterFlags[n] \in ToSet(FilterFlags)
  BY DEF FilterFlags, ToSet
<1> HIDE DEF FilterFlags
<1>4. PICK T : T = ToSet(FilterFlags) \X Expressions
  OBVIOUS
<1> DEFINE Part(n) == [j \in DOMAIN flags.filters[FilterFlags[n]] |->
                         <<FilterFlags[n], flags.filters[FilterFlags[n]][j]>>]
<1>5. ASSUME NEW n \in 1..8 PROVE Part(n) \in Seq(T)
  <2>1. PICK g, q : g = FilterFlags[n] /\ q = flags.filters[g]
    OBVIOUS
  <2>2. g \in ToSet(FilterFlags)
    BY <1>3, <2>1
  <2>3. q \in Seq(ToSet(q))
    BY <1>2, <2>1, <2>2
  <2>4. ToSet(q) \subseteq Expressions
    BY <2>1, <2>2 DEF Expressions
  <2>5. \A j \in 1..Len(q) : <<g, q[j]>> \in T
    <3>1. \A j \in 1..Len(q) : q[j] \in ToSet(q)
      BY <2>3
    <3>2. QED BY <1>4, <2>2, <2>4, <3>1
  <2>6. Len(q) \in Nat /\ DOMAIN q = 1..Len(q)
    BY <2>3
  <2>7. [j \in 1..Len(q) |-> <<g, q[j]>>] \in Seq(T)
    BY <2>5, <2>6
  <2>8. QED BY <2>1, <2>6, <2>7
<1>6. PICK U : U = Seq(T)
  OBVIOUS
<1>7. [n \in 1..8 |-> Part(n)] \in Seq(U)
  <2> HIDE DEF Part
  <2>1. \A n \in 1..8 : Part(n) \in U
    BY <1>5, <1>6
  <2>2. QED BY <2>1
<1>8. <<>> \in Seq(T)
  OBVIOUS
<1>9. FlattenSeq([n \in 1..8 |-> Part(n)]) \in Seq(T)
  <2> HIDE DEF Part
  <2>1. [n \in 1..8 |-> Part(n)] \in Seq(Seq(T))
    BY <1>6, <1>7
  <2>2. QED BY <1>8, <2>1, FlattenAppend
<1>10. Given = FlattenSeq([n \in 1..8 |-> Part(n)])
  BY <1>3 DEF Given
<1> HIDE DEF Part
<1>11. Given \in Seq(T)
  BY <1>9, <1>10
<1>12. Len(Given) \in Nat /\ \A j \in 1..Len(Given) : Given[j] \in T
  BY <1>11
<1>13. QED BY <1>4, <1>11, <1>12

\* Every parser gives a filter of its own flag.
LEMMA ParseFlag ==
  ASSUME NEW f \in ToSet(FilterFlags), NEW e, Parse(f, e) # Error
  PROVE  Parse(f, e).flag = f
<1>1. f \in {"tag", "regex", "date", "state", "property", "cost", "type", "provider"}
  BY DEF FilterFlags, ToSet
<1>2. CASE f = "tag"
  <2>1. Parse(f, e) = ParseTagFilter(e)
    BY <1>2 DEF Parse
  <2>2. QED BY <1>2, <2>1 DEF ParseTagFilter, TagFilter
<1>3. CASE f = "regex"
  <2>1. Parse(f, e) = ParseRegexFilter(e)
    BY <1>3 DEF Parse
  <2>2. QED BY <1>3, <2>1 DEF ParseRegexFilter, NewRegexFilter
<1>4. CASE f = "date"
  <2>1. Parse(f, e) = ParseDateRangeFilter(e)
    BY <1>4 DEF Parse
  <2>2. QED BY <1>4, <2>1 DEF ParseDateRangeFilter, DateRange
<1>5. CASE f = "state"
  <2>1. Parse(f, e) = ParseStateFilter(e)
    BY <1>5 DEF Parse
  <2>2. PICK s : s = {TrimSpace(p) : p \in Segments(e, ",")}
    OBVIOUS
  <2>3. ParseStateFilter(e) \in {Error, [flag |-> "state", states |-> s]}
    BY <2>2 DEF ParseStateFilter
  <2>4. QED BY <1>5, <2>1, <2>3
<1>6. CASE f = "property"
  <2>1. Parse(f, e) = ParsePropertyFilter(e)
    BY <1>6 DEF Parse
  <2>2. QED BY <1>6, <2>1 DEF ParsePropertyFilter
<1>7. CASE f = "cost"
  <2>1. Parse(f, e) = ParseCostFilter(e)
    BY <1>7 DEF Parse
  <2>2. QED BY <1>7, <2>1 DEF ParseCostFilter, CostRange
<1>8. CASE f = "type"
  BY <1>8 DEF Parse, ParseTypeFilter
<1>9. CASE f = "provider"
  BY <1>9 DEF Parse, ParseProviderFilter
<1>10. QED BY <1>1, <1>2, <1>3, <1>4, <1>5, <1>6, <1>7, <1>8, <1>9

LEMMA PoolType == TypeOK => AWSPool \in Nat
<1>1. TypeOK => flags \in FlagChoices
  BY DEF TypeOK
<1>2. TypeOK => flags.concurrent \in Int
  BY <1>1, InspectAssumption
<1>3. QED BY <1>2 DEF AWSPool, Value

-----------------------------------------------------------------------------
(* Estimates.                                                              *)

LEMMA PricingType ==
  ASSUME NEW pairs, \A p \in pairs : p[2] \in Nat
  PROVE  \A t \in DOMAIN Pricing(pairs) : Pricing(pairs)[t] \in Nat
BY DEF Pricing

LEMMA PricingAt ==
  ASSUME NEW pairs, NEW p \in pairs, \A q \in pairs : q[1] = p[1] => q = p
  PROVE  p[1] \in DOMAIN Pricing(pairs) /\ Pricing(pairs)[p[1]] = p[2]
BY DEF Pricing

LEMMA Prices ==
  /\ \A t \in DOMAIN awsPricing : awsPricing[t] \in Nat
  /\ \A t \in DOMAIN azurePricing : azurePricing[t] \in Nat
  /\ \A t \in DOMAIN gcpPricing : gcpPricing[t] \in Nat
<1>1. \A t \in DOMAIN awsPricing : awsPricing[t] \in Nat
  BY PricingType DEF awsPricing
<1>2. \A t \in DOMAIN azurePricing : azurePricing[t] \in Nat
  BY PricingType DEF azurePricing
<1>3. \A t \in DOMAIN gcpPricing : gcpPricing[t] \in Nat
  BY PricingType DEF gcpPricing
<1>4. QED BY <1>1, <1>2, <1>3

LEMMA MachinePrices ==
  /\ "aws:ec2:instance" \in DOMAIN awsPricing /\ awsPricing["aws:ec2:instance"] = 3037
  /\ "azure:compute:vm" \in DOMAIN azurePricing /\ azurePricing["azure:compute:vm"] = 7008
  /\ "gcp:compute:instance" \in DOMAIN gcpPricing
  /\ gcpPricing["gcp:compute:instance"] = 2427
<1>1. "aws:ec2:instance" \in DOMAIN awsPricing /\ awsPricing["aws:ec2:instance"] = 3037
  <2> DEFINE p == <<"aws:ec2:instance", 3037>>
  <2>1. PICK pairs : /\ awsPricing = Pricing(pairs)
                     /\ p \in pairs /\ \A q \in pairs : q[1] = p[1] => q = p
    BY DEF awsPricing
  <2>2. p[1] \in DOMAIN Pricing(pairs) /\ Pricing(pairs)[p[1]] = p[2]
    <3> HIDE DEF p
    <3>1. QED BY <2>1, PricingAt
  <2>3. QED BY <2>1, <2>2
<1>2. "azure:compute:vm" \in DOMAIN azurePricing /\ azurePricing["azure:compute:vm"] = 7008
  <2> DEFINE p == <<"azure:compute:vm", 7008>>
  <2>1. PICK pairs : /\ azurePricing = Pricing(pairs)
                     /\ p \in pairs /\ \A q \in pairs : q[1] = p[1] => q = p
    BY DEF azurePricing
  <2>2. p[1] \in DOMAIN Pricing(pairs) /\ Pricing(pairs)[p[1]] = p[2]
    <3> HIDE DEF p
    <3>1. QED BY <2>1, PricingAt
  <2>3. QED BY <2>1, <2>2
<1>3. /\ "gcp:compute:instance" \in DOMAIN gcpPricing
      /\ gcpPricing["gcp:compute:instance"] = 2427
  <2> DEFINE p == <<"gcp:compute:instance", 2427>>
  <2>1. PICK pairs : /\ gcpPricing = Pricing(pairs)
                     /\ p \in pairs /\ \A q \in pairs : q[1] = p[1] => q = p
    BY DEF gcpPricing
  <2>2. p[1] \in DOMAIN Pricing(pairs) /\ Pricing(pairs)[p[1]] = p[2]
    <3> HIDE DEF p
    <3>1. QED BY <2>1, PricingAt
  <2>3. QED BY <2>1, <2>2
<1>4. QED BY <1>1, <1>2, <1>3

\* A switch multiplies by one of its cases, or not at all.
LEMMA SwitchType ==
  ASSUME NEW cases, NEW n \in Nat, DOMAIN cases = 1..n,
         \A m \in 1..n : cases[m][2] \in Nat \ {0}, NEW texts
  PROVE  Switch(cases, texts) \in Nat \ {0}
<1> DEFINE hits == {m \in DOMAIN cases : cases[m][1] \in texts}
<1>1. hits \in SUBSET Nat /\ hits \subseteq 1..n
  OBVIOUS
<1>2. CASE hits = {}
  BY <1>2 DEF Switch, Baseline
<1>3. CASE hits # {}
  <2>1. Switch(cases, texts) = cases[Min(hits)][2]
    BY <1>3 DEF Switch
  <2> HIDE DEF hits
  <2>2. \E x \in hits : \A y \in hits : x <= y
    BY <1>1, <1>3, LeastNatural
  <2>3. Min(hits) \in hits
    BY <2>2 DEF Min
  <2>4. QED BY <1>1, <2>1, <2>3
<1>4. QED BY <1>2, <1>3

LEMMA Multipliers ==
  \A s : /\ getInstanceTypeMultiplier(s) \in Nat \ {0}
         /\ getVMSizeMultiplier(s) \in Nat \ {0}
         /\ getMachineTypeMultiplier(s) \in Nat \ {0}
<1> SUFFICES ASSUME NEW s
             PROVE  /\ getInstanceTypeMultiplier(s) \in Nat \ {0}
                    /\ getVMSizeMultiplier(s) \in Nat \ {0}
                    /\ getMachineTypeMultiplier(s) \in Nat \ {0}
  OBVIOUS
<1>1. getInstanceTypeMultiplier(s) \in Nat \ {0}
  <2> DEFINE cases == <<<<"t2.", 5>>, <<"t3.", 10>>, <<"m5.", 20>>, <<"c5.", 25>>,
                        <<"r5.", 30>>, <<"p3.", 250>>>>
  <2>1. DOMAIN cases = 1..6 /\ \A m \in 1..6 : cases[m][2] \in Nat \ {0}
    OBVIOUS
  <2>2. getInstanceTypeMultiplier(s) = Switch(cases, ToSet(SubSeq(s, 1, 1)))
    BY DEF getInstanceTypeMultiplier
  <2> HIDE DEF cases
  <2>3. QED BY <2>1, <2>2, SwitchType
<1>2. getVMSizeMultiplier(s) \in Nat \ {0}
  <2> DEFINE cases == <<<<"Standard_B", 3>>, <<"Standard_D2", 10>>, <<"Standard_D4", 20>>,
                        <<"Standard_D8", 40>>, <<"Standard_D16", 80>>, <<"Standard_E", 30>>,
                        <<"Standard_F", 25>>, <<"Standard_NC", 200>>>>
  <2>1. DOMAIN cases = 1..8 /\ \A m \in 1..8 : cases[m][2] \in Nat \ {0}
    OBVIOUS
  <2>2. getVMSizeMultiplier(s) = Switch(cases, ToSet(s))
    BY DEF getVMSizeMultiplier
  <2> HIDE DEF cases
  <2>3. QED BY <2>1, <2>2, SwitchType
<1>3. getMachineTypeMultiplier(s) \in Nat \ {0}
  <2> DEFINE cases == <<<<"f1-micro", 3>>, <<"g1-small", 5>>, <<"n1-standard-1", 10>>,
                        <<"n1-standard-2", 20>>, <<"n1-standard-4", 40>>,
                        <<"n1-standard-8", 80>>, <<"n1-highmem", 30>>, <<"n1-highcpu", 25>>,
                        <<"a2-", 300>>>>
  <2>1. DOMAIN cases = 1..9 /\ \A m \in 1..9 : cases[m][2] \in Nat \ {0}
    OBVIOUS
  <2>2. getMachineTypeMultiplier(s) = Switch(cases, ToSet(s))
    BY DEF getMachineTypeMultiplier
  <2> HIDE DEF cases
  <2>3. QED BY <2>1, <2>2, SwitchType
<1>4. QED BY <1>1, <1>2, <1>3

\* A machine that is off costs nothing, one that is on something.
Off(res) ==
  \/ /\ res.provider = "aws" /\ res.type = "aws:ec2:instance"
     /\ In(res, "state", {"stopped", "terminated"})
  \/ /\ res.provider = "azure" /\ res.type = "azure:compute:vm"
     /\ In(res, "provisioning_state", {"Deallocated", "Stopped"})
  \/ /\ res.provider = "gcp" /\ res.type = "gcp:compute:instance"
     /\ In(res, "status", {"TERMINATED", "STOPPED"})
On(res) ==
  /\ \/ res.provider = "aws" /\ res.type = "aws:ec2:instance"
     \/ res.provider = "azure" /\ res.type = "azure:compute:vm"
     \/ res.provider = "gcp" /\ res.type = "gcp:compute:instance"
  /\ ~Off(res)

\* The prices of the virtual machines.
LEMMA MachineCosts ==
  ASSUME NEW res, NEW price \in Nat
  PROVE  /\ estimateEC2Cost(res, price) \in Nat
         /\ estimateVMCost(res, price) \in Nat
         /\ estimateComputeCost(res, price) \in Nat
         /\ In(res, "state", {"stopped", "terminated"}) => estimateEC2Cost(res, price) = 0
         /\ In(res, "provisioning_state", {"Deallocated", "Stopped"})
              => estimateVMCost(res, price) = 0
         /\ In(res, "status", {"TERMINATED", "STOPPED"}) => estimateComputeCost(res, price) = 0
         /\ price > 0 /\ ~In(res, "state", {"stopped", "terminated"})
              => estimateEC2Cost(res, price) > 0
         /\ price > 0 /\ ~In(res, "provisioning_state", {"Deallocated", "Stopped"})
              => estimateVMCost(res, price) > 0
         /\ price > 0 /\ ~In(res, "status", {"TERMINATED", "STOPPED"})
              => estimateComputeCost(res, price) > 0
<1>1. ASSUME NEW n \in Nat \ {0} PROVE price * n \in Nat /\ (price > 0 => price * n > 0)
  OBVIOUS
<1>2. Baseline \in Nat \ {0}
  BY DEF Baseline
<1>3. QED BY <1>1, <1>2, Multipliers DEF estimateEC2Cost, estimateVMCost, estimateComputeCost

LEMMA AWSCost ==
  ASSUME NEW o \in Objects, Attr[o].type \in DOMAIN awsPricing
  PROVE  AWSEstimator(Attr[o]) \in Nat
<1>1. PICK res : res = Attr[o]
  OBVIOUS
<1>2. PICK price \in Nat : price = awsPricing[res.type]
  BY <1>1, Prices
<1>3. \A p \in {"num_cache_nodes", "number_of_shards"} :
        IsFloat64(res, p) => res.props[p].value \in Nat
  BY <1>1, InspectAssumption
<1>4. \A n \in Nat : price * Baseline * n \in Nat /\ price * Baseline \in Nat
  BY DEF Baseline
<1>5. \A p \in {"num_cache_nodes", "number_of_shards"} : PerNode(res, price, p) \in Nat
  BY <1>3, <1>4 DEF PerNode
<1>6. estimateEC2Cost(res, price) \in Nat
  BY MachineCosts
<1>7. estimateElastiCacheCost(res, price) \in Nat /\ estimateMemoryDBCost(res, price) \in Nat
  BY <1>5 DEF estimateElastiCacheCost, estimateMemoryDBCost
<1>8. price * Baseline \in Nat
  BY <1>4
<1>9. AWSEstimator(res) \in {estimateEC2Cost(res, price), estimateElastiCacheCost(res, price),
                             estimateMemoryDBCost(res, price), price * Baseline}
  BY <1>2 DEF AWSEstimator
<1>10. QED BY <1>1, <1>6, <1>7, <1>8, <1>9

LEMMA AzureCost ==
  ASSUME NEW res, res.type \in DOMAIN azurePricing
  PROVE  AzureEstimator(res) \in Nat
<1>1. PICK price \in Nat : price = azurePricing[res.type]
  BY Prices
<1>2. price * Baseline \in Nat
  BY DEF Baseline
<1>3. estimateVMCost(res, price) \in Nat
  BY MachineCosts
<1>4. AzureEstimator(res) \in {estimateVMCost(res, price), price * Baseline}
  BY <1>1 DEF AzureEstimator
<1>5. QED BY <1>2, <1>3, <1>4

LEMMA GCPCost ==
  ASSUME NEW res, res.type \in DOMAIN gcpPricing
  PROVE  GCPEstimator(res) \in Nat
<1>1. PICK price \in Nat : price = gcpPricing[res.type]
  BY Prices
<1>2. price * Baseline \in Nat
  BY DEF Baseline
<1>3. estimateComputeCost(res, price) \in Nat
  BY MachineCosts
<1>4. GCPEstimator(res) \in {estimateComputeCost(res, price), price * Baseline}
  BY <1>1 DEF GCPEstimator
<1>5. QED BY <1>2, <1>3, <1>4

\* The registry asks one estimator at most.
LEMMA Estimator ==
  ASSUME NEW res
  PROVE  /\ res.provider = "aws" /\ res.type \in DOMAIN awsPricing
              => EstimateCost(res) = AWSEstimator(res)
         /\ res.provider = "azure" /\ res.type \in DOMAIN azurePricing
              => EstimateCost(res) = AzureEstimator(res)
         /\ res.provider = "gcp" /\ res.type \in DOMAIN gcpPricing
              => EstimateCost(res) = GCPEstimator(res)
         /\ \/ res.provider = "aws" /\ res.type \in DOMAIN awsPricing
            \/ res.provider = "azure" /\ res.type \in DOMAIN azurePricing
            \/ res.provider = "gcp" /\ res.type \in DOMAIN gcpPricing
            \/ EstimateCost(res) = NoEstimate
BY DEF EstimateCost

LEMMA EstimateType ==
  ASSUME NEW o \in Objects
  PROVE  EstimateCost(Attr[o]) \in Int /\ PriceOf(o) \in Int /\ NoCost \in Int
<1>1. EstimateCost(Attr[o]) \in Nat \cup {NoEstimate}
  BY AWSCost, AzureCost, GCPCost, Estimator
<1>2. EstimateCost(Attr[o]) \in Int
  BY <1>1 DEF NoEstimate
<1>3. NoCost \in Int
  BY DEF NoCost
<1>4. QED BY <1>2, <1>3 DEF PriceOf

LEMMA MachineEstimates ==
  ASSUME NEW o \in Objects
  PROVE  /\ Off(Attr[o]) => PriceOf(o) = 0
         /\ On(Attr[o]) => PriceOf(o) > 0
<1>1. PICK res : res = Attr[o]
  OBVIOUS
<1>2. CASE res.provider = "aws" /\ res.type = "aws:ec2:instance"
  <2>1. EstimateCost(res) = estimateEC2Cost(res, 3037)
    <3>1. EstimateCost(res) = AWSEstimator(res) /\ awsPricing[res.type] = 3037
      BY <1>2, Estimator, MachinePrices
    <3>2. QED BY <1>2, <3>1 DEF AWSEstimator
  <2>2. Off(res) <=> In(res, "state", {"stopped", "terminated"})
    BY <1>2 DEF Off
  <2>3. /\ estimateEC2Cost(res, 3037) \in Nat
        /\ Off(res) => estimateEC2Cost(res, 3037) = 0
        /\ ~Off(res) => estimateEC2Cost(res, 3037) > 0
    BY <2>2, MachineCosts
  <2>4. QED BY <1>1, <2>1, <2>3 DEF PriceOf, NoEstimate, NoCost, On
<1>3. CASE res.provider = "azure" /\ res.type = "azure:compute:vm"
  <2>1. EstimateCost(res) = estimateVMCost(res, 7008)
    <3>1. EstimateCost(res) = AzureEstimator(res) /\ azurePricing[res.type] = 7008
      BY <1>3, Estimator, MachinePrices
    <3>2. QED BY <1>3, <3>1 DEF AzureEstimator
  <2>2. Off(res) <=> In(res, "provisioning_state", {"Deallocated", "Stopped"})
    BY <1>3 DEF Off
  <2>3. /\ estimateVMCost(res, 7008) \in Nat
        /\ Off(res) => estimateVMCost(res, 7008) = 0
        /\ ~Off(res) => estimateVMCost(res, 7008) > 0
    BY <2>2, MachineCosts
  <2>4. QED BY <1>1, <2>1, <2>3 DEF PriceOf, NoEstimate, NoCost, On
<1>4. CASE res.provider = "gcp" /\ res.type = "gcp:compute:instance"
  <2>1. EstimateCost(res) = estimateComputeCost(res, 2427)
    <3>1. EstimateCost(res) = GCPEstimator(res) /\ gcpPricing[res.type] = 2427
      BY <1>4, Estimator, MachinePrices
    <3>2. QED BY <1>4, <3>1 DEF GCPEstimator
  <2>2. Off(res) <=> In(res, "status", {"TERMINATED", "STOPPED"})
    BY <1>4 DEF Off
  <2>3. /\ estimateComputeCost(res, 2427) \in Nat
        /\ Off(res) => estimateComputeCost(res, 2427) = 0
        /\ ~Off(res) => estimateComputeCost(res, 2427) > 0
    BY <2>2, MachineCosts
  <2>4. QED BY <1>1, <2>1, <2>3 DEF PriceOf, NoEstimate, NoCost, On
<1>5. QED BY <1>1, <1>2, <1>3, <1>4 DEF Off, On

-----------------------------------------------------------------------------
(* The invariant.                                                          *)

Merging == {"config", "provider", "merge"}
Late    == {"filter", "format", "open", "export"}
\* The filters have been built.
Reached == pc \in Late \/ exit = "ok" \/ file # "previous"

\* The collection is that of the providers before this one and of what has
\* been merged of this one, until filters are applied to all of it.
Merged ==
  /\ pc = "config" => k = 1
  /\ pc \in {"config", "provider"} => all.resources = Joined(providers, k - 1)
  /\ pc = "merge" =>
       /\ k <= Len(providers) /\ found = providers[k].finds /\ i <= Len(found) + 1
       /\ all.resources = Joined(providers, k - 1) \o SubSeq(found, 1, i - 1)
  /\ pc \in {"estimate", "filters"} => all.resources = FoundByAll
  /\ Reached => scanned = FoundByAll

\* There is a filter for each expression read so far, and none is an error.
Built ==
  /\ pc \in Merging \cup {"estimate"} => filters = <<>>
  /\ pc = "filters" =>
       /\ i <= Len(Given) + 1
       /\ filters = ParsedTo(Given, i - 1) /\ WellFormed(Given, i - 1)
  /\ Reached => filters = ParsedTo(Given, Len(Given)) /\ WellFormed(Given, Len(Given))

\* The second collection has those of the first that the filters hold of.
Filtered ==
  /\ pc = "filter" =>
       /\ Given # <<>> /\ i <= Len(scanned) + 1
       /\ all.resources = KeptTo(filters, scanned, i - 1)
  /\ (pc \in {"format", "open", "export"} \/ exit = "ok") =>
       all.resources = IF Given = <<>> THEN scanned
                       ELSE KeptTo(filters, scanned, Len(scanned))

\* The file is opened for a known format, as the last step but one.
Opened ==
  /\ (pc \in {"open", "export"} \/ exit = "ok" \/ file # "previous")
       => OutputFormat \in Formats
  /\ file # "previous" => pc \in {"export", "exited"}

\* The counts are those of the collection, unless it is a second one.
Counted ==
  (pc \in Merging \cup {"estimate", "filters"} \/ (pc \in Late /\ Given = <<>>))
    => CountsMatch(all)

\* Costs are the estimates, set after the resources were added once and before
\* they are added again.
Priced ==
  /\ pc \in Merging => \A o \in Objects : cost[o] = NoCost
  /\ \A o \in Objects : cost[o] \in {NoCost, PriceOf(o)}
  /\ pc \in Merging \cup {"estimate", "filters"} => all.metadata.totalCost = NoSummary
  /\ pc = "estimate" =>
       i <= Len(all.resources) + 1 /\ PricedTo(all.resources, cost, i - 1)
  /\ (flags.estimate /\ pc = "filters") =>
       PricedTo(all.resources, cost, Len(all.resources))
  /\ (flags.estimate /\ pc \in Late) => PricedTo(scanned, cost, Len(scanned))
  /\ (pc \in Late /\ Given # <<>>) => CostsMatch(all, cost)

IInv ==
  /\ TypeOK /\ all \in CollectionType
  /\ Merged /\ Built /\ Filtered /\ Opened /\ Counted /\ Priced

-----------------------------------------------------------------------------
(* Every step preserves it.                                                *)

LEMMA InitInv == Init => IInv
<1> SUFFICES ASSUME Init PROVE IInv
  OBVIOUS
<1>1. TypeOK
  <2>1. config \in Configs /\ flags \in FlagChoices
    BY DEF Init
  <2>2. Len(providers) \in Nat
    <3>1. PICK P : P = [name : STRING, finds : Seq(Objects)]
      OBVIOUS
    <3>2. providers \in Seq(P)
      BY <2>1, <3>1, InspectAssumption DEF providers
    <3>3. QED BY <3>2
  <2>3. all.resources = <<>>
    BY DEF Init, NewCollection
  <2>4. cost \in [Objects -> Int]
    BY DEF Init, NoCost
  <2>5. QED BY <2>1, <2>2, <2>3, <2>4 DEF Init, TypeOK
<1>2. all \in CollectionType
  BY NewType DEF Init
<1>3. all.resources = <<>> /\ all.metadata.totalCost = NoSummary
  BY DEF Init, NewCollection, NewMetadata
<1>4. Merged
  <2>1. Joined(providers, 1 - 1) = <<>>
    BY JoinedNone
  <2>2. QED BY <1>3, <2>1 DEF Init, Merged, Reached, Late
<1>5. Built /\ Filtered /\ Opened
  BY DEF Init, Built, Filtered, Opened, Reached, Late
<1>6. Counted
  BY NewCounts DEF Init, Counted
<1>7. Priced
  BY <1>3 DEF Init, Priced, Late
<1>8. QED BY <1>1, <1>2, <1>4, <1>5, <1>6, <1>7 DEF IInv

\* A failure leaves everything as it is, but for what was written of the file.
LEMMA FailInv ==
  ASSUME IInv, Exit("error"), UNCHANGED <<input, k, found, all, filters, scanned, cost, pool>>,
         i' \in Nat \ {0},
         \/ file' = file
         \/ pc = "export" /\ file' = "partial"
  PROVE  IInv'
<1>1. pc' = "exited" /\ exit' = "error"
  BY DEF Exit
<1>2. UNCHANGED input
  OBVIOUS
<1>3. TypeOK /\ TypeOK'
  <2>1. config' = config /\ flags' = flags /\ providers' = providers
    BY <1>2, InputFixed
  <2>2. QED BY <1>1, <2>1 DEF IInv, TypeOK
<1>4. file' # "previous" => Reached
  BY <1>1 DEF Reached, Late
<1>5. Merged' /\ Built'
  BY <1>1, <1>2, <1>4, InputFixed DEF IInv, Merged, Built, Reached, Merging, Late
<1>6. Filtered' /\ Counted'
  BY <1>1 DEF Filtered, Counted, Merging, Late
<1>7. Opened'
  BY <1>1, <1>2, InputFixed DEF IInv, Opened
<1>8. Priced'
  BY <1>1 DEF IInv, Priced, Merging, Late
<1>9. QED BY <1>3, <1>5, <1>6, <1>7, <1>8 DEF IInv

LEMMA ConfigLoadedInv == IInv /\ ConfigLoaded => IInv'
<1> SUFFICES ASSUME IInv, ConfigLoaded PROVE IInv'
  OBVIOUS
<1>1. CASE providers = <<>>
  <2>1. Exit("error") /\ i \in Nat \ {0}
    BY <1>1 DEF ConfigLoaded, IInv, TypeOK
  <2>2. QED BY <2>1, FailInv DEF ConfigLoaded
<1>2. CASE providers # <<>>
  <2>1. /\ pc = "config" /\ pc' = "provider" /\ UNCHANGED input
        /\ UNCHANGED <<k, i, found, all, filters, scanned, cost, pool, file, exit>>
    BY <1>2 DEF ConfigLoaded
  <2>2. TypeOK'
    BY <2>1, InputFixed DEF IInv, TypeOK
  <2>3. Merged' /\ Built' /\ Filtered' /\ Opened' /\ Counted'
    BY <2>1, InputFixed
       DEF IInv, TypeOK, Merged, Built, Filtered, Opened, Counted, Reached, Merging, Late
  <2>4. Priced'
    BY <2>1 DEF IInv, Priced, Merging, Late
  <2>5. QED BY <2>1, <2>2, <2>3, <2>4 DEF IInv
<1>3. QED BY <1>1, <1>2

LEMMA CollectInv == IInv /\ Collect => IInv'
<1> SUFFICES ASSUME IInv, Collect PROVE IInv'
  OBVIOUS
<1>1. /\ pc = "provider" /\ pc' = "merge" /\ k <= Len(providers) /\ i' = 1
      /\ found' = providers[k].finds
      /\ UNCHANGED input /\ UNCHANGED <<k, all, filters, scanned, cost, file, exit>>
  BY DEF Collect
<1>2. k \in 1..Len(providers) /\ k' = k
  BY <1>1, ProvidersType DEF IInv, TypeOK
<1>3. found' \in Seq(Objects) /\ Joined(providers, k - 1) \in Seq(Objects)
  BY <1>1, <1>2, ProvidersType, JoinedNext DEF IInv
<1>4. pool' \in Nat
  BY PoolType DEF IInv, Collect, TypeOK
<1>5. TypeOK'
  BY <1>1, <1>3, <1>4, InputFixed DEF IInv, TypeOK
<1>6. Merged'
  <2>1. all.resources = Joined(providers, k - 1)
    BY <1>1 DEF IInv, Merged
  <2>2. 1 - 1 = 0 /\ 1 <= Len(found') + 1
    BY <1>3
  <2>3. Joined(providers, k - 1) \o SubSeq(found', 1, 0) = Joined(providers, k - 1)
    BY <1>3, PrefixEnds
  <2>4. QED BY <1>1, <1>2, <2>1, <2>2, <2>3, InputFixed DEF IInv, TypeOK, Merged, Reached, Late
<1>7. Built' /\ Filtered' /\ Opened' /\ Counted'
  BY <1>1, InputFixed
     DEF IInv, TypeOK, Built, Filtered, Opened, Counted, Reached, Merging, Late
<1>8. Priced'
  BY <1>1 DEF IInv, Priced, Merging, Late
<1>9. QED BY <1>1, <1>5, <1>6, <1>7, <1>8 DEF IInv

LEMMA MergeInv == IInv /\ Merge => IInv'
<1> SUFFICES ASSUME IInv, Merge PROVE IInv'
  OBVIOUS
<1>1. /\ pc = "merge" /\ pc' = "merge" /\ i <= Len(found) /\ i' = i + 1
      /\ UNCHANGED input /\ UNCHANGED <<k, found, filters, scanned, cost, pool, file, exit>>
      /\ all' = Add(all, found[i], cost[found[i]])
  BY DEF Merge
<1>2. /\ i \in Nat \ {0} /\ found \in Seq(Objects) /\ all \in CollectionType
      /\ cost \in [Objects -> Int]
  BY DEF IInv, TypeOK
<1>3. i \in 1..Len(found) /\ (i + 1) - 1 = i /\ i + 1 \in Nat \ {0} /\ i + 1 <= Len(found) + 1
  BY <1>1, <1>2
<1> DEFINE o == found[i]
<1>4. o \in Objects /\ cost[o] \in Int
  BY <1>2, <1>3
<1>5. cost[o] = NoCost
  BY <1>1, <1>4 DEF IInv, Priced, Merging
<1>6. /\ all' \in CollectionType /\ all'.resources = Append(all.resources, o)
      /\ all'.metadata.totalCost = all.metadata.totalCost
  <2>1. ~(cost[o] > 0)
    BY <1>5 DEF NoCost
  <2> HIDE DEF o
  <2>2. /\ Add(all, o, cost[o]) \in CollectionType
        /\ Add(all, o, cost[o]).resources = Append(all.resources, o)
        /\ Add(all, o, cost[o]).metadata.totalCost = all.metadata.totalCost
    BY <1>2, <1>4, <2>1, AddFields
  <2>3. QED BY <1>1, <2>2 DEF o
<1>7. CountsMatch(all)'
  <2>1. CountsMatch(all)
    BY <1>1 DEF IInv, Counted, Merging
  <2>2. CountsMatch(Add(all, o, cost[o]))
    BY <1>2, <1>4, <2>1, AddCounts
  <2>3. all' = Add(all, o, cost[o])
    BY <1>1
  <2> HIDE DEF o
  <2>4. QED BY <2>2, <2>3
<1>8. TypeOK'
  <2>1. all'.resources \in Seq(Objects)
    BY <1>6 DEF CollectionType
  <2>2. QED BY <1>1, <1>3, <2>1, InputFixed DEF IInv, TypeOK
<1>9. Merged'
  <2>1. k <= Len(providers) /\ found = providers[k].finds
        /\ all.resources = Joined(providers, k - 1) \o SubSeq(found, 1, i - 1)
    BY <1>1 DEF IInv, Merged
  <2>2. k \in 1..Len(providers)
    BY <2>1, ProvidersType DEF IInv, TypeOK
  <2>3. Joined(providers, k - 1) \in Seq(Objects)
    BY <2>2, ProvidersType, JoinedNext DEF IInv
  <2>4. all'.resources = Joined(providers, k - 1) \o SubSeq(found, 1, i)
    <3>1. PICK s \in Seq(Objects) : s = Joined(providers, k - 1)
      BY <2>3
    <3>2. s \o SubSeq(found, 1, i) = Append(s \o SubSeq(found, 1, i - 1), found[i])
      BY <1>2, <1>3, PrefixNext
    <3>3. QED BY <1>6, <2>1, <3>1, <3>2
  <2>5. QED BY <1>1, <1>3, <2>1, <2>4, InputFixed DEF IInv, Merged, Reached, Late
<1>10. Built' /\ Filtered' /\ Opened' /\ Counted'
  BY <1>1, <1>7, InputFixed
     DEF IInv, TypeOK, Built, Filtered, Opened, Counted, Reached, Merging, Late
<1>11. Priced'
  BY <1>1, <1>6 DEF IInv, Priced, Merging, Late
<1>12. QED BY <1>6, <1>8, <1>9, <1>10, <1>11 DEF IInv

LEMMA MergeDoneInv == IInv /\ MergeDone => IInv'
<1> SUFFICES ASSUME IInv, MergeDone PROVE IInv'
  OBVIOUS
<1>1. /\ pc = "merge" /\ pc' = "provider" /\ i > Len(found) /\ k' = k + 1
      /\ UNCHANGED input
      /\ UNCHANGED <<i, found, all, filters, scanned, cost, pool, file, exit>>
  BY DEF MergeDone
<1>2. /\ k <= Len(providers) /\ found = providers[k].finds /\ i <= Len(found) + 1
      /\ all.resources = Joined(providers, k - 1) \o SubSeq(found, 1, i - 1)
  BY <1>1 DEF IInv, Merged
<1>3. /\ k \in 1..Len(providers) /\ (k + 1) - 1 = k /\ k + 1 \in 1..(Len(providers) + 1)
  BY <1>2, ProvidersType DEF IInv, TypeOK
<1>4. found \in Seq(Objects) /\ i - 1 = Len(found)
  BY <1>1, <1>2 DEF IInv, TypeOK
<1>5. all.resources = Joined(providers, k)
  <2>1. /\ Joined(providers, k - 1) \in Seq(Objects)
        /\ Joined(providers, k) = Joined(providers, k - 1) \o providers[k].finds
    BY <1>3, ProvidersType, JoinedNext DEF IInv
  <2>2. Joined(providers, k - 1) \o SubSeq(found, 1, Len(found))
          = Joined(providers, k - 1) \o found
    BY <1>4, <2>1, PrefixEnds
  <2>3. QED BY <1>2, <1>4, <2>1, <2>2
<1>6. TypeOK'
  BY <1>1, <1>3, InputFixed DEF IInv, TypeOK
<1>7. Merged'
  BY <1>1, <1>3, <1>5, InputFixed DEF IInv, Merged, Reached, Late
<1>8. Built' /\ Filtered' /\ Opened' /\ Counted'
  BY <1>1, InputFixed
     DEF IInv, TypeOK, Built, Filtered, Opened, Counted, Reached, Merging, Late
<1>9. Priced'
  BY <1>1 DEF IInv, Priced, Merging, Late
<1>10. QED BY <1>1, <1>6, <1>7, <1>8, <1>9 DEF IInv

LEMMA ProvidersDoneInv == IInv /\ ProvidersDone => IInv'
<1> SUFFICES ASSUME IInv, ProvidersDone PROVE IInv'
  OBVIOUS
<1>1. /\ pc = "provider" /\ k > Len(providers) /\ i' = 1
      /\ pc' = IF flags.estimate THEN "estimate" ELSE "filters"
      /\ UNCHANGED input
      /\ UNCHANGED <<k, found, all, filters, scanned, cost, pool, file, exit>>
  BY DEF ProvidersDone
<1>2. all.resources = FoundByAll
  <2>1. k - 1 = Len(providers)
    BY SMTT(40), <1>1, ProvidersType DEF IInv, TypeOK
  <2>2. QED BY <1>1, <2>1, ProvidersType DEF IInv, Merged
<1>3. TypeOK'
  BY <1>1, InputFixed DEF IInv, TypeOK
<1>4. Merged'
  BY <1>1, <1>2, InputFixed DEF IInv, Merged, Reached, Late
<1>5. Built'
  <2>1. filters = <<>>
    BY <1>1 DEF IInv, Built, Merging
  <2>2. ParsedTo(Given, 1 - 1) = <<>> /\ WellFormed(Given, 1 - 1)
    BY DEF ParsedTo, WellFormed
  <2>3. 1 <= Len(Given) + 1
    BY GivenType DEF IInv
  <2>4. QED BY <1>1, <2>1, <2>2, <2>3, InputFixed DEF IInv, Built, Reached, Merging, Late
<1>6. Filtered' /\ Opened' /\ Counted'
  BY <1>1, InputFixed
     DEF IInv, TypeOK, Filtered, Opened, Counted, Reached, Merging, Late
<1>7. Priced'
  <2>1. all.resources \in Seq(Objects) /\ 1 <= Len(all.resources) + 1
    BY DEF IInv, TypeOK
  <2>2. PricedTo(all.resources, cost, 1 - 1)
    BY DEF PricedTo
  <2>3. flags' = flags
    BY <1>1, InputFixed
  <2>4. QED BY <1>1, <2>1, <2>2, <2>3 DEF IInv, Priced, Merging, Late
<1>8. QED BY <1>1, <1>3, <1>4, <1>5, <1>6, <1>7 DEF IInv

LEMMA EstimateOneInv == IInv /\ EstimateOne => IInv'
<1> SUFFICES ASSUME IInv, EstimateOne PROVE IInv'
  OBVIOUS
<1> DEFINE s == all.resources
           o == s[i]
<1>1. /\ pc = "estimate" /\ pc' = "estimate" /\ i <= Len(s) /\ i' = i + 1
      /\ cost' = Estimated(o)
      /\ UNCHANGED input /\ UNCHANGED <<k, found, all, filters, scanned, pool, file, exit>>
  BY DEF EstimateOne
<1>2. s \in Seq(Objects) /\ i \in 1..Len(s) /\ cost \in [Objects -> Int] /\ i \in Nat
  BY <1>1 DEF IInv, TypeOK
<1>3. o \in Objects /\ (i + 1) - 1 = i /\ i + 1 \in Nat \ {0} /\ i + 1 <= Len(s) + 1
  BY <1>1, <1>2
<1>4. \A q \in Objects : cost[q] \in {NoCost, PriceOf(q)}
  BY DEF IInv, Priced
<1>5. /\ cost' \in [Objects -> Int] /\ cost'[o] = PriceOf(o)
      /\ \A q \in Objects : q # o => cost'[q] = cost[q]
  <2>1. cost[o] \in {NoCost, PriceOf(o)}
    BY <1>3, <1>4
  <2>2. PICK e \in Int : e = EstimateCost(Attr[o])
    BY <1>3, EstimateType
  <2>3. PriceOf(o) = IF e = NoEstimate THEN NoCost ELSE e
    BY <2>2 DEF PriceOf
  <2>4. cost' = [cost EXCEPT ![o] = IF e = NoEstimate THEN @ ELSE e]
    BY <1>1, <2>2 DEF Estimated
  <2> HIDE DEF o
  <2>5. QED BY <1>2, <1>3, <2>1, <2>3, <2>4
<1>6. TypeOK'
  BY <1>1, <1>3, <1>5, InputFixed DEF IInv, TypeOK
<1>7. Merged' /\ Built' /\ Filtered' /\ Opened' /\ Counted'
  BY <1>1, InputFixed
     DEF IInv, TypeOK, Merged, Built, Filtered, Opened, Counted, Reached, Merging, Late
<1>8. Priced'
  <2>1. \A q \in Objects : cost'[q] \in {NoCost, PriceOf(q)}
    BY <1>4, <1>5
  <2>2. PricedTo(s, cost', i)
    <3>1. PricedTo(s, cost, i - 1)
      BY <1>1 DEF IInv, Priced
    <3>2. ASSUME NEW j \in 1..i PROVE cost'[s[j]] = PriceOf(s[j])
      <4>1. s[j] \in Objects
        BY <1>2
      <4>2. CASE s[j] = o
        BY <1>5, <4>2
      <4>3. CASE s[j] # o
        <5>1. j \in 1..(i - 1)
          BY <1>2, <4>3
        <5>2. cost[s[j]] = PriceOf(s[j])
          BY <3>1, <5>1 DEF PricedTo
        <5>3. QED BY <1>5, <4>1, <4>3, <5>2
      <4>4. QED BY <4>2, <4>3
    <3>3. QED BY <3>2 DEF PricedTo
  <2>3. flags' = flags
    BY <1>1, InputFixed
  <2>4. QED BY <1>1, <1>3, <2>1, <2>2, <2>3 DEF IInv, Priced, Merging, Late
<1>9. QED BY <1>1, <1>6, <1>7, <1>8 DEF IInv

LEMMA EstimateDoneInv == IInv /\ EstimateDone => IInv'
<1> SUFFICES ASSUME IInv, EstimateDone PROVE IInv'
  OBVIOUS
<1>1. /\ pc = "estimate" /\ pc' = "filters" /\ i > Len(all.resources) /\ i' = 1
      /\ UNCHANGED input
      /\ UNCHANGED <<k, found, all, filters, scanned, cost, pool, file, exit>>
  BY DEF EstimateDone
<1>2. TypeOK'
  BY <1>1, InputFixed DEF IInv, TypeOK
<1>3. Built'
  <2>1. filters = <<>>
    BY <1>1 DEF IInv, Built, Merging
  <2>2. ParsedTo(Given, 1 - 1) = <<>> /\ WellFormed(Given, 1 - 1)
    BY DEF ParsedTo, WellFormed
  <2>3. 1 <= Len(Given) + 1
    BY GivenType DEF IInv
  <2>4. QED BY <1>1, <2>1, <2>2, <2>3, InputFixed DEF IInv, Built, Reached, Merging, Late
<1>4. Merged' /\ Filtered' /\ Opened' /\ Counted'
  BY <1>1, InputFixed
     DEF IInv, TypeOK, Merged, Filtered, Opened, Counted, Reached, Merging, Late
<1>5. Priced'
  <2>1. i - 1 = Len(all.resources) /\ PricedTo(all.resources, cost, i - 1)
    <3>1. i <= Len(all.resources) + 1 /\ PricedTo(all.resources, cost, i - 1)
      BY <1>1 DEF IInv, Priced
    <3>2. i \in Nat /\ Len(all.resources) \in Nat
      BY DEF IInv, TypeOK
    <3>3. i - 1 = Len(all.resources)
      BY <1>1, <3>1, <3>2
    <3>4. QED BY <3>1, <3>3
  <2>2. QED BY <1>1, <2>1, InputFixed DEF IInv, Priced, Merging, Late
<1>6. QED BY <1>1, <1>2, <1>3, <1>4, <1>5 DEF IInv

LEMMA ParseFilterInv == IInv /\ ParseFilter => IInv'
<1> SUFFICES ASSUME IInv, ParseFilter PROVE IInv'
  OBVIOUS
<1> DEFINE f == Parse(Given[i][1], Given[i][2])
<1>1. /\ pc = "filters" /\ i <= Len(Given) /\ i' = i + 1 /\ UNCHANGED input
      /\ UNCHANGED <<k, found, all, scanned, cost, pool, file>>
  BY DEF ParseFilter
<1>2. i \in Nat \ {0} /\ Len(Given) \in Nat
  BY GivenType DEF IInv, TypeOK
<1>3. i \in 1..Len(Given) /\ i + 1 \in Nat \ {0} /\ (i + 1) - 1 = i /\ i - 1 \in Nat
  BY <1>1, <1>2
<1>4. CASE f = Error
  <2>1. Exit("error") /\ filters' = filters
    BY <1>4 DEF ParseFilter
  <2>2. QED BY <1>1, <1>3, <2>1, FailInv
<1>5. CASE f # Error
  <2>1. pc' = "filters" /\ filters' = Append(filters, f) /\ exit' = exit
    BY <1>1, <1>5 DEF ParseFilter
  <2>2. filters = ParsedTo(Given, i - 1) /\ WellFormed(Given, i - 1)
    BY <1>1 DEF IInv, Built
  <2>3. filters' = ParsedTo(Given, i)
    <3> DEFINE g == [j \in 1..i |-> Parse(Given[j][1], Given[j][2])]
               S == {Parse(Given[j][1], Given[j][2]) : j \in 1..i}
               m == i - 1
    <3>1. m \in Nat /\ m + 1 = i /\ g \in [1..i -> S] /\ g[i] = f
      BY <1>3
    <3>2. [j \in 1..m |-> g[j]] = ParsedTo(Given, m)
      BY <1>3 DEF ParsedTo
    <3>3. g = ParsedTo(Given, i)
      BY DEF ParsedTo
    <3> HIDE DEF g, S, f
    <3>4. filters = [j \in 1..m |-> g[j]]
      BY <2>2, <3>2
    <3> HIDE DEF m
    <3>5. g = Append([j \in 1..m |-> g[j]], g[i])
      <4>1. g \in [1..(m + 1) -> S]
        BY <3>1
      <4>2. g = Append([j \in 1..m |-> g[j]], g[m + 1])
        BY <3>1, <4>1, LastOne
      <4>3. QED BY <3>1, <4>2
    <3>6. QED BY <2>1, <3>1, <3>3, <3>4, <3>5
  <2>4. WellFormed(Given, i)
    <3>1. ASSUME NEW j \in 1..i PROVE j \in 1..(i - 1) \/ j = i
      BY <1>3
    <3>2. QED BY <1>5, <2>2, <3>1 DEF WellFormed
  <2>5. TypeOK'
    <3>1. ASSUME NEW j \in DOMAIN ParsedTo(Given, i)
          PROVE  ParsedTo(Given, i)[j].flag \in ToSet(FilterFlags)
      <4>1. j \in 1..i /\ ParsedTo(Given, i)[j] = Parse(Given[j][1], Given[j][2])
        BY DEF ParsedTo
      <4>2. j \in 1..Len(Given)
        BY <1>2, <1>3, <4>1
      <4>3. Given[j][1] \in ToSet(FilterFlags)
        BY <4>2, GivenType DEF IInv
      <4>4. QED BY <2>4, <4>1, <4>3, ParseFlag DEF WellFormed
    <3>2. \A j \in DOMAIN filters' : filters'[j].flag \in ToSet(FilterFlags)
      BY <2>3, <3>1
    <3>3. QED BY <1>1, <1>3, <2>1, <3>2, InputFixed DEF IInv, TypeOK
  <2>6. Built'
    <3>1. i + 1 <= Len(Given) + 1
      BY <1>2, <1>3
    <3>2. QED BY <1>1, <1>3, <2>1, <2>3, <2>4, <3>1, InputFixed
              DEF IInv, Opened, TypeOK, Built, Reached, Merging, Late
  <2>7. Merged' /\ Filtered' /\ Opened' /\ Counted'
    BY <1>1, <2>1, InputFixed
       DEF IInv, TypeOK, Merged, Filtered, Opened, Counted, Reached, Merging, Late
  <2>8. Priced'
    BY <1>1, <2>1, InputFixed DEF IInv, Priced, Merging, Late
  <2>9. QED BY <1>1, <2>5, <2>6, <2>7, <2>8 DEF IInv
<1>6. QED BY <1>4, <1>5

LEMMA FiltersBuiltInv == IInv /\ FiltersBuilt => IInv'
<1> SUFFICES ASSUME IInv, FiltersBuilt PROVE IInv'
  OBVIOUS
<1>1. /\ pc = "filters" /\ i > Len(Given) /\ i' = 1 /\ scanned' = all.resources
      /\ UNCHANGED input /\ UNCHANGED <<k, found, filters, cost, pool, file, exit>>
      /\ IF filters = <<>> THEN pc' = "format" /\ all' = all
         ELSE pc' = "filter" /\ all' = [all EXCEPT !.resources = <<>>]
  BY DEF FiltersBuilt
<1>2. i \in Nat /\ Len(Given) \in Nat /\ i <= Len(Given) + 1
  BY <1>1, GivenType DEF IInv, TypeOK, Built
<1>3. i - 1 = Len(Given)
  BY <1>1, <1>2
<1>4. filters = ParsedTo(Given, Len(Given)) /\ WellFormed(Given, Len(Given))
  BY <1>1, <1>3 DEF IInv, Built
<1>5. filters = <<>> <=> Given = <<>>
  <2>1. Given = <<>> <=> Len(Given) = 0
    BY GivenType DEF IInv
  <2>2. DOMAIN filters = 1..Len(Given)
    BY <1>4 DEF ParsedTo
  <2>3. DOMAIN <<>> = 1..0
    OBVIOUS
  <2>4. filters = <<>> => Len(Given) = 0
    BY <1>2, <2>2, <2>3
  <2>5. Len(Given) = 0 => filters = <<>>
    BY <1>4 DEF ParsedTo
  <2>6. QED BY <2>1, <2>4, <2>5
<1>6. all.resources = FoundByAll
  BY <1>1 DEF IInv, Merged
<1>7. all' \in CollectionType /\ pc' \in {"format", "filter"}
      /\ (filters # <<>> => /\ all'.resources = <<>>
                            /\ all'.metadata = all.metadata)
  <2>1. all \in CollectionType
    BY DEF IInv
  <2>2. <<>> \in Seq(Objects)
    OBVIOUS
  <2>3. /\ [all EXCEPT !.resources = <<>>] \in CollectionType
        /\ [all EXCEPT !.resources = <<>>].resources = <<>>
        /\ [all EXCEPT !.resources = <<>>].metadata = all.metadata
    BY <2>1, <2>2 DEF CollectionType
  <2>4. QED BY <1>1, <2>1, <2>3
<1>8. scanned' \in Seq(Objects) /\ 1 <= Len(scanned') + 1
  BY <1>1 DEF IInv, TypeOK
<1>9. TypeOK'
  <2>1. all'.resources \in Seq(Objects)
    BY <1>7 DEF CollectionType
  <2>2. QED BY <1>1, <1>7, <1>8, <2>1, InputFixed DEF IInv, TypeOK
<1>10. Merged'
  BY <1>1, <1>6, <1>7, InputFixed DEF Merged
<1>11. Built'
  BY <1>1, <1>4, <1>7, InputFixed DEF Built, Merging
<1>12. Filtered'
  <2>1. KeptTo(filters, scanned', 1 - 1) = <<>>
    BY KeptNone
  <2>2. exit' # "ok"
    BY <1>1 DEF IInv, TypeOK
  <2>3. QED BY <1>1, <1>5, <1>7, <1>8, <2>1, <2>2, InputFixed DEF Filtered
<1>13. Opened'
  BY <1>1, <1>7, InputFixed DEF IInv, TypeOK, Opened
<1>14. Counted'
  BY <1>1, <1>5, <1>7, InputFixed DEF IInv, Counted, Merging, Late
<1>15. Priced'
  <2>1. Given' # <<>> => CostsMatch(all', cost)
    <3>1. all.metadata.totalCost = NoSummary /\ cost \in [Objects -> Int]
      BY <1>1 DEF IInv, Priced, TypeOK
    <3>2. QED BY <1>1, <1>5, <1>7, <3>1, NewCosts, InputFixed
  <2>2. QED BY <1>1, <1>7, <2>1, InputFixed DEF IInv, Priced, Merging, Late
<1>16. QED BY <1>7, <1>9, <1>10, <1>11, <1>12, <1>13, <1>14, <1>15 DEF IInv

LEMMA FilterOneInv == IInv /\ FilterOne => IInv'
<1> SUFFICES ASSUME IInv, FilterOne PROVE IInv'
  OBVIOUS
<1> DEFINE o == scanned[i]
<1>1. /\ pc = "filter" /\ pc' = "filter" /\ i <= Len(scanned) /\ i' = i + 1
      /\ all' = IF ApplyAll(filters, Attr[o]) THEN Add(all, o, cost[o]) ELSE all
      /\ UNCHANGED input
      /\ UNCHANGED <<k, found, filters, scanned, cost, pool, file, exit>>
  BY DEF FilterOne
<1>2. /\ i \in Nat \ {0} /\ scanned \in Seq(Objects) /\ all \in CollectionType
      /\ cost \in [Objects -> Int]
  BY DEF IInv, TypeOK
<1>3. /\ i \in 1..Len(scanned) /\ (i + 1) - 1 = i /\ i + 1 \in Nat \ {0}
      /\ i + 1 <= Len(scanned) + 1
  BY <1>1, <1>2
<1>4. o \in Objects /\ cost[o] \in Int
  BY <1>2, <1>3
<1>5. Given # <<>> /\ all.resources = KeptTo(filters, scanned, i - 1)
      /\ CostsMatch(all, cost)
  BY <1>1 DEF IInv, Filtered, Priced, Late
<1> HIDE DEF o
<1>6. /\ Add(all, o, cost[o]) \in CollectionType
      /\ Add(all, o, cost[o]).resources = Append(all.resources, o)
  BY <1>2, <1>4, AddFields
<1>7. all' \in CollectionType
  BY <1>1, <1>2, <1>6
<1>8. all'.resources = KeptTo(filters, scanned, i)
  <2>1. KeptTo(filters, scanned, i) = IF ApplyAll(filters, Attr[o])
                                      THEN Append(KeptTo(filters, scanned, i - 1), o)
                                      ELSE KeptTo(filters, scanned, i - 1)
    BY <1>2, <1>3, KeptNext DEF o
  <2>2. QED BY <1>1, <1>5, <1>6, <2>1
<1>9. CostsMatch(all', cost)
  <2>1. CostsMatch(Add(all, o, cost[o]), cost)
    BY <1>2, <1>4, <1>5, AddCosts
  <2>2. QED BY <1>1, <1>5, <2>1
<1>10. TypeOK'
  <2>1. all'.resources \in Seq(Objects)
    BY <1>7 DEF CollectionType
  <2>2. QED BY <1>1, <1>3, <2>1, InputFixed DEF IInv, TypeOK
<1>11. Merged' /\ Built'
  BY <1>1, InputFixed DEF IInv, Merged, Built, Reached, Merging, Late
<1>12. Filtered'
  <2>1. exit' # "ok"
    BY <1>1 DEF IInv, TypeOK
  <2>2. QED BY <1>1, <1>3, <1>5, <1>8, <2>1, InputFixed DEF Filtered
<1>13. Opened' /\ Counted'
  BY <1>1, <1>5, InputFixed DEF IInv, Opened, Counted, Merging, Late
<1>14. Priced'
  BY <1>1, <1>9, InputFixed DEF IInv, Priced, Merging, Late
<1>15. QED BY <1>7, <1>10, <1>11, <1>12, <1>13, <1>14 DEF IInv

LEMMA FilterDoneInv == IInv /\ FilterDone => IInv'
<1> SUFFICES ASSUME IInv, FilterDone PROVE IInv'
  OBVIOUS
<1>1. /\ pc = "filter" /\ pc' = "format" /\ i > Len(scanned) /\ UNCHANGED input
      /\ UNCHANGED <<k, i, found, all, filters, scanned, cost, pool, file, exit>>
  BY DEF FilterDone
<1>2. /\ Given # <<>> /\ i <= Len(scanned) + 1
      /\ all.resources = KeptTo(filters, scanned, i - 1)
  BY <1>1 DEF IInv, Filtered
<1>3. i - 1 = Len(scanned)
  <2>1. i \in Nat /\ Len(scanned) \in Nat
    BY DEF IInv, TypeOK
  <2>2. QED BY <1>1, <1>2, <2>1
<1>4. TypeOK'
  BY <1>1, InputFixed DEF IInv, TypeOK
<1>5. Merged' /\ Built' /\ Opened' /\ Counted'
  BY <1>1, <1>2, InputFixed
     DEF IInv, TypeOK, Merged, Built, Opened, Counted, Reached, Merging, Late
<1>6. Filtered'
  BY <1>1, <1>2, <1>3, InputFixed DEF Filtered
<1>7. Priced'
  BY <1>1, InputFixed DEF IInv, Priced, Merging, Late
<1>8. QED BY <1>1, <1>4, <1>5, <1>6, <1>7 DEF IInv

LEMMA GetExporterInv == IInv /\ GetExporter => IInv'
<1> SUFFICES ASSUME IInv, GetExporter PROVE IInv'
  OBVIOUS
<1>1. /\ pc = "format" /\ UNCHANGED input
      /\ UNCHANGED <<k, i, found, all, filters, scanned, cost, pool, file>>
  BY DEF GetExporter
<1>2. CASE OutputFormat \notin Formats
  <2>1. Exit("error") /\ i' \in Nat \ {0}
    BY <1>1, <1>2 DEF GetExporter, IInv, TypeOK
  <2>2. QED BY <1>1, <2>1, FailInv
<1>3. CASE OutputFormat \in Formats
  <2>1. pc' = "open" /\ exit' = exit
    BY <1>3 DEF GetExporter
  <2>2. TypeOK'
    BY <1>1, <2>1, InputFixed DEF IInv, TypeOK
  <2>3. Merged' /\ Built' /\ Filtered' /\ Opened' /\ Counted'
    BY <1>1, <1>3, <2>1, InputFixed
       DEF IInv, Merged, Built, Filtered, Opened, Counted, Reached, Merging, Late
  <2>4. Priced'
    BY <1>1, <2>1, InputFixed DEF IInv, Priced, Merging, Late
  <2>5. QED BY <1>1, <2>2, <2>3, <2>4 DEF IInv
<1>4. QED BY <1>2, <1>3

LEMMA OpenInv == IInv /\ Open => IInv'
<1> SUFFICES ASSUME IInv, Open PROVE IInv'
  OBVIOUS
<1>1. /\ pc = "open" /\ pc' = "export" /\ file' \in {"empty", file} /\ UNCHANGED input
      /\ UNCHANGED <<k, i, found, all, filters, scanned, cost, pool, exit>>
  BY DEF Open
<1>2. TypeOK'
  BY <1>1, InputFixed DEF IInv, TypeOK
<1>3. Merged' /\ Built' /\ Filtered' /\ Opened' /\ Counted'
  BY <1>1, InputFixed
     DEF IInv, Merged, Built, Filtered, Opened, Counted, Reached, Merging, Late
<1>4. Priced'
  BY <1>1, InputFixed DEF IInv, Priced, Merging, Late
<1>5. QED BY <1>1, <1>2, <1>3, <1>4 DEF IInv

LEMMA ExportInv == IInv /\ Export => IInv'
<1> SUFFICES ASSUME IInv, Export PROVE IInv'
  OBVIOUS
<1>1. /\ pc = "export" /\ pc' = "exited" /\ exit' = "ok" /\ file' \in {"export", file}
      /\ UNCHANGED input
      /\ UNCHANGED <<k, i, found, all, filters, scanned, cost, pool>>
  BY DEF Export, Exit
<1>2. TypeOK'
  BY <1>1, InputFixed DEF IInv, TypeOK
<1>3. Merged' /\ Built' /\ Filtered' /\ Opened' /\ Counted'
  BY <1>1, InputFixed
     DEF IInv, Merged, Built, Filtered, Opened, Counted, Reached, Merging, Late
<1>4. Priced'
  BY <1>1 DEF IInv, Priced, Merging, Late
<1>5. QED BY <1>1, <1>2, <1>3, <1>4 DEF IInv

LEMMA Stutters == IInv /\ UNCHANGED vars => IInv'
<1> SUFFICES ASSUME IInv, UNCHANGED vars PROVE IInv'
  OBVIOUS
<1>1. /\ UNCHANGED input
      /\ UNCHANGED <<pc, k, i, found, all, filters, scanned, cost, pool, file, exit>>
  BY DEF vars, input
<1>2. TypeOK'
  BY <1>1, InputFixed DEF IInv, TypeOK
<1>3. Merged' /\ Built' /\ Filtered' /\ Opened' /\ Counted'
  BY ZenonT(40), <1>1, InputFixed DEF IInv, Merged, Built, Filtered, Opened, Counted, Reached
<1>4. Priced'
  BY <1>1, InputFixed DEF IInv, Priced
<1>5. QED BY <1>1, <1>2, <1>3, <1>4 DEF IInv

LEMMA NextInv == IInv /\ [Next]_vars => IInv'
<1> SUFFICES ASSUME IInv, [Next]_vars PROVE IInv'
  OBVIOUS
<1>1. i \in Nat \ {0}
  BY DEF IInv, TypeOK
<1>2. CASE ConfigFails
  BY <1>1, <1>2, FailInv DEF ConfigFails
<1>3. CASE ProviderFails
  BY <1>1, <1>3, FailInv DEF ProviderFails
<1>4. CASE OpenFails
  BY <1>1, <1>4, FailInv DEF OpenFails
<1>5. CASE ExportFails
  BY <1>1, <1>5, FailInv DEF ExportFails
<1>6. CASE ConfigLoaded \/ Collect \/ Merge \/ MergeDone \/ ProvidersDone
  BY <1>6, ConfigLoadedInv, CollectInv, MergeInv, MergeDoneInv, ProvidersDoneInv
<1>7. CASE EstimateOne \/ EstimateDone
  BY <1>7, EstimateOneInv, EstimateDoneInv
<1>8. CASE ParseFilter \/ FiltersBuilt \/ FilterOne \/ FilterDone
  BY <1>8, ParseFilterInv, FiltersBuiltInv, FilterOneInv, FilterDoneInv
<1>9. CASE GetExporter \/ Open \/ Export
  BY <1>9, GetExporterInv, OpenInv, ExportInv
<1>10. CASE Terminating \/ UNCHANGED vars
  BY <1>10, Stutters DEF Terminating
<1>11. QED BY <1>2, <1>3, <1>4, <1>5, <1>6, <1>7, <1>8, <1>9, <1>10 DEF Next

-----------------------------------------------------------------------------
(* The theorems.                                                           *)

\* runInspect keeps its invariant whatever the configuration, the flags and the
\* failures: the collection is always what has been merged, parsed, estimated
\* and filtered so far.
THEOREM Inductive == Spec => []IInv
BY InitInv, NextInv, PTL DEF Spec

\* Every variable of runInspect keeps its type.
THEOREM TypeCorrect == Spec => []TypeOK
<1>1. IInv => TypeOK
  BY DEF IInv
<1>2. QED BY <1>1, Inductive, PTL

\* Until a filter makes a second collection of the first, the counts in the
\* metadata are the counts of the resources.
THEOREM ScansAreCounted == Spec => []ScanCounts
<1>1. IInv => ScanCounts
  BY DEF IInv, Counted, ScanCounts, Merging, Late
<1>2. QED BY <1>1, Inductive, PTL

\* The cost summary of a filtered export is the sum of its costs, in total and
\* per provider, region, type and tag.
THEOREM FilteredSummary == Spec => []FilteredCosts
<1>1. IInv => FilteredCosts
  BY DEF IInv, Priced, FilteredCosts, CostSummary, Late
<1>2. QED BY <1>1, Inductive, PTL

\* Machines whose attributes say that they are off cost nothing in an export
\* with estimates, and those that are on cost something.
THEOREM StoppedMachines ==
  ASSUME \A o \in Stopped : Off(Attr[o]), \A o \in Running : On(Attr[o])
  PROVE  Spec => []StoppedCostsNothing
<1>1. ASSUME IInv PROVE StoppedCostsNothing
  <2> SUFFICES ASSUME pc = "export", flags.estimate, NEW o \in ToSet(scanned)
               PROVE  (o \in Stopped => cost[o] = 0) /\ (o \in Running => cost[o] > 0)
    BY DEF StoppedCostsNothing
  <2>1. PricedTo(scanned, cost, Len(scanned)) /\ scanned \in Seq(Objects)
    BY <1>1 DEF IInv, TypeOK, Priced, Late
  <2>2. PICK j \in 1..Len(scanned) : o = scanned[j]
    BY <2>1 DEF ToSet
  <2>3. o \in Objects /\ cost[o] = PriceOf(o)
    BY <2>1, <2>2 DEF PricedTo
  <2>4. QED BY <2>3, MachineEstimates
<1>2. QED BY <1>1, Inductive, PTL

\* A machine as its API gives it, of AWS or GCP, and its state.
Machine(m) ==
  \/ m.via = convertEC2InstanceToResource /\ "state" \in DOMAIN m.fields
  \/ m.via = convertComputeInstanceToResource /\ "status" \in DOMAIN m.fields
IsOff(m) ==
  IF m.via = convertEC2InstanceToResource
  THEN m.fields["state"] \in {<<"stopped">>, <<"terminated">>}
  ELSE m.fields["status"] \in {<<"TERMINATED">>, <<"STOPPED">>}

\* The converter leaves the state where the estimator looks for it.
LEMMA MachinesAsConverted ==
  ASSUME NEW m, Machine(m)
  PROVE  IF IsOff(m) THEN Off(ToResource(m)) ELSE On(ToResource(m))
<1> DEFINE res == ToResource(m)
<1>1. convertEC2InstanceToResource.type # convertComputeInstanceToResource.type
  BY DEF convertEC2InstanceToResource, convertComputeInstanceToResource, Named, AWS, GCP, Row
<1>2. CASE m.via = convertEC2InstanceToResource
  <2>1. /\ m.via.provider = "aws" /\ m.via.type = "aws:ec2:instance" /\ ~m.via.anyProp
        /\ "state" \in DOMAIN m.via.props /\ m.via.props["state"] = "string"
    BY <1>2 DEF convertEC2InstanceToResource, Named, AWS, Row, Str, As
  <2>2. "state" \in DOMAIN m.fields
    BY <1>1, <1>2 DEF Machine
  <2>3. res.provider = "aws" /\ res.type = "aws:ec2:instance"
    BY <2>1 DEF ToResource
  <2>4. /\ "state" \in DOMAIN res.props
        /\ res.props["state"] = [type |-> "string", text |-> m.fields["state"]]
    BY <2>1, <2>2 DEF ToResource, Properties, Property
  <2> HIDE DEF res
  <2>5. In(res, "state", {"stopped", "terminated"}) <=> IsOff(m)
    BY <2>4, <1>2 DEF In, IsString, Text, IsOff
  <2>6. QED BY <2>3, <2>5 DEF Off, On, res
<1>3. CASE m.via = convertComputeInstanceToResource
  <2>1. /\ m.via.provider = "gcp" /\ m.via.type = "gcp:compute:instance" /\ ~m.via.anyProp
        /\ "status" \in DOMAIN m.via.props /\ m.via.props["status"] = "string"
    BY <1>3 DEF convertComputeInstanceToResource, GCP, Row, Str, As
  <2>2. "status" \in DOMAIN m.fields
    BY <1>1, <1>3 DEF Machine
  <2>3. res.provider = "gcp" /\ res.type = "gcp:compute:instance"
    BY <2>1 DEF ToResource
  <2>4. /\ "status" \in DOMAIN res.props
        /\ res.props["status"] = [type |-> "string", text |-> m.fields["status"]]
    BY <2>1, <2>2 DEF ToResource, Properties, Property
  <2> HIDE DEF res
  <2>5. In(res, "status", {"TERMINATED", "STOPPED"}) <=> IsOff(m)
    BY <2>4, <1>1, <1>3 DEF In, IsString, Text, IsOff
  <2>6. QED BY <2>3, <2>5 DEF Off, On, res
<1>4. QED BY <1>2, <1>3 DEF Machine

\* What AWS and GCP say of a machine's state decides its cost: converted, an
\* instance that is off costs nothing in an export and every other something.
THEOREM StoppedAsConverted ==
  ASSUME \A o \in Stopped : \E m : Machine(m) /\ IsOff(m) /\ Attr[o] = ToResource(m),
         \A o \in Running : \E m : Machine(m) /\ ~IsOff(m) /\ Attr[o] = ToResource(m)
  PROVE  Spec => []StoppedCostsNothing
BY MachinesAsConverted, StoppedMachines

\* The expressions given mean what they are parsed to: FiltersMean at any step.
Meant ==
  /\ WellFormed(Given, Len(Given)) <=> flags.means.valid
  /\ (Given # <<>> /\ flags.means.valid) =>
       \A o \in Objects :
         ApplyAll(ParsedTo(Given, Len(Given)), Attr[o]) <=> o \in flags.means.keeps

LEMMA MeantAtFirst == Init /\ FiltersMean => Meant
<1> SUFFICES ASSUME Init, FiltersMean PROVE Meant
  OBVIOUS
<1>1. pc = "config"
  BY DEF Init
<1>2. DOMAIN Given = 1..Len(Given)
  <2>1. TypeOK
    BY InitInv DEF IInv
  <2>2. QED BY <2>1, GivenType
<1> DEFINE parsed == [j \in DOMAIN Given |-> Parse(Given[j][1], Given[j][2])]
<1>3. /\ (\A j \in DOMAIN parsed : parsed[j] # Error) <=> flags.means.valid
      /\ (Given # <<>> /\ flags.means.valid) =>
           \A o \in Objects : ApplyAll(parsed, Attr[o]) <=> o \in flags.means.keeps
  BY <1>1 DEF FiltersMean
<1>4. parsed = ParsedTo(Given, Len(Given))
  BY <1>2 DEF ParsedTo
<1>5. (\A j \in DOMAIN parsed : parsed[j] # Error) <=> WellFormed(Given, Len(Given))
  BY <1>2 DEF WellFormed
<1> HIDE DEF parsed
<1>6. QED BY <1>3, <1>4, <1>5 DEF Meant

LEMMA NextInput == [Next]_vars => UNCHANGED input
<1> SUFFICES ASSUME [Next]_vars PROVE UNCHANGED input
  OBVIOUS
<1>1. CASE Next
  BY <1>1 DEF Next, ConfigFails, ConfigLoaded, ProviderFails, Collect, Merge, MergeDone,
              ProvidersDone, EstimateOne, EstimateDone, ParseFilter, FiltersBuilt,
              FilterOne, FilterDone, GetExporter, OpenFails, Open, ExportFails, Export,
              Terminating, vars, input
<1>2. CASE UNCHANGED vars
  BY <1>2 DEF vars, input
<1>3. QED BY <1>1, <1>2

LEMMA StaysMeant == Meant /\ [Next]_vars => Meant'
BY NextInput, InputFixed DEF Meant

LEMMA AlwaysMeant == Spec /\ FiltersMean => []Meant
BY MeantAtFirst, StaysMeant, PTL DEF Spec

\* Where the expressions mean what they say, what is exported is everything
\* that every configured provider has and the filters describe, in order, once.
THEOREM Exports == Spec /\ FiltersMean => []ExportIsTheScan
<1>1. ASSUME IInv, Meant PROVE ExportIsTheScan
  <2> SUFFICES ASSUME pc = "export" \/ exit = "ok" PROVE all.resources = Expected
    BY DEF ExportIsTheScan
  <2>1. /\ scanned = FoundByAll /\ filters = ParsedTo(Given, Len(Given))
        /\ WellFormed(Given, Len(Given))
    BY <1>1 DEF IInv, Merged, Built, Reached, Late
  <2>2. all.resources = IF Given = <<>> THEN scanned
                        ELSE KeptTo(filters, scanned, Len(scanned))
    BY <1>1 DEF IInv, Filtered
  <2>3. CASE Given = <<>>
    BY <2>1, <2>2, <2>3 DEF Expected
  <2>4. CASE Given # <<>>
    <3>1. \A o \in Objects : ApplyAll(filters, Attr[o]) <=> o \in flags.means.keeps
      BY <1>1, <2>1, <2>4 DEF Meant
    <3>2. scanned \in Seq(Objects)
      BY <1>1 DEF IInv, TypeOK
    <3>3. DOMAIN scanned = 1..Len(scanned) /\ \A j \in 1..Len(scanned) : scanned[j] \in Objects
      BY <3>2
    <3>4. [j \in 1..Len(scanned) |->
             IF ApplyAll(filters, Attr[scanned[j]]) THEN <<scanned[j]>> ELSE <<>>]
          = [j \in DOMAIN scanned |->
             IF scanned[j] \in flags.means.keeps THEN <<scanned[j]>> ELSE <<>>]
      BY <3>1, <3>3
    <3>5. KeptTo(filters, scanned, Len(scanned)) = Only(scanned, flags.means.keeps)
      BY <3>4 DEF KeptTo, Only
    <3>6. QED BY <2>1, <2>2, <2>4, <3>5 DEF Expected
  <2>5. QED BY <2>3, <2>4
<1>2. QED BY <1>1, Inductive, AlwaysMeant, PTL

\* The output file is not touched before every provider has been collected,
\* every expression parsed and the format found.
THEOREM PreviousSurvives == Spec /\ FiltersMean => []FileSurvives
<1>1. ASSUME IInv, Meant PROVE FileSurvives
  <2> SUFFICES ASSUME file # "previous"
               PROVE  scanned = FoundByAll /\ flags.means.valid /\ OutputFormat \in Formats
    BY DEF FileSurvives
  <2>1. scanned = FoundByAll /\ WellFormed(Given, Len(Given)) /\ OutputFormat \in Formats
    BY <1>1 DEF IInv, Merged, Built, Opened, Reached
  <2>2. QED BY <1>1, <2>1 DEF Meant
<1>2. QED BY <1>1, Inductive, AlwaysMeant, PTL

-----------------------------------------------------------------------------
(* The expressions given are documented ones, means is what the documents  *)
(* say of them, and none is one the program takes otherwise for an object. *)
Estimate(o) ==
  IF flags.estimate /\ EstimateCost(Attr[o]) # NoEstimate THEN Limit(EstimateCost(Attr[o])) ELSE NoLimit
AsDocumented(C) ==
  \E xs \in Seq(Expression(C)) :
    /\ \A j \in DOMAIN xs : Shaped(xs[j]) /\ \A o \in Objects : ~Misread(xs[j], Attr[o], Estimate(o))
    /\ Given = [j \in DOMAIN xs |-> <<xs[j].flag, Written(xs[j])>>]
    /\ flags.means.valid <=> \A j \in DOMAIN xs : Valid(xs[j])
    /\ flags.means.valid => flags.means.keeps =
         {o \in Objects : \A j \in DOMAIN xs : Means(xs[j], Attr[o], Estimate(o))}

LEMMA DocumentedMean ==
  ASSUME NEW C, AsDocumented(C)
  PROVE  FiltersMean
<1>1. PICK E : E = Expression(C)
  OBVIOUS
<1>2. PICK xs \in Seq(E) :
        /\ \A j \in DOMAIN xs : Shaped(xs[j]) /\ \A o \in Objects : ~Misread(xs[j], Attr[o], Estimate(o))
        /\ Given = [j \in DOMAIN xs |-> <<xs[j].flag, Written(xs[j])>>]
        /\ flags.means.valid <=> \A j \in DOMAIN xs : Valid(xs[j])
        /\ flags.means.valid => flags.means.keeps =
             {o \in Objects : \A j \in DOMAIN xs : Means(xs[j], Attr[o], Estimate(o))}
  BY <1>1 DEF AsDocumented
<1>3. \A j \in DOMAIN xs : xs[j] \in E
  BY <1>2
<1> DEFINE parsed == [j \in DOMAIN Given |-> Parse(Given[j][1], Given[j][2])]
<1>4. /\ DOMAIN Given = DOMAIN xs
      /\ \A j \in DOMAIN xs : Given[j][1] = xs[j].flag /\ Given[j][2] = Written(xs[j])
  BY <1>2
<1>5. /\ DOMAIN parsed = DOMAIN xs
      /\ \A j \in DOMAIN xs : parsed[j] = Parse(xs[j].flag, Written(xs[j]))
  BY <1>4
<1> HIDE DEF parsed
<1>6. ASSUME NEW j \in DOMAIN xs
      PROVE  /\ parsed[j] # Error <=> Valid(xs[j])
             /\ Valid(xs[j]) => \A o \in Objects :
                  Apply(parsed[j], Attr[o]) <=> Means(xs[j], Attr[o], Estimate(o))
  <2>1. PICK x \in Expression(C) : x = xs[j]
    BY <1>1, <1>3, <1>6
  <2>2. Shaped(x) /\ \A o \in Objects : ~Misread(x, Attr[o], Estimate(o))
    BY <1>2, <1>6, <2>1
  <2>3. /\ Parse(x.flag, Written(x)) # Error <=> Valid(x)
        /\ Valid(x) => \A res, estimate : (HasInstants(res) /\ ~Misread(x, res, estimate)) =>
             (Apply(Parse(x.flag, Written(x)), res) <=> Means(x, res, estimate))
    BY <2>2, Documented
  <2>4. parsed[j] = Parse(x.flag, Written(x))
    BY <1>5, <1>6, <2>1
  <2>5. \A o \in Objects : HasInstants(Attr[o])
    BY InspectAssumption DEF HasInstants
  <2>6. ASSUME Valid(x), NEW o \in Objects
        PROVE  Apply(Parse(x.flag, Written(x)), Attr[o]) <=> Means(x, Attr[o], Estimate(o))
    BY <2>2, <2>3, <2>5, <2>6
  <2> QED BY <2>1, <2>3, <2>4, <2>6
<1>7. (\A j \in DOMAIN parsed : parsed[j] # Error) <=> flags.means.valid
  BY <1>2, <1>5, <1>6
<1>8. ASSUME flags.means.valid, NEW o \in Objects
      PROVE  ApplyAll(parsed, Attr[o]) <=> o \in flags.means.keeps
  <2>1. ApplyAll(parsed, Attr[o]) <=> \A j \in DOMAIN xs : Apply(parsed[j], Attr[o])
    BY <1>5 DEF ApplyAll
  <2>2. \A j \in DOMAIN xs : Apply(parsed[j], Attr[o]) <=> Means(xs[j], Attr[o], Estimate(o))
    BY <1>2, <1>6, <1>8
  <2>3. o \in flags.means.keeps <=> \A j \in DOMAIN xs : Means(xs[j], Attr[o], Estimate(o))
    BY <1>2, <1>8
  <2> QED BY <2>1, <2>2, <2>3
<1> QED BY <1>7, <1>8 DEF FiltersMean, parsed

LEMMA StaysDocumented ==
  ASSUME NEW C, AsDocumented(C), [Next]_vars
  PROVE  AsDocumented(C)'
BY NextInput, InputFixed DEF AsDocumented, Estimate

\* No documented expression is parsed or applied as another, for any combination
\* of them without a misread one, of any keys, values and bounds, any resources
\* and any estimates.
THEOREM FiltersMeanWhatIsDocumented ==
  ASSUME NEW C
  PROVE  Spec /\ AsDocumented(C) => []FiltersMean
<1>1. AsDocumented(C) => FiltersMean
  BY DocumentedMean
<1>2. AsDocumented(C) /\ [Next]_vars => AsDocumented(C)'
  BY StaysDocumented
<1> QED BY <1>1, <1>2, PTL DEF Spec

\* With such expressions, what is exported is everything the providers have and
\* the documents say the expressions select.
THEOREM ExportsWhatIsDocumented ==
  ASSUME NEW C
  PROVE  Spec /\ AsDocumented(C) => []ExportIsTheScan /\ []FileSurvives
<1>1. AsDocumented(C) => FiltersMean
  BY DocumentedMean
<1> QED BY <1>1, Exports, PreviousSurvives, PTL
==============================================================================
