------------------------------ MODULE Collection ------------------------------
(***************************************************************************)
(* resource.Collection: the resources in the order they were added and the *)
(* counts and cost sums that Add keeps beside them.                        *)
(*                                                                         *)
(* A resource is an object of Objects with fixed attributes; its cost is   *)
(* passed to Add because it is set on the object after it was created.     *)
(* Go's missing map entries are 0 here.  Costs are integers; a resource    *)
(* whose Cost is nil has NoCost.                                           *)
(***************************************************************************)
EXTENDS Integers, Sequences, FiniteSets

CONSTANTS
  Objects,         \* the resources there are
  Attr,            \* Attr[o]: its [id, type, provider, account, region, tags]
  Types, ProviderNames, Accounts, Regions,
  Tags             \* pairs of a key and a value

NoCost == -1
None   == "none"                    \* an account or region left empty

TagsOf(o) == {<<t, Attr[o].tags[t]>> : t \in DOMAIN Attr[o].tags}

ASSUME AttrAssumption ==
  /\ \A o \in Objects :
       /\ Attr[o].type \in Types
       /\ Attr[o].provider \in ProviderNames
       /\ Attr[o].account \in Accounts \cup {None}
       /\ Attr[o].region \in Regions \cup {None}
       /\ TagsOf(o) \subseteq Tags
  /\ None \notin Accounts \cup Regions

Zero(S)    == [k \in S |-> 0]
Plus(m, k, n) == [m EXCEPT ![k] = @ + n]

NoSummary == [present |-> FALSE, total |-> 0, byProvider |-> Zero(ProviderNames),
              byRegion |-> Zero(Regions), byType |-> Zero(Types),
              byTag |-> Zero(Tags)]

NewMetadata == [totalCount |-> 0, byType |-> Zero(Types),
                byProvider |-> Zero(ProviderNames), byAccount |-> Zero(Accounts),
                byRegion |-> Zero(Regions),
                byTypeAndRegion |-> Zero(Regions \X Types),
                totalCost |-> NoSummary]

NewCollection == [resources |-> <<>>, metadata |-> NewMetadata]

\* Account and region are counted only when they are set.
PlusIf(m, k, n) == IF k = None THEN m ELSE Plus(m, k, n)

UpdateCostMetadata(s, o, c) ==
  LET a == Attr[o] IN
  [present    |-> TRUE,
   total      |-> s.total + c,
   byProvider |-> Plus(s.byProvider, a.provider, c),
   byRegion   |-> PlusIf(s.byRegion, a.region, c),
   byType     |-> Plus(s.byType, a.type, c),
   byTag      |-> [t \in Tags |-> s.byTag[t] + IF t \in TagsOf(o) THEN c ELSE 0]]

CountIn_NoPair(md, o) ==                 \* mutant: one of the maps forgotten
  LET a == Attr[o] IN
  [md EXCEPT !.totalCount = @ + 1,
             !.byType     = Plus(@, a.type, 1),
             !.byProvider = Plus(@, a.provider, 1),
             !.byAccount  = PlusIf(@, a.account, 1),
             !.byRegion   = PlusIf(@, a.region, 1)]
CountIn(md, o) ==
  LET a == Attr[o] IN
  [md EXCEPT
     !.totalCount = @ + 1,
     !.byType     = Plus(@, a.type, 1),
     !.byProvider = Plus(@, a.provider, 1),
     !.byAccount  = PlusIf(@, a.account, 1),
     !.byRegion   = PlusIf(@, a.region, 1),
     !.byTypeAndRegion = IF a.region = None THEN @
                         ELSE Plus(@, <<a.region, a.type>>, 1)]

CostIn_AnyCost(md, o, cost) ==             \* mutant: nil is added as a number
  [md EXCEPT !.totalCost = UpdateCostMetadata(@, o, cost)]
CostIn(md, o, cost) ==
  IF cost > 0 THEN [md EXCEPT !.totalCost = UpdateCostMetadata(@, o, cost)]
              ELSE md

Add(c, o, cost) ==
  [resources |-> Append(c.resources, o),
   metadata  |-> CostIn(CountIn(c.metadata, o), o, cost)]

-----------------------------------------------------------------------------
(* What the metadata should say of a sequence of resources.                *)

Tally(s, P(_)) == Cardinality({i \in DOMAIN s : P(s[i])})

CountsMatch(c) ==
  LET s  == c.resources
      md == c.metadata
      Field(f, v) == Tally(s, LAMBDA o : Attr[o][f] = v)
  IN  /\ md.totalCount = Len(s)
      /\ \A t \in Types : md.byType[t] = Field("type", t)
      /\ \A p \in ProviderNames : md.byProvider[p] = Field("provider", p)
      /\ \A a \in Accounts : md.byAccount[a] = Field("account", a)
      /\ \A r \in Regions : md.byRegion[r] = Field("region", r)
      /\ \A r \in Regions, t \in Types :
           md.byTypeAndRegion[<<r, t>>] =
             Tally(s, LAMBDA o : Attr[o].region = r /\ Attr[o].type = t)

\* The sum of a number over a sequence of objects.
SumOver(s, number) ==
  LET upTo[n \in 0..Len(s)] == IF n = 0 THEN 0 ELSE upTo[n - 1] + number[s[n]]
  IN  upTo[Len(s)]

Total(s, cost, P(_)) ==
  SumOver(s, [o \in Objects |-> IF P(o) /\ cost[o] > 0 THEN cost[o] ELSE 0])

CostsMatch(c, cost) ==
  LET s  == c.resources
      tc == c.metadata.totalCost
      Field(f, v) == Total(s, cost, LAMBDA o : Attr[o][f] = v)
  IN  /\ tc.total = Total(s, cost, LAMBDA o : TRUE)
      /\ tc.present <=> \E i \in DOMAIN s : cost[s[i]] > 0
      /\ \A p \in ProviderNames : tc.byProvider[p] = Field("provider", p)
      /\ \A r \in Regions : tc.byRegion[r] = Field("region", r)
      /\ \A t \in Types : tc.byType[t] = Field("type", t)
      /\ \A t \in Tags : tc.byTag[t] = Total(s, cost, LAMBDA o : t \in TagsOf(o))
==============================================================================
