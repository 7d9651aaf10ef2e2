--------------------------- MODULE Collection_proofs ---------------------------
(***************************************************************************)
(* What Add keeps: whatever the resources and the order they are added in, *)
(* the counts stay those of the resources, and the cost sums those of      *)
(* their costs.                                                            *)
(***************************************************************************)
EXTENDS Collection, SequenceInduction, FiniteSetTheorems

-----------------------------------------------------------------------------
(* Types.                                                                  *)

SummaryType ==
  [present : BOOLEAN, total : Int, byProvider : [ProviderNames -> Int],
   byRegion : [Regions -> Int], byType : [Types -> Int], byTag : [Tags -> Int]]
MetadataType ==
  [totalCount : Int, byType : [Types -> Int], byProvider : [ProviderNames -> Int],
   byAccount : [Accounts -> Int], byRegion : [Regions -> Int],
   byTypeAndRegion : [Regions \X Types -> Int], totalCost : SummaryType]
CollectionType == [resources : Seq(Objects), metadata : MetadataType]

\* A count goes up at one key.
LEMMA PlusAt ==
  ASSUME NEW S, NEW f \in [S -> Int], NEW x \in S, NEW n \in Int
  PROVE  /\ Plus(f, x, n) \in [S -> Int]
         /\ \A y \in S : Plus(f, x, n)[y] = IF y = x THEN f[y] + n ELSE f[y]
BY DEF Plus

LEMMA PlusIfAt ==
  ASSUME NEW S, None \notin S, NEW f \in [S -> Int], NEW x \in S \cup {None}, NEW n \in Int
  PROVE  /\ PlusIf(f, x, n) \in [S -> Int]
         /\ \A y \in S : PlusIf(f, x, n)[y] = IF y = x THEN f[y] + n ELSE f[y]
BY PlusAt DEF PlusIf

\* The fields of an object.
LEMMA ObjectFields ==
  ASSUME NEW o \in Objects
  PROVE  /\ Attr[o].type \in Types /\ Attr[o].provider \in ProviderNames
         /\ Attr[o].account \in Accounts \cup {None}
         /\ Attr[o].region \in Regions \cup {None}
         /\ None \notin Accounts /\ None \notin Regions
BY AttrAssumption

LEMMA NewType == NewCollection \in CollectionType
<1>1. \A S : Zero(S) \in [S -> Int]
  BY DEF Zero
<1>2. NoSummary \in SummaryType
  BY <1>1 DEF NoSummary, SummaryType
<1>3. NewMetadata \in MetadataType
  BY <1>1, <1>2 DEF NewMetadata, MetadataType
<1>4. QED BY <1>3 DEF NewCollection, CollectionType

\* What CountIn does to each field.
LEMMA CountInFields ==
  ASSUME NEW md \in MetadataType, NEW o \in Objects
  PROVE  LET a == Attr[o]
             new == CountIn(md, o) IN
         /\ new \in MetadataType
         /\ new.totalCount = md.totalCount + 1
         /\ new.byType = Plus(md.byType, a.type, 1)
         /\ new.byProvider = Plus(md.byProvider, a.provider, 1)
         /\ new.byAccount = PlusIf(md.byAccount, a.account, 1)
         /\ new.byRegion = PlusIf(md.byRegion, a.region, 1)
         /\ new.byTypeAndRegion = IF a.region = None THEN md.byTypeAndRegion
                                  ELSE Plus(md.byTypeAndRegion, <<a.region, a.type>>, 1)
         /\ new.totalCost = md.totalCost
<1> DEFINE a == Attr[o]
           new == CountIn(md, o)
<1>1. /\ new.totalCount = md.totalCount + 1
      /\ new.byType = Plus(md.byType, a.type, 1)
      /\ new.byProvider = Plus(md.byProvider, a.provider, 1)
      /\ new.byAccount = PlusIf(md.byAccount, a.account, 1)
      /\ new.byRegion = PlusIf(md.byRegion, a.region, 1)
      /\ new.byTypeAndRegion = IF a.region = None THEN md.byTypeAndRegion
                               ELSE Plus(md.byTypeAndRegion, <<a.region, a.type>>, 1)
      /\ new.totalCost = md.totalCost
  BY DEF CountIn, MetadataType
<1>2. /\ md.totalCount \in Int /\ md.totalCost \in SummaryType
      /\ md.byTypeAndRegion \in [Regions \X Types -> Int]
  BY DEF MetadataType
<1>3. new.byType \in [Types -> Int]
  <2>1. md.byType \in [Types -> Int] /\ a.type \in Types
    BY ObjectFields DEF MetadataType
  <2>2. Plus(md.byType, a.type, 1) \in [Types -> Int]
    BY <2>1, PlusAt
  <2>3. QED BY <1>1, <2>2
<1>4. new.byProvider \in [ProviderNames -> Int]
  <2>1. md.byProvider \in [ProviderNames -> Int] /\ a.provider \in ProviderNames
    BY ObjectFields DEF MetadataType
  <2>2. Plus(md.byProvider, a.provider, 1) \in [ProviderNames -> Int]
    BY <2>1, PlusAt
  <2>3. QED BY <1>1, <2>2
<1>5. new.byAccount \in [Accounts -> Int] /\ new.byRegion \in [Regions -> Int]
  <2>1. md.byAccount \in [Accounts -> Int] /\ a.account \in Accounts \cup {None}
          /\ None \notin Accounts
    BY ObjectFields DEF MetadataType
  <2>2. PlusIf(md.byAccount, a.account, 1) \in [Accounts -> Int]
    BY <2>1, PlusIfAt
  <2>3. md.byRegion \in [Regions -> Int] /\ a.region \in Regions \cup {None}
          /\ None \notin Regions
    BY ObjectFields DEF MetadataType
  <2>4. PlusIf(md.byRegion, a.region, 1) \in [Regions -> Int]
    BY <2>3, PlusIfAt
  <2>5. QED BY <1>1, <2>2, <2>4
<1>6. new.byTypeAndRegion \in [Regions \X Types -> Int]
  <2>1. CASE a.region = None
    BY <1>1, <1>2, <2>1
  <2>2. CASE a.region # None
    <3> DEFINE Keys == Regions \X Types
               key == <<a.region, a.type>>
    <3>1. key \in Keys /\ md.byTypeAndRegion \in [Keys -> Int]
      BY <1>2, <2>2, ObjectFields
    <3>2. new.byTypeAndRegion = Plus(md.byTypeAndRegion, key, 1)
      BY <1>1, <2>2
    <3> HIDE DEF Keys, key
    <3>3. Plus(md.byTypeAndRegion, key, 1) \in [Keys -> Int]
      BY <3>1, PlusAt
    <3>4. QED BY <3>2, <3>3 DEF Keys
  <2>3. QED BY <2>1, <2>2
<1>7. new \in MetadataType
  <2>1. new = [md EXCEPT !.totalCount = new.totalCount, !.byType = new.byType,
                         !.byProvider = new.byProvider, !.byAccount = new.byAccount,
                         !.byRegion = new.byRegion,
                         !.byTypeAndRegion = new.byTypeAndRegion]
    BY DEF CountIn, MetadataType
  <2>2. new.totalCount \in Int
    BY <1>1, <1>2
  <2> DEFINE n == new.totalCount
             t == new.byType
             p == new.byProvider
             x == new.byAccount
             r == new.byRegion
             b == new.byTypeAndRegion
  <2>3. new = [md EXCEPT !.totalCount = n, !.byType = t, !.byProvider = p,
                         !.byAccount = x, !.byRegion = r, !.byTypeAndRegion = b]
    BY <2>1
  <2>4. /\ n \in Int /\ t \in [Types -> Int] /\ p \in [ProviderNames -> Int]
        /\ x \in [Accounts -> Int] /\ r \in [Regions -> Int]
        /\ b \in [Regions \X Types -> Int]
    BY <1>3, <1>4, <1>5, <1>6, <2>2
  <2> HIDE DEF n, t, p, x, r, b, new
  <2>5. [md EXCEPT !.totalCount = n, !.byType = t, !.byProvider = p,
                   !.byAccount = x, !.byRegion = r, !.byTypeAndRegion = b] \in MetadataType
    BY <2>4 DEF MetadataType
  <2>6. QED BY <2>3, <2>5
<1>8. QED BY <1>1, <1>7

LEMMA SummaryTyped ==
  ASSUME NEW s \in SummaryType, NEW o \in Objects, NEW n \in Int
  PROVE  UpdateCostMetadata(s, o, n) \in SummaryType
<1> DEFINE a == Attr[o]
<1>1. /\ s.total + n \in Int
      /\ Plus(s.byProvider, a.provider, n) \in [ProviderNames -> Int]
      /\ PlusIf(s.byRegion, a.region, n) \in [Regions -> Int]
      /\ Plus(s.byType, a.type, n) \in [Types -> Int]
  <2>1. s.total + n \in Int
    BY DEF SummaryType
  <2>2. s.byProvider \in [ProviderNames -> Int] /\ a.provider \in ProviderNames
    BY ObjectFields DEF SummaryType
  <2>3. Plus(s.byProvider, a.provider, n) \in [ProviderNames -> Int]
    BY <2>2, PlusAt
  <2>4. s.byType \in [Types -> Int] /\ a.type \in Types
    BY ObjectFields DEF SummaryType
  <2>5. Plus(s.byType, a.type, n) \in [Types -> Int]
    BY <2>4, PlusAt
  <2>6. /\ s.byRegion \in [Regions -> Int] /\ a.region \in Regions \cup {None}
        /\ None \notin Regions
    BY ObjectFields DEF SummaryType
  <2>7. PlusIf(s.byRegion, a.region, n) \in [Regions -> Int]
    BY <2>6, PlusIfAt
  <2>8. QED BY <2>1, <2>3, <2>5, <2>7
<1>2. [t \in Tags |-> s.byTag[t] + IF t \in TagsOf(o) THEN n ELSE 0] \in [Tags -> Int]
  BY DEF SummaryType
<1>3. QED BY <1>1, <1>2 DEF UpdateCostMetadata, SummaryType

\* What CostIn does.
LEMMA CostInFields ==
  ASSUME NEW md \in MetadataType, NEW o \in Objects, NEW n \in Int
  PROVE  LET new == CostIn(md, o, n) IN
         /\ new \in MetadataType
         /\ new.totalCount = md.totalCount /\ new.byType = md.byType
         /\ new.byProvider = md.byProvider /\ new.byAccount = md.byAccount
         /\ new.byRegion = md.byRegion /\ new.byTypeAndRegion = md.byTypeAndRegion
         /\ new.totalCost = IF n > 0 THEN UpdateCostMetadata(md.totalCost, o, n)
                            ELSE md.totalCost
<1>1. md.totalCost \in SummaryType
  BY DEF MetadataType
<1>2. UpdateCostMetadata(md.totalCost, o, n) \in SummaryType
  BY <1>1, SummaryTyped
<1>3. QED BY <1>2 DEF CostIn, MetadataType

\* What Add does.
LEMMA AddFields ==
  ASSUME NEW c \in CollectionType, NEW o \in Objects, NEW n \in Int
  PROVE  LET a == Attr[o]
             md == c.metadata
             new == Add(c, o, n) IN
         /\ new \in CollectionType
         /\ new.resources = Append(c.resources, o)
         /\ new.metadata.totalCount = md.totalCount + 1
         /\ new.metadata.byType = Plus(md.byType, a.type, 1)
         /\ new.metadata.byProvider = Plus(md.byProvider, a.provider, 1)
         /\ new.metadata.byAccount = PlusIf(md.byAccount, a.account, 1)
         /\ new.metadata.byRegion = PlusIf(md.byRegion, a.region, 1)
         /\ new.metadata.byTypeAndRegion =
              IF a.region = None THEN md.byTypeAndRegion
              ELSE Plus(md.byTypeAndRegion, <<a.region, a.type>>, 1)
         /\ new.metadata.totalCost =
              IF n > 0 THEN UpdateCostMetadata(md.totalCost, o, n) ELSE md.totalCost
<1>1. c.resources \in Seq(Objects) /\ c.metadata \in MetadataType
  BY DEF CollectionType
<1>2. Append(c.resources, o) \in Seq(Objects)
  BY <1>1
<1> DEFINE counted == CountIn(c.metadata, o)
<1>3. counted \in MetadataType
  BY <1>1, CountInFields
<1> HIDE DEF counted
<1>4. CostIn(counted, o, n) \in MetadataType
  BY <1>3, CostInFields
<1>5. Add(c, o, n) \in CollectionType
  BY <1>2, <1>4 DEF Add, CollectionType, counted
<1>6. /\ Add(c, o, n).resources = Append(c.resources, o)
      /\ Add(c, o, n).metadata = CostIn(counted, o, n)
  BY DEF Add, counted
<1>7. /\ counted.totalCount = c.metadata.totalCount + 1
      /\ counted.byType = Plus(c.metadata.byType, Attr[o].type, 1)
      /\ counted.byProvider = Plus(c.metadata.byProvider, Attr[o].provider, 1)
      /\ counted.byAccount = PlusIf(c.metadata.byAccount, Attr[o].account, 1)
      /\ counted.byRegion = PlusIf(c.metadata.byRegion, Attr[o].region, 1)
      /\ counted.byTypeAndRegion =
           IF Attr[o].region = None THEN c.metadata.byTypeAndRegion
           ELSE Plus(c.metadata.byTypeAndRegion, <<Attr[o].region, Attr[o].type>>, 1)
      /\ counted.totalCost = c.metadata.totalCost
  BY <1>1, CountInFields DEF counted
<1> DEFINE last == CostIn(counted, o, n)
<1>8. /\ last.totalCount = counted.totalCount /\ last.byType = counted.byType
      /\ last.byProvider = counted.byProvider /\ last.byAccount = counted.byAccount
      /\ last.byRegion = counted.byRegion
      /\ last.byTypeAndRegion = counted.byTypeAndRegion
      /\ last.totalCost = IF n > 0 THEN UpdateCostMetadata(counted.totalCost, o, n)
                          ELSE counted.totalCost
  BY <1>3, CostInFields
<1> HIDE DEF last
<1>9. QED BY <1>5, <1>6, <1>7, <1>8 DEF last

-----------------------------------------------------------------------------
(* Counts.                                                                 *)

CountOf(s, S) == Cardinality({j \in DOMAIN s : s[j] \in S})

LEMMA CountAppend ==
  ASSUME NEW s \in Seq(Objects), NEW o \in Objects, NEW S
  PROVE  /\ CountOf(s, S) \in Int
         /\ CountOf(Append(s, o), S) = IF o \in S THEN CountOf(s, S) + 1 ELSE CountOf(s, S)
<1> DEFINE t == Append(s, o)
           n == Len(s)
           Old == {j \in DOMAIN s : s[j] \in S}
           New == {j \in DOMAIN t : t[j] \in S}
<1>1. /\ n \in Nat /\ DOMAIN s = 1..n /\ DOMAIN t = 1..(n + 1)
      /\ \A j \in 1..n : t[j] = s[j]
      /\ t[n + 1] = o
  OBVIOUS
<1> HIDE DEF t, n
<1>2. 1..(n + 1) = 1..n \cup {n + 1} /\ n + 1 \notin 1..n
  BY <1>1
<1>3. New = IF o \in S THEN Old \cup {n + 1} ELSE Old
  BY <1>1, <1>2
<1>4. IsFiniteSet(Old) /\ n + 1 \notin Old
  <2>1. IsFiniteSet(1..n)
    BY <1>1, FS_Interval
  <2>2. Old \subseteq 1..n
    BY <1>1
  <2>3. QED BY <1>2, <2>1, <2>2, FS_Subset
<1> HIDE DEF Old, New
<1>5. Cardinality(Old) \in Nat /\ Cardinality(Old \cup {n + 1}) = Cardinality(Old) + 1
  BY <1>4, FS_AddElement, FS_CardinalityType
<1>6. CountOf(s, S) = Cardinality(Old) /\ CountOf(t, S) = Cardinality(New)
  BY DEF CountOf, Old, New
<1>7. QED BY <1>3, <1>5, <1>6 DEF t

LEMMA CountNone == ASSUME NEW S PROVE CountOf(<<>>, S) = 0
<1>1. {j \in DOMAIN <<>> : <<>>[j] \in S} = {}
  OBVIOUS
<1>2. QED BY <1>1, FS_EmptySet DEF CountOf

\* The objects of which a field has a value.
With(f, v) == {o \in Objects : Attr[o][f] = v}
WithBoth(r, t) == With("region", r) \cap With("type", t)

Having(s, f, v) == {j \in DOMAIN s : Attr[s[j]][f] = v}
HavingBoth(s, r, t) == {j \in DOMAIN s : Attr[s[j]].region = r /\ Attr[s[j]].type = t}

LEMMA CountsMean ==
  ASSUME NEW c \in CollectionType
  PROVE  LET md == c.metadata
             s == c.resources IN
         CountsMatch(c) <=>
           /\ md.totalCount = Len(s)
           /\ \A t \in Types : md.byType[t] = CountOf(s, With("type", t))
           /\ \A p \in ProviderNames : md.byProvider[p] = CountOf(s, With("provider", p))
           /\ \A a \in Accounts : md.byAccount[a] = CountOf(s, With("account", a))
           /\ \A r \in Regions : md.byRegion[r] = CountOf(s, With("region", r))
           /\ \A r \in Regions, t \in Types :
                md.byTypeAndRegion[<<r, t>>] = CountOf(s, WithBoth(r, t))
<1> DEFINE s == c.resources
<1>1. \A j \in DOMAIN s : s[j] \in Objects
  BY DEF CollectionType
<1>2. \A f, v : Cardinality(Having(s, f, v)) = CountOf(s, With(f, v))
  <2>1. \A f, v : Having(s, f, v) = {j \in DOMAIN s : s[j] \in With(f, v)}
    BY <1>1 DEF With, Having
  <2>2. QED BY <2>1 DEF CountOf
<1>3. \A r, t : Cardinality(HavingBoth(s, r, t)) = CountOf(s, WithBoth(r, t))
  <2>1. \A r, t : HavingBoth(s, r, t) = {j \in DOMAIN s : s[j] \in WithBoth(r, t)}
    BY <1>1 DEF With, WithBoth, HavingBoth
  <2>2. QED BY <2>1 DEF CountOf
<1>4. CountsMatch(c) <=>
        /\ c.metadata.totalCount = Len(s)
        /\ \A t \in Types : c.metadata.byType[t] = Cardinality(Having(s, "type", t))
        /\ \A p \in ProviderNames :
             c.metadata.byProvider[p] = Cardinality(Having(s, "provider", p))
        /\ \A a \in Accounts : c.metadata.byAccount[a] = Cardinality(Having(s, "account", a))
        /\ \A r \in Regions : c.metadata.byRegion[r] = Cardinality(Having(s, "region", r))
        /\ \A r \in Regions, t \in Types :
             c.metadata.byTypeAndRegion[<<r, t>>] = Cardinality(HavingBoth(s, r, t))
  BY DEF CountsMatch, Tally, Having, HavingBoth
<1>5. QED BY <1>2, <1>3, <1>4

LEMMA NewCounts == CountsMatch(NewCollection)
<1>1. /\ NewCollection.resources = <<>>
      /\ NewCollection.metadata.totalCount = 0
      /\ \A t \in Types : NewCollection.metadata.byType[t] = 0
      /\ \A p \in ProviderNames : NewCollection.metadata.byProvider[p] = 0
      /\ \A a \in Accounts : NewCollection.metadata.byAccount[a] = 0
      /\ \A r \in Regions : NewCollection.metadata.byRegion[r] = 0
      /\ \A r \in Regions, t \in Types : NewCollection.metadata.byTypeAndRegion[<<r, t>>] = 0
  BY DEF NewCollection, NewMetadata, Zero
<1>2. Len(<<>>) = 0
  OBVIOUS
<1> HIDE DEF NewCollection
<1>3. QED BY <1>1, <1>2, NewType, CountNone, CountsMean

LEMMA AddCounts ==
  ASSUME NEW c \in CollectionType, NEW o \in Objects, NEW n \in Int, CountsMatch(c)
  PROVE  CountsMatch(Add(c, o, n))
<1> DEFINE a == Attr[o]
           s == c.resources
           md == c.metadata
           d == Add(c, o, n)
           t == d.resources
           new == d.metadata
<1>0. /\ d \in CollectionType /\ t = Append(s, o)
      /\ new.totalCount = md.totalCount + 1
      /\ new.byType = Plus(md.byType, a.type, 1)
      /\ new.byProvider = Plus(md.byProvider, a.provider, 1)
      /\ new.byAccount = PlusIf(md.byAccount, a.account, 1)
      /\ new.byRegion = PlusIf(md.byRegion, a.region, 1)
      /\ new.byTypeAndRegion = IF a.region = None THEN md.byTypeAndRegion
                               ELSE Plus(md.byTypeAndRegion, <<a.region, a.type>>, 1)
  BY AddFields
<1>1. /\ s \in Seq(Objects) /\ Len(Append(s, o)) = Len(s) + 1
      /\ md.byType \in [Types -> Int] /\ md.byProvider \in [ProviderNames -> Int]
      /\ md.byAccount \in [Accounts -> Int] /\ md.byRegion \in [Regions -> Int]
      /\ md.byTypeAndRegion \in [Regions \X Types -> Int]
  <2>1. s \in Seq(Objects) /\ md \in MetadataType
    BY DEF CollectionType
  <2>2. QED BY <2>1 DEF MetadataType
<1>2. /\ md.totalCount = Len(s)
      /\ \A x \in Types : md.byType[x] = CountOf(s, With("type", x))
      /\ \A p \in ProviderNames : md.byProvider[p] = CountOf(s, With("provider", p))
      /\ \A x \in Accounts : md.byAccount[x] = CountOf(s, With("account", x))
      /\ \A r \in Regions : md.byRegion[r] = CountOf(s, With("region", r))
      /\ \A r \in Regions, x \in Types :
           md.byTypeAndRegion[<<r, x>>] = CountOf(s, WithBoth(r, x))
  BY CountsMean
<1>3. /\ a.type \in Types /\ a.provider \in ProviderNames
      /\ a.account \in Accounts \cup {None} /\ a.region \in Regions \cup {None}
      /\ None \notin Accounts /\ None \notin Regions
  BY ObjectFields
<1> HIDE DEF d, t, new, s, md
<1>4. \A S : CountOf(t, S) = IF o \in S THEN CountOf(s, S) + 1 ELSE CountOf(s, S)
  BY <1>0, <1>1, CountAppend
<1>5. new.totalCount = Len(t)
  BY <1>0, <1>1, <1>2
<1>6. \A x \in Types : new.byType[x] = CountOf(t, With("type", x))
  <2>1. \A x \in Types : new.byType[x] = IF x = a.type THEN md.byType[x] + 1 ELSE md.byType[x]
    <3>1. /\ md.byType \in [Types -> Int]
          /\ a.type \in Types
      BY <1>1, <1>3
    <3>2. new.byType = Plus(md.byType, a.type, 1)
      BY <1>0
    <3>3. QED BY <3>1, <3>2, PlusAt
  <2>2. \A x : o \in With("type", x) <=> x = a.type
    BY DEF With
  <2>3. QED BY <1>2, <1>4, <2>1, <2>2
<1>7. \A x \in ProviderNames : new.byProvider[x] = CountOf(t, With("provider", x))
  <2>1. \A x \in ProviderNames :
          new.byProvider[x] = IF x = a.provider THEN md.byProvider[x] + 1 ELSE md.byProvider[x]
    <3>1. /\ md.byProvider \in [ProviderNames -> Int]
          /\ a.provider \in ProviderNames
      BY <1>1, <1>3
    <3>2. new.byProvider = Plus(md.byProvider, a.provider, 1)
      BY <1>0
    <3>3. QED BY <3>1, <3>2, PlusAt
  <2>2. \A x : o \in With("provider", x) <=> x = a.provider
    BY DEF With
  <2>3. QED BY <1>2, <1>4, <2>1, <2>2
<1>8. \A x \in Accounts : new.byAccount[x] = CountOf(t, With("account", x))
  <2>1. \A x \in Accounts :
          new.byAccount[x] = IF x = a.account THEN md.byAccount[x] + 1 ELSE md.byAccount[x]
    <3>1. /\ md.byAccount \in [Accounts -> Int]
          /\ a.account \in Accounts \cup {None} /\ None \notin Accounts
      BY <1>1, <1>3
    <3>2. new.byAccount = PlusIf(md.byAccount, a.account, 1)
      BY <1>0
    <3>3. QED BY <3>1, <3>2, PlusIfAt
  <2>2. \A x : o \in With("account", x) <=> x = a.account
    BY DEF With
  <2>3. QED BY <1>2, <1>4, <2>1, <2>2
<1>9. \A x \in Regions : new.byRegion[x] = CountOf(t, With("region", x))
  <2>1. \A x \in Regions :
          new.byRegion[x] = IF x = a.region THEN md.byRegion[x] + 1 ELSE md.byRegion[x]
    <3>1. /\ md.byRegion \in [Regions -> Int]
          /\ a.region \in Regions \cup {None} /\ None \notin Regions
      BY <1>1, <1>3
    <3>2. new.byRegion = PlusIf(md.byRegion, a.region, 1)
      BY <1>0
    <3>3. QED BY <3>1, <3>2, PlusIfAt
  <2>2. \A x : o \in With("region", x) <=> x = a.region
    BY DEF With
  <2>3. QED BY <1>2, <1>4, <2>1, <2>2
<1>10. \A r \in Regions, x \in Types :
         new.byTypeAndRegion[<<r, x>>] = CountOf(t, WithBoth(r, x))
  <2>1. SUFFICES ASSUME NEW r \in Regions, NEW x \in Types
                 PROVE  new.byTypeAndRegion[<<r, x>>] = CountOf(t, WithBoth(r, x))
    OBVIOUS
  <2>2. o \in WithBoth(r, x) <=> r = a.region /\ x = a.type
    BY DEF With, WithBoth
  <2>3. <<r, x>> \in Regions \X Types
    OBVIOUS
  <2>4. new.byTypeAndRegion[<<r, x>>] =
          IF r = a.region /\ x = a.type THEN md.byTypeAndRegion[<<r, x>>] + 1
          ELSE md.byTypeAndRegion[<<r, x>>]
    <3>1. CASE a.region = None
      <4>1. r # a.region /\ new.byTypeAndRegion = md.byTypeAndRegion
        BY <1>0, <1>3, <3>1
      <4>2. md.byTypeAndRegion[<<r, x>>] \in Int
        BY <1>1, <2>3
      <4>3. QED BY <4>1, <4>2
    <3>2. CASE a.region # None
      <4>1. new.byTypeAndRegion = Plus(md.byTypeAndRegion, <<a.region, a.type>>, 1)
        BY <1>0, <3>2
      <4>2. <<r, x>> = <<a.region, a.type>> <=> r = a.region /\ x = a.type
        OBVIOUS
      <4> DEFINE Keys == Regions \X Types
                 key == <<a.region, a.type>>
                 at == <<r, x>>
      <4>3. /\ key \in Keys /\ at \in Keys /\ md.byTypeAndRegion \in [Keys -> Int]
            /\ new.byTypeAndRegion = Plus(md.byTypeAndRegion, key, 1)
        BY <1>1, <1>3, <3>2, <4>1
      <4> HIDE DEF Keys, key, at
      <4>4. new.byTypeAndRegion[at] = IF at = key THEN md.byTypeAndRegion[at] + 1
                                      ELSE md.byTypeAndRegion[at]
        BY <4>3, PlusAt
      <4>5. QED BY <4>2, <4>4 DEF key, at
    <3>3. QED BY <3>1, <3>2
  <2>5. QED BY <1>2, <1>4, <2>2, <2>4
<1>11. QED
  <2>1. CountsMatch(d)
    BY <1>0, <1>5, <1>6, <1>7, <1>8, <1>9, <1>10, CountsMean DEF t, new
  <2>2. QED BY <2>1 DEF d

-----------------------------------------------------------------------------
(* Costs.                                                                  *)

\* The partial sums of a sequence, the last one its SumOver.
Summing(s, number, g) ==
  /\ g \in [0..Len(s) -> Int]
  /\ g[0] = 0
  /\ \A n \in 1..Len(s) : g[n] = g[n - 1] + number[s[n]]
  /\ SumOver(s, number) = g[Len(s)]

LEMMA SumSteps ==
  ASSUME NEW s \in Seq(Objects), NEW number \in [Objects -> Int]
  PROVE  \E g : Summing(s, number, g)
<1> DEFINE m == Len(s)
           term == [n \in 1..m |-> number[s[n]]]
           step == [n \in Nat |-> [x \in Int |-> IF n \in 1..m THEN x + term[n] ELSE 0]]
           Def(f) == [n \in 0..m |-> IF n = 0 THEN 0 ELSE f[n - 1] + number[s[n]]]
           upTo == CHOOSE f : f = Def(f)
<1>1. m \in Nat /\ \A n \in 1..m : s[n] \in Objects
  OBVIOUS
<1> HIDE DEF m
<1>2. \A n \in 1..m : term[n] \in Int /\ term[n] = number[s[n]]
  BY <1>1
<1> HIDE DEF term
<1>3. step \in [Nat -> [Int -> Int]] /\ \A n \in 1..m, x \in Int : step[n][x] = x + term[n]
  <2>1. ASSUME NEW n \in Nat
        PROVE  [x \in Int |-> IF n \in 1..m THEN x + term[n] ELSE 0] \in [Int -> Int]
    BY <1>2
  <2>2. QED BY <1>1, <2>1
<1> HIDE DEF step
<1>4. PICK g : Unfolding(Int, 0, step, m, g)
  <2>1. 0 \in Int
    OBVIOUS
  <2>2. QED BY <1>1, <1>3, <2>1, SetRecursion
<1>5. /\ g \in [0..m -> Int] /\ g[0] = 0
      /\ \A n \in 1..m : g[n] = g[n - 1] + term[n]
  <2>1. /\ g \in [0..m -> Int] /\ g[0] = 0
        /\ \A n \in 1..m : g[n] = step[n][g[n - 1]]
    BY <1>4 DEF Unfolding
  <2>2. \A n \in 1..m : n - 1 \in 0..m
    BY <1>1
  <2>3. QED BY <1>3, <2>1, <2>2
<1>6. g = Def(g)
  <2>1. ASSUME NEW n \in 0..m PROVE g[n] = IF n = 0 THEN 0 ELSE g[n - 1] + number[s[n]]
    <3>1. n # 0 => n \in 1..m
      BY <1>1
    <3>2. QED BY <1>2, <1>5, <3>1
  <2>2. QED BY <1>5, <2>1
<1>7. upTo = Def(upTo)
  BY <1>6
<1>8. \A n \in 0..m : upTo[n] = IF n = 0 THEN 0 ELSE upTo[n - 1] + number[s[n]]
  <2> HIDE DEF upTo
  <2>1. PICK h : h = upTo
    OBVIOUS
  <2>2. h = [n \in 0..m |-> IF n = 0 THEN 0 ELSE h[n - 1] + number[s[n]]]
    BY <1>7, <2>1
  <2>3. QED BY <2>1, <2>2
<1>9. SumOver(s, number) = upTo[m]
  BY DEF SumOver, m, upTo, Def
<1> HIDE DEF upTo, Def
<1>10. \A n \in 0..m : g[n] = upTo[n]
  <2>1. g[0] = upTo[0]
    BY <1>1, <1>5, <1>8
  <2>2. ASSUME NEW n \in 1..m, g[n - 1] = upTo[n - 1] PROVE g[n] = upTo[n]
    <3>1. n \in 0..m /\ n # 0
      BY <1>1
    <3>2. QED BY <1>2, <1>5, <1>8, <2>2, <3>1
  <2>3. PICK k, u, v : k = m /\ u = g /\ v = upTo
    OBVIOUS
  <2>4. k \in Nat /\ u[0] = v[0] /\ \A n \in 1..k : u[n - 1] = v[n - 1] => u[n] = v[n]
    BY <1>1, <2>1, <2>2, <2>3
  <2>5. \A n \in 0..k : u[n] = v[n]
    BY SMTT(40), <2>4, StepsAgree
  <2>6. QED BY <2>3, <2>5
<1>11. Summing(s, number, g)
  <2>1. m \in 0..m
    BY <1>1
  <2>2. SumOver(s, number) = g[m]
    BY <1>9, <1>10, <2>1
  <2>3. QED BY <1>2, <1>5, <2>2 DEF Summing, m
<1>12. QED BY <1>11

LEMMA SumNone == ASSUME NEW number \in [Objects -> Int] PROVE SumOver(<<>>, number) = 0
<1>1. <<>> \in Seq(Objects) /\ Len(<<>>) = 0
  OBVIOUS
<1>2. PICK g : Summing(<<>>, number, g)
  BY <1>1, SumSteps
<1>3. QED BY <1>1, <1>2 DEF Summing

\* One more object adds its number.
LEMMA SumAppend ==
  ASSUME NEW s \in Seq(Objects), NEW number \in [Objects -> Int], NEW o \in Objects
  PROVE  /\ SumOver(s, number) \in Int
         /\ SumOver(Append(s, o), number) = SumOver(s, number) + number[o]
<1> DEFINE m == Len(s)
           t == Append(s, o)
<1>1. /\ m \in Nat /\ t \in Seq(Objects) /\ Len(t) = m + 1 /\ t[m + 1] = o
      /\ \A n \in 1..m : t[n] = s[n]
  OBVIOUS
<1>2. PICK g : Summing(s, number, g)
  BY SumSteps
<1>3. PICK h : Summing(t, number, h)
  BY <1>1, SumSteps
<1> HIDE DEF t
<1>4. g \in [0..m -> Int] /\ SumOver(s, number) = g[m] /\ m \in 0..m
  BY <1>1, <1>2 DEF Summing
<1> HIDE DEF m
<1>5. g[0] = h[0]
  BY <1>2, <1>3 DEF Summing
<1>6. ASSUME NEW n \in 1..m, g[n - 1] = h[n - 1] PROVE g[n] = h[n]
  <2>1. g[n] = g[n - 1] + number[s[n]]
    BY <1>2 DEF Summing, m
  <2>2. n \in 1..(m + 1)
    BY <1>1
  <2>3. h[n] = h[n - 1] + number[t[n]]
    BY <1>1, <1>3, <2>2 DEF Summing
  <2>4. QED BY <1>1, <1>6, <2>1, <2>3
<1>7. g[m] = h[m]
  <2>1. m \in Nat
    BY <1>1
  <2>2. \A n \in 0..m : g[n] = h[n]
    BY ZenonT(40), <1>5, <1>6, <2>1, StepsAgree
  <2>3. QED BY <1>4, <2>2
<1>8. h[m + 1] = h[m] + number[o]
  <2>1. m + 1 \in 1..(m + 1) /\ (m + 1) - 1 = m
    BY <1>1
  <2>2. h[m + 1] = h[(m + 1) - 1] + number[t[m + 1]]
    BY <1>1, <1>3, <2>1 DEF Summing
  <2>3. QED BY <1>1, <2>1, <2>2
<1>9. SumOver(t, number) = h[m + 1]
  BY <1>1, <1>3 DEF Summing
<1>10. QED BY <1>4, <1>7, <1>8, <1>9 DEF t

\* What the objects of a set cost.
Costing(cost, S) == [o \in Objects |-> IF o \in S /\ cost[o] > 0 THEN cost[o] ELSE 0]
Tagged(t) == {o \in Objects : t \in TagsOf(o)}

LEMMA CostingType ==
  ASSUME NEW cost \in [Objects -> Int], NEW S
  PROVE  Costing(cost, S) \in [Objects -> Int]
BY DEF Costing

LEMMA CostsMean ==
  ASSUME NEW c, NEW cost
  PROVE  LET tc == c.metadata.totalCost
             s == c.resources IN
         CostsMatch(c, cost) <=>
           /\ tc.total = SumOver(s, Costing(cost, Objects))
           /\ tc.present <=> \E j \in DOMAIN s : cost[s[j]] > 0
           /\ \A p \in ProviderNames :
                tc.byProvider[p] = SumOver(s, Costing(cost, With("provider", p)))
           /\ \A r \in Regions : tc.byRegion[r] = SumOver(s, Costing(cost, With("region", r)))
           /\ \A t \in Types : tc.byType[t] = SumOver(s, Costing(cost, With("type", t)))
           /\ \A t \in Tags : tc.byTag[t] = SumOver(s, Costing(cost, Tagged(t)))
<1> DEFINE Price(o) == cost[o]
           Where(f, v) == [o \in Objects |-> IF Attr[o][f] = v /\ cost[o] > 0 THEN cost[o] ELSE 0]
           WhereTag(t) == [o \in Objects |-> IF t \in TagsOf(o) /\ cost[o] > 0 THEN cost[o] ELSE 0]
           Every == [o \in Objects |-> IF TRUE /\ cost[o] > 0 THEN cost[o] ELSE 0]
           s == c.resources
           tc == c.metadata.totalCost
<1>1. \A f, v : Where(f, v) = Costing(cost, With(f, v))
  BY DEF Costing, With
<1>2. \A t : WhereTag(t) = Costing(cost, Tagged(t))
  BY DEF Costing, Tagged
<1>3. Every = Costing(cost, Objects)
  BY DEF Costing
<1>4. CostsMatch(c, cost) <=>
        /\ tc.total = SumOver(s, Every)
        /\ tc.present <=> \E j \in DOMAIN s : cost[s[j]] > 0
        /\ \A p \in ProviderNames : tc.byProvider[p] = SumOver(s, Where("provider", p))
        /\ \A r \in Regions : tc.byRegion[r] = SumOver(s, Where("region", r))
        /\ \A t \in Types : tc.byType[t] = SumOver(s, Where("type", t))
        /\ \A t \in Tags : tc.byTag[t] = SumOver(s, WhereTag(t))
  BY DEF CostsMatch, Total
<1> HIDE DEF Where, WhereTag, Every
<1>5. QED BY <1>1, <1>2, <1>3, <1>4

\* The costs of a collection without resources.
LEMMA NewCosts ==
  ASSUME NEW c, NEW cost \in [Objects -> Int],
         c.resources = <<>>, c.metadata.totalCost = NoSummary
  PROVE  CostsMatch(c, cost)
<1>1. \A S : SumOver(<<>>, Costing(cost, S)) = 0
  BY CostingType, SumNone
<1>2. DOMAIN <<>> = {}
  OBVIOUS
<1>3. /\ NoSummary.total = 0 /\ NoSummary.present = FALSE
      /\ \A p \in ProviderNames : NoSummary.byProvider[p] = 0
      /\ \A r \in Regions : NoSummary.byRegion[r] = 0
      /\ \A t \in Types : NoSummary.byType[t] = 0
      /\ \A t \in Tags : NoSummary.byTag[t] = 0
  BY DEF NoSummary, Zero
<1> HIDE DEF NoSummary
<1>4. QED BY <1>1, <1>2, <1>3, CostsMean

\* What UpdateCostMetadata does to each sum.
LEMMA SummaryFields ==
  ASSUME NEW s \in SummaryType, NEW o \in Objects, NEW n \in Int
  PROVE  LET new == UpdateCostMetadata(s, o, n) IN
         /\ new.present = TRUE /\ new.total = s.total + n
         /\ \A p \in ProviderNames : new.byProvider[p] =
              IF o \in With("provider", p) THEN s.byProvider[p] + n ELSE s.byProvider[p]
         /\ \A r \in Regions : new.byRegion[r] =
              IF o \in With("region", r) THEN s.byRegion[r] + n ELSE s.byRegion[r]
         /\ \A t \in Types : new.byType[t] =
              IF o \in With("type", t) THEN s.byType[t] + n ELSE s.byType[t]
         /\ \A t \in Tags : new.byTag[t] =
              IF o \in Tagged(t) THEN s.byTag[t] + n ELSE s.byTag[t]
<1> DEFINE a == Attr[o]
           new == UpdateCostMetadata(s, o, n)
<1>1. /\ new.present = TRUE /\ new.total = s.total + n
      /\ new.byProvider = Plus(s.byProvider, a.provider, n)
      /\ new.byRegion = PlusIf(s.byRegion, a.region, n)
      /\ new.byType = Plus(s.byType, a.type, n)
      /\ new.byTag = [t \in Tags |-> s.byTag[t] + IF t \in TagsOf(o) THEN n ELSE 0]
  BY DEF UpdateCostMetadata
<1>2. \A f, v : o \in With(f, v) <=> a[f] = v
  BY DEF With
<1> HIDE DEF new
<1>3. \A p \in ProviderNames : new.byProvider[p] =
        IF o \in With("provider", p) THEN s.byProvider[p] + n ELSE s.byProvider[p]
  <2>1. s.byProvider \in [ProviderNames -> Int] /\ a.provider \in ProviderNames
    BY ObjectFields DEF SummaryType
  <2>2. \A p \in ProviderNames : Plus(s.byProvider, a.provider, n)[p] =
          IF p = a.provider THEN s.byProvider[p] + n ELSE s.byProvider[p]
    <3>1. PICK m, x : m = s.byProvider /\ x = a.provider
      OBVIOUS
    <3>2. \A p \in ProviderNames : Plus(m, x, n)[p] = IF p = x THEN m[p] + n ELSE m[p]
      BY SMTT(40), <2>1, <3>1, PlusAt
    <3>3. QED BY <3>1, <3>2
  <2>3. \A p : o \in With("provider", p) <=> p = a.provider
    BY <1>2
  <2>4. new.byProvider = Plus(s.byProvider, a.provider, n)
    BY <1>1
  <2>5. \A p \in ProviderNames : new.byProvider[p] =
          IF p = a.provider THEN s.byProvider[p] + n ELSE s.byProvider[p]
    BY <2>2, <2>4
  <2> HIDE DEF a
  <2>6. QED BY <2>3, <2>5
<1>4. \A r \in Regions : new.byRegion[r] =
        IF o \in With("region", r) THEN s.byRegion[r] + n ELSE s.byRegion[r]
  <2>1. /\ s.byRegion \in [Regions -> Int] /\ a.region \in Regions \cup {None}
        /\ None \notin Regions
    BY ObjectFields DEF SummaryType
  <2>2. \A r \in Regions : PlusIf(s.byRegion, a.region, n)[r] =
          IF r = a.region THEN s.byRegion[r] + n ELSE s.byRegion[r]
    <3>1. PICK m, x : m = s.byRegion /\ x = a.region
      OBVIOUS
    <3>2. \A r \in Regions : PlusIf(m, x, n)[r] = IF r = x THEN m[r] + n ELSE m[r]
      BY SMTT(40), <2>1, <3>1, PlusIfAt
    <3>3. QED BY <3>1, <3>2
  <2>3. \A r : o \in With("region", r) <=> r = a.region
    BY <1>2
  <2>4. QED BY <1>1, <2>2, <2>3
<1>5. \A t \in Types : new.byType[t] =
        IF o \in With("type", t) THEN s.byType[t] + n ELSE s.byType[t]
  <2>1. s.byType \in [Types -> Int] /\ a.type \in Types
    BY ObjectFields DEF SummaryType
  <2>2. \A t \in Types : Plus(s.byType, a.type, n)[t] =
          IF t = a.type THEN s.byType[t] + n ELSE s.byType[t]
    <3>1. PICK m, x : m = s.byType /\ x = a.type
      OBVIOUS
    <3>2. \A t \in Types : Plus(m, x, n)[t] = IF t = x THEN m[t] + n ELSE m[t]
      BY <2>1, <3>1, PlusAt
    <3>3. QED BY <3>1, <3>2
  <2>3. \A t : o \in With("type", t) <=> t = a.type
    BY <1>2
  <2>4. QED BY <1>1, <2>2, <2>3
<1>6. \A t \in Tags : new.byTag[t] =
        IF o \in Tagged(t) THEN s.byTag[t] + n ELSE s.byTag[t]
  <2>1. \A t \in Tags : s.byTag[t] \in Int
    BY DEF SummaryType
  <2>2. \A t : o \in Tagged(t) <=> t \in TagsOf(o)
    BY DEF Tagged
  <2>3. \A t \in Tags : new.byTag[t] = s.byTag[t] + IF t \in TagsOf(o) THEN n ELSE 0
    BY <1>1
  <2>4. QED BY <2>1, <2>2, <2>3
<1>7. QED BY <1>1, <1>3, <1>4, <1>5, <1>6 DEF new

LEMMA AddCosts ==
  ASSUME NEW c \in CollectionType, NEW cost \in [Objects -> Int], NEW o \in Objects,
         CostsMatch(c, cost)
  PROVE  CostsMatch(Add(c, o, cost[o]), cost)
<1> DEFINE n == cost[o]
           s == c.resources
           tc == c.metadata.totalCost
           d == Add(c, o, n)
           t == d.resources
           new == d.metadata.totalCost
<1>1. /\ s \in Seq(Objects) /\ tc \in SummaryType /\ n \in Int
      /\ t = Append(s, o)
      /\ new = IF n > 0 THEN UpdateCostMetadata(tc, o, n) ELSE tc
  <2>1. s \in Seq(Objects) /\ c.metadata \in MetadataType /\ n \in Int
    BY DEF CollectionType
  <2>2. tc \in SummaryType
    BY <2>1 DEF MetadataType
  <2>3. QED BY <2>1, <2>2, AddFields
<1>2. /\ tc.total = SumOver(s, Costing(cost, Objects))
      /\ tc.present <=> \E j \in DOMAIN s : cost[s[j]] > 0
      /\ \A p \in ProviderNames :
           tc.byProvider[p] = SumOver(s, Costing(cost, With("provider", p)))
      /\ \A r \in Regions : tc.byRegion[r] = SumOver(s, Costing(cost, With("region", r)))
      /\ \A x \in Types : tc.byType[x] = SumOver(s, Costing(cost, With("type", x)))
      /\ \A x \in Tags : tc.byTag[x] = SumOver(s, Costing(cost, Tagged(x)))
  BY CostsMean
<1>3. SUFFICES CostsMatch(d, cost)
  OBVIOUS
<1> HIDE DEF d, t, new, s, tc
<1>4. \A S : SumOver(t, Costing(cost, S)) =
        IF o \in S /\ n > 0 THEN SumOver(s, Costing(cost, S)) + n
        ELSE SumOver(s, Costing(cost, S))
  <2>1. SUFFICES ASSUME NEW S
                 PROVE  SumOver(t, Costing(cost, S)) =
                          IF o \in S /\ n > 0 THEN SumOver(s, Costing(cost, S)) + n
                          ELSE SumOver(s, Costing(cost, S))
    OBVIOUS
  <2> DEFINE number == Costing(cost, S)
  <2>2. number \in [Objects -> Int] /\ number[o] = IF o \in S /\ n > 0 THEN n ELSE 0
    BY CostingType DEF Costing
  <2> HIDE DEF number
  <2>3. SumOver(s, number) \in Int /\ SumOver(t, number) = SumOver(s, number) + number[o]
    BY <1>1, <2>2, SumAppend
  <2>4. SumOver(t, number) = IF o \in S /\ n > 0 THEN SumOver(s, number) + n
                             ELSE SumOver(s, number)
    BY <1>1, <2>2, <2>3
  <2>5. QED BY <2>4 DEF number
<1>5. (\E j \in DOMAIN t : cost[t[j]] > 0) <=> (\E j \in DOMAIN s : cost[s[j]] > 0) \/ n > 0
  <2>1. /\ Len(s) \in Nat /\ DOMAIN s = 1..Len(s) /\ DOMAIN t = 1..(Len(s) + 1)
        /\ \A j \in 1..Len(s) : t[j] = s[j]
        /\ t[Len(s) + 1] = o
    BY <1>1
  <2>2. 1..(Len(s) + 1) = 1..Len(s) \cup {Len(s) + 1}
    BY <2>1
  <2>3. QED BY <2>1, <2>2
<1>6. CASE n > 0
  <2>1. new = UpdateCostMetadata(tc, o, n)
    BY <1>1, <1>6
  <2>2. /\ new.present = TRUE /\ new.total = tc.total + n
        /\ \A p \in ProviderNames : new.byProvider[p] =
             IF o \in With("provider", p) THEN tc.byProvider[p] + n ELSE tc.byProvider[p]
        /\ \A r \in Regions : new.byRegion[r] =
             IF o \in With("region", r) THEN tc.byRegion[r] + n ELSE tc.byRegion[r]
        /\ \A x \in Types : new.byType[x] =
             IF o \in With("type", x) THEN tc.byType[x] + n ELSE tc.byType[x]
        /\ \A x \in Tags : new.byTag[x] =
             IF o \in Tagged(x) THEN tc.byTag[x] + n ELSE tc.byTag[x]
    <3>1. LET u == UpdateCostMetadata(tc, o, n) IN
          /\ u.present = TRUE /\ u.total = tc.total + n
          /\ \A p \in ProviderNames : u.byProvider[p] =
               IF o \in With("provider", p) THEN tc.byProvider[p] + n ELSE tc.byProvider[p]
          /\ \A r \in Regions : u.byRegion[r] =
               IF o \in With("region", r) THEN tc.byRegion[r] + n ELSE tc.byRegion[r]
          /\ \A x \in Types : u.byType[x] =
               IF o \in With("type", x) THEN tc.byType[x] + n ELSE tc.byType[x]
          /\ \A x \in Tags : u.byTag[x] =
               IF o \in Tagged(x) THEN tc.byTag[x] + n ELSE tc.byTag[x]
      BY ZenonT(40), <1>1, SummaryFields
    <3>2. QED BY <2>1, <3>1
  <2>3. /\ new.total = SumOver(t, Costing(cost, Objects))
        /\ new.present <=> \E j \in DOMAIN t : cost[t[j]] > 0
    BY <1>2, <1>4, <1>5, <1>6, <2>2
  <2>4. /\ \A p \in ProviderNames :
             new.byProvider[p] = SumOver(t, Costing(cost, With("provider", p)))
        /\ \A r \in Regions : new.byRegion[r] = SumOver(t, Costing(cost, With("region", r)))
    BY <1>2, <1>4, <1>6, <2>2
  <2>5. /\ \A x \in Types : new.byType[x] = SumOver(t, Costing(cost, With("type", x)))
        /\ \A x \in Tags : new.byTag[x] = SumOver(t, Costing(cost, Tagged(x)))
    BY <1>2, <1>4, <1>6, <2>2
  <2>6. QED BY <2>3, <2>4, <2>5, CostsMean DEF t, new
<1>7. CASE ~(n > 0)
  <2>1. new = tc
    BY <1>1, <1>7
  <2>2. \A S : SumOver(t, Costing(cost, S)) = SumOver(s, Costing(cost, S))
    BY <1>4, <1>7
  <2>3. QED BY <1>2, <1>5, <1>7, <2>1, <2>2, CostsMean DEF t, new
<1>8. QED BY <1>6, <1>7
==============================================================================
