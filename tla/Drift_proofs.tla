----------------------------- MODULE Drift_proofs -----------------------------
(***************************************************************************)
(* Proofs about Drift: for every pair of exports and every order of the    *)
(* maps, types and the partition of the IDs; that comparing in the other   *)
(* direction finds the same differences; and that the report lists every   *)
(* property in which the scans differ and nothing else.                    *)
(***************************************************************************)
EXTENDS Drift, FiniteSetTheorems, TLAPS

-----------------------------------------------------------------------------
(* What each stage of the comparison has and has not yet built.            *)
BeforeCompare ==
  pc \notin {"compare", "done"} =>
    /\ added = <<>> /\ modified = <<>> /\ unchanged = <<>>
    /\ total.unchanged = 0
BeforeRemoved ==
  pc \notin {"removed", "compare", "done"} => removed = <<>>
RemovedSoFar ==
  pc = "removed" =>
    /\ todo \subseteq DOMAIN baseIndex
    /\ IdsOf(removed) = (DOMAIN baseIndex \ todo) \ DOMAIN newIndex
    /\ NoIdTwice(removed)
UnchangedKept ==
  /\ who = "cli" => unchanged = <<>>
  /\ who = "ui" /\ pc = "compare" => total.unchanged = 0

IInv ==
  /\ TypeOK
  /\ IsFiniteSet(DOMAIN newIndex)
  /\ BeforeCompare /\ BeforeRemoved /\ RemovedSoFar /\ UnchangedKept
  /\ EveryIdOnce

-----------------------------------------------------------------------------
(* The lists.                                                              *)

\* Appending a resource adds its ID, and a new ID leaves no ID twice.
LEMMA AppendIds ==
  ASSUME NEW S, NEW s \in Seq(S), NEW r \in S
  PROVE  /\ Append(s, r) \in Seq(S)
         /\ Len(Append(s, r)) = Len(s) + 1
         /\ IdsOf(Append(s, r)) = IdsOf(s) \cup {r.id}
         /\ NoIdTwice(s) /\ r.id \notin IdsOf(s) => NoIdTwice(Append(s, r))
<1> DEFINE t == Append(s, r)
<1>1. /\ t \in Seq(S) /\ Len(t) = Len(s) + 1
      /\ DOMAIN s = 1..Len(s) /\ DOMAIN t = 1..(Len(s) + 1) /\ Len(s) \in Nat
      /\ \A j \in 1..Len(s) : t[j] = s[j]
      /\ t[Len(s) + 1] = r
  OBVIOUS
<1> HIDE DEF t
<1>2. IdsOf(t) = IdsOf(s) \cup {r.id}
  <2>1. IdsOf(t) \subseteq IdsOf(s) \cup {r.id}
    BY <1>1 DEF IdsOf
  <2>2. IdsOf(s) \cup {r.id} \subseteq IdsOf(t)
    BY <1>1 DEF IdsOf
  <2>3. QED BY <2>1, <2>2
<1>3. ASSUME NoIdTwice(s), r.id \notin IdsOf(s) PROVE NoIdTwice(t)
  BY <1>1, <1>3 DEF NoIdTwice, IdsOf
<1>4. QED BY <1>1, <1>2, <1>3 DEF t

\* The empty list has no ID.
LEMMA EmptyIds == IdsOf(<<>>) = {} /\ NoIdTwice(<<>>) /\ Len(<<>>) = 0
BY DEF IdsOf, NoIdTwice

\* What is read of an export are resources as they are stored.
LEMMA ReadTypes ==
  ASSUME NEW p \in Pairs, NEW x \in {p[1], p[2]}, x.format \in {"json", "yaml"}
  PROVE  Read(x) \in Seq(Collections)
<1> DEFINE n == Len(x.scan)
<1>1. x.scan \in Seq(Resources)
  BY DriftAssumption
<1>2. n \in Nat /\ DOMAIN x.scan = 1..n /\ \A j \in 1..n : x.scan[j] \in Resources
  BY <1>1
<1> HIDE DEF n
<1>3. \A j \in 1..n : Stored(x.format, x.scan[j]) \in Collections
  BY <1>2 DEF Collections
<1>4. Read(x) = [j \in 1..n |-> Stored(x.format, x.scan[j])]
  BY <1>2 DEF Read
<1>5. QED BY <1>2, <1>3, <1>4

\* Indexing a resource under its ID.
LEMMA IndexOne ==
  ASSUME NEW x, Keyed(x), NEW r \in Collections
  PROVE  /\ DOMAIN Indexed(x, r.id, r) = DOMAIN x \cup {r.id}
         /\ Keyed(Indexed(x, r.id, r))
BY DEF Indexed, Keyed

-----------------------------------------------------------------------------
(* Types.                                                                  *)

LEMMA InitTypes == Init => TypeOK
<1> SUFFICES ASSUME Init PROVE TypeOK
  OBVIOUS
<1>1. \A S : <<>> \in Seq(S)
  OBVIOUS
<1>2. total \in Totals
  BY DEF Init, Totals
<1>3. Keyed(<<>>)
  BY DEF Keyed
<1>4. i \in Nat /\ i >= 1
  <2>1. i = 1
    BY DEF Init
  <2>2. QED BY <2>1
<1>5. QED BY <1>1, <1>2, <1>3, <1>4 DEF Init, TypeOK

\* The difference of two resources of the same ID is one.
LEMMA DiffType ==
  ASSUME TypeOK, NEW id \in DOMAIN baseIndex, id \in DOMAIN newIndex
  PROVE  Diff(id) \in Differences /\ Diff(id).id = id
<1>1. /\ baseIndex[id] \in Collections /\ newIndex[id] \in Collections
      /\ baseIndex[id].id = id /\ who \in {"cli", "ui"}
  BY DEF TypeOK, Keyed
<1>2. Diff(id) \in Differences
  BY <1>1 DEF Diff, Differences
<1>3. Diff(id).id = id
  BY <1>1 DEF Diff, DiffOf
<1>4. QED BY <1>2, <1>3

LEMMA NextTypes == TypeOK /\ [Next]_vars => TypeOK'
<1> SUFFICES ASSUME TypeOK, [Next]_vars PROVE TypeOK'
  OBVIOUS
<1> USE DEF input, report
<1>1. CASE LoadBase
  <2>1. exports[1].format \in {"json", "yaml"} /\ exports \in Pairs
    BY <1>1 DEF LoadBase, Readable, TypeOK
  <2>2. Read(exports[1]) \in Seq(Collections)
    BY <2>1, ReadTypes
  <2>3. QED BY <1>1, <2>2 DEF LoadBase, TypeOK
<1>2. CASE LoadNew
  <2>1. exports[2].format \in {"json", "yaml"} /\ exports \in Pairs
    BY <1>2 DEF LoadNew, Readable, TypeOK
  <2>2. Read(exports[2]) \in Seq(Collections)
    BY <2>1, ReadTypes
  <2>3. QED BY <1>2, <2>2 DEF LoadNew, TypeOK
<1>3. CASE LoadFails
  BY <1>3 DEF LoadFails, TypeOK
<1>4. CASE IndexBase
  <2>0. base \in Seq(Collections) /\ i \in Nat /\ i >= 1 /\ i <= Len(base)
    BY <1>4 DEF IndexBase, TypeOK
  <2>1. base[i] \in Collections
    BY <2>0
  <2>2. /\ baseIndex' = Indexed(baseIndex, base[i].id, base[i])
        /\ pc = "index base"
        /\ UNCHANGED <<who, exports, pc, base, new, newIndex, todo, added,
                       removed, modified, unchanged, total, result>>
    BY <1>4 DEF IndexBase
  <2>3. i' \in Nat /\ i' >= 1
    <3>1. i' = i + 1
      BY <1>4 DEF IndexBase
    <3>2. QED BY <2>0, <3>1
  <2>4. Keyed(baseIndex) /\ Keyed(newIndex) /\ todo \subseteq DOMAIN baseIndex
    BY <2>2 DEF TypeOK
  <2>5. Keyed(baseIndex') /\ DOMAIN baseIndex \subseteq DOMAIN baseIndex'
    BY <2>1, <2>2, <2>4, IndexOne
  <2>6. todo' \subseteq DOMAIN baseIndex'
    BY <2>2, <2>4, <2>5
  <2>7. QED BY <2>2, <2>3, <2>5, <2>6 DEF TypeOK
<1>5. CASE BaseIndexed
  <2>1. /\ pc' = "index new" /\ i' = 1 /\ pc = "index base"
        /\ UNCHANGED <<who, exports, base, new, baseIndex, newIndex, todo, added,
                       removed, modified, unchanged, total, result>>
    BY <1>5 DEF BaseIndexed
  <2>2. i' \in Nat /\ i' >= 1
    <3>1. i' = 1
      BY <1>5 DEF BaseIndexed
    <3>2. QED BY <3>1
  <2>3. QED BY <2>1, <2>2 DEF TypeOK
<1>6. CASE IndexNew
  <2>0. new \in Seq(Collections) /\ i \in Nat /\ i >= 1 /\ i <= Len(new)
    BY <1>6 DEF IndexNew, TypeOK
  <2>1. new[i] \in Collections
    BY <2>0
  <2>2. /\ newIndex' = Indexed(newIndex, new[i].id, new[i])
        /\ pc = "index new"
        /\ UNCHANGED <<who, exports, pc, base, new, baseIndex, todo, added,
                       removed, modified, unchanged, total, result>>
    BY <1>6 DEF IndexNew
  <2>3. i' \in Nat /\ i' >= 1
    <3>1. i' = i + 1
      BY <1>6 DEF IndexNew
    <3>2. QED BY <2>0, <3>1
  <2>4. Keyed(baseIndex) /\ Keyed(newIndex) /\ todo \subseteq DOMAIN baseIndex
    BY <2>2 DEF TypeOK
  <2>5. Keyed(newIndex') /\ DOMAIN newIndex \subseteq DOMAIN newIndex'
    BY <2>1, <2>2, <2>4, IndexOne
  <2>6. todo' \subseteq DOMAIN baseIndex'
    BY <2>2, <2>4, <2>5
  <2>7. QED BY <2>2, <2>3, <2>5, <2>6 DEF TypeOK
<1>7. CASE NewIndexed
  BY <1>7 DEF NewIndexed, TypeOK
<1>8. ASSUME NEW id \in todo, FindRemoved(id) PROVE TypeOK'
  <2>1. id \notin DOMAIN newIndex => baseIndex[id] \in Collections
    BY <1>8 DEF FindRemoved, TypeOK, Keyed
  <2>2. removed' \in Seq(Collections)
    BY <1>8, <2>1 DEF FindRemoved, TypeOK
  <2>3. QED BY <1>8, <2>2 DEF FindRemoved, TypeOK
<1>9. CASE RemovedDone
  BY <1>9 DEF RemovedDone, TypeOK
<1>10. ASSUME NEW id \in todo, FindAdded(id) PROVE TypeOK'
  <2>1. newIndex[id] \in Collections
    BY <1>10 DEF FindAdded, TypeOK, Keyed
  <2>2. added' \in Seq(Collections)
    BY <1>10, <2>1 DEF FindAdded, TypeOK
  <2>3. QED BY <1>10, <2>2 DEF FindAdded, TypeOK
<1>11. ASSUME NEW id \in todo, FindModified(id) PROVE TypeOK'
  <2>1. id \in DOMAIN baseIndex /\ id \in DOMAIN newIndex
    BY <1>11 DEF FindModified, TypeOK
  <2>2. Diff(id) \in Differences
    BY <2>1, DiffType
  <2>3. modified' \in Seq(Differences)
    BY <1>11, <2>2 DEF FindModified, TypeOK
  <2>4. QED BY <1>11, <2>3 DEF FindModified, TypeOK
<1>12. ASSUME NEW id \in todo, FindUnchanged(id) PROVE TypeOK'
  <2>1. newIndex[id] \in Collections
    BY <1>12 DEF FindUnchanged, TypeOK, Keyed
  <2>2. unchanged' \in Seq(Collections)
    <3>1. unchanged \in Seq(Collections) /\ unchanged' \in {unchanged, Append(unchanged, newIndex[id])}
      BY <1>12 DEF FindUnchanged, TypeOK
    <3>2. QED BY <2>1, <3>1
  <2>3. total \in Totals
    BY DEF TypeOK
  <2>4. total' \in Totals
    BY <1>12, <2>3 DEF FindUnchanged, Totals
  <2>5. QED BY <1>12, <2>2, <2>4 DEF FindUnchanged, TypeOK
<1>13. CASE Summarize
  <2>0. /\ added \in Seq(Collections) /\ removed \in Seq(Collections)
        /\ unchanged \in Seq(Collections) /\ modified \in Seq(Differences)
        /\ total \in Totals
    BY DEF TypeOK
  <2>1. /\ Len(added) \in Nat /\ Len(removed) \in Nat /\ Len(modified) \in Nat
        /\ Len(unchanged) \in Nat /\ total.unchanged \in Nat
    BY <2>0 DEF Totals
  <2>2. total' \in Totals
    BY <1>13, <2>1 DEF Summarize, Totals
  <2>3. QED BY <1>13, <2>2 DEF Summarize, TypeOK
<1>14. CASE UNCHANGED vars
  BY <1>14 DEF vars, TypeOK
<1>15. QED
  BY <1>1, <1>2, <1>3, <1>4, <1>5, <1>6, <1>7, <1>8, <1>9, <1>10, <1>11, <1>12,
     <1>13, <1>14 DEF Next, Terminating

-----------------------------------------------------------------------------
(* The partition.                                                          *)

LEMMA InitInv == Init => IInv
<1> SUFFICES ASSUME Init PROVE IInv
  OBVIOUS
<1>1. TypeOK
  BY InitTypes
<1>2. IsFiniteSet(DOMAIN newIndex)
  <2>1. newIndex = <<>>
    BY DEF Init
  <2>2. DOMAIN <<>> = {}
    OBVIOUS
  <2>3. QED BY <2>1, <2>2, FS_EmptySet
<1>3. BeforeCompare /\ BeforeRemoved /\ RemovedSoFar /\ UnchangedKept /\ EveryIdOnce
  BY DEF Init, BeforeCompare, BeforeRemoved, RemovedSoFar, UnchangedKept, EveryIdOnce
<1>4. QED BY <1>1, <1>2, <1>3 DEF IInv

\* Until the second loop ends, nothing it is about changes.
LEMMA EarlySteps ==
  ASSUME IInv, TypeOK',
         LoadBase \/ LoadNew \/ LoadFails \/ IndexBase \/ BaseIndexed \/ IndexNew
  PROVE  IInv'
<1> USE DEF input, report
<1>1. IsFiniteSet(DOMAIN newIndex')
  <2>1. CASE IndexNew
    <3>1. DOMAIN newIndex' = DOMAIN newIndex \cup {new[i].id}
      BY <2>1 DEF IndexNew, Indexed
    <3>2. QED BY <3>1, FS_AddElement DEF IInv
  <2>2. CASE ~IndexNew
    <3>1. newIndex' = newIndex
      BY <2>2 DEF LoadBase, LoadNew, LoadFails, IndexBase, BaseIndexed
    <3>2. QED BY <3>1 DEF IInv
  <2>3. QED BY <2>1, <2>2
<1>2. /\ pc \in {"load base", "load new", "index base", "index new"}
      /\ pc' \in {"load base", "load new", "index base", "index new", "done"}
      /\ pc' = "done" => result' = "error"
      /\ pc' # "done" => result' = result
      /\ UNCHANGED <<who, added, removed, modified, unchanged, total>>
  BY DEF LoadBase, LoadNew, LoadFails, IndexBase, BaseIndexed, IndexNew, TypeOK, IInv
<1>3. BeforeCompare' /\ BeforeRemoved' /\ RemovedSoFar' /\ UnchangedKept'
  BY <1>2 DEF IInv, BeforeCompare, BeforeRemoved, RemovedSoFar, UnchangedKept
<1>4. EveryIdOnce'
  BY <1>2 DEF EveryIdOnce, IInv, TypeOK
<1>5. QED BY <1>1, <1>3, <1>4 DEF IInv

LEMMA NewIndexedInv ==
  ASSUME IInv, TypeOK', NewIndexed PROVE IInv'
<1> USE DEF input, report
<1>1. IsFiniteSet(DOMAIN newIndex') /\ BeforeCompare' /\ BeforeRemoved' /\ UnchangedKept'
  BY DEF IInv, NewIndexed, BeforeCompare, BeforeRemoved, UnchangedKept
<1>2. removed' = <<>> /\ todo' = DOMAIN baseIndex /\ UNCHANGED <<baseIndex, newIndex>>
  BY DEF NewIndexed, IInv, BeforeRemoved
<1>3. IdsOf(removed') = {} /\ NoIdTwice(removed')
  BY <1>2, EmptyIds
<1>4. RemovedSoFar'
  BY <1>2, <1>3 DEF RemovedSoFar
<1>5. EveryIdOnce'
  BY DEF NewIndexed, EveryIdOnce, IInv, TypeOK
<1>6. QED BY <1>1, <1>4, <1>5 DEF IInv

LEMMA FindRemovedInv ==
  ASSUME IInv, TypeOK', NEW id \in todo, FindRemoved(id) PROVE IInv'
<1> USE DEF input, report
<1>1. /\ IsFiniteSet(DOMAIN newIndex') /\ BeforeCompare' /\ BeforeRemoved'
      /\ UnchangedKept' /\ EveryIdOnce'
  BY DEF IInv, FindRemoved, BeforeCompare, BeforeRemoved, UnchangedKept,
         EveryIdOnce, TypeOK
<1>2. /\ pc = "removed" /\ todo \subseteq DOMAIN baseIndex
      /\ IdsOf(removed) = (DOMAIN baseIndex \ todo) \ DOMAIN newIndex
      /\ NoIdTwice(removed) /\ todo' = todo \ {id}
      /\ UNCHANGED <<baseIndex, newIndex>>
  BY DEF FindRemoved, IInv, RemovedSoFar
<1>3. CASE id \in DOMAIN newIndex
  <2>1. removed' = removed
    BY <1>3 DEF FindRemoved
  <2>2. QED BY <1>1, <1>2, <1>3, <2>1 DEF IInv, RemovedSoFar
<1>4. CASE id \notin DOMAIN newIndex
  <2>1. /\ removed' = Append(removed, baseIndex[id])
        /\ removed \in Seq(Collections) /\ baseIndex[id] \in Collections
        /\ baseIndex[id].id = id
    BY <1>2, <1>4 DEF FindRemoved, IInv, TypeOK, Keyed
  <2>2. /\ IdsOf(removed') = IdsOf(removed) \cup {id}
        /\ id \notin IdsOf(removed) => NoIdTwice(removed')
    BY <1>2, <2>1, AppendIds
  <2>3. RemovedSoFar'
    BY <1>2, <1>4, <2>2 DEF RemovedSoFar
  <2>4. QED BY <1>1, <2>3 DEF IInv
<1>5. QED BY <1>3, <1>4

\* The second loop begins.
LEMMA RemovedDoneInv ==
  ASSUME IInv, TypeOK', RemovedDone PROVE IInv'
<1> USE DEF input, report
<1>1. /\ pc = "removed" /\ todo = {} /\ pc' = "compare" /\ todo' = DOMAIN newIndex
      /\ UNCHANGED <<who, baseIndex, newIndex, added, removed, modified, unchanged,
                     total, result>>
  BY DEF RemovedDone
<1>2. /\ added = <<>> /\ modified = <<>> /\ unchanged = <<>> /\ total.unchanged = 0
      /\ IdsOf(removed) = DOMAIN baseIndex \ DOMAIN newIndex
      /\ NoIdTwice(removed)
  BY <1>1 DEF IInv, BeforeCompare, RemovedSoFar
<1>3. Seen' = {} /\ UnchangedCount' = 0
  <2>1. Seen' = {}
    BY <1>1 DEF Seen
  <2>2. UnchangedCount' = 0
    BY <1>1, <1>2, EmptyIds DEF UnchangedCount
  <2>3. QED BY <2>1, <2>2
<1>4. EveryIdOnce'
  <2>1. Cardinality({}) = 0
    BY FS_EmptySet
  <2>2. /\ IdsOf(removed') = DOMAIN baseIndex' \ DOMAIN newIndex'
        /\ IdsOf(added') = {} /\ IdsOf(modified') = {} /\ IdsOf(unchanged') = {}
        /\ NoIdTwice(removed') /\ NoIdTwice(added')
        /\ NoIdTwice(modified') /\ NoIdTwice(unchanged')
    BY <1>1, <1>2, EmptyIds
  <2>3. Len(added') + Len(modified') + UnchangedCount' = Cardinality(Seen')
    BY <1>1, <1>2, <1>3, <2>1, EmptyIds
  <2>4. QED BY <1>3, <2>2, <2>3 DEF EveryIdOnce
<1>5. /\ IsFiniteSet(DOMAIN newIndex') /\ BeforeCompare' /\ BeforeRemoved'
      /\ RemovedSoFar' /\ UnchangedKept'
  BY <1>1, <1>2 DEF IInv, BeforeCompare, BeforeRemoved, RemovedSoFar, UnchangedKept
<1>6. QED BY <1>4, <1>5 DEF IInv

\* Each round of it visits one more ID.
LEMMA Visit ==
  ASSUME IInv, pc = "compare", pc' = "compare",
         NEW id \in todo, todo' = todo \ {id}, newIndex' = newIndex
  PROVE  /\ id \notin Seen /\ Seen' = Seen \cup {id} /\ id \in DOMAIN newIndex
         /\ Cardinality(Seen) \in Nat
         /\ Cardinality(Seen') = Cardinality(Seen) + 1
<1>1. id \in DOMAIN newIndex /\ todo \subseteq DOMAIN newIndex
  BY DEF IInv, TypeOK
<1>2. Seen = DOMAIN newIndex \ todo /\ Seen' = DOMAIN newIndex \ (todo \ {id})
  BY DEF Seen
<1>3. id \notin Seen /\ Seen' = Seen \cup {id}
  BY <1>1, <1>2
<1>4. IsFiniteSet(Seen)
  BY <1>2, FS_Subset DEF IInv
<1>5. /\ Cardinality(Seen) \in Nat
      /\ Cardinality(Seen \cup {id}) = Cardinality(Seen) + 1
  BY <1>3, <1>4, FS_AddElement, FS_CardinalityType
<1>6. QED BY <1>1, <1>3, <1>5

\* What the invariant says while the second loop runs.
LEMMA InLoop ==
  ASSUME IInv, pc = "compare"
  PROVE  /\ IdsOf(removed) = DOMAIN baseIndex \ DOMAIN newIndex
         /\ IdsOf(added) = Seen \ DOMAIN baseIndex
         /\ IdsOf(modified) \cup IdsOf(unchanged) \subseteq Seen \cap DOMAIN baseIndex
         /\ IdsOf(modified) \cap IdsOf(unchanged) = {}
         /\ NoIdTwice(removed) /\ NoIdTwice(added)
         /\ NoIdTwice(modified) /\ NoIdTwice(unchanged)
         /\ Len(added) + Len(modified) + UnchangedCount = Cardinality(Seen)
         /\ Keyed(baseIndex) /\ Keyed(newIndex)
         /\ added \in Seq(Collections) /\ unchanged \in Seq(Collections)
         /\ modified \in Seq(Differences) /\ total \in Totals
BY DEF IInv, EveryIdOnce, TypeOK

LEMMA FindAddedInv ==
  ASSUME IInv, TypeOK', NEW id \in todo, FindAdded(id) PROVE IInv'
<1> USE DEF input, report
<1>1. /\ pc = "compare" /\ pc' = "compare" /\ id \notin DOMAIN baseIndex
      /\ added' = Append(added, newIndex[id]) /\ todo' = todo \ {id}
      /\ UNCHANGED <<who, baseIndex, newIndex, removed, modified, unchanged, total, result>>
  BY DEF FindAdded
<1>2. /\ id \notin Seen /\ Seen' = Seen \cup {id} /\ id \in DOMAIN newIndex
      /\ Cardinality(Seen) \in Nat
      /\ Cardinality(Seen') = Cardinality(Seen) + 1
  BY <1>1, Visit
<1>3. newIndex[id] \in Collections /\ newIndex[id].id = id
  BY <1>1, <1>2, InLoop DEF Keyed
<1>4. /\ added' \in Seq(Collections) /\ Len(added') = Len(added) + 1
      /\ IdsOf(added') = IdsOf(added) \cup {id}
      /\ NoIdTwice(added')
  <2>1. added \in Seq(Collections) /\ NoIdTwice(added) /\ id \notin IdsOf(added)
    BY <1>1, <1>2, InLoop
  <2>2. QED BY <1>1, <1>3, <2>1, AppendIds
<1>5. UnchangedCount' = UnchangedCount /\ UnchangedCount \in Nat
  <2>1. UnchangedCount' = UnchangedCount
    BY <1>1 DEF UnchangedCount
  <2>2. Len(unchanged) \in Nat /\ total.unchanged \in Nat
    BY <1>1, InLoop DEF Totals
  <2>3. UnchangedCount \in Nat
    BY <2>2 DEF UnchangedCount
  <2>4. QED BY <2>1, <2>3
<1>6. Len(added') + Len(modified') + UnchangedCount' = Cardinality(Seen')
  <2>1. Len(added) \in Nat /\ Len(modified) \in Nat
    BY <1>1, InLoop
  <2>2. Len(added) + Len(modified) + UnchangedCount = Cardinality(Seen)
    BY <1>1, InLoop
  <2>3. modified' = modified
    BY <1>1
  <2>4. QED BY <1>2, <1>4, <1>5, <2>1, <2>2, <2>3
<1>7. EveryIdOnce'
  BY <1>1, <1>2, <1>4, <1>6, InLoop DEF EveryIdOnce
<1>8. /\ IsFiniteSet(DOMAIN newIndex') /\ BeforeCompare' /\ BeforeRemoved'
      /\ RemovedSoFar' /\ UnchangedKept'
  BY <1>1 DEF IInv, BeforeCompare, BeforeRemoved, RemovedSoFar, UnchangedKept
<1>9. QED BY <1>7, <1>8 DEF IInv

LEMMA FindModifiedInv ==
  ASSUME IInv, TypeOK', NEW id \in todo, FindModified(id) PROVE IInv'
<1> USE DEF input, report
<1>1. /\ pc = "compare" /\ pc' = "compare" /\ id \in DOMAIN baseIndex
      /\ modified' = Append(modified, Diff(id)) /\ todo' = todo \ {id}
      /\ UNCHANGED <<who, baseIndex, newIndex, removed, added, unchanged, total, result>>
  BY DEF FindModified
<1>2. /\ id \notin Seen /\ Seen' = Seen \cup {id} /\ id \in DOMAIN newIndex
      /\ Cardinality(Seen) \in Nat
      /\ Cardinality(Seen') = Cardinality(Seen) + 1
  BY <1>1, Visit
<1>3. Diff(id) \in Differences /\ Diff(id).id = id
  BY <1>1, <1>2, DiffType DEF IInv
<1>4. /\ modified' \in Seq(Differences) /\ Len(modified') = Len(modified) + 1
      /\ IdsOf(modified') = IdsOf(modified) \cup {id}
      /\ NoIdTwice(modified')
  <2>1. modified \in Seq(Differences) /\ NoIdTwice(modified) /\ id \notin IdsOf(modified)
    BY <1>1, <1>2, InLoop
  <2>2. QED BY <1>1, <1>3, <2>1, AppendIds
<1>5. UnchangedCount' = UnchangedCount /\ UnchangedCount \in Nat
  <2>1. UnchangedCount' = UnchangedCount
    BY <1>1 DEF UnchangedCount
  <2>2. Len(unchanged) \in Nat /\ total.unchanged \in Nat
    BY <1>1, InLoop DEF Totals
  <2>3. UnchangedCount \in Nat
    BY <2>2 DEF UnchangedCount
  <2>4. QED BY <2>1, <2>3
<1>6. Len(added') + Len(modified') + UnchangedCount' = Cardinality(Seen')
  <2>1. Len(added) \in Nat /\ Len(modified) \in Nat
    BY <1>1, InLoop
  <2>2. Len(added) + Len(modified) + UnchangedCount = Cardinality(Seen)
    BY <1>1, InLoop
  <2>3. added' = added
    BY <1>1
  <2>4. QED BY <1>2, <1>4, <1>5, <2>1, <2>2, <2>3
<1>7. EveryIdOnce'
  BY <1>1, <1>2, <1>4, <1>6, InLoop DEF EveryIdOnce
<1>8. /\ IsFiniteSet(DOMAIN newIndex') /\ BeforeCompare' /\ BeforeRemoved'
      /\ RemovedSoFar' /\ UnchangedKept'
  BY <1>1 DEF IInv, BeforeCompare, BeforeRemoved, RemovedSoFar, UnchangedKept
<1>9. QED BY <1>7, <1>8 DEF IInv

LEMMA FindUnchangedInv ==
  ASSUME IInv, TypeOK', NEW id \in todo, FindUnchanged(id) PROVE IInv'
<1> USE DEF input, report
<1>1. /\ pc = "compare" /\ pc' = "compare" /\ id \in DOMAIN baseIndex
      /\ todo' = todo \ {id}
      /\ UNCHANGED <<who, baseIndex, newIndex, removed, added, modified, result>>
  BY DEF FindUnchanged
<1>2. /\ id \notin Seen /\ Seen' = Seen \cup {id} /\ id \in DOMAIN newIndex
      /\ Cardinality(Seen) \in Nat
      /\ Cardinality(Seen') = Cardinality(Seen) + 1
  BY <1>1, Visit
<1>3. newIndex[id] \in Collections /\ newIndex[id].id = id
  BY <1>1, <1>2, InLoop DEF Keyed
<1>4. unchanged \in Seq(Collections) /\ Len(unchanged) \in Nat /\ total.unchanged \in Nat
  BY <1>1, InLoop DEF Totals
<1>5. /\ IdsOf(unchanged') \subseteq IdsOf(unchanged) \cup {id}
      /\ NoIdTwice(unchanged')
      /\ UnchangedCount' = UnchangedCount + 1
  <2>1. CASE who = "cli"
    <3>1. unchanged' = unchanged /\ total'.unchanged = total.unchanged + 1
      <4>1. unchanged' = unchanged /\ total' = [total EXCEPT !.unchanged = @ + 1]
        BY <2>1 DEF FindUnchanged
      <4>2. total \in Totals
        BY <1>1, InLoop
      <4>3. QED BY <4>1, <4>2 DEF Totals
    <3>2. UnchangedCount = total.unchanged /\ UnchangedCount' = total'.unchanged
      BY <1>1, <1>4, <2>1, <3>1 DEF UnchangedCount
    <3>3. IdsOf(unchanged') = IdsOf(unchanged) /\ NoIdTwice(unchanged')
      BY <1>1, <3>1, InLoop
    <3>4. QED BY <3>1, <3>2, <3>3
  <2>2. CASE who # "cli"
    <3>1. unchanged' = Append(unchanged, newIndex[id]) /\ total' = total
      BY <2>2 DEF FindUnchanged
    <3>2. who = "ui" /\ who' = "ui"
      BY <1>1, <2>2 DEF IInv, TypeOK
    <3>3. NoIdTwice(unchanged) /\ id \notin IdsOf(unchanged)
      BY <1>1, <1>2, InLoop
    <3>4. /\ Len(unchanged') = Len(unchanged) + 1
          /\ IdsOf(unchanged') = IdsOf(unchanged) \cup {id}
          /\ NoIdTwice(unchanged')
      BY <1>3, <1>4, <3>1, <3>3, AppendIds
    <3>5. /\ UnchangedCount = total.unchanged + Len(unchanged)
          /\ UnchangedCount' = total.unchanged + Len(unchanged')
      BY <1>1, <3>1, <3>2 DEF UnchangedCount
    <3>6. QED BY <1>4, <3>4, <3>5
  <2>3. QED BY <2>1, <2>2
<1>6. Len(added') + Len(modified') + UnchangedCount' = Cardinality(Seen')
  <2>1. Len(added) \in Nat /\ Len(modified) \in Nat
    BY <1>1, InLoop
  <2>2. Len(added) + Len(modified) + UnchangedCount = Cardinality(Seen)
    BY <1>1, InLoop
  <2>3. UnchangedCount \in Nat
    BY <1>4 DEF UnchangedCount
  <2>4. added' = added /\ modified' = modified
    BY <1>1
  <2>5. QED BY <1>2, <1>5, <2>1, <2>2, <2>3, <2>4
<1>7. EveryIdOnce'
  BY <1>1, <1>2, <1>5, <1>6, InLoop DEF EveryIdOnce
<1>8. UnchangedKept'
  BY <1>1 DEF FindUnchanged, IInv, UnchangedKept
<1>9. /\ IsFiniteSet(DOMAIN newIndex') /\ BeforeCompare' /\ BeforeRemoved'
      /\ RemovedSoFar'
  BY <1>1 DEF IInv, BeforeCompare, BeforeRemoved, RemovedSoFar
<1>10. QED BY <1>7, <1>8, <1>9 DEF IInv

LEMMA SummarizeInv ==
  ASSUME IInv, TypeOK', Summarize PROVE IInv'
<1> USE DEF input, report
<1>1. /\ pc = "compare" /\ pc' = "done" /\ todo = {}
      /\ total'.unchanged = IF who = "cli" THEN total.unchanged ELSE Len(unchanged)
      /\ UNCHANGED <<who, baseIndex, newIndex, removed, added, modified, unchanged>>
  BY DEF Summarize
<1>2. Seen = DOMAIN newIndex /\ Seen' = DOMAIN newIndex
  BY <1>1 DEF Seen
<1>3. UnchangedCount' = UnchangedCount
  <2>0. Len(unchanged) \in Nat /\ total.unchanged \in Nat /\ who \in {"cli", "ui"}
    BY <1>1, InLoop DEF Totals, IInv, TypeOK
  <2>1. total'.unchanged \in Nat
    BY <1>1, <2>0
  <2>2. UnchangedCount' = total'.unchanged + 0
    BY <1>1 DEF UnchangedCount
  <2>3. CASE who = "cli"
    BY <1>1, <2>0, <2>1, <2>2, <2>3 DEF UnchangedCount
  <2>4. CASE who = "ui"
    <3>1. total.unchanged = 0
      BY <1>1, <2>4 DEF IInv, UnchangedKept
    <3>2. QED BY <1>1, <2>0, <2>1, <2>2, <2>4, <3>1 DEF UnchangedCount
  <2>5. QED BY <2>0, <2>3, <2>4
<1>4. EveryIdOnce'
  BY <1>1, <1>2, <1>3, InLoop DEF EveryIdOnce
<1>5. /\ IsFiniteSet(DOMAIN newIndex') /\ BeforeCompare' /\ BeforeRemoved'
      /\ RemovedSoFar' /\ UnchangedKept'
  BY <1>1 DEF IInv, BeforeCompare, BeforeRemoved, RemovedSoFar, UnchangedKept
<1>6. QED BY <1>4, <1>5 DEF IInv

(* The invariant of a comparison, over every pair of exports.              *)
THEOREM Inductive == Spec => []IInv
<1>1. Init => IInv
  BY InitInv
<1>2. IInv /\ [Next]_vars => IInv'
  <2> SUFFICES ASSUME IInv, [Next]_vars PROVE IInv'
    OBVIOUS
  <2>1. TypeOK'
    BY NextTypes DEF IInv
  <2>2. CASE LoadBase \/ LoadNew \/ LoadFails \/ IndexBase \/ BaseIndexed \/ IndexNew
    BY <2>1, <2>2, EarlySteps
  <2>3. CASE NewIndexed
    BY <2>1, <2>3, NewIndexedInv
  <2>4. ASSUME NEW id \in todo, FindRemoved(id) PROVE IInv'
    BY <2>1, <2>4, FindRemovedInv
  <2>5. CASE RemovedDone
    BY <2>1, <2>5, RemovedDoneInv
  <2>6. ASSUME NEW id \in todo, FindAdded(id) PROVE IInv'
    BY <2>1, <2>6, FindAddedInv
  <2>7. ASSUME NEW id \in todo, FindModified(id) PROVE IInv'
    BY <2>1, <2>7, FindModifiedInv
  <2>8. ASSUME NEW id \in todo, FindUnchanged(id) PROVE IInv'
    BY <2>1, <2>8, FindUnchangedInv
  <2>9. CASE Summarize
    BY <2>1, <2>9, SummarizeInv
  <2>10. CASE UNCHANGED vars
    BY <2>10 DEF vars, IInv, TypeOK, BeforeCompare, BeforeRemoved, RemovedSoFar,
                 UnchangedKept, EveryIdOnce, Seen, UnchangedCount
  <2>11. QED
    BY <2>2, <2>3, <2>4, <2>5, <2>6, <2>7, <2>8, <2>9, <2>10 DEF Next, Terminating
<1>3. QED BY <1>1, <1>2, PTL DEF Spec

(* generateDriftReport keeps the types of what it builds.                  *)
THEOREM TypeCorrect == Spec => []TypeOK
<1>1. IInv => TypeOK
  BY DEF IInv
<1>2. QED BY <1>1, Inductive, PTL

(* Each ID of either export is reported once, or counted as unchanged.     *)
THEOREM Partition == Spec => []EveryIdOnce
<1>1. IInv => EveryIdOnce
  BY DEF IInv
<1>2. QED BY <1>1, Inductive, PTL

(* Two resources differ in the same fields whichever is the older one.     *)
THEOREM ChangesSymmetric ==
  ASSUME NEW w, NEW a, NEW b
  PROVE  Changes(w, a, b) = Changes(w, b, a)
<1>1. \A p : SameProperty(a, b, p) <=> SameProperty(b, a, p)
  BY DEF SameProperty, Equal
<1>2. \A f : Equal(a[f], b[f]) <=> Equal(b[f], a[f])
  BY DEF Equal
<1>3. {q \in DOMAIN a.props \cup DOMAIN b.props : ~SameProperty(a, b, q)}
        = {q \in DOMAIN b.props \cup DOMAIN a.props : ~SameProperty(b, a, q)}
  BY <1>1
<1>4. {g \in {"name", "region", "tags"} : ~Equal(a[g], b[g])}
        = {g \in {"name", "region", "tags"} : ~Equal(b[g], a[g])}
  BY <1>2
<1>5. QED BY <1>3, <1>4 DEF Changes

-----------------------------------------------------------------------------
(* The invariant: an index built up to position n holds, under the ID of   *)
(* each resource before it, the last one that has the ID.                  *)
IsIndex(x, s, n) ==
  /\ DOMAIN x = {s[j].id : j \in 1..n}
  /\ \A id \in DOMAIN x : \E j \in 1..n :
       /\ s[j].id = id /\ x[id] = s[j]
       /\ \A l \in (j + 1)..n : s[l].id # id

IsRead(x, s) == x.format \in Readable /\ s = Read(x)
Loaded ==
  /\ pc \notin {"load base", "done"} \/ result = "report" => IsRead(exports[1], base)
  /\ pc \notin {"load base", "load new", "done"} \/ result = "report"
       => IsRead(exports[2], new)

IndexedSoFar ==
  /\ pc \in {"load base", "load new"} => i = 1 /\ baseIndex = <<>>
  /\ pc \in {"load base", "load new", "index base"} => newIndex = <<>>
  /\ pc = "index base" => i <= Len(base) + 1 /\ IsIndex(baseIndex, base, i - 1)
  /\ pc = "index new" => /\ i <= Len(new) + 1 /\ IsIndex(newIndex, new, i - 1)
                         /\ IsIndex(baseIndex, base, Len(base))
  /\ pc \in {"removed", "compare"} \/ result = "report" =>
       IsIndex(baseIndex, base, Len(base)) /\ IsIndex(newIndex, new, Len(new))

ModifiedDiffer ==
  pc = "compare" \/ result = "report" =>
    /\ IdsOf(modified) = {id \in Seen \cap DOMAIN baseIndex : Diff(id).changes # {}}
    /\ \A j \in DOMAIN modified : modified[j] = Diff(modified[j].id)

RInv == Loaded /\ IndexedSoFar /\ ModifiedDiffer

-----------------------------------------------------------------------------
(* The index.                                                              *)

\* Nothing is indexed before the first position.
LEMMA IndexNone == ASSUME NEW s PROVE IsIndex(<<>>, s, 0)
<1>1. DOMAIN <<>> = {} /\ 1..0 = {}
  OBVIOUS
<1>2. QED BY <1>1 DEF IsIndex

\* One more resource takes the place of an earlier one of its ID.
LEMMA IndexNext ==
  ASSUME NEW s \in Seq(Collections), NEW n \in Nat, n + 1 <= Len(s),
         NEW x, IsIndex(x, s, n)
  PROVE  IsIndex(Indexed(x, s[n + 1].id, s[n + 1]), s, n + 1)
<1> DEFINE r == s[n + 1]
           y == Indexed(x, r.id, r)
<1>1. /\ DOMAIN y = DOMAIN x \cup {r.id} /\ y[r.id] = r
      /\ \A id \in DOMAIN x : id # r.id => y[id] = x[id]
  BY DEF Indexed
<1>2. 1..(n + 1) = 1..n \cup {n + 1}
  OBVIOUS
<1>3. DOMAIN y = {s[j].id : j \in 1..(n + 1)}
  <2>1. DOMAIN x = {s[j].id : j \in 1..n}
    BY DEF IsIndex
  <2>2. QED BY <1>1, <1>2, <2>1
<1>4. ASSUME NEW id \in DOMAIN y
      PROVE  \E j \in 1..(n + 1) :
               /\ s[j].id = id /\ y[id] = s[j]
               /\ \A l \in (j + 1)..(n + 1) : s[l].id # id
  <2>1. CASE id = r.id
    <3>1. (n + 1 + 1)..(n + 1) = {} /\ n + 1 \in 1..(n + 1)
      OBVIOUS
    <3>2. QED BY <1>1, <2>1, <3>1
  <2>2. CASE id # r.id
    <3>1. PICK j \in 1..n : /\ s[j].id = id /\ x[id] = s[j]
                            /\ \A l \in (j + 1)..n : s[l].id # id
      BY <1>1, <2>2 DEF IsIndex
    <3>2. y[id] = s[j]
      BY <1>1, <2>2, <3>1
    <3>3. (j + 1)..(n + 1) \subseteq (j + 1)..n \cup {n + 1} /\ j \in 1..(n + 1)
      OBVIOUS
    <3>4. \A l \in (j + 1)..(n + 1) : s[l].id # id
      BY <2>2, <3>1, <3>3
    <3>5. QED BY <3>1, <3>2, <3>3, <3>4
  <2>3. QED BY <2>1, <2>2
<1>5. QED BY <1>3, <1>4 DEF IsIndex

-----------------------------------------------------------------------------
(* The invariant is one.                                                   *)

LEMMA InitReport == Init => RInv
<1> SUFFICES ASSUME Init PROVE RInv
  OBVIOUS
<1>1. pc = "load base" /\ i = 1 /\ baseIndex = <<>> /\ newIndex = <<>> /\ result = "none"
  BY DEF Init
<1>2. QED BY <1>1 DEF RInv, Loaded, IndexedSoFar, ModifiedDiffer

\* Loading.
LEMMA LoadReport ==
  ASSUME TypeOK, RInv, LoadBase \/ LoadNew \/ LoadFails PROVE RInv'
<1> USE DEF input, report
<1>1. pc \in {"load base", "load new"} /\ result = "none"
  BY DEF LoadBase, LoadNew, LoadFails, TypeOK
<1>2. i = 1 /\ baseIndex = <<>> /\ newIndex = <<>>
  BY <1>1 DEF RInv, IndexedSoFar
<1>3. UNCHANGED <<who, exports, i, baseIndex, newIndex>>
  BY DEF LoadBase, LoadNew, LoadFails
<1>4. CASE LoadBase
  <2>1. pc' = "load new" /\ result' = "none" /\ IsRead(exports[1], base)'
    BY <1>1, <1>4 DEF LoadBase, IsRead, Readable, Read
  <2>2. QED BY <1>2, <1>3, <2>1 DEF RInv, Loaded, IndexedSoFar, ModifiedDiffer
<1>5. CASE LoadNew
  <2>1. /\ pc' = "index base" /\ result' = "none" /\ base' = base
        /\ pc = "load new" /\ IsRead(exports[2], new)'
    BY <1>1, <1>5 DEF LoadNew, IsRead, Readable, Read
  <2>2. IsRead(exports[1], base)'
    BY <1>3, <2>1 DEF RInv, Loaded, IsRead, Readable, Read
  <2>3. (i <= Len(base) + 1 /\ IsIndex(baseIndex, base, i - 1))'
    <3>1. base' \in Seq(Collections) /\ i' = 1 /\ baseIndex' = <<>>
      BY <1>2, <1>3, <2>1 DEF TypeOK
    <3>2. i' <= Len(base') + 1 /\ i' - 1 = 0
      BY <3>1
    <3>3. QED BY <3>1, <3>2, IndexNone
  <2>4. QED BY <1>2, <1>3, <2>1, <2>2, <2>3 DEF RInv, Loaded, IndexedSoFar, ModifiedDiffer
<1>6. CASE LoadFails
  <2>1. pc' = "done" /\ result' = "error"
    BY <1>6 DEF LoadFails
  <2>2. QED BY <2>1 DEF RInv, Loaded, IndexedSoFar, ModifiedDiffer
<1>7. QED BY <1>4, <1>5, <1>6

\* Indexing.
LEMMA LoadedStays ==
  ASSUME Loaded, UNCHANGED <<who, exports, base, new>>,
         pc \notin {"load base", "load new", "done"}
  PROVE  Loaded'
BY DEF Loaded, IsRead, Readable, Read

LEMMA IndexReport ==
  ASSUME TypeOK, RInv, IndexBase \/ BaseIndexed \/ IndexNew \/ NewIndexed
  PROVE  RInv'
<1> USE DEF input, report
<1>1. /\ base \in Seq(Collections) /\ new \in Seq(Collections) /\ i \in Nat /\ i >= 1
      /\ Len(base) \in Nat /\ Len(new) \in Nat
  <2>1. base \in Seq(Collections) /\ new \in Seq(Collections) /\ i \in Nat /\ i >= 1
    BY DEF TypeOK
  <2>2. QED BY <2>1
<1>2. /\ pc \in {"index base", "index new"} /\ pc' \notin {"compare", "done"}
      /\ result = "none" /\ result' = "none"
      /\ UNCHANGED <<who, exports, base, new>>
  BY DEF IndexBase, BaseIndexed, IndexNew, NewIndexed, TypeOK
<1>3. Loaded' /\ ModifiedDiffer'
  BY <1>2, LoadedStays DEF RInv, ModifiedDiffer
<1>4. IndexedSoFar'
  <2>1. CASE IndexBase
    <3>1. /\ pc = "index base" /\ pc' = "index base" /\ i <= Len(base) /\ i' = i + 1
          /\ baseIndex' = Indexed(baseIndex, base[i].id, base[i])
          /\ newIndex' = newIndex /\ newIndex = <<>>
          /\ IsIndex(baseIndex, base, i - 1)
      BY <2>1 DEF IndexBase, RInv, IndexedSoFar
    <3>2. i - 1 \in Nat /\ (i - 1) + 1 = i /\ i' - 1 = i /\ i' <= Len(base) + 1
      <4>1. i <= Len(base) /\ i' = i + 1
        BY <3>1
      <4>2. QED BY <1>1, <4>1
    <3>3. IsIndex(baseIndex', base, i)
      BY <1>1, <3>1, <3>2, IndexNext
    <3>4. QED BY <1>2, <3>1, <3>2, <3>3 DEF IndexedSoFar
  <2>2. CASE BaseIndexed
    <3>1. /\ pc = "index base" /\ pc' = "index new" /\ i > Len(base) /\ i' = 1
          /\ baseIndex' = baseIndex /\ newIndex' = newIndex /\ newIndex = <<>>
          /\ i <= Len(base) + 1 /\ IsIndex(baseIndex, base, i - 1)
      BY <2>2 DEF BaseIndexed, RInv, IndexedSoFar
    <3>2. i - 1 = Len(base) /\ i' - 1 = 0 /\ i' <= Len(new) + 1
      <4>1. i > Len(base) /\ i <= Len(base) + 1 /\ i' = 1
        BY <3>1
      <4>2. QED BY <1>1, <4>1
    <3>3. IsIndex(newIndex', new, i' - 1)
      BY <3>1, <3>2, IndexNone
    <3>4. QED BY <1>2, <3>1, <3>2, <3>3 DEF IndexedSoFar
  <2>3. CASE IndexNew
    <3>1. /\ pc = "index new" /\ pc' = "index new" /\ i <= Len(new) /\ i' = i + 1
          /\ newIndex' = Indexed(newIndex, new[i].id, new[i])
          /\ baseIndex' = baseIndex /\ IsIndex(baseIndex, base, Len(base))
          /\ IsIndex(newIndex, new, i - 1)
      BY <2>3 DEF IndexNew, RInv, IndexedSoFar
    <3>2. i - 1 \in Nat /\ (i - 1) + 1 = i /\ i' - 1 = i /\ i' <= Len(new) + 1
      <4>1. i <= Len(new) /\ i' = i + 1
        BY <3>1
      <4>2. QED BY <1>1, <4>1
    <3>3. IsIndex(newIndex', new, i)
      BY <1>1, <3>1, <3>2, IndexNext
    <3>4. QED BY <1>2, <3>1, <3>2, <3>3 DEF IndexedSoFar
  <2>4. CASE NewIndexed
    <3>1. /\ pc = "index new" /\ pc' = "removed" /\ i > Len(new)
          /\ baseIndex' = baseIndex /\ newIndex' = newIndex
          /\ i <= Len(new) + 1 /\ IsIndex(newIndex, new, i - 1)
          /\ IsIndex(baseIndex, base, Len(base))
      BY <2>4 DEF NewIndexed, RInv, IndexedSoFar
    <3>2. i - 1 = Len(new)
      <4>1. i > Len(new) /\ i <= Len(new) + 1
        BY <3>1
      <4>2. QED BY <1>1, <4>1
    <3>3. QED BY <1>2, <3>1, <3>2 DEF IndexedSoFar
  <2>5. QED BY <2>1, <2>2, <2>3, <2>4
<1>5. QED BY <1>3, <1>4 DEF RInv

\* The loops leave the exports and the indexes alone.
LEMMA LoopReport ==
  ASSUME RInv, pc \in {"removed", "compare"},
         pc' \in {"removed", "compare"} \/ (result' = "report" /\ pc' = "done"),
         UNCHANGED <<who, exports, base, new, baseIndex, newIndex>>
  PROVE  Loaded' /\ IndexedSoFar'
<1>1. Loaded'
  BY LoadedStays DEF RInv
<1>2. IndexedSoFar'
  BY DEF RInv, IndexedSoFar
<1>3. QED BY <1>1, <1>2

LEMMA RemovedReport ==
  ASSUME IInv, RInv, NEW id \in todo, FindRemoved(id) PROVE RInv'
<1> USE DEF input, report
<1>1. /\ pc = "removed" /\ pc' = "removed" /\ result' = result /\ result = "none"
      /\ UNCHANGED <<who, exports, base, new, baseIndex, newIndex>>
  BY DEF FindRemoved, IInv, TypeOK
<1>2. Loaded' /\ IndexedSoFar'
  BY <1>1, LoopReport
<1>3. QED BY <1>1, <1>2 DEF RInv, ModifiedDiffer

LEMMA RemovedDoneReport ==
  ASSUME IInv, RInv, RemovedDone PROVE RInv'
<1> USE DEF input, report
<1>1. /\ pc = "removed" /\ pc' = "compare" /\ result' = result /\ result = "none"
      /\ todo' = DOMAIN newIndex /\ modified' = modified /\ modified = <<>>
      /\ UNCHANGED <<who, exports, base, new, baseIndex, newIndex>>
  BY DEF RemovedDone, IInv, TypeOK, BeforeCompare
<1>2. Loaded' /\ IndexedSoFar'
  BY <1>1, LoopReport
<1>3. Seen' = {}
  BY <1>1 DEF Seen
<1>4. IdsOf(modified') = {} /\ DOMAIN modified' = {}
  <2>1. DOMAIN <<>> = {}
    OBVIOUS
  <2>2. QED BY <1>1, <2>1, EmptyIds
<1>5. QED BY <1>2, <1>3, <1>4 DEF RInv, ModifiedDiffer

\* A visited ID joins the IDs of modified exactly if its difference is not empty.
LEMMA VisitReport ==
  ASSUME IInv, RInv, NEW id \in todo,
         pc = "compare", pc' = "compare", result' = result, todo' = todo \ {id},
         UNCHANGED <<who, exports, base, new, baseIndex, newIndex>>,
         IdsOf(modified') = IdsOf(modified) \cup
           (IF id \in DOMAIN baseIndex /\ Diff(id).changes # {} THEN {id} ELSE {}),
         \A j \in DOMAIN modified' : modified'[j] = Diff(modified'[j].id)
  PROVE  RInv'
<1>1. Loaded' /\ IndexedSoFar'
  BY LoopReport
<1>2. id \notin Seen /\ Seen' = Seen \cup {id}
  BY Visit
<1>3. \A x : Diff(x)' = Diff(x)
  BY DEF Diff
<1>4. IdsOf(modified) = {x \in Seen \cap DOMAIN baseIndex : Diff(x).changes # {}}
  BY DEF RInv, ModifiedDiffer
<1>5. IdsOf(modified') = {x \in Seen' \cap DOMAIN baseIndex' : Diff(x)'.changes # {}}
  BY <1>2, <1>3, <1>4
<1>6. \A j \in DOMAIN modified' :
        modified'[j] = DiffOf(who', baseIndex'[modified'[j].id], newIndex'[modified'[j].id])
  BY DEF Diff
<1>7. QED BY <1>1, <1>5, <1>6 DEF RInv, ModifiedDiffer, Diff

LEMMA AddedReport ==
  ASSUME IInv, RInv, NEW id \in todo, FindAdded(id) PROVE RInv'
<1> USE DEF input, report
<1>1. /\ pc = "compare" /\ pc' = "compare" /\ result' = result
      /\ id \notin DOMAIN baseIndex /\ todo' = todo \ {id} /\ modified' = modified
      /\ UNCHANGED <<who, exports, base, new, baseIndex, newIndex>>
  BY DEF FindAdded
<1>2. \A j \in DOMAIN modified' : modified'[j] = Diff(modified'[j].id)
  BY <1>1 DEF RInv, ModifiedDiffer
<1>3. QED BY <1>1, <1>2, VisitReport

LEMMA ModifiedReport ==
  ASSUME IInv, RInv, NEW id \in todo, FindModified(id) PROVE RInv'
<1> USE DEF input, report
<1>1. /\ pc = "compare" /\ pc' = "compare" /\ result' = result
      /\ id \in DOMAIN baseIndex /\ Diff(id).changes # {}
      /\ todo' = todo \ {id} /\ modified' = Append(modified, Diff(id))
      /\ UNCHANGED <<who, exports, base, new, baseIndex, newIndex>>
  BY DEF FindModified
<1>2. modified \in Seq(Differences) /\ Diff(id) \in Differences /\ Diff(id).id = id
  <2>1. id \in DOMAIN newIndex
    BY <1>1 DEF IInv, TypeOK
  <2>2. QED BY <1>1, <2>1, DiffType DEF IInv, TypeOK
<1>3. IdsOf(modified') = IdsOf(modified) \cup {id}
  BY <1>1, <1>2, AppendIds
<1>4. \A j \in DOMAIN modified' : modified'[j] = Diff(modified'[j].id)
  <2>1. \A j \in DOMAIN modified : modified[j] = Diff(modified[j].id)
    BY <1>1 DEF RInv, ModifiedDiffer
  <2>2. \A j \in DOMAIN modified' : modified'[j] = Diff(id) \/ (j \in DOMAIN modified /\ modified'[j] = modified[j])
    BY <1>1, <1>2
  <2>3. QED BY <1>2, <2>1, <2>2
<1>5. QED BY <1>1, <1>3, <1>4, VisitReport

LEMMA UnchangedReport ==
  ASSUME IInv, RInv, NEW id \in todo, FindUnchanged(id) PROVE RInv'
<1> USE DEF input, report
<1>1. /\ pc = "compare" /\ pc' = "compare" /\ result' = result
      /\ Diff(id).changes = {} /\ todo' = todo \ {id} /\ modified' = modified
      /\ UNCHANGED <<who, exports, base, new, baseIndex, newIndex>>
  BY DEF FindUnchanged
<1>2. \A j \in DOMAIN modified' : modified'[j] = Diff(modified'[j].id)
  BY <1>1 DEF RInv, ModifiedDiffer
<1>3. QED BY <1>1, <1>2, VisitReport

LEMMA SummarizeReport ==
  ASSUME IInv, RInv, Summarize PROVE RInv'
<1> USE DEF input, report
<1>1. /\ pc = "compare" /\ pc' = "done" /\ result' = "report" /\ todo = {}
      /\ modified' = modified
      /\ UNCHANGED <<who, exports, base, new, baseIndex, newIndex>>
  BY DEF Summarize
<1>2. Loaded' /\ IndexedSoFar'
  BY <1>1, LoopReport
<1>3. Seen' = Seen /\ \A x : Diff(x)' = Diff(x)
  BY <1>1 DEF Seen, Diff
<1>4. QED BY <1>1, <1>2, <1>3 DEF RInv, ModifiedDiffer

(* Both indexes are of the whole exports when the loops start, and the     *)
(* loops list as modified exactly the IDs whose resources differ.          *)
THEOREM ReportInductive == Spec => []RInv
<1>1. Init => RInv
  BY InitReport
<1>2. IInv /\ RInv /\ [Next]_vars => RInv'
  <2> SUFFICES ASSUME IInv, RInv, [Next]_vars PROVE RInv'
    OBVIOUS
  <2>1. TypeOK
    BY DEF IInv
  <2>2. CASE LoadBase \/ LoadNew \/ LoadFails
    BY <2>1, <2>2, LoadReport
  <2>3. CASE IndexBase \/ BaseIndexed \/ IndexNew \/ NewIndexed
    BY <2>1, <2>3, IndexReport
  <2>4. ASSUME NEW id \in todo, FindRemoved(id) PROVE RInv'
    BY <2>4, RemovedReport
  <2>5. CASE RemovedDone
    BY <2>5, RemovedDoneReport
  <2>6. ASSUME NEW id \in todo, FindAdded(id) PROVE RInv'
    BY <2>6, AddedReport
  <2>7. ASSUME NEW id \in todo, FindModified(id) PROVE RInv'
    BY <2>7, ModifiedReport
  <2>8. ASSUME NEW id \in todo, FindUnchanged(id) PROVE RInv'
    BY <2>8, UnchangedReport
  <2>9. CASE Summarize
    BY <2>9, SummarizeReport
  <2>10. CASE UNCHANGED vars
    BY <2>10 DEF vars, RInv, Loaded, IndexedSoFar, ModifiedDiffer, IsRead, Readable,
                 Read, Seen, Diff
  <2>11. QED
    BY <2>2, <2>3, <2>4, <2>5, <2>6, <2>7, <2>8, <2>9, <2>10 DEF Next, Terminating
<1>3. QED BY <1>1, <1>2, Inductive, PTL DEF Spec

-----------------------------------------------------------------------------
(* What the invariant says of the report.                                  *)

\* Exporting a resource and reading it back changes its tags only.
LEMMA StoredFields ==
  ASSUME NEW r \in Resources, NEW f
  PROVE  /\ Stored(f, r).id = r.id /\ Stored(f, r).name = r.name
         /\ Stored(f, r).region = r.region /\ Stored(f, r).props = r.props
         /\ Stored(f, r).updated = r.updated
         /\ Stored(f, r).tags = StoredTags(f, r.tags)
<1>1. r \in [id : STRING, name : STRING, region : STRING, tags : STRING,
             props : {r.props}, updated : STRING, rest : STRING]
  BY ResourcesAssumption
<1>2. QED BY <1>1 DEF Stored

\* In one format, tags are read back alike exactly if a reader of the scans
\* would take them to be alike.
LEMMA TagsAlike ==
  ASSUME NEW f \in {"json", "yaml"}, NEW s, NEW t
  PROVE  StoredTags(f, s) = StoredTags(f, t) <=> Plain(s) = Plain(t)
BY DEF StoredTags, Plain, Nil, Empty

\* The comparison of two stored resources finds only what differs in the scans.
LEMMA ChangesAreReal ==
  ASSUME NEW f \in {"json", "yaml"}, NEW a \in Resources, NEW b \in Resources,
         NEW path \in DiffOf(who, Stored(f, a), Stored(f, b)).changes
  PROVE  At(a, path) # At(b, path)
<1> DEFINE u == Stored(f, a)
           v == Stored(f, b)
<1>1. /\ u.name = a.name /\ u.region = a.region /\ u.tags = StoredTags(f, a.tags)
      /\ u.props = a.props /\ u.updated = a.updated
      /\ v.name = b.name /\ v.region = b.region /\ v.tags = StoredTags(f, b.tags)
      /\ v.props = b.props /\ v.updated = b.updated
  BY StoredFields
<1>2. path \in Changes(who, u, v)
  BY DEF DiffOf
<1> HIDE DEF u, v
<1>3. \/ path = <<"name">> /\ u.name # v.name
      \/ path = <<"region">> /\ u.region # v.region
      \/ path = <<"tags">> /\ u.tags # v.tags
      \/ path = <<"updated_at">> /\ u.updated # v.updated
      \/ \E p \in DOMAIN u.props \cup DOMAIN v.props :
            path = <<"properties", p>> /\ ~SameProperty(u, v, p)
  BY <1>2 DEF Changes, Equal
<1>4. CASE path = <<"name">> /\ u.name # v.name
  BY <1>1, <1>4 DEF At
<1>5. CASE path = <<"region">> /\ u.region # v.region
  BY <1>1, <1>5 DEF At
<1>6. CASE path = <<"tags">> /\ u.tags # v.tags
  <2>1. Plain(a.tags) # Plain(b.tags)
    BY <1>1, <1>6, TagsAlike
  <2>2. QED BY <1>6, <2>1 DEF At
<1>7. CASE path = <<"updated_at">> /\ u.updated # v.updated
  BY <1>1, <1>7 DEF At
<1>8. ASSUME NEW p \in DOMAIN u.props \cup DOMAIN v.props,
             path = <<"properties", p>>, ~SameProperty(u, v, p)
      PROVE  At(a, path) # At(b, path)
  <2>1. ~(p \in DOMAIN a.props /\ p \in DOMAIN b.props /\ a.props[p] = b.props[p])
    BY <1>1, <1>8 DEF SameProperty, Equal
  <2>2. p \in DOMAIN a.props \/ p \in DOMAIN b.props
    BY <1>1
  <2>3. /\ At(a, path) = IF p \in DOMAIN a.props THEN <<a.props[p]>> ELSE <<>>
        /\ At(b, path) = IF p \in DOMAIN b.props THEN <<b.props[p]>> ELSE <<>>
    BY <1>8 DEF At
  <2>4. CASE p \in DOMAIN a.props /\ p \in DOMAIN b.props
    <3>1. At(a, path)[1] # At(b, path)[1]
      BY <2>1, <2>3, <2>4
    <3>2. QED BY <3>1
  <2>5. CASE ~(p \in DOMAIN a.props /\ p \in DOMAIN b.props)
    <3>1. Len(At(a, path)) # Len(At(b, path))
      BY <2>2, <2>3, <2>5
    <3>2. QED BY <3>1
  <2>6. QED BY <2>4, <2>5
<1>9. (\E p \in DOMAIN u.props \cup DOMAIN v.props :
         path = <<"properties", p>> /\ ~SameProperty(u, v, p)) => At(a, path) # At(b, path)
  BY <1>8
<1>10. QED BY <1>3, <1>4, <1>5, <1>6, <1>7, <1>9, Zenon

\* It finds every property that differs in them.
LEMMA ChangesAreAll ==
  ASSUME NEW f \in {"json", "yaml"}, NEW a \in Resources, NEW b \in Resources,
         NEW path \in PropertiesOf(a, b), At(a, path) # At(b, path)
  PROVE  path \in DiffOf(who, Stored(f, a), Stored(f, b)).changes
<1> DEFINE u == Stored(f, a)
           v == Stored(f, b)
<1>1. /\ u.name = a.name /\ u.region = a.region /\ u.tags = StoredTags(f, a.tags)
      /\ u.props = a.props /\ v.name = b.name /\ v.region = b.region
      /\ v.tags = StoredTags(f, b.tags) /\ v.props = b.props
  BY StoredFields
<1> HIDE DEF u, v
<1>2. \/ path = <<"name">> \/ path = <<"region">> \/ path = <<"tags">>
      \/ \E p \in DOMAIN a.props \cup DOMAIN b.props : path = <<"properties", p>>
  BY DEF PropertiesOf
<1>3. CASE path = <<"name">>
  <2>1. u.name # v.name
    BY <1>1, <1>3 DEF At
  <2>2. QED BY <1>3, <2>1 DEF DiffOf, Changes, Equal, u, v
<1>4. CASE path = <<"region">>
  <2>1. u.region # v.region
    BY <1>1, <1>4 DEF At
  <2>2. QED BY <1>4, <2>1 DEF DiffOf, Changes, Equal, u, v
<1>5. CASE path = <<"tags">>
  <2>1. Plain(a.tags) # Plain(b.tags)
    BY <1>5 DEF At
  <2>2. u.tags # v.tags
    BY <1>1, <2>1, TagsAlike
  <2>3. QED BY <1>5, <2>2 DEF DiffOf, Changes, Equal, u, v
<1>6. ASSUME NEW p \in DOMAIN a.props \cup DOMAIN b.props, path = <<"properties", p>>
      PROVE  path \in DiffOf(who, u, v).changes
  <2>1. /\ At(a, path) = IF p \in DOMAIN a.props THEN <<a.props[p]>> ELSE <<>>
        /\ At(b, path) = IF p \in DOMAIN b.props THEN <<b.props[p]>> ELSE <<>>
    BY <1>6 DEF At
  <2>2. ~SameProperty(u, v, p) /\ p \in DOMAIN u.props \cup DOMAIN v.props
    BY <1>1, <2>1 DEF SameProperty, Equal
  <2>3. path \in {<<"properties", q>> :
                    q \in {r \in DOMAIN u.props \cup DOMAIN v.props : ~SameProperty(u, v, r)}}
    BY <1>6, <2>2
  <2>4. QED BY <2>3 DEF DiffOf, Changes
<1>7. QED BY <1>2, <1>3, <1>4, <1>5, <1>6 DEF u, v

\* A whole index holds the resources of the scan that count.
LEMMA IndexIsLatest ==
  ASSUME NEW p \in Pairs, NEW e \in {p[1], p[2]}, e.format \in {"json", "yaml"},
         NEW x, IsIndex(x, Read(e), Len(Read(e)))
  PROVE  /\ DOMAIN x = {r.id : r \in Latest(e.scan)}
         /\ Latest(e.scan) \subseteq Resources
         /\ \A r \in Latest(e.scan) : x[r.id] = Stored(e.format, r)
<1> DEFINE s == e.scan
           t == Read(e)
           n == Len(s)
<1>1. s \in Seq(Resources)
  BY DriftAssumption
<1>2. n \in Nat /\ DOMAIN s = 1..n /\ \A j \in 1..n : s[j] \in Resources
  BY <1>1
<1>3. Len(t) = n /\ \A j \in 1..n : t[j] = Stored(e.format, s[j]) /\ t[j].id = s[j].id
  <2>1. t = [j \in 1..n |-> Stored(e.format, s[j])]
    BY <1>2 DEF Read
  <2>2. Len(t) = n
    BY <1>2, <2>1
  <2>3. \A j \in 1..n : t[j] = Stored(e.format, s[j])
    BY <2>1
  <2>4. QED BY <1>2, <2>2, <2>3, StoredFields
<1>4. Latest(s) = {s[j] : j \in {k \in 1..n : \A l \in (k + 1)..n : s[l].id # s[k].id}}
  BY <1>2 DEF Latest
<1>5. /\ DOMAIN x = {t[j].id : j \in 1..n}
      /\ \A id \in DOMAIN x : \E j \in 1..n :
           /\ t[j].id = id /\ x[id] = t[j]
           /\ \A l \in (j + 1)..n : t[l].id # id
  BY <1>3 DEF IsIndex
<1> HIDE DEF s, t, n
<1>6. Latest(s) \subseteq Resources
  BY <1>2, <1>4
<1>7. ASSUME NEW r \in Latest(s) PROVE r.id \in DOMAIN x /\ x[r.id] = Stored(e.format, r)
  <2>1. PICK k \in 1..n : r = s[k] /\ \A l \in (k + 1)..n : s[l].id # s[k].id
    BY <1>4
  <2>2. r.id \in DOMAIN x
    BY <1>3, <1>5, <2>1
  <2>3. PICK j \in 1..n : /\ t[j].id = r.id /\ x[r.id] = t[j]
                          /\ \A l \in (j + 1)..n : t[l].id # r.id
    BY <1>5, <2>2
  <2>4. j = k
    <3>1. ~(j < k)
      <4>1. j < k => k \in (j + 1)..n
        BY <1>2
      <4>2. QED BY <1>3, <2>1, <2>3, <4>1
    <3>2. ~(k < j)
      <4>1. k < j => j \in (k + 1)..n
        BY <1>2
      <4>2. QED BY <1>3, <2>1, <2>3, <4>1
    <3>3. QED BY <1>2, <3>1, <3>2
  <2>5. QED BY <1>3, <2>1, <2>2, <2>3, <2>4
<1>8. ASSUME NEW id \in DOMAIN x PROVE \E r \in Latest(s) : r.id = id
  <2>1. PICK j \in 1..n : t[j].id = id /\ \A l \in (j + 1)..n : t[l].id # id
    BY <1>5
  <2>2. \A l \in (j + 1)..n : l \in 1..n
    BY <1>2
  <2>3. s[j].id = id /\ \A l \in (j + 1)..n : s[l].id # s[j].id
    BY <1>3, <2>1, <2>2
  <2>4. s[j] \in Latest(s)
    BY <1>4, <2>3
  <2>5. QED BY <2>3, <2>4
<1>9. DOMAIN x = {r.id : r \in Latest(s)}
  BY <1>7, <1>8
<1>10. QED BY <1>6, <1>7, <1>9 DEF s

\* What the report of a comparison lists.
LEMMA ReportListed ==
  ASSUME IInv, RInv, result = "report"
  PROVE  /\ IdsOf(added) = DOMAIN newIndex \ DOMAIN baseIndex
         /\ IdsOf(removed) = DOMAIN baseIndex \ DOMAIN newIndex
         /\ IdsOf(modified) = {id \in DOMAIN newIndex \cap DOMAIN baseIndex :
                                 Diff(id).changes # {}}
         /\ \A j \in DOMAIN modified : modified[j] = Diff(modified[j].id)
<1>1. Seen = DOMAIN newIndex
  BY DEF Seen, IInv, TypeOK
<1>2. QED BY <1>1 DEF IInv, RInv, EveryIdOnce, ModifiedDiffer

\* It says of a resource of both exports what its difference says.
LEMMA ListedChanges ==
  ASSUME IInv, RInv, result = "report", NEW id \in DOMAIN newIndex \cap DOMAIN baseIndex
  PROVE  Listed(id) = Diff(id).changes
<1>1. \A j \in DOMAIN modified : modified[j].id = id => modified[j].changes = Diff(id).changes
  BY ReportListed
<1>2. Listed(id) \subseteq Diff(id).changes
  BY <1>1 DEF Listed
<1>3. ASSUME NEW path \in Diff(id).changes PROVE path \in Listed(id)
  <2>1. id \in IdsOf(modified)
    BY <1>3, ReportListed
  <2>2. PICK j \in DOMAIN modified : modified[j].id = id
    BY <2>1 DEF IdsOf
  <2>3. QED BY <1>1, <1>3, <2>2 DEF Listed
<1>4. QED BY <1>2, <1>3

LEMMA ReportMeans == IInv /\ RInv => ReportIsTheDifference
<1> SUFFICES ASSUME IInv, RInv, result = "report", exports[1].format = exports[2].format
             PROVE  ReportOf(exports[1].scan, exports[2].scan)
  BY DEF ReportIsTheDifference
<1> DEFINE f == exports[1].format
           old == Latest(exports[1].scan)
           scan == Latest(exports[2].scan)
           both == {x \in old \X scan : x[1].id = x[2].id}
<1>1. /\ exports \in Pairs /\ f \in {"json", "yaml"}
      /\ base = Read(exports[1]) /\ new = Read(exports[2])
      /\ IsIndex(baseIndex, base, Len(base)) /\ IsIndex(newIndex, new, Len(new))
  BY DEF RInv, Loaded, IsRead, IndexedSoFar, Readable, IInv, TypeOK
<1>2. /\ DOMAIN baseIndex = {r.id : r \in old} /\ old \subseteq Resources
      /\ \A r \in old : baseIndex[r.id] = Stored(f, r)
  BY <1>1, IndexIsLatest
<1>3. /\ DOMAIN newIndex = {r.id : r \in scan} /\ scan \subseteq Resources
      /\ \A r \in scan : newIndex[r.id] = Stored(f, r)
  BY <1>1, IndexIsLatest
<1> HIDE DEF f, old, scan
<1>4. ASSUME NEW a \in old, NEW b \in scan, a.id = b.id
      PROVE  /\ \A path \in Listed(a.id) : At(a, path) # At(b, path)
             /\ \A path \in PropertiesOf(a, b) :
                  At(a, path) # At(b, path) => path \in Listed(a.id)
  <2>1. a.id \in DOMAIN newIndex \cap DOMAIN baseIndex
    BY <1>2, <1>3, <1>4
  <2>2. Listed(a.id) = DiffOf(who, Stored(f, a), Stored(f, b)).changes
    BY <1>2, <1>3, <1>4, <2>1, ListedChanges DEF Diff
  <2>3. a \in Resources /\ b \in Resources
    BY <1>2, <1>3
  <2>4. QED BY <1>1, <2>2, <2>3, ChangesAreReal, ChangesAreAll
<1>5. IdsOf(modified) \subseteq {x[1].id : x \in both}
  <2>1. SUFFICES ASSUME NEW id \in DOMAIN newIndex \cap DOMAIN baseIndex
                 PROVE  id \in {x[1].id : x \in both}
    BY ReportListed
  <2>2. PICK a \in old : a.id = id
    BY <1>2
  <2>3. PICK b \in scan : b.id = id
    BY <1>3
  <2>4. <<a, b>> \in both /\ <<a, b>>[1].id = id
    BY <2>2, <2>3
  <2>5. QED BY <2>4
<1>6. \A j \in DOMAIN modified : modified[j].changes # {}
  <2>1. SUFFICES ASSUME NEW j \in DOMAIN modified PROVE modified[j].changes # {}
    OBVIOUS
  <2>2. modified[j].id \in IdsOf(modified)
    BY DEF IdsOf
  <2>3. QED BY <2>2, ReportListed
<1>7. \A x \in both :
        /\ \A path \in Listed(x[1].id) : At(x[1], path) # At(x[2], path)
        /\ \A path \in PropertiesOf(x[1], x[2]) :
             At(x[1], path) # At(x[2], path) => path \in Listed(x[1].id)
  <2>1. \A x \in both : x[1] \in old /\ x[2] \in scan /\ x[1].id = x[2].id
    OBVIOUS
  <2>2. QED BY <1>4, <2>1
<1>8. both = Both(exports[1].scan, exports[2].scan)
  BY DEF Both, old, scan
<1> HIDE DEF both
<1>9. /\ IdsOf(added) = {r.id : r \in scan} \ {r.id : r \in old}
      /\ IdsOf(removed) = {r.id : r \in old} \ {r.id : r \in scan}
  BY <1>2, <1>3, ReportListed
<1>10. QED BY <1>5, <1>6, <1>7, <1>8, <1>9 DEF ReportOf, old, scan

(* Of two exports in one format the report lists as added and removed      *)
(* exactly the IDs that only the new one and only the old one has, and as  *)
(* modified, with every property that changed and nothing that did not,    *)
(* what both have with another name, region, tags or properties: it        *)
(* depends neither on the order of the scans nor on that of Go's maps.     *)
THEOREM ReportCorrect == Spec => []ReportIsTheDifference
<1>1. QED BY ReportMeans, Inductive, ReportInductive, PTL
==============================================================================
