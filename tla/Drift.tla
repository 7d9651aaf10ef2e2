-------------------------------- MODULE Drift --------------------------------
(***************************************************************************)
(* Comparing two exports: the compare command (cmd/inspector/compare.go)   *)
(* and the /compare handler of the web UI (pkg/ui/server.go).  Both load   *)
(* two files, index the resources of each by ID in a map, and walk the     *)
(* maps, in an order Go leaves open, into lists of added, removed and      *)
(* modified resources.  They differ in the files they read, in how they    *)
(* compare tags and values, in updated_at, and in the list of unchanged    *)
(* resources, which only the UI keeps.                                     *)
(*                                                                         *)
(* A resource is a record of its id, the fields that are compared, and     *)
(* rest: everything the comparison leaves alone (type, account, ARN,       *)
(* relationships, cost, created_at).  Writing and reading an export is     *)
(* modelled by what it changes: whether a resource without tags has a nil  *)
(* or an empty map.  The values of properties are ones that both formats   *)
(* keep.                                                                   *)
(***************************************************************************)
EXTENDS Integers, Sequences, FiniteSets

CONSTANTS
  Resources,       \* [id, name, region, tags, props, updated, rest]
  Pairs            \* pairs of exports, each a [format, scan]

Nil   == "nil"     \* a nil map or pointer
Empty == "empty"   \* a map without elements

\* What a resource of the scan is after it was exported and read back: JSON
\* omits empty tags, YAML writes a nil map as an empty one.
StoredTags(format, t) ==
  CASE format = "json" -> IF t = Empty THEN Nil ELSE t
    [] format = "yaml" -> IF t = Nil THEN Empty ELSE t
Stored(format, r) == [r EXCEPT !.tags = StoredTags(format, @)]

ASSUME ResourcesAssumption ==
  \A r \in Resources :
    /\ r \in [id : STRING, name : STRING, region : STRING, tags : STRING,
             props : {r.props}, updated : STRING, rest : STRING]
    /\ r.props \in [DOMAIN r.props -> STRING]

ASSUME DriftAssumption ==
  \A p \in Pairs : \A x \in {p[1], p[2]} :
    /\ x.format \in {"json", "yaml", "dot"}
    /\ x.scan \in Seq(Resources)

VARIABLES
  who,             \* "cli" or "ui"
  exports,         \* the two files
  pc,
  i,               \* position in the list being indexed
  base, new,       \* the two collections, as read
  baseIndex, newIndex,
  todo,            \* keys the current loop over a map has still to visit
  added, removed, modified, unchanged, total,
  result           \* "none", "report" or "error"

vars == <<who, exports, pc, i, base, new, baseIndex, newIndex, todo,
          added, removed, modified, unchanged, total, result>>
input  == <<who, exports>>
report == <<added, removed, modified, unchanged, total>>

\* The command decodes JSON; the UI goes by the name of the file.
Readable == IF who = "cli" THEN {"json"} ELSE {"json", "yaml"}

\* reflect.DeepEqual, and the UI's comparison of JSON texts: both tell nil
\* from empty.
Equal(x, y) == x = y

SameProperty(a, b, p) ==
  /\ p \in DOMAIN a.props /\ p \in DOMAIN b.props
  /\ Equal(a.props[p], b.props[p])

\* compareResources: the keys of diff.Changes, as paths.
Changes_NotNew(w, a, b) ==             \* mutant: properties only b has
  {<<f>> : f \in {g \in {"name", "region", "tags"} : ~Equal(a[g], b[g])}}
    \cup {<<"properties", p>> : p \in {q \in DOMAIN a.props : ~SameProperty(a, b, q)}}
    \cup (IF w = "cli" /\ a.updated # b.updated /\ a.updated # Nil /\ b.updated # Nil
          THEN {<<"updated_at">>} ELSE {})
Changes(w, a, b) ==
  {<<f>> : f \in {g \in {"name", "region", "tags"} : ~Equal(a[g], b[g])}}
    \cup {<<"properties", p>> :
            p \in {q \in DOMAIN a.props \cup DOMAIN b.props : ~SameProperty(a, b, q)}}
    \cup (IF w = "cli" /\ a.updated # b.updated /\ a.updated # Nil /\ b.updated # Nil
          THEN {<<"updated_at">>} ELSE {})

DiffOf(w, a, b) == [id |-> a.id, changes |-> Changes(w, a, b), from |-> a, to |-> b]

Init ==
  /\ who \in {"cli", "ui"} /\ exports \in Pairs
  /\ pc = "load base" /\ i = 1
  /\ base = <<>> /\ new = <<>> /\ baseIndex = <<>> /\ newIndex = <<>>
  /\ todo = {}
  /\ added = <<>> /\ removed = <<>> /\ modified = <<>> /\ unchanged = <<>>
  /\ total = [added |-> 0, removed |-> 0, modified |-> 0, unchanged |-> 0]
  /\ result = "none"

-----------------------------------------------------------------------------
\* index[res.ID] = res
Indexed(x, key, r) == [id \in DOMAIN x \cup {key} |-> IF id = key THEN r ELSE x[id]]

Read(x) == [j \in DOMAIN x.scan |-> Stored(x.format, x.scan[j])]

LoadBase ==
  /\ pc = "load base" /\ exports[1].format \in Readable
  /\ base' = Read(exports[1])
  /\ pc' = "load new"
  /\ UNCHANGED <<input, i, new, baseIndex, newIndex, todo, report, result>>

LoadNew ==
  /\ pc = "load new" /\ exports[2].format \in Readable
  /\ new' = Read(exports[2])
  /\ pc' = "index base"
  /\ UNCHANGED <<input, i, base, baseIndex, newIndex, todo, report, result>>

\* A file that is missing, of another format, or does not decode.
LoadFails ==
  /\ pc \in {"load base", "load new"}
  /\ pc' = "done" /\ result' = "error"
  /\ UNCHANGED <<input, i, base, new, baseIndex, newIndex, todo, report>>

IndexBase_ByName ==                    \* mutant: keyed by the wrong field
  /\ pc = "index base" /\ i <= Len(base)
  /\ baseIndex' = Indexed(baseIndex, base[i].name, base[i])
  /\ i' = i + 1
  /\ UNCHANGED <<input, pc, base, new, newIndex, todo, report, result>>
IndexBase ==
  /\ pc = "index base" /\ i <= Len(base)
  /\ baseIndex' = Indexed(baseIndex, base[i].id, base[i])
  /\ i' = i + 1
  /\ UNCHANGED <<input, pc, base, new, newIndex, todo, report, result>>

BaseIndexed ==
  /\ pc = "index base" /\ i > Len(base)
  /\ pc' = "index new" /\ i' = 1
  /\ UNCHANGED <<input, base, new, baseIndex, newIndex, todo, report, result>>

IndexNew ==
  /\ pc = "index new" /\ i <= Len(new)
  /\ newIndex' = Indexed(newIndex, new[i].id, new[i])
  /\ i' = i + 1
  /\ UNCHANGED <<input, pc, base, new, baseIndex, todo, report, result>>

NewIndexed ==
  /\ pc = "index new" /\ i > Len(new)
  /\ pc' = "removed" /\ todo' = DOMAIN baseIndex
  /\ UNCHANGED <<input, i, base, new, baseIndex, newIndex, report, result>>

\* One round of the loop over baseIndex.
FindRemoved(id) ==
  /\ pc = "removed" /\ id \in todo
  /\ removed' = IF id \in DOMAIN newIndex THEN removed
                ELSE Append(removed, baseIndex[id])
  /\ todo' = todo \ {id}
  /\ UNCHANGED <<input, pc, i, base, new, baseIndex, newIndex,
                 added, modified, unchanged, total, result>>

RemovedDone ==
  /\ pc = "removed" /\ todo = {}
  /\ pc' = "compare" /\ todo' = DOMAIN newIndex
  /\ UNCHANGED <<input, i, base, new, baseIndex, newIndex, report, result>>

\* One round of the loop over newIndex: the resource is new, changed, or not.
FindAdded(id) ==
  /\ pc = "compare" /\ id \in todo \ DOMAIN baseIndex
  /\ added' = Append(added, newIndex[id])
  /\ todo' = todo \ {id}
  /\ UNCHANGED <<input, pc, i, base, new, baseIndex, newIndex,
                 removed, modified, unchanged, total, result>>

Diff(id) == DiffOf(who, baseIndex[id], newIndex[id])

FindModified(id) ==
  /\ pc = "compare" /\ id \in todo \cap DOMAIN baseIndex
  /\ Diff(id).changes # {}
  /\ modified' = Append(modified, Diff(id))
  /\ todo' = todo \ {id}
  /\ UNCHANGED <<input, pc, i, base, new, baseIndex, newIndex,
                 added, removed, unchanged, total, result>>

FindUnchanged_Twice(id) ==             \* mutant: counted, and then listed as modified
  /\ pc = "compare" /\ id \in todo \cap DOMAIN baseIndex
  /\ Diff(id).changes = {}
  /\ total' = [total EXCEPT !.unchanged = @ + 1]
  /\ modified' = Append(modified, Diff(id))
  /\ todo' = todo \ {id}
  /\ UNCHANGED <<input, pc, i, base, new, baseIndex, newIndex,
                 added, removed, unchanged, result>>
\* The command counts it; the UI lists it.
FindUnchanged(id) ==
  /\ pc = "compare" /\ id \in todo \cap DOMAIN baseIndex
  /\ Diff(id).changes = {}
  /\ IF who = "cli"
     THEN total' = [total EXCEPT !.unchanged = @ + 1] /\ UNCHANGED unchanged
     ELSE unchanged' = Append(unchanged, newIndex[id]) /\ UNCHANGED total
  /\ todo' = todo \ {id}
  /\ UNCHANGED <<input, pc, i, base, new, baseIndex, newIndex,
                 added, removed, modified, result>>

Summarize ==
  /\ pc = "compare" /\ todo = {}
  /\ total' = [added |-> Len(added), removed |-> Len(removed),
               modified |-> Len(modified),
               unchanged |-> IF who = "cli" THEN total.unchanged ELSE Len(unchanged)]
  /\ pc' = "done" /\ result' = "report"
  /\ UNCHANGED <<input, i, base, new, baseIndex, newIndex, todo,
                 added, removed, modified, unchanged>>

Terminating == pc = "done" /\ UNCHANGED vars

Next ==
  \/ LoadBase \/ LoadNew \/ LoadFails
  \/ IndexBase \/ BaseIndexed \/ IndexNew \/ NewIndexed
  \/ \E id \in todo : FindRemoved(id) \/ FindAdded(id)
                        \/ FindModified(id) \/ FindUnchanged(id)
  \/ RemovedDone \/ Summarize
  \/ Terminating

Spec == Init /\ [][Next]_vars

-----------------------------------------------------------------------------
(* Every variable has its type, and the indexes are keyed by ID.           *)
Collections == {Stored(f, r) : f \in {"json", "yaml"}, r \in Resources}
Differences == {DiffOf(w, a, b) : w \in {"cli", "ui"}, a \in Collections, b \in Collections}
Totals == [added : Nat, removed : Nat, modified : Nat, unchanged : Nat]
Keyed(x) == \A id \in DOMAIN x : x[id] \in Collections /\ x[id].id = id
TypeOK ==
  /\ who \in {"cli", "ui"} /\ exports \in Pairs
  /\ pc \in {"load base", "load new", "index base", "index new", "removed",
             "compare", "done"}
  /\ base \in Seq(Collections) /\ new \in Seq(Collections)
  /\ i \in Nat /\ i >= 1
  /\ Keyed(baseIndex) /\ Keyed(newIndex)
  /\ pc = "compare" => todo \subseteq DOMAIN newIndex
  /\ pc # "compare" => todo \subseteq DOMAIN baseIndex
  /\ added \in Seq(Collections) /\ removed \in Seq(Collections)
  /\ unchanged \in Seq(Collections)
  /\ modified \in Seq(Differences)
  /\ total \in Totals
  /\ result \in {"none", "report", "error"}
  /\ pc = "done" <=> result # "none"

IdsOf(s)   == {s[j].id : j \in DOMAIN s}
NoIdTwice(s) == \A j, k \in DOMAIN s : s[j].id = s[k].id => j = k
Seen       == DOMAIN newIndex \ IF pc = "compare" THEN todo ELSE {}
UnchangedCount ==
  total.unchanged + IF who = "ui" /\ pc = "compare" THEN Len(unchanged) ELSE 0

(* No resource is in two of the lists, or in one of them twice, and none   *)
(* is left out: at every point of the second loop the lists and the count  *)
(* of unchanged ones account for the removed IDs and the IDs visited.      *)
EveryIdOnce ==
  (pc = "compare" \/ result = "report") =>
    /\ IdsOf(removed) = DOMAIN baseIndex \ DOMAIN newIndex
    /\ IdsOf(added) = Seen \ DOMAIN baseIndex
    /\ IdsOf(modified) \cup IdsOf(unchanged) \subseteq Seen \cap DOMAIN baseIndex
    /\ IdsOf(modified) \cap IdsOf(unchanged) = {}
    /\ NoIdTwice(removed) /\ NoIdTwice(added)
    /\ NoIdTwice(modified) /\ NoIdTwice(unchanged)
    /\ Len(added) + Len(modified) + UnchangedCount = Cardinality(Seen)

\* The resources of a scan that count: the last one of each ID.
Latest(s) == {s[j] : j \in {k \in DOMAIN s : \A l \in (k + 1)..Len(s) : s[l].id # s[k].id}}

\* What a resource has at a path of diff.Changes, in a sequence that is empty
\* if there is nothing; no tags are no tags.
Plain(t) == IF t = Nil THEN Empty ELSE t
At(r, path) ==
  CASE path[1] = "properties" -> IF path[2] \in DOMAIN r.props THEN <<r.props[path[2]]>>
                                 ELSE <<>>
    [] path[1] = "tags"       -> <<Plain(r.tags)>>
    [] path[1] = "updated_at" -> <<r.updated>>
    [] OTHER                  -> <<r[path[1]]>>

\* The properties of two resources.
PropertiesOf(a, b) == {<<f>> : f \in {"name", "region", "tags"}}
                        \cup {<<"properties", p>> : p \in DOMAIN a.props \cup DOMAIN b.props}

\* What the report says has changed in a resource.
Listed(id) == UNION {modified[j].changes : j \in {k \in DOMAIN modified : modified[k].id = id}}

Both(old, scan) == {x \in Latest(old) \X Latest(scan) : x[1].id = x[2].id}

ReportOf(old, scan) ==
  /\ IdsOf(added)   = {r.id : r \in Latest(scan)} \ {r.id : r \in Latest(old)}
  /\ IdsOf(removed) = {r.id : r \in Latest(old)} \ {r.id : r \in Latest(scan)}
  /\ IdsOf(modified) \subseteq {x[1].id : x \in Both(old, scan)}
  /\ \A j \in DOMAIN modified : modified[j].changes # {}
  /\ \A x \in Both(old, scan) :
       /\ \A path \in Listed(x[1].id) : At(x[1], path) # At(x[2], path)
       /\ \A path \in PropertiesOf(x[1], x[2]) :
            At(x[1], path) # At(x[2], path) => path \in Listed(x[1].id)

(* The report is a function of the two scans, not of the order in which    *)
(* they list their resources or the maps are walked.  Added is what only   *)
(* the new export has and removed what only the old one has; modified is   *)
(* what both have "with changed properties", each with every property that *)
(* changed, and never with a field that is the same in both.  Of the       *)
(* fields that neither comparison looks at it says nothing: that is        *)
(* ReportAsDocumented.                                                     *)
ReportIsTheDifference ==
  (result = "report" /\ exports[1].format = exports[2].format)
    => ReportOf(exports[1].scan, exports[2].scan)

(* "Added resources: Resources that exist in the new export but not in the *)
(* old one ... Unchanged resources: Resources that are identical in both   *)
(* exports": in whichever of the formats the UI accepts each was saved,    *)
(* what both have is unmodified exactly if it is identical in both, and    *)
(* the totals account for every resource of the new export.                *)
Same(a, b) == [a EXCEPT !.tags = Plain(@)] = [b EXCEPT !.tags = Plain(@)]
ReportAsDocumented ==
  result = "report" =>
    /\ \A x \in Both(exports[1].scan, exports[2].scan) :
         x[1].id \notin IdsOf(modified) <=> Same(x[1], x[2])
    /\ total.added + total.modified + total.unchanged = Len(exports[2].scan)
==============================================================================
