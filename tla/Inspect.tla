------------------------------- MODULE Inspect -------------------------------
(***************************************************************************)
(* runInspect (cmd/inspector/inspect.go): load and check the configuration,*)
(* collect from each configured provider in turn and merge, estimate the   *)
(* costs, filter, export.  Every provider call, the creation of the output *)
(* file and the export may fail, and each failure ends the run with exit 1.*)
(*                                                                         *)
(* The filters are parsed and applied as module Filters says, the costs    *)
(* estimated as module Estimators says, on resources as module Converters  *)
(* makes them.  DiscoverRelationships (module Relationships) always        *)
(* returns nil and changes nothing that this command looks at.             *)
(***************************************************************************)
EXTENDS Collection, Filters, Estimators, SequencesExt, Functions

CONSTANTS
  Compiled,        \* the providers the build tags put into the binary
  Configs,         \* configurations: [providers, format]; providers is a
                   \* sequence of [name, finds], finds what one collects
  FlagChoices,     \* flags: [concurrent, estimate, filters, means, format, toFile]
  Stopped, Running \* the virtual machines that are, among Objects

\* filters has a sequence of expressions for each filter flag, at most one for a
\* flag that holds one text or one list; means is what the documents say of
\* them together: [valid, keeps], keeps the set of objects they describe.
FilterFlags == <<"tag", "regex", "date", "state", "property", "cost", "type", "provider">>
ASSUME InspectAssumption ==
  /\ Stopped \cup Running \subseteq Objects
  /\ \A c \in Configs : c.providers \in Seq([name : STRING, finds : Seq(Objects)])
  /\ \A f \in FlagChoices :
       /\ f.concurrent \in Int
       /\ f.estimate \in BOOLEAN /\ f.toFile \in BOOLEAN
       /\ \A n \in ToSet(FilterFlags) : f.filters[n] \in Seq(ToSet(f.filters[n]))
       /\ \A n \in {"state", "cost", "type", "provider"} : Len(f.filters[n]) <= 1
       /\ f.means.valid \in BOOLEAN /\ f.means.keeps \subseteq Objects
  /\ \A o \in Objects : Attr[o].created \in Int /\ Attr[o].updated \in Int
  /\ \A o \in Objects : \A p \in {"num_cache_nodes", "number_of_shards"} :
       IsFloat64(Attr[o], p) => Attr[o].props[p].value \in Nat

Formats == {"json", "yaml", "dot"}

VARIABLES
  config,          \* cfg
  flags,           \* the command line
  pc,              \* the step of runInspect
  k,               \* the provider it is at
  i,               \* position of the loop over resources it is in
  found,           \* the collection the provider returned
  all,             \* allResources
  filters,         \* the filters built so far
  scanned,         \* allResources before the filters replaced it
  cost,            \* res.Cost of every object
  pool,            \* concurrency the last AWS provider read from the context
  file,            \* the output file: "previous", "empty", "partial", "export"
  exit             \* "none", "ok" or "error"

vars == <<config, flags, pc, k, i, found, all, filters, scanned, cost, pool, file, exit>>
input == <<config, flags>>
providers == config.providers

\* The context: a value is found under the key it was stored under, and a key
\* of type contextKey is not the string of the same text.
ConcurrencyKey == [type |-> "contextKey", text |-> "concurrency"]
Value(key) == IF key = ConcurrencyKey THEN flags.concurrent ELSE 0
AWSPool == LET c == Value([type |-> "string", text |-> "concurrency"])
           IN  IF c > 0 THEN c ELSE 1

\* Registry.Create: the providers whose init has registered a factory.
Create(name) == name \in Compiled

Init ==
  /\ config \in Configs /\ flags \in FlagChoices
  /\ pc = "config" /\ k = 1 /\ i = 1
  /\ found = <<>> /\ all = NewCollection /\ filters = <<>> /\ scanned = <<>>
  /\ cost = [o \in Objects |-> NoCost]
  /\ pool = 0
  /\ file = "previous" /\ exit = "none"

Exit(code) == pc' = "exited" /\ exit' = code

-----------------------------------------------------------------------------
ConfigFails ==
  /\ pc = "config"
  /\ Exit("error")
  /\ UNCHANGED <<input, k, i, found, all, filters, scanned, cost, pool, file>>

ConfigLoaded_Opens ==                    \* mutant: the file is created first
  /\ pc = "config"
  /\ IF providers = <<>> THEN Exit("error") ELSE pc' = "provider" /\ UNCHANGED exit
  /\ file' = IF flags.toFile THEN "empty" ELSE file
  /\ UNCHANGED <<input, k, i, found, all, filters, scanned, cost, pool>>

\* Validate: at least one provider.
ConfigLoaded ==
  /\ pc = "config"
  /\ IF providers = <<>> THEN Exit("error") ELSE pc' = "provider" /\ UNCHANGED exit
  /\ UNCHANGED <<input, k, i, found, all, filters, scanned, cost, pool, file>>

\* registry.Create, Initialize or CollectResources returns an error.
ProviderFails_Skipped ==                 \* mutant: on with the next provider
  /\ pc = "provider" /\ k <= Len(providers)
  /\ k' = k + 1
  /\ UNCHANGED <<input, pc, i, found, all, filters, scanned, cost, pool, file, exit>>
ProviderFails ==
  /\ pc = "provider" /\ k <= Len(providers)
  /\ Exit("error")
  /\ UNCHANGED <<input, k, i, found, all, filters, scanned, cost, pool, file>>

Collect ==
  /\ pc = "provider" /\ k <= Len(providers) /\ Create(providers[k].name)
  /\ found' = providers[k].finds
  /\ pool' = IF providers[k].name = "aws" THEN AWSPool ELSE pool
  /\ pc' = "merge" /\ i' = 1
  /\ UNCHANGED <<input, k, all, filters, scanned, cost, file, exit>>

Merge ==
  /\ pc = "merge" /\ i <= Len(found)
  /\ all' = Add(all, found[i], cost[found[i]])
  /\ i' = i + 1
  /\ UNCHANGED <<input, pc, k, found, filters, scanned, cost, pool, file, exit>>

MergeDone_Twice ==                       \* mutant: the loop advances twice
  /\ pc = "merge" /\ i > Len(found)
  /\ pc' = "provider" /\ k' = k + 2
  /\ UNCHANGED <<input, i, found, all, filters, scanned, cost, pool, file, exit>>

MergeDone ==
  /\ pc = "merge" /\ i > Len(found)
  /\ pc' = "provider" /\ k' = k + 1
  /\ UNCHANGED <<input, i, found, all, filters, scanned, cost, pool, file, exit>>

ProvidersDone ==
  /\ pc = "provider" /\ k > Len(providers)
  /\ pc' = IF flags.estimate THEN "estimate" ELSE "filters"
  /\ i' = 1
  /\ UNCHANGED <<input, k, found, all, filters, scanned, cost, pool, file, exit>>

\* EstimateCollection sets res.Cost of every object it has an estimate for.
Estimated(o) ==
  LET e == EstimateCost(Attr[o])
  IN  [cost EXCEPT ![o] = IF e = NoEstimate THEN @ ELSE e]
EstimateOne_Stuck ==                     \* mutant: the loop does not advance
  /\ pc = "estimate" /\ i <= Len(all.resources)
  /\ cost' = Estimated(all.resources[i])
  /\ UNCHANGED <<input, pc, k, i, found, all, filters, scanned, pool, file, exit>>
EstimateOne ==
  /\ pc = "estimate" /\ i <= Len(all.resources)
  /\ cost' = Estimated(all.resources[i])
  /\ i' = i + 1
  /\ UNCHANGED <<input, pc, k, found, all, filters, scanned, pool, file, exit>>

EstimateDone ==
  /\ pc = "estimate" /\ i > Len(all.resources)
  /\ pc' = "filters" /\ i' = 1
  /\ UNCHANGED <<input, k, found, all, filters, scanned, cost, pool, file, exit>>

\* buildFilters: flag after flag, expression after expression.
Given ==
  FlattenSeq([n \in DOMAIN FilterFlags |->
    [j \in DOMAIN flags.filters[FilterFlags[n]] |->
       <<FilterFlags[n], flags.filters[FilterFlags[n]][j]>>]])

ParseFilter_Overwrites ==                \* mutant: the last filter only
  /\ pc = "filters" /\ i <= Len(Given)
  /\ LET f == Parse(Given[i][1], Given[i][2]) IN
       IF f = Error THEN Exit("error") /\ UNCHANGED filters
                    ELSE filters' = <<f>> /\ UNCHANGED <<pc, exit>>
  /\ i' = i + 1
  /\ UNCHANGED <<input, k, found, all, scanned, cost, pool, file>>
ParseFilter ==
  /\ pc = "filters" /\ i <= Len(Given)
  /\ LET f == Parse(Given[i][1], Given[i][2]) IN
       IF f = Error THEN Exit("error") /\ UNCHANGED filters
                    ELSE filters' = Append(filters, f) /\ UNCHANGED <<pc, exit>>
  /\ i' = i + 1
  /\ UNCHANGED <<input, k, found, all, scanned, cost, pool, file>>

\* The collection itself, or a new one with the metadata of the whole.
FiltersBuilt ==
  /\ pc = "filters" /\ i > Len(Given)
  /\ scanned' = all.resources
  /\ i' = 1
  /\ IF filters = <<>> THEN pc' = "format" /\ UNCHANGED all
     ELSE pc' = "filter" /\ all' = [all EXCEPT !.resources = <<>>]
  /\ UNCHANGED <<input, k, found, filters, cost, pool, file, exit>>

FilterOne_Inverted ==                    \* mutant: the excluded ones are kept
  /\ pc = "filter" /\ i <= Len(scanned)
  /\ LET o == scanned[i] IN
       all' = IF ApplyAll(filters, Attr[o]) THEN all ELSE Add(all, o, cost[o])
  /\ i' = i + 1
  /\ UNCHANGED <<input, pc, k, found, filters, scanned, cost, pool, file, exit>>
FilterOne ==
  /\ pc = "filter" /\ i <= Len(scanned)
  /\ LET o == scanned[i] IN
       all' = IF ApplyAll(filters, Attr[o]) THEN Add(all, o, cost[o]) ELSE all
  /\ i' = i + 1
  /\ UNCHANGED <<input, pc, k, found, filters, scanned, cost, pool, file, exit>>

FilterDone ==
  /\ pc = "filter" /\ i > Len(scanned)
  /\ pc' = "format"
  /\ UNCHANGED <<input, k, i, found, all, filters, scanned, cost, pool, file, exit>>

\* The flag overrides the configuration; without either it is JSON.
Unset == "unset"
OutputFormat ==
  IF flags.format # Unset THEN flags.format
  ELSE IF config.format # Unset THEN config.format ELSE "json"

\* exporter.Get
GetExporter ==
  /\ pc = "format"
  /\ IF OutputFormat \in Formats THEN pc' = "open" /\ UNCHANGED exit
                                 ELSE Exit("error")
  /\ UNCHANGED <<input, k, i, found, all, filters, scanned, cost, pool, file>>

OpenFails ==
  /\ pc = "open" /\ flags.toFile
  /\ Exit("error")
  /\ UNCHANGED <<input, k, i, found, all, filters, scanned, cost, pool, file>>

\* os.Create truncates what the file held.
Open ==
  /\ pc = "open"
  /\ file' = IF flags.toFile THEN "empty" ELSE file
  /\ pc' = "export"
  /\ UNCHANGED <<input, k, i, found, all, filters, scanned, cost, pool, exit>>

\* A write fails at any point of the export.
ExportFails ==
  /\ pc = "export"
  /\ file' = IF flags.toFile THEN "partial" ELSE file
  /\ Exit("error")
  /\ UNCHANGED <<input, k, i, found, all, filters, scanned, cost, pool>>

Export ==
  /\ pc = "export"
  /\ file' = IF flags.toFile THEN "export" ELSE file
  /\ Exit("ok")
  /\ UNCHANGED <<input, k, i, found, all, filters, scanned, cost, pool>>

Terminating == pc = "exited" /\ UNCHANGED vars

Next ==
  \/ ConfigFails \/ ConfigLoaded
  \/ ProviderFails \/ Collect \/ Merge \/ MergeDone \/ ProvidersDone
  \/ EstimateOne \/ EstimateDone
  \/ ParseFilter \/ FiltersBuilt \/ FilterOne \/ FilterDone
  \/ GetExporter \/ OpenFails \/ Open \/ ExportFails \/ Export
  \/ Terminating

Spec == Init /\ [][Next]_vars /\ WF_vars(Next)

-----------------------------------------------------------------------------
(* Every variable has its type.                                            *)
TypeOK ==
  /\ config \in Configs /\ flags \in FlagChoices
  /\ pc \in {"config", "provider", "merge", "estimate", "filters", "filter",
             "format", "open", "export", "exited"}
  /\ k \in 1..(Len(providers) + 1)
  /\ i \in Nat \ {0}
  /\ found \in Seq(Objects) /\ all.resources \in Seq(Objects)
  /\ \A j \in DOMAIN filters : filters[j].flag \in ToSet(FilterFlags)
  /\ scanned \in Seq(Objects)
  /\ cost \in [Objects -> Int]
  /\ pool \in Nat
  /\ file \in {"previous", "empty", "partial", "export"}
  /\ exit \in {"none", "ok", "error"}
  /\ pc = "exited" <=> exit # "none"

FoundByAll == FlattenSeq([j \in DOMAIN providers |-> providers[j].finds])
Only(s, keeps) ==
  FlattenSeq([j \in DOMAIN s |-> IF s[j] \in keeps THEN <<s[j]>> ELSE <<>>])
Expected == IF Given = <<>> THEN FoundByAll ELSE Only(FoundByAll, flags.means.keeps)

(* No expression is parsed or applied as another: the ones given together  *)
(* parse exactly if they are well formed, and the predicates they are      *)
(* parsed to hold of exactly the resources that README.md:227-314 and the  *)
(* comments of pkg/filter say they select.                                 *)
FiltersMean ==
  pc = "config" =>
    LET parsed == [j \in DOMAIN Given |-> Parse(Given[j][1], Given[j][2])] IN
    /\ (\A j \in DOMAIN parsed : parsed[j] # Error) <=> flags.means.valid
    /\ (Given # <<>> /\ flags.means.valid) =>
         \A o \in Objects : ApplyAll(parsed, Attr[o]) <=> o \in flags.means.keeps

(* What is exported is everything every configured provider has and the    *)
(* filters describe, once and in the order of the configuration: a         *)
(* provider that fails never leaves an export without its resources, and   *)
(* no expression is parsed or applied as another.                          *)
ExportIsTheScan ==
  (pc = "export" \/ exit = "ok") => all.resources = Expected

(* The output file is not touched before everything that can be known to   *)
(* fail has been tried: after a failed provider, a filter that does not    *)
(* parse or an unknown format it still holds the previous export.          *)
FileSurvives ==
  file # "previous" =>
    /\ scanned = FoundByAll
    /\ flags.means.valid
    /\ OutputFormat \in Formats

(* "CollectionMetadata provides information about the collection": the     *)
(* counts beside the resources are the counts of these resources.          *)
MetadataCounts == pc \in {"merge", "provider", "export"} => CountsMatch(all)

(* They are, resource after resource, until a filter makes a second        *)
(* collection of the first.                                                *)
ScanCounts ==
  (pc \in {"merge", "provider"} \/ (pc = "export" /\ Given = <<>>))
    => CountsMatch(all)

(* The cost summary of an export with estimates is the sum, in total and   *)
(* per provider, region, type and tag, of the costs in it.                 *)
CostSummary == (pc = "export" /\ flags.estimate) => CostsMatch(all, cost)

(* It is where a filter has added the resources after their costs were     *)
(* estimated.                                                              *)
FilteredCosts == Given # <<>> => CostSummary

(* "Stopped/terminated resource detection (zero cost)": the state is where *)
(* the converter of the virtual machine leaves it for the estimator.       *)
StoppedCostsNothing ==
  (pc = "export" /\ flags.estimate) =>
    \A o \in ToSet(scanned) :
      /\ o \in Stopped => cost[o] = 0
      /\ o \in Running => cost[o] > 0

(* "Number of concurrent goroutines for parallel resource collection".     *)
ConcurrencyHonoured == pool # 0 => pool = flags.concurrent

(* The command always ends.                                                *)
Termination == <>(pc = "exited")
==============================================================================
