# Specifications of pmp-cloud-inspector

This directory holds TLA+ specifications of the program in `src/`, the TLC
configurations that check them on small instances, and proofs, checked by TLAPS,
of the properties that matter most. `PROJECT.json` lists the components, the
runs, the theorems and the source lines each definition stands for.

The program is a command line tool in Go. `inspect` reads a configuration, lists
the resources of each configured cloud provider through its API, optionally
estimates costs and filters, and writes an export. `compare` reports the
difference of two exports. `ui` serves a page that shows an export and compares
two. There are no Go tests; the documentation is `src/README.md`, the comments
and `src/examples/config.yaml`.

## 1. Inventory

| Component (under `src/`) | State | Operations | Interacts with |
|---|---|---|---|
| AWS `CollectResources` (`pkg/provider/aws/provider.go`) | the collection; `regionChan`, `errorChan`, a mutex and a wait group; the workers | collect globally, then region by region in one goroutine or in a pool | collectors, `Collection.Add`, the limiter, a context value |
| Collectors (`pkg/provider/*`) | page tokens, the collection | list, describe, look inside, add | cloud APIs, the limiter |
| Provider registry (`pkg/provider/provider.go`) | factories by name | `Register`, `Create` | build tags, `runInspect` |
| Rate limiter (`pkg/ratelimit`) | a delay | `Wait` | AWS, Azure and GCP |
| `resource.Collection` (`pkg/resource/resource.go`) | resources, eleven counts and sums | `Add`, `Get`, `Filter` | everything |
| Relationships (`*/relationships.go`, `DiscoverRelationships`, `graph.go`) | edges on resources | inverse edges, memberships | the collection, Okta and Auth0 APIs |
| `runInspect` (`cmd/inspector/inspect.go`) | the collection, the output file | load, collect, merge, estimate, filter, export | all of the above |
| Configuration (`pkg/config`) | none | `LoadConfig`, `Validate` | `runInspect` |
| Filters (`pkg/filter`) | none | eight parsers, eight predicates, `ApplyFilters` | `Collection.Add` |
| Estimators (`pkg/cost`) | price tables | `EstimateCollection` | sets `Cost` on resources |
| Exporters (`pkg/exporter`) | none | JSON, YAML, DOT | the output file |
| `compare` (`cmd/inspector/compare.go`) | two maps by ID, the report | load, index, compare | JSON exports |
| UI server (`pkg/ui/server.go`) | none between requests | `/upload`, `/compare` | exports in both formats |
| UI page (`templates/index.html`) | the last answer | asynchronous requests, one at a time | UI server |

Components interact by calls, but for four shared things: the pool's workers share
one collection, channels and a mutex; the resources are pointers shared by the
collection, its filtered copy and the estimators; the concurrency setting travels
through a `context.Context`; and the two comparisons depend on what the exporters
wrote.

What is hard here, and hardly reached by a test:

- **Interleaving and termination of the pool.** A worker gives up after its first
  error and stops receiving; the sender and the error senders rely on buffers,
  the closing of the channels on the wait group, the merge on the mutex.
- **Partial failure.** Every API call may fail. Some errors abort everything, some
  skip one object with a warning, some are read as the end of a list, one is
  retried without limit.
- **Paging.** Each collector has its own loop, or none.
- **Order of effects.** Costs are set after the counts were made, filters copy
  metadata that is already full, the output file is truncated last.
- **Two formats, two comparisons.** An export is written by one part and read by
  another, and the loops over Go maps have no order.

What makes each component correct is listed with its module below.

## 2. Modules

| Module | Models |
|---|---|
| `CollectContract` | what `CollectResources` promises (the interface, `provider.go:21`) |
| `RegionPool` | AWS `CollectResources` and its worker pool |
| `Catalogue` | the collectors of the eight providers, and which types ask for each |
| `Collecting` | `CollectResources` of every provider in one goroutine, over the `Catalogue` |
| `Converters` | what each collector makes of an API object: a `resource.Resource` |
| `Collection` | `resource.Collection`: `Add` and its metadata |
| `Filters` | the parsers and predicates of the eight filter flags |
| `Expressions` | what the documentation promises of a filter expression: how it is written, when it is valid, what it says of a resource |
| `Estimators` | the three cost estimators |
| `Inspect` | `runInspect`, over `Collection`, `Filters`, `Estimators`, on converted resources |
| `Relationships` | `DiscoverRelationships`, the DOT graph and `resource.Graph`, on converted resources |
| `Drift` | `compare` and the UI's `/compare` |
| `RegionPool_proofs`, `Collecting_proofs`, `Collection_proofs`, `Filters_proofs`, `Inspect_proofs`, `Relationships_proofs`, `Drift_proofs` | theorems about the module of that name |
| `SequenceInduction` | lemmas on induction over naturals and on recursive operators over sequences, for the proofs |
| `MC...` | instances for TLC |

`Converters`, `Filters` and `Estimators` are operators without state; the runs that
check them are those of the modules that use them.

In every module a variable is named after the Go variable it stands for where there
is one, an action is a step of a function, `pc` is the place in the function, and a
definition whose name ends in `_Something` and has the comment *mutant* is a faulty
variant of the definition after it, used to see that a property can fail. A failing
call is an action of its own beside the succeeding one.

### CollectContract and RegionPool

`CollectContract` is what the caller of `CollectResources` may rely on, without a word
about how it is done: the call fails and hands over nothing (`Fail`), or succeeds with a
list (`Succeed`) that has nothing but what a complete scan finds (`expected`), each
resource once, and all of it but what is `excused`. Only a failure that the provider goes
on after excuses anything (`PassOver`). AWS's pool passes over no failure of a region, so
for `RegionPool` `excused` is empty; for `Collecting` it is what the tolerated failures
explain. Both are shown to implement it.

`RegionPool` has the calling goroutine (`mpc`, `mstep`, `next`, `spawned`) and the
workers (`wpc`, and per worker the region `job`, the collectors done `step`, the
resources merged `added`). `regionChan` is two counters, `next - 1` sent and `taken`
received, because regions are sent once and in order; `errorChan` is the sequence
`errs`; `wg` and `mu` are the wait group and the holder of the mutex. A worker's
private collection is the first `Found[job][step]` resources of its region.
`Collection.Add` under the lock is two steps, `AddRead` and `AddWrite`, because an
unlocked append is a read and a write: were the mutex missing, an append of another
worker would be lost. Its metadata is modelled in `Collection`. A worker's `return`
and its deferred `wg.Done()` are one step; nothing happens between them.

Correct means: the caller gets every resource of the scan once or an error
(`ContractSpec`, the refinement of `CollectContract`); a region is in the shared
collection whole or not at all, and not if it failed (`MergeAtomic`); the buffers
suffice (`SendsNeverBlock`); nobody sends on a closed channel and nobody touches the
collection after the call (`ClosedAfterWorkers`); an append never overwrites another
(`AppendOnly`); the call returns (`Termination`). The last has a safety half of its own:
the goroutines never all wait for one another (`NeverStuck`, over what each place of the
program waits for, `CallerWaits` and `Waits`), and every step takes one of them on in its
program and throws none back (`OnlyForward`). Their places are bounded, so what is left
for `Termination` is that the scheduler runs what can run.

The loop over `errorChan` is one step: the channel is closed and its first error is
returned. `AWSPool` in `Inspect` shows that the program as it stands never takes the
concurrent branch (section 5). The pool is modelled because it is the code's design
and becomes live with the one-word repair.

### Catalogue and Collecting

A collector is a record of six choices: how it lists (`paged`, `first` page only, the
`whole` in one answer, `static` names), what a failed list call does (`abort`, `stop`),
what it does with an object (`add`, `describe`, `list` what is inside), what a failure of
that does (`abort`, `skip`, `retry`), whether it passes over nameless objects, and whether
over objects whose description comes back empty (DynamoDB's tables). Each of the 54
collectors is one such line, and each provider one list of steps. JFrog's collectors make
one call, which its service answers `whole`; the other collectors of one call keep the
`first` page and drop what announces the next.

`Collecting` runs the listings of a request. A call that fails adds to `failed`; one
that prints a warning also to `warned`. `sinceWait` holds the calls made since the
limiter last waited. `tries` alternates with each attempt at a repeated call, so that
a retry is a step and not a stutter. What a service holds does not change during a
run; a change between pages is the service's business and no code here notices one.

Correct means: whatever is missing after a successful return is explained by a call
that failed, and that the collector reports or takes for the end of a list
(`GapsExplained`); better, it was reported (`NoSilentGap`, which does not hold);
nothing is read twice or out of order (`ListedInOrder`); only what was asked for is
there (`OnlyRequestedTypes`), and what is asked for and supported is
(`SupportedIsCollected`). Where the code falls short of the first and the last two, the
properties name the exception and allow no other: the later pages of the twelve types that
are `CutShort`; the other kind of load balancer, which a request of one brings with it
(`Brought`); and the two `Unlisted` types, of which the property says that nothing is ever
there. A thirteenth type cut short, a third type without a collector or another type that
comes unasked breaks them. Further, calls of different steps are separated by a wait
(`StepsPaced`); all of it together is the contract (`ContractSpec`); the cursor moves on
with every step, the repetition of a failed call by the one collector that repeats
excepted (`OnlyForward`); the call returns.

### Converters

One row per `convert...` function, or per literal in a collector that has none (`Rows`
is the set of the 55): which of the names of an API object becomes the ID and which the name, whether account,
region, tags and dates are kept, the Go type each property is stored as, and the
relationships made of its references. `ToResource` reads the row. The Go types matter
because the filters and the estimators make type assertions that fail silently: an
`int32` is no number to either, a pointer prints as an address, and only a
`map[string]interface{}` has properties of its own.

A text is a sequence of chunks, cut where the program cuts, compares or maps it: a
path at its slashes, an instance type after its family, an expression around its
operator characters. The chunks in between are opaque, so what depends on them alone
is exact and texts stay short.

### Filters and Estimators

A filter expression is parsed as `parser.go` does, by the first operator of a list that
occurs in it, and applied to a resource. What Go's libraries make of a chunk is given by the
constants: `Numbers` for `ParseFloat` and what `%v` prints of the result, `Booleans`,
`Lower`, and `Dates`, in half days. A regular expression is a text that may have `^`,
one `.*` and `$`, and `(` stands for one that does not compile.

`Expressions` is the other side: an expression as a record of its form and its operands,
how the README and the comments write each form (`Written`), which operands do not change
the form (`Shaped`: a key has no `=` in it), when it is valid (`Valid`), and what it says
of a resource (`Means`), by its form and without parsing anything. `Means` is what the
documents say, also where the program does otherwise: a range of dates has the whole of its
last day ("updated in January 2024", README:305), "created after" a date excludes it
(README:302), `^=` is starts with (`parser.go:231`), a number is compared as one whatever
Go type keeps it, text as it is written, and the cost of a resource is its estimate if
there is one. What a number, a date, a regular expression or a property path is, `Means`
takes from `Filters`, since the documentation does not say. `Misread` names the resources
on which the program takes an expression otherwise; each is an item of section 5.

`MCInspect` says of each of its expressions, by hand, which objects it describes. The
instance checks that against `Expressions`: every expression is a `Shaped` one
(`ExpressionsAreShaped`), the objects are those that it `Means` (`DescribedIsMeant`), and
each of the five `Misreadings` is parsed to a filter that holds of others
(`EachIsMisread`). The five are the command lines of the run `misread_filters`; those of
`inspect` have every other form, with objects on which the program and the documents
agree.

`Estimators` holds the price tables, the multipliers as ordered lists of cases, and
the property each estimator reads, with the type it insists on.

### Collection and Inspect

`Collection` has the counts of `Add` as maps that are total, with 0 for a missing
entry. A resource is an object with fixed attributes; its cost is a variable of
`Inspect`, because the code sets it on a resource already added. `Inspect` follows
`runInspect` line by line. The context is modelled by the keys it is asked with,
`contextKey("concurrency")` and `"concurrency"`. A command line has the filter
expressions of each flag, at most one for the state, the cost and the lists of types and
providers, as `buildFilters` makes one filter of each, and beside them `means`: whether they are well formed and
the set of objects they describe, written down for each instance from the
documentation of the flags and the objects themselves. The code sees the expressions
and the converted resources, the properties compare with `means`, so a fault of a
parser, a predicate or a converter shows as a wrong export. `FiltersMean` states that
comparison by itself, of the state in which a run starts: the expressions parse exactly
if they are well formed, and what they parse to holds of exactly the objects that the
documents say they describe. It is the one thing about flags that depends on their text, and what the
proofs about the export need of them. `DiscoverRelationships` is
part of a provider's success: no implementation returns an error. An unwritable disk
is `ExportFails`.

Correct means: the export is the scan, filtered, in order and without a provider's
part missing (`ExportIsTheScan`); a run that fails before `os.Create` leaves the
previous export alone (`FileSurvives`); the counts and sums are those of the
resources beside them (`ScanCounts`, `FilteredCosts`, and in general
`MetadataCounts` and `CostSummary`, which do not hold); a stopped machine costs
nothing and a running one something (`StoppedCostsNothing`); the command ends.

### Relationships

An inventory is what one provider has collected, as API objects; `resources` starts as
their conversion. The pass goes once over the collection: `DiscoverContents` is the
round for an AWS VPC or a GitHub organization, which looks at every resource for a
`belongs_to` to answer; `DiscoverResourceGroup` that of Azure; `DiscoverMembers` and
`MembersFail` the call for an Okta group or an Auth0 user. A Go map that a loop fills is
`Assigned(keys, values)`, where a later value of a key replaces an earlier one. Then the result is either
drawn as a DOT file, nodes first, or made a `resource.Graph` and used. Nothing in the
program calls the graph; any use of up to `MaxUses` calls follows the pass.

Correct means: `contains` and `belongs_to` mirror each other over the whole collection
(`MirrorHolds`); what one API object says of another is linked under the ID and type
the other was collected with (`LinksResolve`), which relates two converters each time;
a failed membership call costs its own members and the pass takes nothing away
(`MembershipFailuresLocal`); every edge of the DOT file starts at a node and ends at
the node of the resource it means (`EdgesMeetNodes`); the graph's adjacency lists stay
those of the resource its index returns (`GraphAgrees`).

### Drift

One module for both comparisons, which are the same loops twice; `who` says which.
Loading, indexing one resource, and one round of each loop over a map are actions,
the rounds in any order. `Stored` is what an export and a reading do to a resource:
JSON omits empty tags, which are nil when read, and YAML writes nil tags as `{}`,
which are empty when read. `rest` stands for every field that is not compared.

Correct means: every ID is accounted for exactly once at every point of the second
loop and in the report (`EveryIdOnce`); the report depends on the two scans only, has
as added and removed what only one of them has, and of what both have every property,
tag, name and region that differs, and nothing that is the same
(`ReportIsTheDifference`, which says nothing of the fields that are not compared). What
README:451-454 promises is more: what is not modified is identical, whatever the formats,
and the totals account for every resource of the new export (`ReportAsDocumented`, which
does not hold).

## 3. Runs

| Run | Instance | Result |
|---|---|---|
| `region_pool` | 3 regions, one with fewer resources, 2 collectors each, pools of 1, 2, 4; 169,102 states | all properties hold |
| `collectors` | one request for each supported type, all types of each provider at once, and three others; 2 scopes, 2 pages of 2 objects in every listing; up to 2 tolerated failures; 78,525 states | all hold |
| `inspect` | 5 configurations of up to 5 providers (one repeated, one not compiled in), some 70 command lines with the filters of every flag, 13 objects; 6,767 states | all hold |
| `relationships` | 11 inventories of the eight providers, each call failing or not, every use of a graph of up to 2 calls; 471 states | all hold |
| `drift` | 676 pairs of scans of up to 3 resources in 9 variants, and pairs in YAML and DOT; 24,664 states | all hold |
| `gcp_silent` | the three GCP collectors that stop on an error | `NoSilentGap` violated |
| `sql_forever` | Azure SQL databases whose listing keeps failing | `Termination` violated |
| `filtered_counts` | a filter that keeps one resource | `MetadataCounts` violated |
| `unfiltered_costs` | estimates without a filter | `CostSummary` violated |
| `misread_filters` | five documented expressions, one a time, over a scan with estimates | `ExportIsTheScan` violated |
| `concurrent_flag` | `--concurrent 4` | `ConcurrencyHonoured` violated |
| `report_documented` | two scans, one as JSON and one as YAML: an untagged resource that is the same, one whose relationships changed, a repository and a new team of its number | `ReportAsDocumented` violated |

Why the bounds are enough. The pool: with three regions and four workers there are
idle workers, with two there are regions left when both have died, and with one
worker the sequential branch runs; the theorems of section 6 cover the rest. The
collectors: what a step does depends on whether a page is the first or the last and
an object the first or the last, so two of each distinguish all cases, and two
failures reach "one call failed, then another of the same or a later listing";
`MaxFailures` bounds only failures that do not end the run. `FirstPages = 2` gives the
collectors that read one page a second one to miss. Inspect: a provider that is repeated gives a merge
after a merge and a resource ID that occurs twice, an object of each Go type of
property meets a filter or an estimator that reads it, each operator of each flag
occurs once with objects on both sides of it, and the formats include an unknown one,
one from the configuration and none. Relationships: the inventories have a container
listed twice, absent, and beside another one; IDs that two types share; references to
what was not collected; a group with no, one and two members. A third use of a graph
meets no state of it that two do not. Drift: seven variants of a resource change
every compared field, add and lose a property, turn nil tags into empty ones and
change only what is not compared; scans hold an ID twice, in both orders; two
resources visited in either order interleave all rounds.

Deadlock is checked in every run: the only states without a further step are the
explicit `Terminating` or `Stop` ones.

## 4. Fairness

`RegionPool`: weak fairness of the calling goroutine and of each worker, since the Go
scheduler runs every goroutine that can run. No fairness of the mutex is needed: a
worker competes for it a bounded number of times. `Inspect` and `Collecting`: weak
fairness of `Next`, one goroutine that keeps running. That says nothing of whether a
call succeeds, so a service that fails the same call for ever is a fair behaviour,
and this is how `sql_forever` fails. `collectors` adds weak fairness of
`InnerPage`, a service that answers the same page in the end (`RecoveringSpec`); only
the Azure SQL listing needs it. `Drift` and `Relationships` have no liveness property:
their loops run over finite data with nothing to wait for.

## 5. Where the code and its documentation part

Each has a run whose counterexample shows it:

- `gcp_silent`: errors of three GCP listings are taken for missing zones or regions
  and dropped (`gcp/collectors.go:44`, 159, 189); `CollectResources` "collects all
  resources of the specified types".
- `sql_forever`: `azure/collectors.go:373` continues with a pager that has not moved.
- `filtered_counts`: `filter.go:477` starts a filtered collection from full counts.
- `unfiltered_costs`: `--estimate-costs` leaves `metadata.total_cost` empty.
- `concurrent_flag`: the flag is stored under a typed key and read under a string.
- `misread_filters`: five documented expressions select other resources than the
  documents say. The counterexample is that of one, and `EachIsMisread` checks that each
  of the five is parsed to a filter that holds of other objects.
  - `--filter-cost` looks for a property that nothing sets (`filter.go:372`) and never at
    the cost that `--estimate-costs` has set (`CostMisread`).
  - A date range ends at the first instant of its last day (`parser.go:136`), so
    README:305's "updated in January 2024" loses most of the 31st, while a single date
    includes the following midnight and `created:>` includes its bound (`DateMisread`).
  - `^=` and `$=` are never found, `=` is (`parser.go:227`); a number is compared for
    equality as printed, so `version=1.30` means 1.3 (`parser.go:253`); an `int32`
    (`memory_size`) has no order (`filter.go:343`) and a pointer is compared as an address
    (`PropertyMisread`).
- `report_documented`: all in the last state of its counterexample. The UI reports the
  untagged resource, the same in both exports, as modified (`server.go:353`: `null` is not
  `{}`). Resources that differ only in type, account, ARN, relationships or cost, and in the
  UI in their update date, count as unchanged; README:454 says "identical in both exports".
  Both comparisons index by ID alone, and GitHub and GitLab number each type of object
  separately, so one of a repository and a team with the same number is neither added,
  removed, modified nor unchanged.

Named as exceptions in a property of `collectors`, which has the requests and the pages
that reach them:

- Asking for `aws:elb:application` alone also collects network load balancers, and
  the reverse (`aws/provider.go:270`; `Brought`).
- `azure:network:subnet` and `gcp:project` are supported types
  (`azure/provider.go:74`, `gcp/provider.go:118`; README:82, 57) that no collector
  lists (`Unlisted`).
- Auth0's `collectRoles` "collects all Auth0 roles" and asks for the first page; so do
  the other Auth0 collectors but users, all of Okta, and AWS's VPCs, subnets, security
  groups and queues (`CutShort`).

Met while reading and not given a run:

- The limiter waits once per collector (`aws/provider.go:153`), not per API call
  (README:493). `StepsPaced` states what the code does.
- `export.output_file`, `pretty` and `include_raw` of the configuration (README:549)
  are read and never used; only the flags count (`inspect.go:184`, 204).
- `updated:2024-01..2024-12` of the flag's help (`inspect.go:61`, README:229) does not
  parse. `created:>2024-01-01` is "created after 2024-01-01" in README:302 and "created in
  2024" in README:311, which is not the same for the first instant of the year; `Expressions`
  takes the former. README:311's EC2 instances are none: the converter of EC2 instances
  sets no `CreatedAt`.
- A tag filter with an invalid regular expression is accepted and matches nothing.
- Azure tags are stored as a property (`azure/collectors.go:58`), where neither tag
  filters, property filters nor the comparison of tags look. `DescribedIsMeant` reads
  "tags" as the tags of the converted resource.
- A stopped Azure machine is priced as a running one: the estimator looks for
  `Deallocated` in the provisioning state, which is not the power state. Sizes are
  matched by the first substring of a `switch`, so n1-standard-16 counts as
  n1-standard-1 and Standard_D48 as Standard_D4. Node counts of ElastiCache and
  MemoryDB are `int32`, or under another name, and are ignored.
- A GCP subnetwork is linked to its network by URL and the network collected by number,
  so the edge leads nowhere; `LinksResolve` leaves out references by URL. An Azure
  machine finds its resource group only if both spell it in the same case, and a GitHub
  user its organization only if the configuration spells the login as GitHub does.
- A failed roles call of Auth0 is passed over without a warning, unlike Okta's.
- DOT identifiers replace four characters by one, so IDs that differ only in these
  become one node.
- `collectAppServices` (`azure/collectors.go:298`) reads `Properties.State` before
  testing `Properties` for nil.

## 6. Proofs

Every invariant that a passing run checks, and every action property and refinement, is
also a theorem: it holds for every value of the constants that satisfies the named
assumptions, and the hypotheses of the theorem where it has any. The
run says that the formula is not vacuous and that a faulty program breaks it, the
theorem that the bounds of section 3 hide nothing.

**Assumptions.** In `RegionPool`, that the numbers are naturals, `Found` counts up and
the context holds integers. In `Collecting` (`CollectingAssumption`), that a request
names one of the eight providers and the numbers are positive. In `Filters`
(`FiltersAssumption`), that numbers and dates denote integers, the model's thousandths and
half days. In `Collection` and `Inspect` (`AttrAssumption`, `InspectAssumption`), that the
attributes of a resource are of the declared sets, its dates instants, a configuration is a
sequence of providers with what each finds, flags that hold one value are given once, and
a number of nodes stored as a `float64` is a natural. In `Drift`, that
resources are records of texts and exports sequences of them in one of three formats.
In `Relationships`, that objects are those of the inventory's provider and have a
converter (`RelationshipsAssumption`), and two statements about the services, not
about the program. Two listings of the same subnet, security group, repository or team
name the same container (`IdsAssumption`: the pass identifies these by ID, and the ID
is unique where it comes from, so that a second object under it is the first again).
A reference is to an object of the type that its role says (`RefsAssumption`: a
subnet's VPC field holds a VPC).

**`RegionPool_proofs`** rests on `IInv`, a conjunction of five parts besides the
types. `PhaseInv` ties the caller's place to the channels. `WorkerInv` says that `wg`
counts the running workers and that a worker that left found `regionChan` closed and
empty or left an error. `LockInv` says that the worker that merges holds the mutex and
that its pending `Add` has read the current collection. `JobInv` says that every
region received is with one worker, failed, or merged. `ContentInv` says, resource by
resource, what the shared collection holds: for the pool, a region is there up to
where its worker has got. The properties themselves are not inductive. That
`MergeAtomic` survives a step depends on which worker is where, and that a successful
return has everything needs the argument "no error, so every worker left because the
channel was empty, so every region was taken, so every region was merged", which is
`WorkerInv` and `JobInv` together. The theorems are `Inductive`, `TypeCorrect`,
`MergesAreAtomic`, `NoSendAfterClose`, `BuffersSuffice`, and `Refinement`: `Spec`
implements `CollectContract` with `reported` mapped to the collection once the call has
succeeded. `AppendsKept` is about steps, and follows from `LockInv`: the collection that
a worker writes back is the one it has read.

`NoDeadlock` is the argument for the absence of deadlock: the caller waits for the wait
group only, `wg` counts the workers that are left, and of those the one that holds the
mutex, or any one if it is free, does not wait, since neither channel is ever full.
`AlwaysForward` needs one invariant besides, `JobsTaken`: a worker's region is one that has
been received, so that the next one it receives is a later one. With these two the safety
half of `Termination` is proved for any number of regions and workers, any of which may
die anywhere.

**`Collecting_proofs`** starts with the catalogue: every step that a request can run
has listings, asks for the types that they yield, and `ListingsOfRequest` puts
together nothing else (`Steps`, `Sections`, `InSections`). `IInv` adds two places to
the properties. `Position` says where the cursor can be: a second page is of a paged
listing, a call inside an object is of one that was asked for. `LastPassed` says that
the cursor is past the last resource of the collection, which is what makes an append
keep the order; `ListedInOrder` alone does not exclude a cursor that has gone back.
`Paced` says that the calls since the last wait are of the running step. For
`GapsAreExplained` there is `Covered` besides: of every object that the cursor is
past, either the collection has it, or a tolerated failure or the collector's one page
explains why not. It is at
the return that this becomes the property. The theorems are `Inductive`,
`TypeCorrect`, `InOrder`, `WaitsBetweenSteps`, `AlwaysForward` (`OnlyForward`), and four
more, for every request, every number of pages, first pages included, and every failure:

- `GapsAreExplained`: that of a collector that reads one page only types of `CutShort`
  come is a fact about the catalogue.
- `Implements`, that every provider's `CollectResources` implements `CollectContract`.
  The steps that tolerate a failure map to `PassOver`, the others to stutters, and
  `GapsAreExplained` and `InOrder` give what `Succeed` promises. What is cut off is
  excused from the beginning.
- `OnlyRequested`: each step yields what asks for it, but for the one of the two kinds
  of load balancers.
- `SupportedCollected` goes through the written lists of all eight providers: each
  supported type but the two of `Unlisted` has a step that runs when it is asked for,
  whose first listing yields it (`AllOffered`), and those two are yielded by no step. It
  takes that there is something to find: a scope, and an object that is not the nameless
  last one of its page (`PerPage >= 2`, `NumPages >= 2`).

**`Collection_proofs`** has the lemmas about `Add`: a collection whose counts are
those of its resources has that still after an `Add` (`AddCounts`), whichever of the
attributes are absent, and so have the sums of the costs (`AddCosts`), the latter by
recursion over the list since a sum is one.

**`Filters_proofs`** is about texts of any length over any chunks. Its lemmas say where a
cut falls: in `a \o sign \o b`, where `a` lacks the first character of `sign`, `SplitN`
gives `a` and `b` (`Cuts`), and a sign occurs in such a text only if in one of the parts or over their border.
With them, each form of each flag is followed through the parser's tests in their
order: that no test before the right one succeeds is what `Shaped` is needed for, and the
reason why `parser.go` looks for `!=` before `=` and for `>=` before `>`. `Documented` is
the result, for all eight flags: an expression parses exactly if it is `Valid`, and the
predicate holds of exactly the resources that `Means` says, but for those that `Misread`
names. Nothing is assumed of the chunks or the operands, and of a resource that its dates
are instants. Two theorems bound the exception from the other side: `DatesMisread` says
that on a valid date expression the program and the documents disagree exactly where
`Misread` says so, and `NeverStartsOrEndsWith` that no text whatever gives a filter with
`^=` or `$=`.

**`Inspect_proofs`** has `IInv` in six parts, each what one loop of `runInspect`
leaves for the later ones. `Merged` and `Filtered` say which resources the collection
has, up to the position of the loop; `Built` that the filters are the expressions read
so far, parsed; `Opened` that the file is touched after the format is known to be one;
`Counted` and `Priced` relate metadata and costs to the resources, and say when they
do not have to agree: in between, a cost has been set on a resource already added. The
theorems are `Inductive`, `TypeCorrect`, `ScansAreCounted` and `FilteredSummary` for
any parsers and predicates; `Exports` and `PreviousSurvives` under `FiltersMean`. That in
turn is `FiltersMeanWhatIsDocumented`, from `Documented`: if the flags of a run hold
documented expressions none of which is misread on an object, and `means` is what these
say (`AsDocumented`), then `FiltersMean` holds, for any number of expressions and any
objects. `ExportsWhatIsDocumented` puts the two together and is the statement about the
whole command: what is exported is what was found and asked for, with nothing assumed of
the parsers beyond what `Misread` excludes. `StoppedMachines` holds
if the attributes of the machines called `Stopped` say so in the form that the estimators
read (`Off`), which is where some converters and estimators disagree (section 5).
`StoppedAsConverted` starts from the API objects instead: for AWS and GCP the converters
write what the estimators read, so the state that the API gives decides.

**`Relationships_proofs`** first proves of the table of converters that the two sides of
a link agree (`RowsAgree`, over all 55 rows): where one names a target type, the row of
that type has its ID in the same form, and a container has no links of its own.
`LinksCorrect` follows with what is kept. In `IInv`, `Typed` gives the sets;
`AsConverted` says that the pass only appends links, and none to a contained resource
or before its turn; `Answered` and `Mirroring` say what holds of the resources behind
the cursor; `Written` gives the nodes and arrows so far. `MirrorHolds` by itself speaks of the
end of the pass; to carry it there one has to know that what a container answers to is
not changed after its round, which is `AsConverted`. `GraphAgrees` is inductive as it
stands, given what an index built by repeated assignment holds under a key
(`AssignedLast`: the last value). The theorems are `Inductive`, `TypeCorrect`,
`MirrorCorrect`, `LinksCorrect`, `FailuresLocal`, `EdgesCorrect` and `GraphCorrect`.

**`Drift_proofs`** has `IInv`, which adds to `TypeOK` and `EveryIdOnce` that the new
index is finite (it is filled one key at a time), that the lists are empty before
their loops (`BeforeCompare`, `BeforeRemoved`), what the first loop has found
(`RemovedSoFar`), and that the command's list of unchanged resources and the UI's
count stay empty (`UnchangedKept`). `EveryIdOnce` alone says nothing before the second
loop, so it cannot be carried to its beginning. `Partition` is the result: for
exports of any length with any repetitions, and any order of the loops, no ID is
lost or counted twice and the totals add up. `ChangesSymmetric` says that comparing
either way round finds the same fields, for two loops of which each sees half. A second invariant,
`RInv`, is what the report is about. `Loaded` says that the two lists
are the exports as read, `IndexedSoFar` that an index holds the last resource of each ID
up to the position reached (`IsIndex`), `ModifiedDiffer` that the modified ones are
those, of the ones visited, whose comparison has a change, each with what it has. A
finished index is then `Latest`. The comparison of two resources as read has nothing that
is the same in the scans (`ChangesAreReal`) and every property that is not
(`ChangesAreAll`), and `ReportCorrect` is `ReportIsTheDifference`.

**`SequenceInduction`** is there because the induction theorems of the library take an
operator for a parameter, which the provers cannot instantiate. It has induction and
recursion over the naturals with a set and a function in that place, and from them what
the proofs above use of `FlattenSeq`, of the last occurrence of a value and of prefixes.

**Only model-checked:** liveness, that is `Termination` of the pool, of `runInspect` and
of the collectors, since fairness and `ENABLED` are outside what TLAPS proves here (of the
first and the last, `NeverStuck` and `OnlyForward` are proved); that the expressions of `MCInspect` describe the objects written beside
them (`DescribedIsMeant`); that the exceptions for property and cost expressions are ones, by an
example of each (`EachIsMisread`; that there are no others is `Documented`); and the seven runs that find a violation.

## 7. Not modelled

Client construction and credentials (`Initialize`); raw data, ARNs and computed
descriptions of a resource, which nothing reads but the exports; the layout of the
outputs, with the labels and colours of the DOT graph, the breakdown of a price and
the printed forms of a drift report; durations (the limiter's delay is an order of
events); regular expressions beyond literals and one `.*`; `CompositeFilter` with OR
and `NotFilter`, which nothing constructs; the page's script and the static assets,
outside the Go program; the build. `Inspect` takes any error of a step as the end of
the run, so what the text of the error says is left out.

## 8. State and plan

Done, in this order: `RegionPool` with `CollectContract` and its proofs; `Collection`
and `Inspect`; `Catalogue` and `Collecting`; `Drift` and its proofs; `Converters`,
`Filters`, `Estimators` and `Relationships`; the proofs about `Collecting`,
`Collection`, `Inspect`, `Relationships` and the report of `Drift`; a contract that both
kinds of `CollectResources` are proved to implement; the absence of deadlock and of steps
back; `Expressions`, and the filters proved to mean what is documented but for the named
misreadings.

Left: the price that a size is given, for all sizes, once section 5's substrings are
settled; the converse of `Documented` for property and cost expressions, as
`DatesMisread` is for dates; a graph whose links are taken from `LinksResolve` for
references by URL too; and should the `--concurrent` flag be repaired,
`ConcurrencyHonoured` as a passing run.
