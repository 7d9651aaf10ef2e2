------------------------------ MODULE Collecting ------------------------------
(***************************************************************************)
(* CollectResources of every provider, run in one goroutine: the steps of  *)
(* the Catalogue that the requested types ask for, each listing its        *)
(* objects page by page over an API any call of which may fail, and a wait *)
(* of the rate limiter after each step.                                    *)
(*                                                                         *)
(* What a service holds is fixed: listing number u of the run has objects  *)
(* <<u, p, k>> (k-th of page p).  A resource is <<u, p, k, q>>: q = 0 when *)
(* the object itself is the resource, else the q-th thing inside it (a     *)
(* database of an SQL server).                                             *)
(***************************************************************************)
EXTENDS Catalogue, FiniteSets, SequencesExt, Functions

CONSTANTS
  Requests,        \* the calls: [provider, types, named (accounts configured)]
  Scopes,          \* regions of AWS and GCP, organizations of GitHub, groups
  NumPages,        \* pages a service answers a listing in
  FirstPages,      \* the same, for the listings that make one call only
  PerPage,         \* objects on a page
  MaxFailures      \* bound on the failures that do not abort the run

ASSUME CollectingAssumption ==
  /\ \A r \in Requests : /\ r.provider \in Providers
                         /\ r.types \in SUBSET STRING /\ r.named \in BOOLEAN
  /\ Scopes \in Nat /\ MaxFailures \in Nat
  /\ NumPages \in Nat \ {0} /\ FirstPages \in Nat \ {0} /\ PerPage \in Nat \ {0}

VARIABLES
  request,         \* the arguments of this call
  nameless,        \* whether the last object of each page lacks an ID or name
  pc,              \* "list", "objects", "inside", "wait" or "returned"
  at,              \* the listing being run, an index of Listings(request)
  page,            \* pages of it fetched
  obj,             \* object of that page reached
  inner,           \* pages fetched of what is inside that object
  resources,       \* collection.Resources
  failed,          \* calls that failed: <<u, p, k>>, k = 0 for a list call
  warned,          \* those a warning on stderr told of
  tries,           \* attempts at a call that is being repeated, modulo 2
  sinceWait,       \* calls made since the limiter last waited
  result           \* "none", "ok" or "error"

input == <<request, nameless, tries>>
vars == <<input, pc, at, page, obj, inner, resources, failed, warned,
          sinceWait, result>>

\* "If no types specified, collect all supported types".
Asked(r) == IF r.types = {} THEN Supported(r.provider) ELSE r.types

\* if typeSet[resource.Type...]
IfWanted_All(r, step) == TRUE                          \* mutant: no typeSet
IfWanted(r, step) == step.when \cap Asked(r) # {}

\* The listings a step makes; last: the step ends with this one.
ListingsOfStep(step, place) ==
  [l \in DOMAIN step.listings |->
     [step |-> place, with |-> step.listings[l], last |-> l = Len(step.listings)]]

ListingsOf(r, steps, scope) ==
  FlattenSeq([i \in DOMAIN steps |->
    IF IfWanted(r, steps[i]) THEN ListingsOfStep(steps[i], <<scope, i>>) ELSE <<>>])

\* Without configured accounts GitHub first lists the user's organizations.
GitHubOwnOrganizations ==
  [step |-> <<0, 0>>, last |-> TRUE,
   with |-> [Identified(Paged("github:organization")) EXCEPT !.each = "name"]]
Preamble(r) == IF r.provider = "github" /\ ~r.named
               THEN <<GitHubOwnOrganizations>> ELSE <<>>

ListingsOfRequest(r) ==
  Preamble(r)
    \o ListingsOf(r, GlobalSteps(r.provider, IF r.named THEN Scopes ELSE 0), 0)
    \o FlattenSeq([s \in 1..Scopes |-> ListingsOf(r, ScopedSteps(r.provider), s)])

Program == [r \in Requests |-> ListingsOfRequest(r)]
Listings == Program[request]
Now      == Listings[at]
How      == Now.with

\* What the service holds of a listing.
Pages(c) == CASE c.list = "paged"  -> NumPages
              [] c.list = "first"  -> FirstPages
              [] OTHER             -> 1
Named(c, last) == ~(c.checksId /\ nameless /\ last)
Inside(c) == IF c.each = "list" THEN 1..NumPages ELSE {0}
Holdings(u) ==
  LET c == Listings[u].with IN
  IF c.each = "name" THEN {}
  ELSE {<<u, p, k, q>> : p \in 1..Pages(c),
                         k \in {k \in 1..PerPage : Named(c, k = PerPage)},
                         q \in {q \in Inside(c) : q = 0 \/ Named(c, q = NumPages)}}
\* What all the services of the request hold.
Held == UNION {Holdings(u) : u \in DOMAIN Listings}
TypeOf(r) == LET y == Listings[r[1]].with.yields
             IN  y[((r[3] - 1) % Len(y)) + 1]

Init ==
  /\ request \in Requests
  /\ nameless \in BOOLEAN
  /\ pc = "list" /\ at = 1 /\ page = 0 /\ obj = 1 /\ inner = 0
  /\ resources = <<>>
  /\ failed = {} /\ warned = {} /\ sinceWait = {} /\ tries = 0
  /\ result = "none"

-----------------------------------------------------------------------------
Return(r) == /\ pc' = "returned" /\ result' = r
             /\ UNCHANGED <<at, page, obj, inner>>

Goto(label) == pc' = label /\ UNCHANGED <<at, result>>

\* The collector returns nil; its step, if this ends it, waits.
EndListing ==
  /\ page' = 0 /\ obj' = 1 /\ inner' = 0 /\ UNCHANGED result
  /\ IF Now.last /\ RateLimited(request.provider)
     THEN pc' = "wait" /\ UNCHANGED at
     ELSE pc' = "list" /\ at' = at + 1

Calls(call) == sinceWait' = sinceWait \cup {call}

MayFail(call) == call \in failed \/ Cardinality(failed) < MaxFailures

ListPage_SameToken ==                     \* mutant: the token does not advance
  /\ pc = "list" /\ at <= Len(Listings)
  /\ page' = 1 /\ obj' = 1 /\ inner' = 0
  /\ Goto("objects")
  /\ IF How.list = "static" THEN UNCHANGED sinceWait ELSE Calls(<<at, 1, 0, 0>>)
  /\ UNCHANGED <<input, resources, failed, warned>>

\* A page of the list, or the names the provider has already.
ListPage ==
  /\ pc = "list" /\ at <= Len(Listings)
  /\ page' = page + 1 /\ obj' = 1 /\ inner' = 0
  /\ Goto("objects")
  /\ IF How.list = "static" THEN UNCHANGED sinceWait ELSE Calls(<<at, page + 1, 0, 0>>)
  /\ UNCHANGED <<input, resources, failed, warned>>

ListAborts_Retry ==                          \* mutant: the call is made again
  /\ pc = "list" /\ at <= Len(Listings)
  /\ How.list # "static" /\ How.listError = "abort"
  /\ Calls(<<at, page + 1, 0, 0>>)
  /\ failed' = failed \cup {<<at, page + 1, 0>>}
  /\ tries' = 1 - tries
  /\ UNCHANGED <<request, nameless, pc, at, page, obj, inner, result, resources,
                 warned>>

\* A failed list call: nil, err.
ListAborts ==
  /\ pc = "list" /\ at <= Len(Listings)
  /\ How.list # "static" /\ How.listError = "abort"
  /\ Calls(<<at, page + 1, 0, 0>>)
  /\ failed' = failed \cup {<<at, page + 1, 0>>}
  /\ Return("error")
  /\ UNCHANGED <<input, resources, warned>>

ListStops_Skips ==                \* mutant: also leaves out the next listing
  /\ pc = "list" /\ at <= Len(Listings)
  /\ How.listError = "stop" /\ MayFail(<<at, page + 1, 0>>)
  /\ Calls(<<at, page + 1, 0, 0>>)
  /\ failed' = failed \cup {<<at, page + 1, 0>>}
  /\ at' = at + 2 /\ pc' = "list" /\ page' = 0 /\ obj' = 1 /\ inner' = 0
  /\ UNCHANGED <<input, resources, warned, result>>

\* A failed list call taken for the end of the list.
ListStops ==
  /\ pc = "list" /\ at <= Len(Listings)
  /\ How.listError = "stop" /\ MayFail(<<at, page + 1, 0>>)
  /\ Calls(<<at, page + 1, 0, 0>>)
  /\ failed' = failed \cup {<<at, page + 1, 0>>}
  /\ EndListing
  /\ UNCHANGED <<input, resources, warned>>

AtObject_OnePast == pc = "objects" /\ obj <= PerPage + 1    \* mutant
AtObject == pc = "objects" /\ obj <= PerPage
NextObject == obj' = obj + 1 /\ inner' = 0 /\ UNCHANGED page
Wanted == Named(How, obj = PerPage)
Add(q) == resources' = Append(resources, <<at, page, obj, q>>)

PassOver ==
  /\ AtObject /\ (~Wanted \/ How.each = "name")
  /\ IF ChecksAnswer(How) THEN Calls(<<at, page, obj, 0>>) ELSE UNCHANGED sinceWait
  /\ NextObject /\ Goto("objects")
  /\ UNCHANGED <<input, resources, failed, warned>>

AddObject ==
  /\ AtObject /\ Wanted /\ How.each = "add"
  /\ Add(0) /\ NextObject /\ Goto("objects")
  /\ UNCHANGED <<input, failed, warned, sinceWait>>

Describe ==
  /\ AtObject /\ Wanted /\ How.each = "describe"
  /\ Calls(<<at, page, obj, 0>>)
  /\ Add(0) /\ NextObject /\ Goto("objects")
  /\ UNCHANGED <<input, failed, warned>>

\* The object is described: it has an ID, or only the answer can tell.
IsDescribed == How.each = "describe" /\ (Wanted \/ ChecksAnswer(How))

DescribeSkips_Page ==       \* mutant: break for continue, the page is left
  /\ AtObject /\ IsDescribed /\ How.eachError = "skip"
  /\ MayFail(<<at, page, obj>>)
  /\ Calls(<<at, page, obj, 0>>)
  /\ failed' = failed \cup {<<at, page, obj>>}
  /\ warned' = warned \cup {<<at, page, obj>>}
  /\ obj' = PerPage + 1 /\ inner' = 0 /\ UNCHANGED page /\ Goto("objects")
  /\ UNCHANGED <<input, resources>>

\* "Warning: failed to get attributes", and on with the next object.
DescribeSkips ==
  /\ AtObject /\ IsDescribed /\ How.eachError = "skip"
  /\ MayFail(<<at, page, obj>>)
  /\ Calls(<<at, page, obj, 0>>)
  /\ failed' = failed \cup {<<at, page, obj>>}
  /\ warned' = warned \cup {<<at, page, obj>>}
  /\ NextObject /\ Goto("objects")
  /\ UNCHANGED <<input, resources>>

DescribeAborts ==
  /\ AtObject /\ Wanted /\ How.each = "describe" /\ How.eachError = "abort"
  /\ Calls(<<at, page, obj, 0>>)
  /\ failed' = failed \cup {<<at, page, obj>>}
  /\ Return("error")
  /\ UNCHANGED <<input, resources, warned>>

Enter ==
  /\ AtObject /\ Wanted /\ How.each = "list"
  /\ Goto("inside")
  /\ UNCHANGED <<input, page, obj, inner, resources, failed, warned, sinceWait>>

\* A page of what is inside the object holds one thing.
InnerPage ==
  /\ pc = "inside" /\ inner < NumPages
  /\ Calls(<<at, page, obj, inner + 1>>)
  /\ IF Named(How, inner + 1 = NumPages) THEN Add(inner + 1) ELSE UNCHANGED resources
  /\ inner' = inner + 1
  /\ Goto("inside")
  /\ UNCHANGED <<input, page, obj, failed, warned>>

InnerRetries_FromStart ==              \* mutant: a new pager for each attempt
  /\ pc = "inside" /\ inner < NumPages /\ How.eachError = "retry"
  /\ MayFail(<<at, page, obj>>)
  /\ Calls(<<at, page, obj, inner + 1>>)
  /\ failed' = failed \cup {<<at, page, obj>>}
  /\ warned' = warned \cup {<<at, page, obj>>}
  /\ inner' = 0 /\ tries' = 1 - tries
  /\ UNCHANGED <<request, nameless, pc, at, page, obj, resources, result>>

\* "continue" with a pager that has not moved: the same page again.
InnerRetries ==
  /\ pc = "inside" /\ inner < NumPages /\ How.eachError = "retry"
  /\ MayFail(<<at, page, obj>>)
  /\ Calls(<<at, page, obj, inner + 1>>)
  /\ failed' = failed \cup {<<at, page, obj>>}
  /\ warned' = warned \cup {<<at, page, obj>>}
  /\ tries' = 1 - tries
  /\ UNCHANGED <<request, nameless, pc, at, page, obj, inner, resources, result>>

LeaveObject ==
  /\ pc = "inside" /\ inner = NumPages
  /\ NextObject /\ Goto("objects")
  /\ UNCHANGED <<input, resources, failed, warned, sinceWait>>

\* The page is done: another one if it announced one and the collector asks.
MorePages_Never(c) == FALSE                \* mutant: the next token is ignored
MorePages(c) == c.list = "paged" /\ page < NumPages
PageDone ==
  /\ pc = "objects" /\ obj > PerPage
  /\ IF MorePages(How) THEN Goto("list") /\ UNCHANGED <<page, obj, inner>>
                       ELSE EndListing
  /\ UNCHANGED <<input, resources, failed, warned, sinceWait>>

Wait_Skipped ==                            \* mutant: a step without its Wait
  /\ pc = "wait"
  /\ pc' = "list" /\ at' = at + 1
  /\ UNCHANGED <<input, page, obj, inner, resources, failed, warned, sinceWait,
                 result>>

\* rateLimiter.Wait: the context is never cancelled, so it returns nil.
Wait ==
  /\ pc = "wait"
  /\ sinceWait' = {} /\ pc' = "list" /\ at' = at + 1
  /\ UNCHANGED <<input, page, obj, inner, resources, failed, warned, result>>

Finish ==
  /\ pc = "list" /\ at > Len(Listings)
  /\ Return("ok")
  /\ UNCHANGED <<input, resources, failed, warned, sinceWait>>

Terminating == pc = "returned" /\ UNCHANGED vars

Next ==
  \/ ListPage \/ ListAborts \/ ListStops
  \/ PassOver \/ AddObject
  \/ Describe \/ DescribeSkips \/ DescribeAborts
  \/ Enter \/ InnerPage \/ InnerRetries \/ LeaveObject
  \/ PageDone \/ Wait \/ Finish
  \/ Terminating

Spec == Init /\ [][Next]_vars /\ WF_vars(Next)

\* A service that does not refuse the same page for ever.
RecoveringSpec == Spec /\ WF_vars(InnerPage)

-----------------------------------------------------------------------------
(* Every variable has its type, and the cursor stays inside the program.   *)
TypeOK ==
  /\ request \in Requests /\ nameless \in BOOLEAN /\ tries \in {0, 1}
  /\ pc \in {"list", "objects", "inside", "wait", "returned"}
  /\ at \in 1..(Len(Listings) + 1)
  /\ page \in 0..NumPages /\ obj \in 1..(PerPage + 1) /\ inner \in 0..NumPages
  /\ resources \in Seq(Held)
  /\ warned \subseteq failed
  /\ result \in {"none", "ok", "error"}
  /\ pc = "returned" <=> result # "none"

\* A failure that accounts for a resource's absence: of its own object, or of
\* the list call for its page or an earlier page of the same listing.
Explains(f, r) ==
  /\ f[1] = r[1]
  /\ IF f[3] = 0 THEN f[2] <= r[2] ELSE f[2] = r[2] /\ f[3] = r[3]
Missing == Held \ Range(resources)

(* CollectResources "collects all resources of the specified types": when  *)
(* it returns nil for an error, whatever the services hold and the         *)
(* collection lacks was reported, object by object, on stderr.             *)
NoSilentGap ==
  result = "ok" => \A r \in Missing : \E f \in warned : Explains(f, r)

(* The types whose collectors make one call and drop what announces a next *)
(* page: whatever the service has on later pages is never asked for, and   *)
(* nothing says so.  Named type by type, so that no other collector can    *)
(* stop at its first page unnoticed.                                       *)
CutShort ==
  {"aws:ec2:vpc", "aws:ec2:subnet", "aws:ec2:security-group", "aws:sqs:queue",
   "okta:user", "okta:group", "okta:application", "okta:authorizationserver",
   "auth0:role", "auth0:client", "auth0:resourceserver", "auth0:connection"}
CutOff(r) == TypeOf(r) \in CutShort /\ r[2] > 1

(* What the collection of a successful call lacks, a failed call explains: *)
(* one that a warning told of, object by object, or one that the collector *)
(* takes for the end of the list; or it is cut off, of the twelve types    *)
(* above and not on the first page.  A tolerated failure costs what it     *)
(* concerns and nothing else: the other objects, the other zones and       *)
(* regions and the later steps are all there.                              *)
Tolerated(f) == f \in warned \/ Listings[f[1]].with.listError = "stop"
Excused ==
  {r \in Held : CutOff(r) \/ \E f \in failed : Explains(f, r) /\ Tolerated(f)}
GapsExplained == result = "ok" => Missing \subseteq Excused

(* "CollectResources collects all resources of the specified types": of no *)
(* other type, but that one call lists the application and the network     *)
(* load balancers, and asking for either brings both.                      *)
Balancers == {"aws:elb:application", "aws:elb:network"}
Brought(types) == types \cup (IF types \cap Balancers # {} THEN Balancers ELSE {})
OnlyRequestedTypes ==
  \A i \in DOMAIN resources : TypeOf(resources[i]) \in Brought(Asked(request))

(* "GetSupportedResourceTypes returns all resource types this provider     *)
(* supports": a type that is asked for and supported is listed by a        *)
(* collector, so that a run without failures has what exists of it.  Two   *)
(* types that the providers announce have no collector: nothing of them is *)
(* ever there, and there is no third one.                                  *)
Unlisted == {"azure:network:subnet", "gcp:project"}
SupportedIsCollected ==
  (result = "ok" /\ failed = {}) =>
    \A t \in Asked(request) \cap Supported(request.provider) :
      t \in Unlisted <=> t \notin {TypeOf(r) : r \in Range(resources)}

(* Resources come in the order the services list them, each one once: no   *)
(* page is read twice, whatever was retried.                               *)
Before(r, s) ==
  \E i \in 1..4 : r[i] < s[i] /\ \A j \in 1..(i - 1) : r[j] = s[j]
ListedInOrder ==
  \A i \in 1..(Len(resources) - 1) : Before(resources[i], resources[i + 1])

(* A rate limited provider waits between steps: no call of one follows a   *)
(* call of another without a wait.                                         *)
StepsPaced ==
  RateLimited(request.provider) =>
    \A c, d \in sinceWait : Listings[c[1]].step = Listings[d[1]].step

(* CollectResources keeps its contract: an error and nothing, or what the  *)
(* services hold, each resource once, but for those that are cut off and   *)
(* those that a failure passed over explains.                              *)
Contract == INSTANCE CollectContract
              WITH expected <- Held, excused <- Excused,
                   reported <- IF result = "ok" THEN resources ELSE <<>>
ContractSpec == Contract!Spec

(* No step repeats anything but a failed call of a collector that says so: *)
(* the cursor of the collectors moves on, from page to page and object to  *)
(* object, so that a call whose failures end takes finitely many steps.    *)
(* To be compared from left to right.                                      *)
Cursor == <<IF pc = "returned" THEN 1 ELSE 0, at, IF pc = "wait" THEN 1 ELSE 0, page,
            IF pc = "list" THEN PerPage + 2 ELSE obj, IF pc = "inside" THEN 1 ELSE 0, inner>>
Later(a, b) == \E n \in DOMAIN a : b[n] < a[n] /\ \A l \in 1..(n - 1) : a[l] = b[l]
OnlyForward ==
  [][\/ Later(Cursor', Cursor)
     \/ /\ Cursor' = Cursor /\ pc = "inside" /\ How.eachError = "retry"
        /\ <<at, page, obj>> \in failed']_vars

(* CollectResources returns, whatever its calls answer.                    *)
Termination == <>(pc = "returned")
==============================================================================
