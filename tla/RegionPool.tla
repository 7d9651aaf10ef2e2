------------------------------ MODULE RegionPool ------------------------------
(***************************************************************************)
(* The AWS provider's CollectResources (pkg/provider/aws/provider.go): the *)
(* global collectors, then every configured region, either one after the   *)
(* other or by a pool of goroutines that receive regions from a channel,   *)
(* collect each one into a collection of their own and merge that into the *)
(* shared collection under a mutex.                                        *)
(*                                                                         *)
(* A resource is the pair <<j, i>>: the i-th object that position j of     *)
(* p.regions yields; position 0 stands for the global collectors.  It is   *)
(* the object (a *resource.Resource), not its ID, so a region configured   *)
(* twice yields objects of its own at each position.                       *)
(***************************************************************************)
EXTENDS Integers, Sequences, FiniteSets, SequencesExt, Functions

CONSTANTS
  NumRegions,      \* len(p.regions)
  NumGlobal,       \* global collectors the requested types call for
  NumRegional,     \* regional collectors the requested types call for
  Found,           \* Found[j][k]: resources the first k collectors of j find
  MaxWorkers,      \* bound on the concurrency a caller asks for
  CtxValues        \* what ctx.Value("concurrency") may hold (0: not set)

Jobs == 1..NumRegions
Workers == 1..MaxWorkers

\* How many collectors run for position j of p.regions, and what they find.
Steps(j) == IF j = 0 THEN NumGlobal ELSE NumRegional
Size(j)  == Found[j][Steps(j)]

ASSUME PoolAssumption ==
  /\ NumRegions \in Nat
  /\ NumGlobal \in Nat
  /\ NumRegional \in Nat
  /\ MaxWorkers \in Nat \ {0}
  /\ CtxValues \subseteq Int
  /\ \A v \in CtxValues : v <= MaxWorkers

ASSUME FoundAssumption ==
  \A j \in 0..NumRegions :
    /\ Found[j] \in [0..Steps(j) -> Nat]
    /\ Found[j][0] = 0
    /\ \A k, l \in 0..Steps(j) : k <= l => Found[j][k] <= Found[j][l]

VARIABLES
  concurrency,     \* the pool size CollectResources settled on
  mpc,             \* where the calling goroutine is
  mstep,           \* collectors it has run in its current loop
  next,            \* position of its loop over p.regions (both branches)
  spawned,         \* worker goroutines started
  taken,           \* regions received from regionChan
  regionsClosed,   \* close(regionChan) happened
  errs,            \* errorChan: the positions that failed, in order
  errsClosed,      \* close(errorChan) happened
  wg,              \* the WaitGroup's counter
  mu,              \* worker that holds the mutex, 0 when free
  wpc,             \* where each worker is
  job,             \* region each worker works on
  step,            \* collectors it has run for that region
  added,           \* resources of it merged so far
  snap,            \* collection.Resources as its pending Add read it
  resources,       \* the shared collection.Resources
  result           \* what CollectResources returned

mainVars   == <<concurrency, mpc, mstep, next, spawned, regionsClosed,
                errsClosed, result>>
workerVars == <<job, step, added, snap>>
vars == <<mainVars, workerVars, taken, errs, wg, mu, wpc, resources>>

\* Workers between a receive and the end of what they received.
Busy(w) == wpc[w] \in {"collect", "fail", "merge", "write"}

\* The objects number a+1..b of position j, in order.
Batch(j, a, b) == [i \in 1..(b - a) |-> <<j, a + i>>]

\* regionChan and errorChan are made with len(p.regions) places.  regionChan
\* holds the positions taken+1 .. next-1: it is sent in order and is FIFO.
RegionChanCap_One == 1                                 \* mutant: a short buffer
RegionChanCap == NumRegions
ErrorChanCap  == NumRegions
InRegionChan  == (next - 1) - taken

\* "get concurrency from context, default to 1"
PoolSize(v) == IF v > 0 THEN v ELSE 1

Init ==
  /\ \E v \in CtxValues : concurrency = PoolSize(v)
  /\ mpc = "global" /\ mstep = 0 /\ next = 1 /\ spawned = 0
  /\ taken = 0 /\ regionsClosed = FALSE
  /\ errs = <<>> /\ errsClosed = FALSE
  /\ wg = 0 /\ mu = 0
  /\ wpc = [w \in Workers |-> "unborn"]
  /\ job = [w \in Workers |-> 0]
  /\ step = [w \in Workers |-> 0]
  /\ added = [w \in Workers |-> 0]
  /\ snap = [w \in Workers |-> <<>>]
  /\ resources = <<>>
  /\ result = "none"

-----------------------------------------------------------------------------
(* The calling goroutine.                                                  *)

Return(r) == mpc' = "returned" /\ result' = r

\* A global collector adds what it finds to the collection itself.
GlobalCollect ==
  /\ mpc = "global" /\ mstep < NumGlobal
  /\ resources' = resources \o Batch(0, Found[0][mstep], Found[0][mstep + 1])
  /\ mstep' = mstep + 1
  /\ UNCHANGED <<concurrency, mpc, next, spawned, regionsClosed, errsClosed,
                 result, workerVars, taken, errs, wg, mu, wpc>>

\* A global collector, or the wait after it, fails: nil, err.
GlobalFail ==
  /\ mpc = "global" /\ mstep < NumGlobal
  /\ Return("error")
  /\ UNCHANGED <<concurrency, mstep, next, spawned, regionsClosed, errsClosed,
                 workerVars, taken, errs, wg, mu, wpc, resources>>

\* The branch on the concurrency found in the context.
ChooseMode ==
  /\ mpc = "global" /\ mstep = NumGlobal
  /\ mpc' = IF concurrency = 1 THEN "seq" ELSE "spawn"
  /\ mstep' = 0
  /\ UNCHANGED <<concurrency, next, spawned, regionsClosed, errsClosed, result,
                 workerVars, taken, errs, wg, mu, wpc, resources>>

SeqCollect ==
  /\ mpc = "seq" /\ next <= NumRegions /\ mstep < NumRegional
  /\ resources' = resources \o
                    Batch(next, Found[next][mstep], Found[next][mstep + 1])
  /\ mstep' = mstep + 1
  /\ UNCHANGED <<concurrency, mpc, next, spawned, regionsClosed, errsClosed,
                 result, workerVars, taken, errs, wg, mu, wpc>>

SeqFail ==
  /\ mpc = "seq" /\ next <= NumRegions /\ mstep < NumRegional
  /\ Return("error")
  /\ UNCHANGED <<concurrency, mstep, next, spawned, regionsClosed, errsClosed,
                 workerVars, taken, errs, wg, mu, wpc, resources>>

SeqNextRegion ==
  /\ mpc = "seq" /\ next <= NumRegions /\ mstep = NumRegional
  /\ next' = next + 1
  /\ mstep' = 0
  /\ UNCHANGED <<concurrency, mpc, spawned, regionsClosed, errsClosed, result,
                 workerVars, taken, errs, wg, mu, wpc, resources>>

SeqDone ==
  /\ mpc = "seq" /\ next > NumRegions
  /\ Return("ok")
  /\ UNCHANGED <<concurrency, mstep, next, spawned, regionsClosed, errsClosed,
                 workerVars, taken, errs, wg, mu, wpc, resources>>

\* wg.Add(1); go func() { ... }()
Spawn ==
  /\ mpc = "spawn" /\ spawned < concurrency
  /\ spawned' = spawned + 1
  /\ wg' = wg + 1
  /\ wpc' = [wpc EXCEPT ![spawned + 1] = "recv"]
  /\ UNCHANGED <<concurrency, mpc, mstep, next, regionsClosed, errsClosed,
                 result, workerVars, taken, errs, mu, resources>>

SpawnDone ==
  /\ mpc = "spawn" /\ spawned = concurrency
  /\ mpc' = "send"
  /\ UNCHANGED <<concurrency, mstep, next, spawned, regionsClosed, errsClosed,
                 result, workerVars, taken, errs, wg, mu, wpc, resources>>

\* Mutant: the range loop runs once too often.
SendRegion_OnePast ==
  /\ mpc = "send" /\ next <= NumRegions + 1
  /\ next' = next + 1
  /\ UNCHANGED <<concurrency, mpc, mstep, spawned, regionsClosed, errsClosed,
                 result, workerVars, taken, errs, wg, mu, wpc, resources>>

\* regionChan <- region blocks while the channel is full.
SendRegion ==
  /\ mpc = "send" /\ next <= NumRegions
  /\ InRegionChan < RegionChanCap
  /\ next' = next + 1
  /\ UNCHANGED <<concurrency, mpc, mstep, spawned, regionsClosed, errsClosed,
                 result, workerVars, taken, errs, wg, mu, wpc, resources>>

CloseRegions ==
  /\ mpc = "send" /\ next > NumRegions
  /\ regionsClosed' = TRUE
  /\ mpc' = "wait"
  /\ UNCHANGED <<concurrency, mstep, next, spawned, errsClosed, result,
                 workerVars, taken, errs, wg, mu, wpc, resources>>

\* Mutant: no wg.Wait().
WaitDone_NoWait ==
  /\ mpc = "wait"
  /\ errsClosed' = TRUE
  /\ mpc' = "drain"
  /\ UNCHANGED <<concurrency, mstep, next, spawned, regionsClosed, result,
                 workerVars, taken, errs, wg, mu, wpc, resources>>

\* wg.Wait(); close(errorChan)
WaitDone ==
  /\ mpc = "wait" /\ wg = 0
  /\ errsClosed' = TRUE
  /\ mpc' = "drain"
  /\ UNCHANGED <<concurrency, mstep, next, spawned, regionsClosed, result,
                 workerVars, taken, errs, wg, mu, wpc, resources>>

\* Mutant: errorChan is not read.
Drain_IgnoreErrors ==
  /\ mpc = "drain"
  /\ Return("ok")
  /\ UNCHANGED <<concurrency, mstep, next, spawned, regionsClosed, errsClosed,
                 workerVars, taken, errs, wg, mu, wpc, resources>>

\* The first error of errorChan, if there is one, is the call's error.
Drain ==
  /\ mpc = "drain"
  /\ Return(IF errs = <<>> THEN "ok" ELSE "error")
  /\ UNCHANGED <<concurrency, mstep, next, spawned, regionsClosed, errsClosed,
                 workerVars, taken, errs, wg, mu, wpc, resources>>

-----------------------------------------------------------------------------
(* A worker goroutine.                                                     *)

Goto(w, from, to) == wpc[w] = from /\ wpc' = [wpc EXCEPT ![w] = to]

\* for region := range regionChan, with a region in the channel ...
Receive(w) ==
  /\ InRegionChan > 0
  /\ Goto(w, "recv", "collect")
  /\ taken' = taken + 1
  /\ job' = [job EXCEPT ![w] = taken + 1]
  /\ step' = [step EXCEPT ![w] = 0]
  /\ UNCHANGED <<mainVars, added, snap, errs, wg, mu, resources>>

Leave_NoDone(w) ==                             \* mutant: wg.Done() is left out
  /\ InRegionChan = 0 /\ regionsClosed
  /\ Goto(w, "recv", "exited")
  /\ UNCHANGED <<mainVars, workerVars, taken, errs, wg, mu, resources>>

\* ... and with the channel closed and empty: the deferred wg.Done().
Leave(w) ==
  /\ InRegionChan = 0 /\ regionsClosed
  /\ Goto(w, "recv", "exited")
  /\ wg' = wg - 1
  /\ UNCHANGED <<mainVars, workerVars, taken, errs, mu, resources>>

\* One collector of collectRegionalResources, into the worker's collection.
Collect(w) ==
  /\ wpc[w] = "collect" /\ step[w] < NumRegional
  /\ step' = [step EXCEPT ![w] = @ + 1]
  /\ UNCHANGED <<mainVars, job, added, snap, taken, errs, wg, mu, wpc,
                 resources>>

\* Mutant: the worker starts its region over instead of giving up.
CollectFails_Retry(w) ==
  /\ wpc[w] = "collect" /\ step[w] < NumRegional
  /\ step' = [step EXCEPT ![w] = 0]
  /\ UNCHANGED <<mainVars, job, added, snap, taken, errs, wg, mu, wpc,
                 resources>>

\* It fails: the worker's collection is dropped and the worker is on its
\* way out, whatever is left in regionChan.
CollectFails(w) ==
  /\ step[w] < NumRegional
  /\ Goto(w, "collect", "fail")
  /\ UNCHANGED <<mainVars, workerVars, taken, errs, wg, mu, resources>>

\* errorChan <- err; return (which runs wg.Done()).
SendError(w) ==
  /\ Len(errs) < ErrorChanCap
  /\ Goto(w, "fail", "exited")
  /\ errs' = Append(errs, job[w])
  /\ wg' = wg - 1
  /\ UNCHANGED <<mainVars, workerVars, taken, mu, resources>>

\* Mutant: no mutex around the merge.
Lock_Unguarded(w) ==
  /\ step[w] = NumRegional
  /\ Goto(w, "collect", "merge")
  /\ mu' = w
  /\ added' = [added EXCEPT ![w] = 0]
  /\ UNCHANGED <<mainVars, job, step, snap, taken, errs, wg, resources>>

\* mu.Lock() once the whole region is collected.
Lock(w) ==
  /\ step[w] = NumRegional /\ mu = 0
  /\ Goto(w, "collect", "merge")
  /\ mu' = w
  /\ added' = [added EXCEPT ![w] = 0]
  /\ UNCHANGED <<mainVars, job, step, snap, taken, errs, wg, resources>>

\* collection.Add(res) reads the slice ...
AddRead(w) ==
  /\ added[w] < Size(job[w])
  /\ Goto(w, "merge", "write")
  /\ snap' = [snap EXCEPT ![w] = resources]
  /\ UNCHANGED <<mainVars, job, step, added, taken, errs, wg, mu, resources>>

\* ... and writes back what it read with the resource appended.
AddWrite(w) ==
  /\ Goto(w, "write", "merge")
  /\ resources' = Append(snap[w], <<job[w], added[w] + 1>>)
  /\ added' = [added EXCEPT ![w] = @ + 1]
  /\ snap' = [snap EXCEPT ![w] = <<>>]
  /\ UNCHANGED <<mainVars, job, step, taken, errs, wg, mu>>

\* Mutant: the lock is held for one Add only.
Unlock_AfterOne(w) ==
  /\ added[w] > 0
  /\ Goto(w, "merge", "recv")
  /\ mu' = 0
  /\ UNCHANGED <<mainVars, workerVars, taken, errs, wg, resources>>

Unlock(w) ==
  /\ added[w] = Size(job[w])
  /\ Goto(w, "merge", "recv")
  /\ mu' = 0
  /\ UNCHANGED <<mainVars, workerVars, taken, errs, wg, resources>>

-----------------------------------------------------------------------------
Main ==
  \/ GlobalCollect \/ GlobalFail \/ ChooseMode
  \/ SeqCollect \/ SeqFail \/ SeqNextRegion \/ SeqDone
  \/ Spawn \/ SpawnDone \/ SendRegion \/ CloseRegions \/ WaitDone \/ Drain

Worker(w) ==
  \/ Receive(w) \/ Leave(w) \/ Collect(w) \/ CollectFails(w) \/ SendError(w)
  \/ Lock(w) \/ AddRead(w) \/ AddWrite(w) \/ Unlock(w)

\* The program goes on after the call: the model stops there.
Stop == mpc = "returned" /\ UNCHANGED vars

Next == Main \/ (\E w \in Workers : Worker(w)) \/ Stop

\* The Go scheduler runs every goroutine that can run.  Weak fairness is
\* enough even for the mutex: each worker competes for it a bounded number
\* of times.
Spec == Init /\ [][Next]_vars /\ WF_vars(Main)
             /\ \A w \in Workers : WF_vars(Worker(w))

-----------------------------------------------------------------------------
TypeOK ==
  /\ concurrency \in 1..MaxWorkers
  /\ mpc \in {"global", "seq", "spawn", "send", "wait", "drain", "returned"}
  /\ mstep \in Nat
  /\ next \in 1..(NumRegions + 1)
  /\ spawned \in 0..concurrency
  /\ taken \in 0..(next - 1)
  /\ regionsClosed \in BOOLEAN /\ errsClosed \in BOOLEAN
  /\ errs \in Seq(Jobs)
  /\ wg \in Int
  /\ mu \in 0..MaxWorkers
  /\ wpc \in [Workers -> {"unborn", "recv", "collect", "fail", "merge",
                          "write", "exited"}]
  /\ job \in [Workers -> 0..NumRegions]
  /\ step \in [Workers -> 0..NumRegional]
  /\ added \in [Workers -> Nat]
  /\ snap \in [Workers -> Seq((0..NumRegions) \X Nat)]
  /\ resources \in Seq((0..NumRegions) \X Nat)
  /\ result \in {"none", "ok", "error"}

\* Every object a complete scan finds.
Objects(j) == {<<j, i>> : i \in 1..Size(j)}
Expected   == UNION {Objects(j) : j \in 0..NumRegions}

\* The objects in the shared collection, and whether any is there twice.
Collected == ToSet(resources)
Distinct  == IsInjective(resources)

\* CollectResources hands its caller the whole scan, every resource once, or
\* an error and nothing (the interface comment, provider.go:21): no merge of
\* one worker overwrites another's, no region is left in the channel, and no
\* failure is swallowed.
Contract == INSTANCE CollectContract
              WITH expected <- Expected, excused <- {},
                   reported <- IF result = "ok" THEN resources ELSE <<>>
ContractSpec == Contract!Spec

\* The shared collection only grows at its end: no append of one goroutine
\* overwrites that of another (provider.go:381-386, resource.go:179).
AppendOnly == [][IsPrefix(resources, resources')]_vars

\* Whenever nobody holds the mutex, each region is in the shared collection
\* as a whole or not at all, nothing is there twice, and a region that failed
\* left nothing behind (provider.go:373-386: a collection per region, merged
\* under the lock only when the region is complete).
MergeAtomic ==
  (concurrency > 1 /\ mu = 0) =>
    /\ Distinct
    /\ \A j \in Jobs : Objects(j) \subseteq Collected
                       \/ Objects(j) \cap Collected = {}
    /\ \A j \in ToSet(errs) : Objects(j) \cap Collected = {}

\* No goroutine ever waits for room in a channel: the buffers of
\* provider.go:357-358 hold all the regions even when every worker died on
\* its first one, and an error of every region.
SendsNeverBlock ==
  /\ (mpc = "send" /\ next <= NumRegions) => InRegionChan < RegionChanCap
  /\ \A w \in Workers : wpc[w] = "fail" => Len(errs) < ErrorChanCap

\* Once errorChan is closed no worker is left that could send to it (a send
\* on a closed channel panics) or touch the collection the caller is about
\* to get (provider.go:398-399).
ClosedAfterWorkers ==
  errsClosed => \A w \in Workers : wpc[w] \in {"unborn", "exited"}

\* The goroutines that cannot go on: the caller at a full regionChan or in
\* wg.Wait, a worker at an empty regionChan that may still get a region, at a
\* full errorChan, or at mu.Lock.
CallerWaits ==
  \/ mpc = "send" /\ next <= NumRegions /\ InRegionChan >= RegionChanCap
  \/ mpc = "wait" /\ wg # 0
Waits(w) ==
  \/ wpc[w] = "recv" /\ InRegionChan = 0 /\ ~regionsClosed
  \/ wpc[w] = "fail" /\ Len(errs) >= ErrorChanCap
  \/ wpc[w] = "collect" /\ step[w] = NumRegional /\ mu # 0

\* The goroutines never all wait for one another: until the call returns, the
\* caller or a worker can go on, whichever workers have died (wg.Done is
\* deferred, provider.go:370, and a worker that dies holds no lock, 377-378).
NeverStuck ==
  mpc = "returned" \/ ~CallerWaits \/ \E w \in Workers :
                                          wpc[w] \notin {"unborn", "exited"} /\ ~Waits(w)

\* How far each goroutine has come, to be compared from left to right.  A worker
\* takes regions in their order, and after one it is at the channel again.
CallerPlaces == [global |-> 0, seq |-> 1, spawn |-> 1, send |-> 2, wait |-> 3,
                 drain |-> 4, returned |-> 5]
WorkerPlaces == [unborn |-> 0, collect |-> 1, fail |-> 2, merge |-> 2, write |-> 2,
                 recv |-> 3, exited |-> 4]
CallerAt    == <<CallerPlaces[mpc], next, mstep, spawned>>
WorkerAt(w) == <<job[w], WorkerPlaces[wpc[w]], step[w], added[w],
                 IF wpc[w] = "write" THEN 1 ELSE 0>>
Later(a, b) == \E n \in DOMAIN a : b[n] < a[n] /\ \A l \in 1..(n - 1) : a[l] = b[l]

\* No step repeats anything: a goroutine moves on through its regions, its
\* collectors and its merges, and none is thrown back by another (a worker that
\* fails gives its region up, provider.go:377-378).  All these places have
\* bounds, so that the call takes finitely many steps.
OnlyForward ==
  [][/\ CallerAt' = CallerAt \/ Later(CallerAt', CallerAt)
     /\ \A w \in Workers : WorkerAt(w)' = WorkerAt(w) \/ Later(WorkerAt(w)', WorkerAt(w))
     /\ CallerAt' # CallerAt \/ \E w \in Workers : WorkerAt(w)' # WorkerAt(w)]_vars

\* The call returns, however many workers die and wherever.
Termination == <>(mpc = "returned")

-----------------------------------------------------------------------------
(* The inductive invariant behind the safety properties above.             *)

Merging(w) == wpc[w] \in {"merge", "write"}
Running    == {w \in Workers : wpc[w] \notin {"unborn", "exited"}}

\* What each place of the calling goroutine implies.
PhaseInv ==
  /\ mpc = "global" => mstep <= NumGlobal /\ next = 1
  /\ mpc = "seq" => mstep <= NumRegional /\ concurrency = 1
  /\ mpc = "spawn" => next = 1
  /\ (mpc \in {"global", "seq"} \/ concurrency = 1) => spawned = 0
  /\ mpc \in {"spawn", "send", "wait", "drain"} => concurrency > 1
  /\ mpc \in {"send", "wait", "drain"} => spawned = concurrency
  /\ regionsClosed =>
       mpc \in {"wait", "drain", "returned"} /\ next = NumRegions + 1
  /\ mpc \in {"wait", "drain"} => regionsClosed
  /\ errsClosed => mpc \in {"drain", "returned"} /\ wg = 0
  /\ mpc = "drain" => errsClosed
  /\ result = "none" <=> mpc # "returned"
  /\ result = "ok" =>
       next = NumRegions + 1
       /\ (concurrency > 1 => errsClosed /\ errs = <<>> /\ spawned = concurrency)

\* The WaitGroup counts the running workers; one that left found the channel
\* closed and empty, or left an error.
WorkerInv ==
  /\ \A w \in Workers : wpc[w] = "unborn" <=> w > spawned
  /\ wg = Cardinality(Running)
  /\ \A w \in Workers : wpc[w] = "exited" =>
       errs # <<>> \/ (regionsClosed /\ taken = next - 1)

\* The worker that merges is the one that holds the mutex, and nothing has
\* changed the collection since its pending Add read it.
LockInv ==
  /\ \A w \in Workers : Merging(w) <=> mu = w
  /\ \A w \in Workers : wpc[w] = "write" =>
       snap[w] = resources /\ added[w] < Size(job[w])
  /\ \A w \in Workers : wpc[w] = "merge" => added[w] <= Size(job[w])

\* Every region received is with one worker, failed, or merged.
JobInv ==
  /\ \A w \in Workers : Busy(w) => job[w] \in 1..taken /\ job[w] \notin ToSet(errs)
  /\ \A v, w \in Workers : Busy(v) /\ Busy(w) /\ job[v] = job[w] => v = w
  /\ ToSet(errs) \subseteq 1..taken
  /\ IsInjective(errs)

\* What the shared collection holds: of the global collectors, of a region
\* of the sequential loop, and of a region of the pool.
GlobalPart(i) == i <= IF mpc = "global" THEN Found[0][mstep] ELSE Size(0)

SeqPart(j, i) == \/ j < next
                 \/ j = next /\ mpc = "seq" /\ i <= Found[j][mstep]

PoolPart(j, i) ==
  /\ j <= taken /\ j \notin ToSet(errs)
  /\ \A w \in Workers : Busy(w) /\ job[w] = j => Merging(w) /\ i <= added[w]

ContentInv ==
  /\ Distinct
  /\ Collected \subseteq Expected
  /\ result # "error" =>
       \A i \in 1..Size(0) : <<0, i>> \in Collected <=> GlobalPart(i)
  /\ concurrency = 1 /\ result # "error" =>
       \A j \in Jobs : \A i \in 1..Size(j) : <<j, i>> \in Collected <=> SeqPart(j, i)
  /\ concurrency > 1 =>
       \A j \in Jobs : \A i \in 1..Size(j) : <<j, i>> \in Collected <=> PoolPart(j, i)

IInv == TypeOK /\ PhaseInv /\ WorkerInv /\ LockInv /\ JobInv /\ ContentInv
=============================================================================
