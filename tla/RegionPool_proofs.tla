--------------------------- MODULE RegionPool_proofs ---------------------------
(***************************************************************************)
(* Proofs about RegionPool: its inductive invariant IInv, and from it the  *)
(* safety properties and the refinement of CollectContract, for every      *)
(* number of regions, collectors and workers.  One lemma per part of IInv  *)
(* and kind of process, one step per action.                               *)
(***************************************************************************)
EXTENDS RegionPool, FiniteSetTheorems, TLAPS

-----------------------------------------------------------------------------
(* The sequences of the collection.                                        *)

\* Appending something new keeps a sequence free of duplicates.

LEMMA AppendFresh ==
  ASSUME NEW S, NEW s \in Seq(S), NEW x \in S
  PROVE  /\ Append(s, x) \in Seq(S)
         /\ ToSet(Append(s, x)) = ToSet(s) \cup {x}
         /\ IsInjective(s) /\ x \notin ToSet(s) => IsInjective(Append(s, x))
<1> DEFINE t == Append(s, x)
<1>1. t \in Seq(S) /\ Len(t) = Len(s) + 1 /\ Len(s) \in Nat
  OBVIOUS
<1>2. /\ DOMAIN s = 1..Len(s)
      /\ DOMAIN t = 1..(Len(s) + 1)
      /\ \A i \in 1..Len(s) : t[i] = s[i]
      /\ t[Len(s) + 1] = x
  OBVIOUS
<1> HIDE DEF t
<1>3. ToSet(t) = ToSet(s) \cup {x}
  <2>1. \A y \in ToSet(t) : y \in ToSet(s) \cup {x}
    BY <1>1, <1>2 DEF ToSet
  <2>2. \A y \in ToSet(s) \cup {x} : y \in ToSet(t)
    BY <1>1, <1>2 DEF ToSet
  <2>3. QED BY <2>1, <2>2
<1>4. ASSUME IsInjective(s), x \notin ToSet(s) PROVE IsInjective(t)
  BY <1>1, <1>2, <1>4 DEF IsInjective, ToSet
<1>5. QED BY <1>1, <1>3, <1>4 DEF t

\* The objects a+1..b of position j, as a set.
Slice(j, a, b) == {<<j, i>> : i \in (a+1)..b}

\* Appending a batch adds the objects of the batch and nothing else.
LEMMA AppendBatch ==
  ASSUME NEW s, NEW j, NEW a, NEW b,
         s \in Seq((0..NumRegions) \X Nat), j \in 0..NumRegions,
         a \in Nat, b \in Nat, a <= b
  PROVE  /\ s \o Batch(j, a, b) \in Seq((0..NumRegions) \X Nat)
         /\ ToSet(s \o Batch(j, a, b)) = ToSet(s) \cup Slice(j, a, b)
         /\ IsInjective(s) /\ (\A i \in (a+1)..b : <<j, i>> \notin ToSet(s))
              => IsInjective(s \o Batch(j, a, b))
<1> DEFINE u == Batch(j, a, b)
           t == s \o u
           n == Len(s)
           d == b - a
           B == {<<j, i>> : i \in (a+1)..b}
<1>0. d \in Nat /\ b = a + d
  OBVIOUS
<1>1. /\ u \in Seq((0..NumRegions) \X Nat)
      /\ Len(u) = d
      /\ \A i \in 1..d : u[i] = <<j, a + i>>
  <2>1. u = [i \in 1..d |-> <<j, a + i>>]
    BY DEF Batch
  <2> HIDE DEF u, d
  <2>2. \A i \in 1..d : <<j, a + i>> \in ((0..NumRegions) \X Nat)
    BY <1>0
  <2>3. u \in [1..d -> ((0..NumRegions) \X Nat)]
    BY <2>1, <2>2
  <2>4. QED BY <1>0, <2>1, <2>3
<1> HIDE DEF u, d
<1>2. /\ t \in Seq((0..NumRegions) \X Nat)
      /\ n \in Nat
      /\ DOMAIN s = 1..n
      /\ DOMAIN t = 1..(n + d)
      /\ \A i \in 1..n : t[i] = s[i]
      /\ \A i \in 1..d : t[n + i] = <<j, a + i>>
  <2> DEFINE T == ((0..NumRegions) \X Nat)
  <2>1. s \in Seq(T) /\ u \in Seq(T)
    BY <1>1
  <2> HIDE DEF T
  <2>2. t \in Seq(T) /\ n \in Nat /\ Len(t) = n + d
    <3>1. t \in Seq(T) /\ Len(t) = Len(s) + Len(u)
      BY <2>1
    <3>2. QED BY <1>1, <2>1, <3>1
  <2>3. DOMAIN s = 1..n /\ DOMAIN t = 1..(n + d) /\ DOMAIN u = 1..d
    BY <1>1, <2>1, <2>2
  <2>4. \A i \in 1..n : t[i] = s[i]
    BY <2>1
  <2>5. \A i \in 1..d : t[n + i] = u[i]
    BY <2>1, <1>1, <1>0
  <2>6. QED BY <1>1, <2>2, <2>3, <2>4, <2>5 DEF T
<1> HIDE DEF t, n
<1>3. \A i \in DOMAIN t : i \notin 1..n => /\ i - n \in 1..d
                                           /\ t[i] = <<j, a + (i - n)>>
                                           /\ a + (i - n) \in (a+1)..b
  <2> SUFFICES ASSUME NEW i \in DOMAIN t, i \notin 1..n
               PROVE  /\ i - n \in 1..d
                      /\ t[i] = <<j, a + (i - n)>>
                      /\ a + (i - n) \in (a+1)..b
    OBVIOUS
  <2> DEFINE m == i - n
  <2>1. m \in 1..d /\ i = n + m
    BY <1>0, <1>2
  <2> HIDE DEF m
  <2>2. t[i] = <<j, a + m>> /\ a + m \in (a+1)..b
    BY <2>1, <1>0, <1>2
  <2>3. QED BY <2>1, <2>2 DEF m
<1>4. ToSet(t) = ToSet(s) \cup B
  <2>1. ASSUME NEW i \in DOMAIN t PROVE t[i] \in ToSet(s) \cup B
    BY <1>2, <1>3 DEF ToSet
  <2>2. ASSUME NEW i \in DOMAIN s PROVE s[i] \in ToSet(t)
    <3>1. i \in DOMAIN t /\ t[i] = s[i]
      BY <1>0, <1>2
    <3>2. QED BY <3>1 DEF ToSet
  <2>3. ASSUME NEW i \in (a+1)..b PROVE <<j, i>> \in ToSet(t)
    <3> DEFINE m == i - a
    <3>1. m \in 1..d /\ i = a + m /\ n + m \in DOMAIN t
      BY <1>0, <1>2
    <3> HIDE DEF m
    <3>2. t[n + m] = <<j, i>>
      BY <1>2, <3>1
    <3>3. QED BY <3>1, <3>2 DEF ToSet
  <2>4. QED BY <2>1, <2>2, <2>3 DEF ToSet
<1>5. ASSUME IsInjective(s), \A i \in (a+1)..b : <<j, i>> \notin ToSet(s)
      PROVE  IsInjective(t)
  <2> SUFFICES ASSUME NEW i \in DOMAIN t, NEW k \in DOMAIN t, t[i] = t[k]
               PROVE  i = k
    BY DEF IsInjective
  <2>1. \A m \in DOMAIN t : m \in 1..n => t[m] \in ToSet(s)
    BY <1>2 DEF ToSet
  <2>2. \A m \in DOMAIN t : m \notin 1..n => t[m] \notin ToSet(s)
    BY <1>3, <1>5
  <2>3. CASE i \in 1..n /\ k \in 1..n
    BY <2>3, <1>2, <1>5 DEF IsInjective
  <2>4. CASE i \notin 1..n /\ k \notin 1..n
    <3>1. a + (i - n) = a + (k - n)
      BY <1>3, <2>4
    <3>2. QED BY <3>1, <1>0, <1>2
  <2>5. QED BY <2>1, <2>2, <2>3, <2>4
<1>6. QED BY <1>2, <1>4, <1>5 DEF t, u, Slice

-----------------------------------------------------------------------------

\* What the assumption about Found gives for one position.
LEMMA FoundFacts ==
  ASSUME NEW j \in 0..NumRegions
  PROVE  /\ Steps(j) \in Nat
         /\ Size(j) \in Nat
         /\ \A k \in 0..Steps(j) : Found[j][k] \in Nat /\ Found[j][k] <= Size(j)
         /\ \A k, l \in 0..Steps(j) : k <= l => Found[j][k] <= Found[j][l]
         /\ Found[j][0] = 0
<1>1. Steps(j) \in Nat
  BY PoolAssumption DEF Steps
<1>2. Found[j] \in [0..Steps(j) -> Nat]
  BY FoundAssumption
<1>3. Steps(j) \in 0..Steps(j) /\ \A k \in 0..Steps(j) : Found[j][k] \in Nat
  BY <1>1, <1>2
<1>4. QED
  BY FoundAssumption, <1>1, <1>3 DEF Size

\* Workers are numbered from 1; 0 is the free mutex.
LEMMA WorkerFacts == \A w \in Workers : w \in Nat /\ w # 0 /\ w <= MaxWorkers
  BY PoolAssumption DEF Workers

\* TypeOK holds initially and every step keeps it.
LEMMA TypeInit == Init => TypeOK
<1> SUFFICES ASSUME Init PROVE TypeOK
  OBVIOUS
<1>1. concurrency \in 1..MaxWorkers
  BY PoolAssumption DEF Init, PoolSize
<1>2. /\ next \in 1..(NumRegions + 1) /\ spawned \in 0..concurrency
      /\ taken \in 0..(next - 1) /\ mu \in 0..MaxWorkers
  BY PoolAssumption, <1>1 DEF Init
<1>3. job \in [Workers -> 0..NumRegions] /\ step \in [Workers -> 0..NumRegional]
  BY PoolAssumption DEF Init
<1>4. /\ snap \in [Workers -> Seq((0..NumRegions) \X Nat)]
      /\ errs \in Seq(Jobs)
      /\ resources \in Seq((0..NumRegions) \X Nat)
  BY DEF Init
<1>5. /\ mpc = "global" /\ mstep \in Nat
      /\ regionsClosed = FALSE /\ errsClosed = FALSE
      /\ wg \in Int /\ result = "none"
      /\ wpc \in [Workers -> {"unborn", "recv", "collect", "fail", "merge",
                              "write", "exited"}]
      /\ added \in [Workers -> Nat]
  BY DEF Init
<1>6. QED
  BY <1>1, <1>2, <1>3, <1>4, <1>5 DEF TypeOK

\* One step of a collector called by the main goroutine, for position j.
LEMMA TypeBatch ==
  ASSUME TypeOK, NEW j \in 0..NumRegions, mstep < Steps(j)
  PROVE  /\ Found[j][mstep] \in Nat /\ Found[j][mstep + 1] \in Nat
         /\ Found[j][mstep] <= Found[j][mstep + 1]
         /\ resources \o Batch(j, Found[j][mstep], Found[j][mstep + 1])
              \in Seq((0..NumRegions) \X Nat)
<1>1. mstep \in 0..Steps(j) /\ mstep + 1 \in 0..Steps(j) /\ mstep <= mstep + 1
  BY FoundFacts DEF TypeOK
<1>2. /\ Found[j][mstep] \in Nat /\ Found[j][mstep + 1] \in Nat
      /\ Found[j][mstep] <= Found[j][mstep + 1]
  BY <1>1, FoundFacts
<1>3. QED
  BY <1>2, AppendBatch DEF TypeOK

\* A step of the main goroutine keeps the types.
LEMMA TypeMain == TypeOK /\ Main => TypeOK'
<1> SUFFICES ASSUME TypeOK, Main PROVE TypeOK'
  OBVIOUS
<1> USE DEF TypeOK, workerVars, Return
<1>1. CASE GlobalCollect
  <2>1. resources' \in Seq((0..NumRegions) \X Nat)
    BY <1>1, TypeBatch, PoolAssumption DEF GlobalCollect, Steps
  <2>2. QED BY <1>1, <2>1 DEF GlobalCollect
<1>2. CASE GlobalFail
  BY <1>2 DEF GlobalFail
<1>3. CASE ChooseMode
  BY <1>3 DEF ChooseMode
<1>4. CASE SeqCollect
  <2>1. next \in 0..NumRegions /\ mstep < Steps(next)
    BY <1>4, PoolAssumption DEF SeqCollect, Steps
  <2>2. resources' \in Seq((0..NumRegions) \X Nat)
    BY <1>4, <2>1, TypeBatch DEF SeqCollect
  <2>3. QED BY <1>4, <2>2 DEF SeqCollect
<1>5. CASE SeqFail
  BY <1>5 DEF SeqFail
<1>6. CASE SeqNextRegion
  BY <1>6, PoolAssumption DEF SeqNextRegion
<1>7. CASE SeqDone
  BY <1>7 DEF SeqDone
<1>8. CASE Spawn
  <2>1. wpc' \in [Workers -> {"unborn", "recv", "collect", "fail", "merge",
                              "write", "exited"}]
    BY <1>8 DEF Spawn
  <2>2. spawned' \in 0..concurrency
    BY <1>8, PoolAssumption DEF Spawn
  <2>3. QED BY SMTT(40), <1>8, <2>1, <2>2 DEF Spawn
<1>9. CASE SpawnDone
  BY <1>9 DEF SpawnDone
<1>10. CASE SendRegion
  BY <1>10, PoolAssumption DEF SendRegion
<1>11. CASE CloseRegions
  BY <1>11 DEF CloseRegions
<1>12. CASE WaitDone
  BY <1>12 DEF WaitDone
<1>13. CASE Drain
  BY <1>13 DEF Drain
<1>14. QED
  BY <1>1, <1>2, <1>3, <1>4, <1>5, <1>6, <1>7, <1>8, <1>9, <1>10, <1>11,
     <1>12, <1>13 DEF Main

\* So does a step of a worker.
LEMMA TypeWorker ==
  ASSUME NEW w \in Workers
  PROVE  TypeOK /\ JobInv /\ Worker(w) => TypeOK'
<1> SUFFICES ASSUME TypeOK, JobInv, Worker(w) PROVE TypeOK'
  OBVIOUS
<1> USE DEF TypeOK, mainVars, workerVars, Goto
<1>1. CASE Receive(w)
  BY <1>1, PoolAssumption DEF Receive, InRegionChan
<1>2. CASE Leave(w)
  BY <1>2 DEF Leave
<1>3. CASE Collect(w)
  BY <1>3, PoolAssumption DEF Collect
<1>4. CASE CollectFails(w)
  BY <1>4 DEF CollectFails
<1>5. CASE SendError(w)
  <2>1. job[w] \in Jobs
    BY <1>5, PoolAssumption DEF SendError, JobInv, Busy, Jobs
  <2>2. errs' \in Seq(Jobs)
    BY <1>5, <2>1 DEF SendError
  <2>3. QED BY SMTT(40), <1>5, <2>2 DEF SendError
<1>6. CASE Lock(w)
  BY SMTT(40), <1>6, WorkerFacts, PoolAssumption DEF Lock
<1>7. CASE AddRead(w)
  BY <1>7 DEF AddRead
<1>8. CASE AddWrite(w)
  <2>1. resources' \in Seq((0..NumRegions) \X Nat)
    BY <1>8 DEF AddWrite
  <2>2. snap' \in [Workers -> Seq((0..NumRegions) \X Nat)]
    BY SMTT(40), <1>8 DEF AddWrite
  <2>3. QED BY SMTT(40), <1>8, <2>1, <2>2 DEF AddWrite
<1>9. CASE Unlock(w)
  BY SMTT(40), <1>9, PoolAssumption DEF Unlock
<1>10. QED
  BY <1>1, <1>2, <1>3, <1>4, <1>5, <1>6, <1>7, <1>8, <1>9 DEF Worker

-----------------------------------------------------------------------------

\* The running workers are a finite set.
LEMMA RunningFacts ==
  /\ IsFiniteSet(Running)
  /\ Cardinality(Running) \in Nat
  /\ Cardinality(Running) = 0 => Running = {}
<1>1. IsFiniteSet(Workers)
  BY PoolAssumption, FS_Interval DEF Workers
<1>2. Running \subseteq Workers
  BY DEF Running
<1>3. QED
  BY <1>1, <1>2, FS_Subset, FS_CardinalityType, FS_EmptySet

\* A worker that is running keeps errorChan open and the call from returning ok.
LEMMA RunningKeepsOpen ==
  ASSUME TypeOK, PhaseInv, WorkerInv, NEW w \in Workers,
         wpc[w] \notin {"unborn", "exited"}
  PROVE  /\ errsClosed = FALSE
         /\ concurrency > 1
         /\ result # "ok"
         /\ mpc \notin {"global", "seq", "drain"}
<1>1. w \in Running
  BY DEF Running
<1>2. wg # 0
  BY <1>1, RunningFacts DEF WorkerInv
<1>3. w <= spawned
  BY WorkerFacts DEF WorkerInv, TypeOK
<1>4. spawned # 0
  BY <1>3, WorkerFacts
<1>5. QED
  BY <1>2, <1>4 DEF PhaseInv, TypeOK

\* PhaseInv is kept by the main goroutine ...
LEMMA PhaseMain == TypeOK /\ PhaseInv /\ Main => PhaseInv'
<1> SUFFICES ASSUME TypeOK, PhaseInv, Main PROVE PhaseInv'
  OBVIOUS
<1> USE PoolAssumption DEF TypeOK, PhaseInv, Return
<1>1. CASE GlobalCollect
  BY <1>1 DEF GlobalCollect
<1>2. CASE GlobalFail
  BY <1>2 DEF GlobalFail
<1>3. CASE ChooseMode
  BY <1>3 DEF ChooseMode
<1>4. CASE SeqCollect
  BY <1>4 DEF SeqCollect
<1>5. CASE SeqFail
  BY <1>5 DEF SeqFail
<1>6. CASE SeqNextRegion
  BY <1>6 DEF SeqNextRegion
<1>7. CASE SeqDone
  BY <1>7 DEF SeqDone
<1>8. CASE Spawn
  BY <1>8 DEF Spawn
<1>9. CASE SpawnDone
  BY <1>9 DEF SpawnDone
<1>10. CASE SendRegion
  BY <1>10 DEF SendRegion
<1>11. CASE CloseRegions
  BY <1>11 DEF CloseRegions
<1>12. CASE WaitDone
  BY <1>12 DEF WaitDone
<1>13. CASE Drain
  BY <1>13 DEF Drain
<1>14. QED
  BY <1>1, <1>2, <1>3, <1>4, <1>5, <1>6, <1>7, <1>8, <1>9, <1>10, <1>11,
     <1>12, <1>13 DEF Main

\* ... and by a worker, which only moves the WaitGroup and errorChan.
LEMMA PhaseWorker ==
  ASSUME NEW w \in Workers
  PROVE  TypeOK /\ PhaseInv /\ WorkerInv /\ Worker(w) => PhaseInv'
<1> SUFFICES ASSUME TypeOK, PhaseInv, WorkerInv, Worker(w) PROVE PhaseInv'
  OBVIOUS
<1>1. wpc[w] \notin {"unborn", "exited"}
  BY DEF Worker, Receive, Leave, Collect, CollectFails, SendError, Lock,
         AddRead, AddWrite, Unlock, Goto
<1>2. errsClosed = FALSE /\ result # "ok"
  BY <1>1, RunningKeepsOpen
<1>3. UNCHANGED mainVars
  BY DEF Worker, Receive, Leave, Collect, CollectFails, SendError, Lock,
         AddRead, AddWrite, Unlock
<1>4. QED
  BY <1>2, <1>3 DEF PhaseInv, mainVars

\* WorkerInv: the counter follows Spawn ...
LEMMA WorkerInvMain == TypeOK /\ PhaseInv /\ WorkerInv /\ Main => WorkerInv'
<1> SUFFICES ASSUME TypeOK, PhaseInv, WorkerInv, Main PROVE WorkerInv'
  OBVIOUS
<1>1. CASE Spawn
  <2> DEFINE v == spawned + 1
  <2>1. v \in Workers /\ wpc[v] = "unborn"
    BY SMTT(40), <1>1, PoolAssumption DEF Spawn, WorkerInv, Workers, TypeOK
  <2>2. \A w \in Workers : wpc'[w] = IF w = v THEN "recv" ELSE wpc[w]
    BY <1>1, <2>1 DEF Spawn, TypeOK
  <2>3. Running' = Running \cup {v} /\ v \notin Running
    BY <2>1, <2>2 DEF Running
  <2>4. Cardinality(Running') = Cardinality(Running) + 1
    BY <2>3, RunningFacts, FS_AddElement
  <2>5. \A w \in Workers : wpc'[w] = "unborn" <=> w > spawned'
    <3>1. spawned' = v /\ spawned \in Nat /\ v = spawned + 1
      BY <1>1, PoolAssumption DEF Spawn, TypeOK
    <3>2. \A w \in Workers : w \in Nat /\ (wpc[w] = "unborn" <=> w > spawned)
      BY WorkerFacts DEF WorkerInv
    <3> HIDE DEF v
    <3>3. QED BY <2>1, <2>2, <3>1, <3>2
  <2>6. \A w \in Workers : wpc'[w] = "exited" => wpc[w] = "exited"
    BY <2>2
  <2>7. QED
    BY <1>1, <2>4, <2>5, <2>6 DEF Spawn, WorkerInv
<1>2. CASE GlobalCollect \/ GlobalFail \/ ChooseMode \/ SeqCollect \/ SeqFail
           \/ SeqNextRegion \/ SeqDone
  <2>1. spawned = 0
    BY <1>2 DEF PhaseInv, GlobalCollect, GlobalFail, ChooseMode, SeqCollect,
                SeqFail, SeqNextRegion, SeqDone
  <2>2. UNCHANGED <<wpc, wg, spawned>>
    BY <1>2 DEF GlobalCollect, GlobalFail, ChooseMode, SeqCollect, SeqFail,
                SeqNextRegion, SeqDone
  <2>3. \A w \in Workers : wpc[w] # "exited"
    BY <2>1, WorkerFacts DEF WorkerInv
  <2>4. QED
    BY <2>2, <2>3 DEF WorkerInv, Running
<1>3. CASE SpawnDone \/ SendRegion \/ CloseRegions \/ WaitDone \/ Drain
  <2>1. UNCHANGED <<wpc, wg, spawned, errs, taken>>
    BY <1>3 DEF SpawnDone, SendRegion, CloseRegions, WaitDone, Drain
  <2>2. regionsClosed => regionsClosed' /\ next' = next
    BY <1>3 DEF PhaseInv, SpawnDone, SendRegion, CloseRegions, WaitDone, Drain
  <2>3. QED
    BY <2>1, <2>2 DEF WorkerInv, Running
<1>4. QED
  BY <1>1, <1>2, <1>3 DEF Main

\* ... and the two ways a worker ends.
LEMMA WorkerInvWorker ==
  ASSUME NEW w \in Workers
  PROVE  TypeOK /\ PhaseInv /\ WorkerInv /\ Worker(w) => WorkerInv'
<1> SUFFICES ASSUME TypeOK, PhaseInv, WorkerInv, Worker(w) PROVE WorkerInv'
  OBVIOUS
<1>1. UNCHANGED mainVars
  BY DEF Worker, Receive, Leave, Collect, CollectFails, SendError, Lock,
         AddRead, AddWrite, Unlock
<1>2. w <= spawned
  <2>1. wpc[w] # "unborn"
    BY DEF Worker, Receive, Leave, Collect, CollectFails, SendError, Lock,
           AddRead, AddWrite, Unlock, Goto
  <2>2. QED BY <2>1, WorkerFacts DEF WorkerInv, TypeOK
<1>3. CASE Leave(w) \/ SendError(w)
  <2>1. wpc[w] \in {"recv", "fail"} /\ wpc' = [wpc EXCEPT ![w] = "exited"]
        /\ wg' = wg - 1
    BY <1>3 DEF Leave, SendError, Goto
  <2>2. \A v \in Workers : wpc'[v] = IF v = w THEN "exited" ELSE wpc[v]
    BY <2>1 DEF TypeOK
  <2>3. Running' = Running \ {w} /\ w \in Running
    BY <2>1, <2>2 DEF Running
  <2>4. Cardinality(Running') = Cardinality(Running) - 1
    BY <2>3, RunningFacts, FS_RemoveElement
  <2>5. \A v \in Workers : wpc'[v] = "unborn" <=> v > spawned
    BY SMTT(40), <1>2, <2>2, WorkerFacts DEF WorkerInv, TypeOK
  <2>6. \/ errs' # <<>>
        \/ errs' = errs /\ regionsClosed /\ taken' = taken /\ taken = next - 1
    <3>1. CASE Leave(w)
      BY <3>1 DEF Leave, InRegionChan, TypeOK
    <3>2. CASE SendError(w)
      <4>1. errs' = Append(errs, job[w]) /\ errs \in Seq(Jobs)
        BY <3>2 DEF SendError, TypeOK
      <4>2. QED BY <4>1
    <3>3. QED BY <1>3, <3>1, <3>2
  <2>7. QED
    BY <1>1, <2>1, <2>2, <2>4, <2>5, <2>6 DEF WorkerInv, mainVars
<1>4. CASE Receive(w) \/ Collect(w) \/ CollectFails(w) \/ Lock(w) \/ AddRead(w)
           \/ AddWrite(w) \/ Unlock(w)
  <2>1. UNCHANGED <<wg, errs>>
    BY <1>4 DEF Receive, Collect, CollectFails, Lock, AddRead, AddWrite, Unlock
  <2>2. \A v \in Workers : /\ wpc'[v] = "unborn" <=> wpc[v] = "unborn"
                           /\ wpc'[v] = "exited" <=> wpc[v] = "exited"
    BY <1>4 DEF Receive, Collect, CollectFails, Lock, AddRead, AddWrite,
                Unlock, Goto, TypeOK
  <2>3. Running' = Running
    BY <2>2 DEF Running
  <2>4. taken' = taken \/ taken < next - 1
    BY <1>4 DEF Receive, Collect, CollectFails, Lock, AddRead, AddWrite,
                Unlock, InRegionChan, TypeOK, workerVars
  <2>5. QED
    BY SMTT(40), <1>1, <2>1, <2>2, <2>3, <2>4 DEF WorkerInv, mainVars, TypeOK
<1>5. QED
  BY <1>3, <1>4 DEF Worker

-----------------------------------------------------------------------------

\* What a step of the main goroutine leaves alone.
LEMMA MainFrame ==
  ASSUME TypeOK, PhaseInv, WorkerInv, Main
  PROVE  /\ UNCHANGED <<workerVars, taken, errs, mu>>
         /\ \A w \in Workers : /\ Busy(w)' <=> Busy(w)
                               /\ Merging(w)' <=> Merging(w)
                               /\ wpc'[w] = "write" <=> wpc[w] = "write"
                               /\ wpc'[w] = "merge" <=> wpc[w] = "merge"
         /\ resources' # resources =>
              mpc \in {"global", "seq"} /\ \A w \in Workers : wpc[w] = "unborn"
<1>1. UNCHANGED <<workerVars, taken, errs, mu>>
  BY DEF Main, GlobalCollect, GlobalFail, ChooseMode, SeqCollect, SeqFail,
         SeqNextRegion, SeqDone, Spawn, SpawnDone, SendRegion, CloseRegions,
         WaitDone, Drain
<1>2. \A w \in Workers : wpc'[w] = wpc[w] \/ (wpc[w] = "unborn" /\ wpc'[w] = "recv")
  <2>1. CASE Spawn
    <3>1. spawned + 1 \in Workers => wpc[spawned + 1] = "unborn"
      BY DEF WorkerInv, TypeOK
    <3>2. QED BY <2>1, <3>1 DEF Spawn, TypeOK
  <2>2. CASE ~Spawn
    BY <2>2 DEF Main, GlobalCollect, GlobalFail, ChooseMode, SeqCollect,
         SeqFail, SeqNextRegion, SeqDone, SpawnDone, SendRegion, CloseRegions,
         WaitDone, Drain
  <2>3. QED BY <2>1, <2>2
<1>3. \A w \in Workers : /\ Busy(w)' <=> Busy(w)
                         /\ Merging(w)' <=> Merging(w)
                         /\ wpc'[w] = "write" <=> wpc[w] = "write"
                         /\ wpc'[w] = "merge" <=> wpc[w] = "merge"
  BY <1>2 DEF Busy, Merging
<1>4. resources' # resources => mpc \in {"global", "seq"}
  BY DEF Main, GlobalCollect, GlobalFail, ChooseMode, SeqCollect, SeqFail,
         SeqNextRegion, SeqDone, Spawn, SpawnDone, SendRegion, CloseRegions,
         WaitDone, Drain
<1>5. mpc \in {"global", "seq"} => \A w \in Workers : wpc[w] = "unborn"
  BY WorkerFacts DEF PhaseInv, WorkerInv
<1>6. QED
  BY <1>1, <1>3, <1>4, <1>5

\* LockInv: the main goroutine holds no lock ...
LEMMA LockMain == TypeOK /\ PhaseInv /\ WorkerInv /\ LockInv /\ Main => LockInv'
<1> SUFFICES ASSUME TypeOK, PhaseInv, WorkerInv, LockInv, Main PROVE LockInv'
  OBVIOUS
<1>1. \A w \in Workers : Merging(w)' <=> mu' = w
  BY MainFrame DEF LockInv
<1>2. ASSUME NEW w \in Workers, wpc'[w] = "write"
      PROVE  snap'[w] = resources' /\ added'[w] < Size(job'[w])
  <2>1. wpc[w] = "write"
    BY <1>2, MainFrame
  <2>2. resources' = resources
    BY <2>1, MainFrame
  <2>3. QED BY <2>1, <2>2, MainFrame DEF LockInv, workerVars
<1>3. ASSUME NEW w \in Workers, wpc'[w] = "merge"
      PROVE  added'[w] <= Size(job'[w])
  BY <1>3, MainFrame DEF LockInv, workerVars
<1>4. QED
  BY <1>1, <1>2, <1>3 DEF LockInv, Size, Steps

\* ... and a worker adds to the collection only while it does.
LEMMA LockWorker ==
  ASSUME NEW w \in Workers
  PROVE  TypeOK /\ LockInv /\ Worker(w) => LockInv'
<1> SUFFICES ASSUME TypeOK, LockInv, Worker(w) PROVE LockInv'
  OBVIOUS
<1> USE DEF workerVars
<1>1. \A v \in Workers : v # w => /\ wpc'[v] = wpc[v]
                                  /\ job'[v] = job[v]
                                  /\ snap'[v] = snap[v]
                                  /\ added'[v] = added[v]
  BY DEF Worker, Receive, Leave, Collect, CollectFails, SendError, Lock,
         AddRead, AddWrite, Unlock, Goto, TypeOK
<1>2. CASE Receive(w) \/ Leave(w) \/ Collect(w) \/ CollectFails(w) \/ SendError(w)
  <2>1. UNCHANGED <<mu, resources>> /\ ~Merging(w) /\ ~Merging(w)'
    BY <1>2 DEF Receive, Leave, Collect, CollectFails, SendError, Goto,
                Merging, TypeOK
  <2>2. \A v \in Workers : Merging(v)' <=> mu' = v
    BY <1>1, <2>1 DEF LockInv, Merging
  <2>3. \A v \in Workers : v # w \/ wpc'[v] \notin {"merge", "write"}
    BY <2>1 DEF Merging
  <2>4. QED BY <1>1, <2>1, <2>2, <2>3 DEF LockInv, Size, Steps
<1>3. CASE Lock(w)
  <2>1. wpc'[w] = "merge" /\ mu' = w /\ mu = 0 /\ added'[w] = 0 /\ job' = job
        /\ resources' = resources
    BY <1>3 DEF Lock, Goto, TypeOK
  <2>2. \A v \in Workers : v # w => ~Merging(v)
    BY <2>1, WorkerFacts DEF LockInv
  <2>3. \A v \in Workers : v # w => wpc'[v] \notin {"merge", "write"}
    BY <1>1, <2>2 DEF Merging
  <2>4. Size(job[w]) \in Nat
    BY FoundFacts DEF TypeOK
  <2>5. 0 <= Size(job[w])
    BY <2>4
  <2>6. QED BY <2>1, <2>3, <2>5 DEF LockInv, Merging, Size, Steps
<1>4. CASE AddRead(w)
  <2>1. /\ wpc[w] = "merge" /\ wpc'[w] = "write" /\ snap'[w] = resources
        /\ added[w] < Size(job[w])
        /\ UNCHANGED <<mu, resources, added, job>>
    BY <1>4 DEF AddRead, Goto, TypeOK
  <2>2. QED BY <1>1, <2>1 DEF LockInv, Merging, Size, Steps
<1>5. CASE AddWrite(w)
  <2>1. /\ wpc[w] = "write" /\ wpc'[w] = "merge"
        /\ added'[w] = added[w] + 1
        /\ UNCHANGED <<mu, job>>
    BY <1>5 DEF AddWrite, Goto, TypeOK
  <2>2. mu = w /\ added[w] < Size(job[w])
    BY <2>1 DEF LockInv, Merging
  <2>3. \A v \in Workers : v # w => wpc'[v] \notin {"merge", "write"}
    BY <1>1, <2>2 DEF LockInv, Merging
  <2>4. Size(job[w]) \in Nat /\ added[w] \in Nat
    BY FoundFacts DEF TypeOK
  <2>5. added'[w] <= Size(job'[w])
    BY <2>1, <2>2, <2>4
  <2>6. QED BY <2>1, <2>2, <2>3, <2>5 DEF LockInv, Merging, Size, Steps
<1>6. CASE Unlock(w)
  <2>1. wpc[w] = "merge" /\ wpc'[w] = "recv" /\ mu' = 0
    BY <1>6 DEF Unlock, Goto, TypeOK
  <2>2. mu = w
    BY <2>1 DEF LockInv, Merging
  <2>3. \A v \in Workers : wpc'[v] \notin {"merge", "write"}
    BY <1>1, <2>1, <2>2 DEF LockInv, Merging
  <2>4. QED BY <2>1, <2>3, WorkerFacts DEF LockInv, Merging
<1>7. QED
  BY <1>2, <1>3, <1>4, <1>5, <1>6 DEF Worker

\* JobInv: regions change hands only in Receive and SendError.
LEMMA JobMain == TypeOK /\ PhaseInv /\ WorkerInv /\ JobInv /\ Main => JobInv'
  BY MainFrame DEF JobInv, workerVars

\* The same for the workers.
LEMMA JobWorker ==
  ASSUME NEW w \in Workers
  PROVE  TypeOK /\ JobInv /\ Worker(w) => JobInv'
<1> SUFFICES ASSUME TypeOK, JobInv, Worker(w) PROVE JobInv'
  OBVIOUS
<1> USE DEF workerVars
<1>1. \A v \in Workers : v # w => (Busy(v)' <=> Busy(v)) /\ job'[v] = job[v]
  BY DEF Worker, Receive, Leave, Collect, CollectFails, SendError, Lock,
         AddRead, AddWrite, Unlock, Goto, Busy, TypeOK
<1>2. taken \in Nat
  BY DEF TypeOK
<1>3. CASE Receive(w)
  <2>1. job'[w] = taken + 1 /\ taken' = taken + 1 /\ errs' = errs
    BY <1>3 DEF Receive, TypeOK
  <2>2. \A v \in Workers : v # w /\ Busy(v) => job[v] \in 1..taken
    BY DEF JobInv
  <2>3. job'[w] \notin ToSet(errs)
    BY <2>1, <1>2 DEF JobInv
  <2>4. ToSet(errs) \subseteq 1..taken'
    BY <2>1, <1>2 DEF JobInv
  <2>5. \A v \in Workers : Busy(v)' => job'[v] \in 1..taken' /\ job'[v] \notin ToSet(errs)
    BY <1>1, <1>2, <2>1, <2>2, <2>3 DEF JobInv
  <2>6. \A u, v \in Workers : Busy(u)' /\ Busy(v)' /\ job'[u] = job'[v] => u = v
    BY <1>1, <1>2, <2>1, <2>2 DEF JobInv
  <2>7. QED BY <2>1, <2>4, <2>5, <2>6 DEF JobInv
<1>4. CASE SendError(w)
  <2>1. /\ errs' = Append(errs, job[w]) /\ errs \in Seq(Jobs) /\ job' = job
        /\ taken' = taken /\ ~Busy(w)' /\ Busy(w)
    BY <1>4 DEF SendError, Goto, Busy, TypeOK
  <2>2. job[w] \in 1..taken /\ job[w] \notin ToSet(errs)
    BY <2>1 DEF JobInv
  <2>3. job[w] \in Jobs
    BY <2>2, PoolAssumption DEF Jobs, TypeOK
  <2>4. ToSet(errs') = ToSet(errs) \cup {job[w]} /\ IsInjective(errs')
    BY <2>1, <2>2, <2>3, AppendFresh DEF JobInv
  <2>5. \A v \in Workers : Busy(v)' => v # w /\ Busy(v) /\ job[v] # job[w]
    BY <1>1, <2>1 DEF JobInv
  <2>6. QED BY <2>1, <2>2, <2>4, <2>5 DEF JobInv
<1>5. CASE Leave(w) \/ Collect(w) \/ CollectFails(w) \/ Lock(w) \/ AddRead(w)
           \/ AddWrite(w) \/ Unlock(w)
  <2>1. UNCHANGED <<errs, taken, job>> /\ (Busy(w)' => Busy(w))
    BY <1>5 DEF Leave, Collect, CollectFails, Lock, AddRead, AddWrite, Unlock,
                Goto, Busy, TypeOK
  <2>2. QED BY <1>1, <2>1 DEF JobInv
<1>6. QED
  BY <1>3, <1>4, <1>5 DEF Worker

-----------------------------------------------------------------------------

\* Membership in Expected.
LEMMA ExpectedPairs ==
  \A j \in 0..NumRegions : \A i \in 1..Size(j) : <<j, i>> \in Expected
  BY DEF Expected, Objects

\* ContentInv holds initially.
LEMMA ContentInit == Init => ContentInv
<1> SUFFICES ASSUME Init PROVE ContentInv
  OBVIOUS
<1>1. Collected = {} /\ Distinct
  BY DEF Init, Collected, Distinct, ToSet, IsInjective
<1>2. \A i \in 1..Size(0) : ~GlobalPart(i)
  BY FoundFacts, PoolAssumption DEF Init, GlobalPart
<1>3. \A j \in Jobs : \A i \in 1..Size(j) : ~SeqPart(j, i) /\ ~PoolPart(j, i)
  BY DEF Init, SeqPart, PoolPart, Jobs
<1>4. QED
  BY <1>1, <1>2, <1>3 DEF ContentInv

\* A collector called by the main goroutine appends its batch: nothing of it
\* was there before, and nothing else comes with it.
LEMMA ContentBatch ==
  ASSUME TypeOK, ContentInv, NEW j \in 0..NumRegions, mstep < Steps(j),
         resources' = resources \o Batch(j, Found[j][mstep], Found[j][mstep + 1]),
         \A i \in 1..Size(j) : <<j, i>> \in Collected <=> i <= Found[j][mstep]
  PROVE  /\ Distinct'
         /\ Collected' \subseteq Expected
         /\ \A i \in 1..Size(j) : <<j, i>> \in Collected' <=> i <= Found[j][mstep + 1]
         /\ \A k \in 0..NumRegions, i \in Nat :
              k # j => (<<k, i>> \in Collected' <=> <<k, i>> \in Collected)
<1> DEFINE a == Found[j][mstep]
           b == Found[j][mstep + 1]
<1>1. a \in Nat /\ b \in Nat /\ a <= b /\ Size(j) \in Nat /\ b <= Size(j)
  <2>1. mstep + 1 \in 0..Steps(j)
    BY FoundFacts DEF TypeOK
  <2>2. QED BY <2>1, TypeBatch, FoundFacts
<1>2. resources \in Seq((0..NumRegions) \X Nat) /\ resources' = resources \o Batch(j, a, b)
  BY DEF TypeOK
<1>3. \A i \in 1..Size(j) : <<j, i>> \in Collected <=> i <= a
  OBVIOUS
<1> HIDE DEF a, b
<1>4. Collected' = Collected \cup Slice(j, a, b)
  <2>1. ToSet(resources \o Batch(j, a, b))
          = ToSet(resources) \cup Slice(j, a, b)
    <3>1. /\ resources \in Seq((0..NumRegions) \X Nat) /\ j \in 0..NumRegions
          /\ a \in Nat /\ b \in Nat /\ a <= b
      BY <1>1, <1>2
    <3>2. QED BY <3>1, AppendBatch
  <2>2. Collected' = ToSet(resources')
    BY DEF Collected, ToSet
  <2>3. QED BY <1>2, <2>1, <2>2 DEF Collected
<1>5. ASSUME NEW i \in (a+1)..b
      PROVE  i \in 1..Size(j) /\ <<j, i>> \notin Collected
  <2>1. i \in 1..Size(j) /\ ~(i <= a)
    BY <1>1
  <2>2. QED BY <2>1, <1>3
<1>6. Distinct'
  BY <1>1, <1>2, <1>5, AppendBatch DEF Distinct, Collected, ContentInv
<1>7. Collected' \subseteq Expected
  BY <1>4, <1>5, ExpectedPairs DEF ContentInv, Slice
<1>8. ASSUME NEW i \in 1..Size(j) PROVE <<j, i>> \in Collected' <=> i <= b
  <2>1. <<j, i>> \in Collected' <=> (i <= a \/ i \in (a+1)..b)
    BY <1>3, <1>4 DEF Slice
  <2>2. QED BY <2>1, <1>1
<1>9. ASSUME NEW k \in 0..NumRegions, NEW i \in Nat, k # j
      PROVE  <<k, i>> \in Collected' <=> <<k, i>> \in Collected
  BY <1>4, <1>9 DEF Slice
<1>10. QED
  BY <1>6, <1>7, <1>8, <1>9 DEF b

\* Steps of the main goroutine that leave the collection alone.
LEMMA ContentMainFrame ==
  ASSUME TypeOK, PhaseInv, WorkerInv, ContentInv, Main, resources' = resources,
         result' # "error" =>
           /\ \A i \in 1..Size(0) : GlobalPart(i)' <=> GlobalPart(i)
           /\ concurrency = 1 =>
                \A j \in Jobs : \A i \in 1..Size(j) : SeqPart(j, i)' <=> SeqPart(j, i)
  PROVE  ContentInv'
<1>1. Collected' = Collected /\ (Distinct' <=> Distinct)
  BY DEF Collected, Distinct
<1>2. concurrency' = concurrency
  BY DEF Main, GlobalCollect, GlobalFail, ChooseMode, SeqCollect, SeqFail,
         SeqNextRegion, SeqDone, Spawn, SpawnDone, SendRegion, CloseRegions,
         WaitDone, Drain
<1>3. result = "none"
  BY DEF Main, GlobalCollect, GlobalFail, ChooseMode, SeqCollect, SeqFail,
         SeqNextRegion, SeqDone, Spawn, SpawnDone, SendRegion, CloseRegions,
         WaitDone, Drain, PhaseInv
<1>4. \A j \in Jobs : \A i \in 1..Size(j) : PoolPart(j, i)' <=> PoolPart(j, i)
  BY MainFrame DEF PoolPart, workerVars
<1>5. QED
  BY <1>1, <1>2, <1>3, <1>4 DEF ContentInv, Size, Steps, Expected, Objects

\* ContentInv is kept by the main goroutine ...
LEMMA ContentMain ==
  TypeOK /\ PhaseInv /\ WorkerInv /\ ContentInv /\ Main => ContentInv'
<1> SUFFICES ASSUME TypeOK, PhaseInv, WorkerInv, ContentInv, Main
             PROVE  ContentInv'
  OBVIOUS
<1>1. CASE GlobalCollect
  <2>1. /\ mpc = "global" /\ mpc' = "global" /\ mstep < Steps(0)
        /\ mstep' = mstep + 1 /\ next' = next
        /\ resources' = resources \o Batch(0, Found[0][mstep], Found[0][mstep + 1])
        /\ result = "none" /\ result' = "none" /\ concurrency' = concurrency
    BY <1>1 DEF GlobalCollect, Steps, PhaseInv
  <2>2. \A i \in 1..Size(0) : <<0, i>> \in Collected <=> i <= Found[0][mstep]
    BY <2>1 DEF ContentInv, GlobalPart
  <2>3. 0 \in 0..NumRegions /\ \A j \in Jobs : j \in 0..NumRegions /\ j # 0
    BY PoolAssumption DEF Jobs
  <2>4. /\ Distinct' /\ Collected' \subseteq Expected
        /\ \A i \in 1..Size(0) : <<0, i>> \in Collected' <=> i <= Found[0][mstep + 1]
        /\ \A j \in Jobs, i \in Nat : <<j, i>> \in Collected' <=> <<j, i>> \in Collected
    BY <2>1, <2>2, <2>3, ContentBatch
  <2>5. \A j \in Jobs : \A i \in 1..Size(j) : i \in Nat
    BY <2>3, FoundFacts
  <2>6. \A j \in Jobs : \A i \in 1..Size(j) : /\ SeqPart(j, i)' <=> SeqPart(j, i)
                                              /\ PoolPart(j, i)' <=> PoolPart(j, i)
    BY <2>1, MainFrame DEF SeqPart, PoolPart, workerVars
  <2>7. \A i \in 1..Size(0) : <<0, i>> \in Collected' <=> GlobalPart(i)'
    BY <2>1, <2>4 DEF GlobalPart
  <2>8. QED
    BY <2>1, <2>4, <2>5, <2>6, <2>7 DEF ContentInv, Size, Steps, Expected, Objects
<1>2. CASE SeqCollect
  <2>1. /\ mpc = "seq" /\ mpc' = "seq" /\ mstep' = mstep + 1 /\ next' = next
        /\ resources' = resources \o
             Batch(next, Found[next][mstep], Found[next][mstep + 1])
        /\ result = "none" /\ result' = "none"
        /\ concurrency = 1 /\ concurrency' = 1
    BY <1>2 DEF SeqCollect, PhaseInv
  <2>2. next \in Jobs /\ next \in 0..NumRegions /\ next # 0 /\ mstep < Steps(next)
        /\ 0 \in 0..NumRegions
    BY <1>2, PoolAssumption DEF SeqCollect, Jobs, Steps, TypeOK
  <2>3. \A i \in 1..Size(next) : <<next, i>> \in Collected <=> i <= Found[next][mstep]
    BY <2>1, <2>2 DEF ContentInv, SeqPart
  <2>4. /\ Distinct' /\ Collected' \subseteq Expected
        /\ \A i \in 1..Size(next) :
             <<next, i>> \in Collected' <=> i <= Found[next][mstep + 1]
        /\ \A k \in 0..NumRegions, i \in Nat :
             k # next => (<<k, i>> \in Collected' <=> <<k, i>> \in Collected)
    BY <2>1, <2>2, <2>3, ContentBatch
  <2>5. \A j \in 0..NumRegions : \A i \in 1..Size(j) : i \in Nat
    BY FoundFacts
  <2>6. \A i \in 1..Size(0) : <<0, i>> \in Collected' <=> GlobalPart(i)'
    BY <2>1, <2>2, <2>4, <2>5 DEF ContentInv, GlobalPart
  <2>7. ASSUME NEW j \in Jobs, NEW i \in 1..Size(j)
        PROVE  <<j, i>> \in Collected' <=> SeqPart(j, i)'
    <3>1. CASE j = next
      BY <3>1, <2>1, <2>4 DEF SeqPart, TypeOK
    <3>2. CASE j # next
      <4>1. j \in 0..NumRegions /\ i \in Nat
        BY <2>5, PoolAssumption DEF Jobs
      <4>2. <<j, i>> \in Collected' <=> <<j, i>> \in Collected
        BY <3>2, <4>1, <2>4
      <4>3. QED BY <3>2, <4>2, <2>1 DEF ContentInv, SeqPart
    <3>3. QED BY <3>1, <3>2
  <2>8. QED
    BY <2>1, <2>4, <2>6, <2>7 DEF ContentInv, Size, Steps, Expected, Objects
<1>3. CASE ChooseMode
  <2>1. /\ resources' = resources /\ mpc = "global" /\ mpc' \in {"seq", "spawn"}
        /\ mstep = Steps(0) /\ mstep' = 0 /\ next' = next /\ next = 1
    BY <1>3 DEF ChooseMode, Steps, PhaseInv
  <2>2. \A i \in 1..Size(0) : GlobalPart(i)' <=> GlobalPart(i)
    BY <2>1 DEF GlobalPart, Size, Steps
  <2>3. ASSUME NEW j \in Jobs, NEW i \in 1..Size(j)
        PROVE  SeqPart(j, i)' <=> SeqPart(j, i)
    <3>1. Found[j][0] = 0 /\ i > 0 /\ i \in Nat
      BY FoundFacts, PoolAssumption DEF Jobs
    <3>2. QED BY <2>1, <3>1 DEF SeqPart
  <2>4. QED
    BY <2>1, <2>2, <2>3, ContentMainFrame
<1>4. CASE SeqNextRegion
  <2>1. /\ resources' = resources /\ mpc = "seq" /\ mpc' = "seq"
        /\ mstep = NumRegional /\ mstep' = 0 /\ next' = next + 1
    BY <1>4 DEF SeqNextRegion
  <2>2. \A i \in 1..Size(0) : GlobalPart(i)' <=> GlobalPart(i)
    BY <2>1 DEF GlobalPart, Size, Steps
  <2>3. ASSUME NEW j \in Jobs, NEW i \in 1..Size(j)
        PROVE  SeqPart(j, i)' <=> SeqPart(j, i)
    <3>1. /\ Found[j][0] = 0 /\ i > 0 /\ i \in Nat /\ Size(j) \in Nat /\ i <= Size(j)
          /\ j # 0 /\ j \in Nat
      BY FoundFacts, PoolAssumption DEF Jobs
    <3>2. Size(j) = Found[j][NumRegional]
      BY <3>1 DEF Size, Steps
    <3>3. next \in Nat
      BY DEF TypeOK
    <3>4. QED BY <2>1, <3>1, <3>2, <3>3 DEF SeqPart
  <2>4. QED
    BY <2>1, <2>2, <2>3, ContentMainFrame
<1>5. CASE GlobalFail \/ SeqFail
  <2>1. resources' = resources /\ result' = "error"
    BY <1>5 DEF GlobalFail, SeqFail, Return
  <2>2. QED BY <2>1, ContentMainFrame
<1>6. CASE SeqDone
  <2>1. /\ resources' = resources /\ mpc = "seq" /\ mpc' = "returned"
        /\ next' = next /\ next > NumRegions
    BY <1>6 DEF SeqDone, Return
  <2>2. \A i \in 1..Size(0) : GlobalPart(i)' <=> GlobalPart(i)
    BY <2>1 DEF GlobalPart, Size, Steps
  <2>3. \A j \in Jobs : j < next
    BY <2>1, PoolAssumption DEF Jobs, TypeOK
  <2>4. \A j \in Jobs : \A i \in 1..Size(j) : SeqPart(j, i)' <=> SeqPart(j, i)
    BY <2>1, <2>3 DEF SeqPart
  <2>5. QED BY <2>1, <2>2, <2>4, ContentMainFrame
<1>7. CASE Spawn \/ SpawnDone \/ SendRegion \/ CloseRegions \/ WaitDone \/ Drain
  <2>1. /\ resources' = resources /\ mpc # "global" /\ mpc' # "global"
        /\ concurrency # 1
    BY <1>7 DEF Spawn, SpawnDone, SendRegion, CloseRegions, WaitDone, Drain,
                Return, PhaseInv, TypeOK
  <2>2. \A i \in 1..Size(0) : GlobalPart(i)' <=> GlobalPart(i)
    BY <2>1 DEF GlobalPart, Size, Steps
  <2>3. QED BY <2>1, <2>2, ContentMainFrame
<1>8. QED
  BY <1>1, <1>2, <1>3, <1>4, <1>5, <1>6, <1>7 DEF Main

\* ... and by a worker: only AddWrite moves anything.
LEMMA ContentWorker ==
  ASSUME NEW w \in Workers
  PROVE  IInv /\ Worker(w) => ContentInv'
<1> SUFFICES ASSUME IInv, Worker(w) PROVE ContentInv'
  OBVIOUS
<1> USE DEF IInv, workerVars
<1>1. wpc[w] \notin {"unborn", "exited"}
  BY DEF Worker, Receive, Leave, Collect, CollectFails, SendError, Lock,
         AddRead, AddWrite, Unlock, Goto
<1>2. concurrency > 1 /\ concurrency # 1 /\ mpc # "global"
  <2>1. concurrency > 1 /\ mpc \notin {"global", "seq", "drain"}
    BY <1>1, RunningKeepsOpen
  <2>2. QED BY <2>1 DEF TypeOK
<1>3. UNCHANGED mainVars
  BY DEF Worker, Receive, Leave, Collect, CollectFails, SendError, Lock,
         AddRead, AddWrite, Unlock
<1>4. \A v \in Workers : v # w => /\ Busy(v)' <=> Busy(v)
                                  /\ Merging(v)' <=> Merging(v)
                                  /\ job'[v] = job[v]
                                  /\ added'[v] = added[v]
  BY DEF Worker, Receive, Leave, Collect, CollectFails, SendError, Lock,
         AddRead, AddWrite, Unlock, Goto, Busy, Merging, TypeOK
<1>5. \A j \in Jobs : j \in 0..NumRegions /\ j # 0 /\ j \in Nat
  BY PoolAssumption DEF Jobs
<1>6. \A j \in 0..NumRegions : \A i \in 1..Size(j) : i \in Nat /\ i > 0
  BY FoundFacts
<1>7. \A i \in 1..Size(0) : GlobalPart(i)' <=> GlobalPart(i)
  BY <1>2, <1>3 DEF GlobalPart, mainVars, Size, Steps
\* It is enough to look at the regions the step moves.
<1>8. ASSUME resources' = resources,
             \A j \in Jobs : \A i \in 1..Size(j) : PoolPart(j, i)' <=> PoolPart(j, i)
      PROVE  ContentInv'
  <2>1. Collected' = Collected /\ (Distinct' <=> Distinct)
    BY <1>8 DEF Collected, Distinct
  <2>2. QED
    BY <1>2, <1>3, <1>7, <1>8, <2>1
       DEF ContentInv, mainVars, Size, Steps, Expected, Objects
<1>9. CASE Receive(w)
  <2>1. /\ job'[w] = taken + 1 /\ taken' = taken + 1 /\ errs' = errs
        /\ resources' = resources /\ ~Busy(w) /\ Busy(w)' /\ ~Merging(w)'
        /\ taken \in Nat
    BY <1>9 DEF Receive, Goto, Busy, Merging, TypeOK
  <2>2. ASSUME NEW j \in Jobs, NEW i \in 1..Size(j)
        PROVE  PoolPart(j, i)' <=> PoolPart(j, i)
    <3>1. CASE j = taken + 1
      BY <2>1, <3>1 DEF PoolPart
    <3>2. CASE j # taken + 1
      <4>1. j <= taken' <=> j <= taken
        BY <1>5, <2>1, <3>2
      <4>2. QED BY <1>4, <2>1, <3>2, <4>1 DEF PoolPart
    <3>3. QED BY <3>1, <3>2
  <2>3. QED BY <1>8, <2>1, <2>2
<1>10. CASE Leave(w) \/ Collect(w) \/ CollectFails(w)
  <2>1. /\ UNCHANGED <<job, taken, errs, resources, added>>
        /\ Busy(w)' <=> Busy(w)
        /\ ~Merging(w) /\ ~Merging(w)'
    BY <1>10 DEF Leave, Collect, CollectFails, Goto, Busy, Merging, TypeOK
  <2>2. \A j \in Jobs : \A i \in 1..Size(j) : PoolPart(j, i)' <=> PoolPart(j, i)
    BY <1>4, <2>1 DEF PoolPart
  <2>3. QED BY <1>8, <2>1, <2>2
<1>11. CASE SendError(w)
  <2>1. /\ errs' = Append(errs, job[w]) /\ errs \in Seq(Jobs) /\ job[w] \in Jobs
        /\ UNCHANGED <<job, taken, resources, added>>
        /\ Busy(w) /\ ~Busy(w)' /\ ~Merging(w)
    BY <1>11, PoolAssumption
       DEF SendError, Goto, Busy, Merging, JobInv, Jobs, TypeOK
  <2>2. ToSet(errs') = ToSet(errs) \cup {job[w]}
    BY <2>1, AppendFresh
  <2>3. \A j \in Jobs : \A i \in 1..Size(j) : PoolPart(j, i)' <=> PoolPart(j, i)
    BY <1>4, <2>1, <2>2 DEF PoolPart
  <2>4. QED BY <1>8, <2>1, <2>3
<1>12. CASE Lock(w)
  <2>1. /\ UNCHANGED <<job, taken, errs, resources>> /\ added'[w] = 0
        /\ Busy(w) /\ Busy(w)' /\ ~Merging(w)
    BY <1>12 DEF Lock, Goto, Busy, Merging, TypeOK
  <2>2. \A j \in Jobs : \A i \in 1..Size(j) : ~(i <= added'[w])
    BY <1>5, <1>6, <2>1
  <2>3. \A j \in Jobs : \A i \in 1..Size(j) : PoolPart(j, i)' <=> PoolPart(j, i)
    BY <1>4, <2>1, <2>2 DEF PoolPart
  <2>4. QED BY <1>8, <2>1, <2>3
<1>13. CASE AddRead(w)
  <2>1. /\ UNCHANGED <<job, taken, errs, resources, added>>
        /\ Busy(w) /\ Busy(w)' /\ Merging(w) /\ Merging(w)'
    BY <1>13 DEF AddRead, Goto, Busy, Merging, TypeOK
  <2>2. \A j \in Jobs : \A i \in 1..Size(j) : PoolPart(j, i)' <=> PoolPart(j, i)
    BY <1>4, <2>1 DEF PoolPart
  <2>3. QED BY <1>8, <2>1, <2>2
<1>14. CASE AddWrite(w)
  <2> DEFINE x == <<job[w], added[w] + 1>>
  <2>1. /\ UNCHANGED <<job, taken, errs>>
        /\ added'[w] = added[w] + 1 /\ added[w] \in Nat
        /\ added[w] < Size(job[w])
        /\ Busy(w) /\ Busy(w)' /\ Merging(w) /\ Merging(w)'
    BY <1>14 DEF AddWrite, Goto, Busy, Merging, LockInv, TypeOK
  <2>2. resources' = Append(resources, x)
    BY <1>14 DEF AddWrite, Goto, LockInv, TypeOK
  <2>3. job[w] \in Jobs /\ job[w] \in 0..NumRegions /\ Size(job[w]) \in Nat
        /\ job[w] <= taken /\ job[w] \notin ToSet(errs)
    BY <1>5, <2>1, PoolAssumption, FoundFacts DEF JobInv, Jobs, TypeOK
  <2>4. added[w] + 1 \in 1..Size(job[w])
    BY <2>1, <2>3
  <2>5. x \notin Collected
    <3>1. ~PoolPart(job[w], added[w] + 1)
      BY <2>1 DEF PoolPart
    <3>2. QED BY <3>1, <1>2, <2>3, <2>4 DEF ContentInv
  <2>6. x \in (0..NumRegions) \X Nat /\ resources \in Seq((0..NumRegions) \X Nat)
    BY <2>1, <2>3 DEF TypeOK
  <2>7. Collected' = Collected \cup {x} /\ Distinct'
    <3> DEFINE S == (0..NumRegions) \X Nat
    <3>1. x \in S /\ resources \in Seq(S)
      BY <2>6
    <3> HIDE DEF x, S
    <3>2. /\ ToSet(Append(resources, x)) = ToSet(resources) \cup {x}
          /\ IsInjective(resources) /\ x \notin ToSet(resources)
               => IsInjective(Append(resources, x))
      BY <3>1, AppendFresh
    <3>3. IsInjective(resources) /\ x \notin ToSet(resources)
      BY <2>5 DEF Collected, Distinct, ContentInv
    <3>4. Collected' = ToSet(resources') /\ (Distinct' <=> IsInjective(resources'))
      BY DEF Collected, Distinct, ToSet, IsInjective
    <3>5. QED BY <2>2, <3>2, <3>3, <3>4 DEF Collected
  <2>8. x \in Expected
    BY <2>3, <2>4, ExpectedPairs
  <2>9. ASSUME NEW j \in Jobs, NEW i \in 1..Size(j)
        PROVE  <<j, i>> \in Collected' <=> PoolPart(j, i)'
    <3>1. <<j, i>> \in Collected <=> PoolPart(j, i)
      BY <1>2 DEF ContentInv
    <3>2. CASE j = job[w]
      <4>1. \A v \in Workers : Busy(v) /\ job[v] = job[w] => v = w
        BY <2>1 DEF JobInv
      <4>2. PoolPart(j, i) <=> i <= added[w]
        BY <2>1, <2>3, <3>2, <4>1 DEF PoolPart
      <4>3. PoolPart(j, i)' <=> i <= added[w] + 1
        BY <1>4, <2>1, <2>3, <3>2, <4>1 DEF PoolPart
      <4>4. i \in Nat /\ (i <= added[w] + 1 <=> i <= added[w] \/ i = added[w] + 1)
        BY <1>5, <1>6, <2>1
      <4>5. <<j, i>> = x <=> i = added[w] + 1
        BY <3>2
      <4>6. QED BY <2>7, <3>1, <4>2, <4>3, <4>4, <4>5
    <3>3. CASE j # job[w]
      <4>1. PoolPart(j, i)' <=> PoolPart(j, i)
        BY <1>4, <2>1, <3>3 DEF PoolPart
      <4>2. <<j, i>> # x
        BY <3>3
      <4>3. QED BY <2>7, <3>1, <4>1, <4>2
    <3>4. QED BY <3>2, <3>3
  <2>10. ASSUME NEW i \in 1..Size(0) PROVE <<0, i>> \in Collected' <=> <<0, i>> \in Collected
    <3>1. <<0, i>> # x
      BY <2>3, <1>5
    <3>2. QED BY <2>7, <3>1
  <2>11. Collected' \subseteq Expected
    BY <2>7, <2>8 DEF ContentInv
  <2> HIDE DEF x
  <2>12. QED
    BY <1>2, <1>3, <1>7, <2>7, <2>9, <2>10, <2>11
       DEF ContentInv, mainVars, Size, Steps, Expected, Objects
<1>15. CASE Unlock(w)
  <2>1. /\ UNCHANGED <<job, taken, errs, resources, added>>
        /\ added[w] = Size(job[w])
        /\ Busy(w) /\ ~Busy(w)' /\ Merging(w)
    BY <1>15 DEF Unlock, Goto, Busy, Merging, TypeOK
  <2>2. \A v \in Workers : Busy(v) /\ job[v] = job[w] => v = w
    BY <2>1 DEF JobInv
  <2>3. ASSUME NEW j \in Jobs, NEW i \in 1..Size(j)
        PROVE  PoolPart(j, i)' <=> PoolPart(j, i)
    <3>1. CASE j = job[w]
      <4>1. i <= added[w]
        BY <1>5, <2>1, <3>1, FoundFacts
      <4>2. j <= taken /\ j \notin ToSet(errs)
        BY <2>1, <3>1 DEF JobInv, TypeOK
      <4>3. QED BY <1>4, <2>1, <2>2, <3>1, <4>1, <4>2 DEF PoolPart
    <3>2. CASE j # job[w]
      BY <1>4, <2>1, <3>2 DEF PoolPart
    <3>3. QED BY <3>1, <3>2
  <2>4. QED BY <1>8, <2>1, <2>3
<1>16. QED
  BY <1>9, <1>10, <1>11, <1>12, <1>13, <1>14, <1>15 DEF Worker

\* When the call returns ok, nothing of the scan is missing.
LEMMA OkIsComplete == IInv /\ result = "ok" => Expected \subseteq Collected
<1> SUFFICES ASSUME IInv, result = "ok",
                    NEW j \in 0..NumRegions, NEW i \in 1..Size(j)
             PROVE  <<j, i>> \in Collected
  BY DEF Expected, Objects
<1> USE DEF IInv
<1>1. mpc = "returned" /\ next = NumRegions + 1
  BY DEF PhaseInv, TypeOK
<1>2. i \in Nat /\ i <= Size(j) /\ j \in Nat
  BY FoundFacts, PoolAssumption
<1>3. CASE j = 0
  BY <1>1, <1>2, <1>3 DEF ContentInv, GlobalPart
<1>4. CASE j # 0 /\ concurrency = 1
  <2>1. j \in Jobs /\ j < next
    BY <1>1, <1>4, PoolAssumption DEF Jobs
  <2>2. QED BY <1>4, <2>1 DEF ContentInv, SeqPart
<1>5. CASE j # 0 /\ concurrency # 1
  <2>1. concurrency > 1 /\ errsClosed /\ errs = <<>> /\ spawned = concurrency
        /\ wg = 0
    BY <1>5 DEF PhaseInv, TypeOK
  <2>2. \A w \in Workers : wpc[w] \in {"unborn", "exited"}
    BY <2>1, RunningKeepsOpen DEF TypeOK
  <2>3. 1 \in Workers /\ wpc[1] # "unborn"
    BY <2>1, PoolAssumption DEF Workers, WorkerInv, TypeOK
  <2>4. taken = next - 1
    BY <2>1, <2>2, <2>3 DEF WorkerInv
  <2>5. j \in Jobs /\ j <= taken /\ j \notin ToSet(errs)
    BY <1>1, <1>5, <2>1, <2>4, PoolAssumption DEF Jobs, ToSet
  <2>6. \A w \in Workers : ~Busy(w)
    BY <2>2 DEF Busy
  <2>7. PoolPart(j, i)
    BY <2>5, <2>6 DEF PoolPart
  <2>8. QED BY <2>1, <2>5, <2>7 DEF ContentInv
<1>6. QED BY <1>3, <1>4, <1>5

\* Neither channel is ever full when somebody sends to it.
LEMMA RoomLeft == IInv => SendsNeverBlock
<1> SUFFICES ASSUME IInv PROVE SendsNeverBlock
  OBVIOUS
<1> USE DEF IInv
<1>1. (mpc = "send" /\ next <= NumRegions) => InRegionChan < RegionChanCap
  BY PoolAssumption DEF InRegionChan, RegionChanCap, TypeOK
<1>2. ASSUME NEW w \in Workers, wpc[w] = "fail"
      PROVE  Len(errs) < ErrorChanCap
  <2>1. job[w] \in Jobs /\ job[w] \notin ToSet(errs) /\ ToSet(errs) \subseteq Jobs
    BY <1>2, PoolAssumption DEF JobInv, Busy, Jobs, TypeOK
  <2>2. IsFiniteSet(Jobs) /\ Cardinality(Jobs) = NumRegions
    BY PoolAssumption, FS_Interval DEF Jobs
  <2>3. /\ IsFiniteSet(Jobs \ {job[w]})
        /\ Cardinality(Jobs \ {job[w]}) = NumRegions - 1
    BY <2>1, <2>2, FS_RemoveElement
  <2>4. errs \in Injection(1..Len(errs), Jobs \ {job[w]}) /\ Len(errs) \in Nat
    <3>1. errs \in Seq(Jobs) /\ IsInjective(errs)
      BY DEF JobInv, TypeOK
    <3>2. errs \in [1..Len(errs) -> Jobs] /\ Len(errs) \in Nat
      BY <3>1
    <3>3. \A i \in 1..Len(errs) : errs[i] \in Jobs \ {job[w]}
      BY <2>1, <3>2 DEF ToSet
    <3>4. QED BY <3>1, <3>2, <3>3 DEF Injection
  <2>5. IsFiniteSet(1..Len(errs)) /\ Cardinality(1..Len(errs)) = Len(errs)
    BY <2>4, FS_Interval
  <2>6. Cardinality(1..Len(errs)) <= Cardinality(Jobs \ {job[w]})
    BY <2>3, <2>4, <2>5, FS_Injection DEF ExistsInjection
  <2>7. QED BY <2>3, <2>4, <2>5, <2>6, PoolAssumption DEF ErrorChanCap
<1>3. QED BY <1>1, <1>2 DEF SendsNeverBlock

-----------------------------------------------------------------------------
(* The theorems.                                                           *)

\* The inductive invariant holds in every reachable state of
\* CollectResources: for every number of regions, collectors and workers, and
\* whatever the regions hold.
THEOREM Inductive == Spec => []IInv
<1>1. Init => IInv
  <2> SUFFICES ASSUME Init PROVE IInv
    OBVIOUS
  <2>1. TypeOK /\ ContentInv
    BY TypeInit, ContentInit
  <2>2. PhaseInv
    BY PoolAssumption DEF Init, PhaseInv
  <2>3. WorkerInv
    <3>1. Running = {}
      BY DEF Init, Running
    <3>2. Cardinality(Running) = 0
      BY <3>1, FS_EmptySet
    <3>3. \A w \in Workers : w > spawned /\ wpc[w] = "unborn"
      BY WorkerFacts DEF Init
    <3>4. QED BY <3>2, <3>3 DEF Init, WorkerInv
  <2>4. LockInv
    BY WorkerFacts DEF Init, LockInv, Merging
  <2>5. JobInv
    BY DEF Init, JobInv, Busy, ToSet, IsInjective
  <2>6. QED BY <2>1, <2>2, <2>3, <2>4, <2>5 DEF IInv
<1>2. IInv /\ [Next]_vars => IInv'
  <2> SUFFICES ASSUME IInv, [Next]_vars PROVE IInv'
    OBVIOUS
  <2> USE DEF IInv
  <2>1. CASE Main
    BY <2>1, TypeMain, PhaseMain, WorkerInvMain, LockMain, JobMain, ContentMain
  <2>2. ASSUME NEW w \in Workers, Worker(w) PROVE IInv'
    BY <2>2, TypeWorker, PhaseWorker, WorkerInvWorker, LockWorker, JobWorker,
       ContentWorker
  <2>3. CASE UNCHANGED vars
    <3>1. UNCHANGED <<mainVars, workerVars, taken, errs, wg, mu, wpc, resources>>
      BY <2>3 DEF vars
    <3>2. TypeOK' /\ PhaseInv'
      BY <3>1 DEF mainVars, workerVars, TypeOK, PhaseInv
    <3>3. WorkerInv' /\ LockInv' /\ JobInv'
      BY <3>1 DEF mainVars, workerVars, WorkerInv, Running, LockInv, Merging,
                  JobInv, Busy, Size, Steps
    <3>4. ContentInv'
      BY <3>1 DEF mainVars, workerVars, ContentInv, Distinct, Collected,
                  Expected, Objects, GlobalPart, SeqPart, PoolPart, Merging,
                  Busy, Size, Steps
    <3>5. QED BY <3>2, <3>3, <3>4
  <2>4. QED BY <2>1, <2>2, <2>3 DEF Next, Stop
<1>3. QED BY <1>1, <1>2, PTL DEF Spec

\* Every variable keeps its type.
THEOREM TypeCorrect == Spec => []TypeOK
  BY Inductive, PTL DEF IInv

\* A region's resources reach the shared collection as a whole or not at
\* all, once each, and a failed region leaves nothing there.
THEOREM MergesAreAtomic == Spec => []MergeAtomic
<1>1. IInv => MergeAtomic
  <2> SUFFICES ASSUME IInv, concurrency > 1, mu = 0
               PROVE  /\ Distinct
                      /\ \A j \in Jobs : Objects(j) \subseteq Collected
                                         \/ Objects(j) \cap Collected = {}
                      /\ \A j \in ToSet(errs) : Objects(j) \cap Collected = {}
    BY DEF MergeAtomic
  <2> USE DEF IInv
  <2>1. \A w \in Workers : ~Merging(w)
    BY WorkerFacts DEF LockInv
  <2>2. \A j \in Jobs : \A i \in 1..Size(j) :
          <<j, i>> \in Collected <=>
            /\ j <= taken /\ j \notin ToSet(errs)
            /\ \A w \in Workers : ~(Busy(w) /\ job[w] = j)
    BY <2>1 DEF ContentInv, PoolPart
  <2>3. ToSet(errs) \subseteq Jobs
    BY PoolAssumption DEF JobInv, Jobs, TypeOK
  <2>4. Distinct
    BY DEF ContentInv
  <2>5. QED BY <2>2, <2>3, <2>4 DEF Objects
<1>2. QED BY <1>1, Inductive, PTL

\* Once errorChan is closed no worker is left that could send to it.
THEOREM NoSendAfterClose == Spec => []ClosedAfterWorkers
<1>1. IInv => ClosedAfterWorkers
  BY RunningKeepsOpen DEF IInv, ClosedAfterWorkers
<1>2. QED BY <1>1, Inductive, PTL

\* Neither channel is ever full when somebody sends to it: the workers may
\* all die on their first region and the call still ends.
THEOREM BuffersSuffice == Spec => []SendsNeverBlock
  BY RoomLeft, Inductive, PTL

\* CollectResources implements its contract: whatever the schedule and the
\* failures, the caller gets every resource of the scan exactly once, or an
\* error and nothing.
THEOREM Refinement == Spec => ContractSpec
<1>1. Init => Contract!Init
  BY DEF Init, Contract!Init
<1>2. IInv /\ IInv' /\ [Next]_vars => [Contract!Next]_(Contract!contractVars)
  <2> SUFFICES ASSUME IInv, IInv', [Next]_vars
               PROVE  Contract!Next \/ UNCHANGED Contract!contractVars
    OBVIOUS
  <2>0. UNCHANGED Expected
    BY DEF Expected, Objects, Size, Steps
  <2>1. CASE result' = result
    <3>1. result = "ok" => resources' = resources
      <4>1. ASSUME result = "ok", Main PROVE FALSE
        BY <4>1 DEF IInv, PhaseInv, Main, GlobalCollect, GlobalFail,
           ChooseMode, SeqCollect, SeqFail, SeqNextRegion, SeqDone, Spawn,
           SpawnDone, SendRegion, CloseRegions, WaitDone, Drain
      <4>2. ASSUME result = "ok", NEW w \in Workers, Worker(w) PROVE FALSE
        <5>1. wpc[w] \notin {"unborn", "exited"}
          BY <4>2 DEF Worker, Receive, Leave, Collect, CollectFails, SendError,
             Lock, AddRead, AddWrite, Unlock, Goto
        <5>2. QED BY <4>2, <5>1, RunningKeepsOpen DEF IInv
      <4>3. QED BY <4>1, <4>2 DEF Next, Stop, vars
    <3>2. QED BY <2>1, <3>1 DEF Contract!contractVars
  <2>2. CASE result' # result
    <3>1. result = "none"
      <4>1. Main
        BY <2>2 DEF Next, Worker, Stop, vars, mainVars, Receive, Leave, Collect,
           CollectFails, SendError, Lock, AddRead, AddWrite, Unlock
      <4>2. mpc # "returned"
        BY <4>1 DEF Main, GlobalCollect, GlobalFail, ChooseMode, SeqCollect,
           SeqFail, SeqNextRegion, SeqDone, Spawn, SpawnDone, SendRegion,
           CloseRegions, WaitDone, Drain
      <4>3. QED BY <4>2 DEF IInv, PhaseInv
    <3>2. result' \in {"ok", "error"}
      BY <2>2, <3>1 DEF IInv, TypeOK
    <3>3. CASE result' = "error"
      BY <3>1, <3>3, <2>0 DEF Contract!Next, Contract!Fail
    <3>4. CASE result' = "ok"
      <4>1. IsInjective(resources') /\ ToSet(resources') \subseteq Expected
        BY DEF IInv, ContentInv, Distinct, Collected, ToSet, IsInjective
      <4>2. Expected \subseteq ToSet(resources')
        <5>1. (IInv /\ result = "ok" => Expected \subseteq Collected)'
          BY OkIsComplete, PTL
        <5>2. QED BY <3>4, <5>1 DEF Collected, Expected, Objects, Size, Steps, ToSet
      <4>3. Contract!ListsOnce(resources', Expected, Expected \ {})
        BY <4>1, <4>2 DEF Contract!ListsOnce, Contract!ToSet,
           Contract!IsInjective, ToSet, IsInjective
      <4>4. (IF result = "ok" THEN resources ELSE <<>>)' = resources'
        BY <3>4
      <4>5. Contract!Succeed
        BY <3>1, <3>4, <4>3, <4>4, <2>0 DEF Contract!Succeed
      <4>6. QED BY <4>5 DEF Contract!Next
    <3>5. QED BY <3>2, <3>3, <3>4
  <2>3. QED BY <2>1, <2>2
<1>3. QED BY <1>1, <1>2, Inductive, PTL DEF Spec, ContractSpec, Contract!Spec
\* A sequence is a prefix of what is appended to it.
LEMMA PrefixOfAppended ==
  ASSUME NEW S, NEW s \in Seq(S), NEW t \in Seq(S)
  PROVE  IsPrefix(s, s \o t)
<1> DEFINE u == s \o t
<1>1. /\ u \in Seq(S) /\ Len(u) = Len(s) + Len(t) /\ Len(s) \in Nat /\ Len(t) \in Nat
      /\ \A i \in 1..Len(s) : u[i] = s[i]
  OBVIOUS
<1> HIDE DEF u
<1>2. Len(s) <= Len(u)
  BY <1>1
<1>3. SubSeq(s, 1, Len(s)) = SubSeq(u, 1, Len(s))
  <2>1. SubSeq(s, 1, Len(s)) = [i \in 1..Len(s) |-> s[i]]
    BY <1>1
  <2>2. SubSeq(u, 1, Len(s)) = [i \in 1..Len(s) |-> u[i]]
    BY <1>1
  <2>3. QED BY <1>1, <2>1, <2>2
<1>4. QED BY <1>2, <1>3 DEF IsPrefix, u

\* The shared collection only grows at its end, whoever appends to it: what a
\* goroutine has put there stays where it is.
THEOREM AppendsKept == Spec => AppendOnly
<1>1. IInv /\ [Next]_vars => IsPrefix(resources, resources')
  <2> SUFFICES ASSUME IInv, [Next]_vars PROVE IsPrefix(resources, resources')
    OBVIOUS
  <2> DEFINE T == (0..NumRegions) \X Nat
  <2>1. resources \in Seq(T)
    BY DEF IInv, TypeOK
  <2>2. CASE resources' = resources
    <3>1. <<>> \in Seq(T) /\ resources \o <<>> = resources
      BY <2>1
    <3> HIDE DEF T
    <3>2. QED BY <2>1, <2>2, <3>1, PrefixOfAppended
  <2>3. ASSUME NEW j \in 0..NumRegions, mstep < Steps(j),
               resources' = resources \o Batch(j, Found[j][mstep], Found[j][mstep + 1])
        PROVE  IsPrefix(resources, resources')
    <3> DEFINE b == Batch(j, Found[j][mstep], Found[j][mstep + 1])
    <3>1. /\ Found[j][mstep] \in Nat /\ Found[j][mstep + 1] \in Nat
          /\ Found[j][mstep] <= Found[j][mstep + 1]
      BY <2>3, TypeBatch DEF IInv
    <3>2. PICK k, l \in Nat : /\ k = Found[j][mstep] /\ l = Found[j][mstep + 1]
                              /\ k <= l
      BY <3>1
    <3>3. b \in Seq(T)
      <4> DEFINE c == Batch(j, k, l)
      <4>1. b = c
        BY <3>2
      <4>2. l - k \in Nat /\ \A i \in 1..(l - k) : <<j, k + i>> \in T
        BY <3>2
      <4>3. c = [i \in 1..(l - k) |-> <<j, k + i>>]
        BY DEF Batch
      <4> HIDE DEF T, b, c
      <4>4. c \in [1..(l - k) -> T]
        BY <4>2, <4>3
      <4>5. c \in Seq(T)
        BY <4>2, <4>4
      <4>6. QED BY <4>1, <4>5
    <3> HIDE DEF T, b
    <3>4. QED BY <2>1, <2>3, <3>3, PrefixOfAppended DEF b
  <2>4. CASE GlobalCollect
    BY <2>3, <2>4, PoolAssumption DEF GlobalCollect, Steps
  <2>5. CASE SeqCollect
    <3>1. next \in 0..NumRegions /\ mstep < Steps(next)
      BY <2>5, PoolAssumption DEF SeqCollect, Steps, IInv, TypeOK
    <3>2. QED BY <2>3, <2>5, <3>1 DEF SeqCollect
  <2>6. ASSUME NEW w \in Workers, AddWrite(w) PROVE IsPrefix(resources, resources')
    <3> DEFINE x == <<job[w], added[w] + 1>>
    <3>1. resources' = Append(resources, x) /\ x \in T
      BY SMTT(40), <2>6 DEF AddWrite, Goto, IInv, LockInv, TypeOK
    <3> HIDE DEF T, x
    <3>2. Append(resources, x) = resources \o <<x>> /\ <<x>> \in Seq(T)
      BY <2>1, <3>1
    <3>3. QED BY <2>1, <3>1, <3>2, PrefixOfAppended
  <2>7. QED
    BY <2>2, <2>4, <2>5, <2>6 DEF Next, Main, GlobalFail, ChooseMode, SeqFail,
       SeqNextRegion, SeqDone, Spawn, SpawnDone, SendRegion, CloseRegions, WaitDone,
       Drain, Worker, Receive, Leave, Collect, CollectFails, SendError, Lock, AddRead,
       Unlock, Stop, vars
<1>2. QED BY <1>1, Inductive, PTL DEF Spec, AppendOnly

\* Until the call returns somebody can go on: the caller waits for the workers
\* only while one of them is left, and one of those, the one that holds the mutex
\* if there is one, does not wait.
THEOREM NoDeadlock == Spec => []NeverStuck
<1>1. IInv => NeverStuck
  <2> SUFFICES ASSUME IInv, CallerWaits
               PROVE  \E w \in Workers : wpc[w] \notin {"unborn", "exited"} /\ ~Waits(w)
    BY DEF NeverStuck
  <2> USE DEF IInv
  <2>1. SendsNeverBlock
    BY RoomLeft
  <2>2. mpc = "wait" /\ wg # 0 /\ regionsClosed
    <3>1. ~(mpc = "send" /\ next <= NumRegions /\ InRegionChan >= RegionChanCap)
      BY <2>1, PoolAssumption DEF SendsNeverBlock, InRegionChan, RegionChanCap, TypeOK
    <3>2. QED BY <3>1 DEF CallerWaits, PhaseInv
  <2>3. PICK v \in Workers : wpc[v] \notin {"unborn", "exited"}
    <3>1. Running # {}
      BY <2>2, FS_EmptySet DEF WorkerInv
    <3>2. QED BY <3>1 DEF Running
  <2>4. ASSUME NEW w \in Workers, Waits(w) PROVE wpc[w] = "collect" /\ mu # 0
    <3>1. ~(wpc[w] = "fail" /\ Len(errs) >= ErrorChanCap)
      BY <2>1, PoolAssumption DEF SendsNeverBlock, ErrorChanCap, TypeOK
    <3>2. QED BY <2>2, <2>4, <3>1 DEF Waits
  <2>5. CASE Waits(v)
    <3>1. mu \in Workers
      BY <2>4, <2>5, PoolAssumption DEF Workers, TypeOK
    <3>2. wpc[mu] \in {"merge", "write"}
      BY <3>1 DEF LockInv, Merging
    <3>3. ~Waits(mu)
      BY <2>4, <3>1, <3>2
    <3>4. QED BY <3>1, <3>2, <3>3
  <2>6. CASE ~Waits(v)
    BY <2>3, <2>6
  <2>7. QED BY <2>5, <2>6
<1>2. QED BY <1>1, Inductive, PTL
\* No worker is ahead of what has been received.
JobsTaken == \A w \in Workers : job[w] <= taken

LEMMA JobsTakenHolds == Spec => []JobsTaken
<1>1. Init => JobsTaken
  BY DEF Init, JobsTaken
<1>2. IInv /\ JobsTaken /\ [Next]_vars => JobsTaken'
  <2> SUFFICES ASSUME IInv, JobsTaken, [Next]_vars PROVE JobsTaken'
    OBVIOUS
  <2>1. ASSUME NEW w \in Workers, Receive(w) PROVE JobsTaken'
    <3>1. \A v \in Workers : job'[v] = IF v = w THEN taken' ELSE job[v]
      BY <2>1 DEF Receive, IInv, TypeOK
    <3>2. taken \in Int /\ taken' = taken + 1 /\ \A v \in Workers : job[v] \in Int
      BY <2>1 DEF Receive, IInv, TypeOK
    <3>3. QED BY <3>1, <3>2 DEF JobsTaken
  <2>2. CASE UNCHANGED <<job, taken>>
    BY <2>2 DEF JobsTaken
  <2>3. QED
    BY <2>1, <2>2 DEF Next, Main, GlobalCollect, GlobalFail, ChooseMode, SeqCollect,
       SeqFail, SeqNextRegion, SeqDone, Spawn, SpawnDone, SendRegion, CloseRegions,
       WaitDone, Drain, Worker, Leave, Collect, CollectFails, SendError, Lock, AddRead,
       AddWrite, Unlock, Stop, vars, mainVars, workerVars
<1>3. QED BY <1>1, <1>2, Inductive, PTL DEF Spec

\* What Later says of places with four and with five parts.
LEMMA LaterCaller ==
  ASSUME NEW x, NEW y, DOMAIN x = 1..4,
         \/ y[1] < x[1]
         \/ x[1] = y[1] /\ y[2] < x[2]
         \/ x[1] = y[1] /\ x[2] = y[2] /\ y[3] < x[3]
         \/ x[1] = y[1] /\ x[2] = y[2] /\ x[3] = y[3] /\ y[4] < x[4]
  PROVE  Later(x, y)
<1>1. CASE y[1] < x[1]
  BY <1>1 DEF Later
<1>2. CASE x[1] = y[1] /\ y[2] < x[2]
  BY <1>2 DEF Later
<1>3. CASE x[1] = y[1] /\ x[2] = y[2] /\ y[3] < x[3]
  BY <1>3 DEF Later
<1>4. CASE x[1] = y[1] /\ x[2] = y[2] /\ x[3] = y[3] /\ y[4] < x[4]
  BY <1>4 DEF Later
<1>5. QED BY <1>1, <1>2, <1>3, <1>4

LEMMA LaterWorker ==
  ASSUME NEW x, NEW y, DOMAIN x = 1..5,
         \/ y[1] < x[1]
         \/ x[1] = y[1] /\ y[2] < x[2]
         \/ x[1] = y[1] /\ x[2] = y[2] /\ y[3] < x[3]
         \/ x[1] = y[1] /\ x[2] = y[2] /\ x[3] = y[3] /\ y[4] < x[4]
         \/ x[1] = y[1] /\ x[2] = y[2] /\ x[3] = y[3] /\ x[4] = y[4] /\ y[5] < x[5]
  PROVE  Later(x, y)
<1>1. CASE y[1] < x[1]
  BY <1>1 DEF Later
<1>2. CASE x[1] = y[1] /\ y[2] < x[2]
  BY <1>2 DEF Later
<1>3. CASE x[1] = y[1] /\ x[2] = y[2] /\ y[3] < x[3]
  BY <1>3 DEF Later
<1>4. CASE x[1] = y[1] /\ x[2] = y[2] /\ x[3] = y[3] /\ y[4] < x[4]
  BY <1>4 DEF Later
<1>5. CASE x[1] = y[1] /\ x[2] = y[2] /\ x[3] = y[3] /\ x[4] = y[4] /\ y[5] < x[5]
  BY <1>5 DEF Later
<1>6. QED BY <1>1, <1>2, <1>3, <1>4, <1>5

\* The places are numbers.
LEMMA PlacesAreNumbers ==
  ASSUME TypeOK
  PROVE  /\ CallerPlaces[mpc] \in Int /\ next \in Int /\ mstep \in Int /\ spawned \in Int
         /\ \A w \in Workers :
              /\ job[w] \in Int /\ WorkerPlaces[wpc[w]] \in Int
              /\ step[w] \in Int /\ added[w] \in Int
  BY DEF TypeOK, CallerPlaces, WorkerPlaces

\* A step of the caller takes the caller on; Spawn also starts a worker.
LEMMA CallerForward ==
  ASSUME IInv, IInv', Main
  PROVE  /\ Later(CallerAt', CallerAt)
         /\ CallerAt' # CallerAt
         /\ \A w \in Workers : WorkerAt(w)' = WorkerAt(w) \/ Later(WorkerAt(w)', WorkerAt(w))
<1> DEFINE p == CallerPlaces[mpc]
<1>1. TypeOK /\ TypeOK'
  BY DEF IInv
<1>2. /\ p \in Int /\ next \in Int /\ mstep \in Int /\ spawned \in Int
      /\ p' \in Int /\ next' \in Int /\ mstep' \in Int /\ spawned' \in Int
  <2>1. TypeOK => p \in Int /\ next \in Int /\ mstep \in Int /\ spawned \in Int
    BY PlacesAreNumbers
  <2>2. TypeOK' => p' \in Int /\ next' \in Int /\ mstep' \in Int /\ spawned' \in Int
    BY SMTT(40) DEF TypeOK, CallerPlaces
  <2>3. QED BY <1>1, <2>1, <2>2
<1>3. \/ p < p'
      \/ p' = p /\ next < next'
      \/ p' = p /\ next' = next /\ mstep < mstep'
      \/ p' = p /\ next' = next /\ mstep' = mstep /\ spawned < spawned'
  <2>1. CASE GlobalCollect \/ SeqCollect
    BY <1>2, <2>1 DEF GlobalCollect, SeqCollect
  <2>2. CASE SeqNextRegion \/ SendRegion
    BY <1>2, <2>2 DEF SeqNextRegion, SendRegion
  <2>3. CASE Spawn
    BY <1>2, <2>3 DEF Spawn
  <2>4. CASE GlobalFail \/ ChooseMode \/ SeqFail \/ SeqDone \/ SpawnDone \/ CloseRegions
             \/ WaitDone \/ Drain
    BY <2>4 DEF CallerPlaces, GlobalFail, ChooseMode, SeqFail, SeqDone, SpawnDone,
       CloseRegions, WaitDone, Drain, Return
  <2>5. QED BY <2>1, <2>2, <2>3, <2>4 DEF Main
<1>4. Later(CallerAt', CallerAt) /\ CallerAt' # CallerAt
  <2>1. CallerAt = <<p, next, mstep, spawned>> /\ CallerAt' = <<p', next', mstep', spawned'>>
    BY DEF CallerAt
  <2> HIDE DEF p
  <2>2. PICK x, y : x = <<p', next', mstep', spawned'>> /\ y = <<p, next, mstep, spawned>>
    OBVIOUS
  <2>3. /\ DOMAIN x = 1..4
        /\ x[1] = p' /\ x[2] = next' /\ x[3] = mstep' /\ x[4] = spawned'
        /\ y[1] = p /\ y[2] = next /\ y[3] = mstep /\ y[4] = spawned
    BY <2>2
  <2>4. Later(x, y) /\ x # y
    BY <1>2, <1>3, <2>3, LaterCaller
  <2>5. QED BY <2>1, <2>2, <2>4
<1>5. ASSUME NEW w \in Workers
      PROVE  WorkerAt(w)' = WorkerAt(w) \/ Later(WorkerAt(w)', WorkerAt(w))
  <2>1. UNCHANGED workerVars
    BY DEF Main, GlobalCollect, GlobalFail, ChooseMode, SeqCollect, SeqFail,
       SeqNextRegion, SeqDone, Spawn, SpawnDone, SendRegion, CloseRegions, WaitDone, Drain
  <2>2. CASE wpc'[w] = wpc[w]
    BY <2>1, <2>2 DEF WorkerAt, workerVars
  <2>3. CASE wpc'[w] # wpc[w]
    <3>1. Spawn
      BY <2>3 DEF Main, GlobalCollect, GlobalFail, ChooseMode, SeqCollect, SeqFail,
         SeqNextRegion, SeqDone, SpawnDone, SendRegion, CloseRegions, WaitDone, Drain
    <3>2. wpc[w] = "unborn" /\ wpc'[w] = "recv"
      <4>1. w = spawned + 1 /\ wpc'[w] = "recv"
        BY <2>3, <3>1 DEF Spawn, IInv, TypeOK
      <4>2. w > spawned
        BY <1>2, <4>1
      <4>3. QED BY <4>1, <4>2 DEF IInv, WorkerInv
    <3>3. /\ WorkerAt(w) = <<job[w], 0, step[w], added[w], 0>>
          /\ WorkerAt(w)' = <<job[w], 3, step[w], added[w], 0>>
      BY <2>1, <3>2 DEF WorkerAt, WorkerPlaces, workerVars
    <3>4. PICK x, y : x = WorkerAt(w)' /\ y = WorkerAt(w)
      OBVIOUS
    <3>5. DOMAIN x = 1..5 /\ x[1] = y[1] /\ y[2] = 0 /\ x[2] = 3
      BY <3>3, <3>4
    <3>6. Later(x, y)
      BY <3>5, LaterWorker
    <3>7. QED BY <3>4, <3>6
  <2>4. QED BY <2>2, <2>3
<1>6. QED BY <1>4, <1>5

\* A step of a worker takes this worker on and leaves all others where they are.
LEMMA WorkerForward ==
  ASSUME IInv, JobsTaken, NEW w \in Workers, Worker(w)
  PROVE  /\ CallerAt' = CallerAt
         /\ Later(WorkerAt(w)', WorkerAt(w)) /\ WorkerAt(w)' # WorkerAt(w)
         /\ \A v \in Workers \ {w} : WorkerAt(v)' = WorkerAt(v)
<1> DEFINE j == job[w]
           p == WorkerPlaces[wpc[w]]
           k == step[w]
           a == added[w]
           r == IF wpc[w] = "write" THEN 1 ELSE 0
<1>1. CallerAt' = CallerAt
  BY DEF CallerAt, Worker, Receive, Leave, Collect, CollectFails, SendError, Lock,
     AddRead, AddWrite, Unlock, mainVars
<1>2. /\ j \in Int /\ p \in Int /\ k \in Int /\ a \in Int /\ r \in Int /\ taken \in Int
      /\ j <= taken
  BY SMTT(40), PlacesAreNumbers DEF IInv, TypeOK, JobsTaken
<1>3. \A v \in Workers \ {w} : WorkerAt(v)' = WorkerAt(v)
  <2>1. \A v \in Workers \ {w} : /\ job'[v] = job[v] /\ wpc'[v] = wpc[v]
                                 /\ step'[v] = step[v] /\ added'[v] = added[v]
    BY DEF Worker, Receive, Leave, Collect, CollectFails, SendError, Lock, AddRead,
       AddWrite, Unlock, Goto, workerVars, IInv, TypeOK
  <2>2. QED BY <2>1 DEF WorkerAt
<1>4. PICK j1 \in Int, p1 \in Int, k1 \in Int, a1 \in Int, r1 \in Int :
        /\ j1 = job'[w] /\ p1 = WorkerPlaces[wpc'[w]] /\ k1 = step'[w] /\ a1 = added'[w]
        /\ r1 = (IF wpc'[w] = "write" THEN 1 ELSE 0)
        /\ \/ j < j1
           \/ j1 = j /\ p < p1
           \/ j1 = j /\ p1 = p /\ k < k1
           \/ j1 = j /\ p1 = p /\ k1 = k /\ a < a1
           \/ j1 = j /\ p1 = p /\ k1 = k /\ a1 = a /\ r < r1
  <2>1. CASE Receive(w)
    <3>1. job'[w] = taken + 1 /\ step'[w] = 0 /\ added'[w] = a /\ wpc'[w] = "collect"
      BY <2>1 DEF Receive, Goto, IInv, TypeOK
    <3>2. j < job'[w]
      BY <1>2, <3>1
    <3>3. QED BY <1>2, <3>1, <3>2 DEF WorkerPlaces
  <2>2. CASE Leave(w) \/ CollectFails(w) \/ SendError(w) \/ Unlock(w)
    <3>1. /\ job'[w] = j /\ step'[w] = k /\ added'[w] = a
          /\ \/ wpc[w] = "recv" /\ wpc'[w] = "exited"
             \/ wpc[w] = "collect" /\ wpc'[w] = "fail"
             \/ wpc[w] = "fail" /\ wpc'[w] = "exited"
             \/ wpc[w] = "merge" /\ wpc'[w] = "recv"
      BY <2>2 DEF Leave, CollectFails, SendError, Unlock, Goto, workerVars, IInv, TypeOK
    <3>2. QED BY <1>2, <3>1 DEF WorkerPlaces
  <2>3. CASE Collect(w)
    <3>1. job'[w] = j /\ step'[w] = k + 1 /\ added'[w] = a /\ wpc'[w] = wpc[w]
      BY <2>3 DEF Collect, IInv, TypeOK
    <3>2. k < step'[w]
      BY <1>2, <3>1
    <3>3. QED BY <1>2, <3>1, <3>2
  <2>4. CASE Lock(w)
    <3>1. /\ job'[w] = j /\ step'[w] = k /\ added'[w] = 0
          /\ wpc[w] = "collect" /\ wpc'[w] = "merge"
      BY <2>4 DEF Lock, Goto, IInv, TypeOK
    <3>2. QED BY <1>2, <3>1 DEF WorkerPlaces
  <2>5. CASE AddRead(w)
    <3>1. /\ job'[w] = j /\ step'[w] = k /\ added'[w] = a
          /\ wpc[w] = "merge" /\ wpc'[w] = "write"
      BY <2>5 DEF AddRead, Goto, IInv, TypeOK
    <3>2. QED BY <1>2, <3>1 DEF WorkerPlaces
  <2>6. CASE AddWrite(w)
    <3>1. /\ job'[w] = j /\ step'[w] = k /\ added'[w] = a + 1
          /\ wpc[w] = "write" /\ wpc'[w] = "merge"
      BY <2>6 DEF AddWrite, Goto, IInv, TypeOK
    <3>2. a < added'[w]
      BY <1>2, <3>1
    <3>3. QED BY <1>2, <3>1, <3>2 DEF WorkerPlaces
  <2>7. QED BY <2>1, <2>2, <2>3, <2>4, <2>5, <2>6 DEF Worker
<1>5. WorkerAt(w) = <<j, p, k, a, r>> /\ WorkerAt(w)' = <<j1, p1, k1, a1, r1>>
  BY <1>4 DEF WorkerAt
<1> HIDE DEF j, p, k, a, r
<1>6. PICK x, y : x = <<j1, p1, k1, a1, r1>> /\ y = <<j, p, k, a, r>>
  OBVIOUS
<1>7. /\ DOMAIN x = 1..5
      /\ x[1] = j1 /\ x[2] = p1 /\ x[3] = k1 /\ x[4] = a1 /\ x[5] = r1
      /\ y[1] = j /\ y[2] = p /\ y[3] = k /\ y[4] = a /\ y[5] = r
  BY <1>6
<1>8. Later(x, y)
  BY <1>4, <1>7, LaterWorker
<1>9. x # y
  BY <1>2, <1>4, <1>7
<1>10. QED BY <1>1, <1>3, <1>5, <1>6, <1>8, <1>9

\* Every step takes some goroutine on, none goes back: the bounds of all these
\* places are the call's bound.
THEOREM AlwaysForward == Spec => OnlyForward
<1> DEFINE Step ==
      /\ CallerAt' = CallerAt \/ Later(CallerAt', CallerAt)
      /\ \A w \in Workers : WorkerAt(w)' = WorkerAt(w) \/ Later(WorkerAt(w)', WorkerAt(w))
      /\ CallerAt' # CallerAt \/ \E w \in Workers : WorkerAt(w)' # WorkerAt(w)
<1>1. IInv /\ IInv' /\ JobsTaken /\ [Next]_vars => [Step]_vars
  <2> SUFFICES ASSUME IInv, IInv', JobsTaken, Next PROVE Step \/ UNCHANGED vars
    OBVIOUS
  <2>1. CASE Main
    BY <2>1, CallerForward
  <2>2. ASSUME NEW w \in Workers, Worker(w) PROVE Step
    BY <2>2, WorkerForward
  <2>3. QED BY <2>1, <2>2 DEF Next, Stop
<1>2. QED BY <1>1, Inductive, JobsTakenHolds, PTL DEF Spec, OnlyForward
================================================================================
