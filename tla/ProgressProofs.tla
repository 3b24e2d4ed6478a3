---------------------------- MODULE ProgressProofs ----------------------------
(***************************************************************************)
(* Proofs about what becomes of a claimed row: its result is final, and as *)
(* long as statements are executed it is in the hands of a running thread  *)
(* until it has one, also in a worker that is told to stop.                *)
(***************************************************************************)
EXTENDS WorkerProofs

(* No creator returns NULL for a job of a type it is registered for. *)
Creatable == \A w \in Workers : Registered[w] \cap Uncreatable = {}

(* No statement fails, and every row a worker claims becomes a Job object  *)
(* or is discarded.                                                        *)
Dependable ==
  /\ ~DbFails
  /\ Creatable
  /\ \A w \in Workers : Discard[w] \/ Jobs \subseteq Registered[w]

-----------------------------------------------------------------------------
(* Results are final, whatever fails or crashes                            *)

Done == {"complete", "error"}

(* A row is set to processing only after its creator was called. *)
MarkFollowsCreate ==
  \A q \in Queues : pc[q] = "mark" =>
    \A j \in rows[q] : IsOldest(j, rows[q]) =>
      j \in Registered[WorkerOf(q)] /\ (j \in batch[q] \/ j \in Uncreatable)

(* A thread's step concerns its own place and its own rows. *)
LEMMA OwnStep ==
  ASSUME TypeOK, NEW q \in Queues, Thread(q), NEW r \in Queues, r # q
  PROVE  /\ pc'[r] = pc[r] /\ lockid'[r] = lockid[r] /\ workload'[r] = workload[r]
         /\ rows'[r] = rows[r] /\ batch'[r] = batch[r]
BY DEF TypeOK, Thread, Check, PopWork, PopStop, PopNothing, Claim, Select, Create, Mark,
       Unknown, Execute, Finish, BatchDone, Goto, local

(* What is neither a thread's step nor the end or the start of a process   *)
(* leaves the threads and what they hold alone.                            *)
LEMMA OtherStep ==
  ASSUME [Next]_vars,
         \A q \in Queues : ~Thread(q),
         \A w \in Workers : ~Crash(w) /\ ~Restart(w)
  PROVE  /\ UNCHANGED <<pc, lockid, workload, rows, batch, runs>>
         /\ UNCHANGED table \/ \E j \in Jobs : Insert(j)
BY DEF Next, vars, SendWork, SendStop, Shutdown, Submit, local, table

LEMMA MarkInductive ==
  ASSUME TypeOK, MarkFollowsCreate, [Next]_vars
  PROVE  MarkFollowsCreate'
<1> SUFFICES ASSUME NEW r \in Queues, pc'[r] = "mark", NEW k \in rows'[r], IsOldest(k, rows'[r])
             PROVE  k \in Registered[WorkerOf(r)] /\ (k \in batch'[r] \/ k \in Uncreatable)
  BY DEF MarkFollowsCreate
<1>1. CASE Thread(r)
  <2>1. PICK j \in Jobs : Create(r, j)
    BY <1>1 DEF Thread, Check, PopWork, PopStop, PopNothing, Claim, Select, Mark, Unknown,
                Execute, Finish, BatchDone, Goto, TypeOK
  <2>2. /\ rows' = rows /\ IsOldest(j, rows[r]) /\ j \in Registered[WorkerOf(r)]
        /\ j \in batch'[r] \/ j \in Uncreatable
    BY <2>1 DEF Create, TypeOK
  <2>3. k = j
    BY <2>2, OldestUnique DEF TypeOK
  <2> QED BY <2>2, <2>3
<1>2. CASE pc'[r] = pc[r] /\ rows'[r] = rows[r] /\ batch'[r] = batch[r]
  BY <1>2 DEF MarkFollowsCreate
<1>3. ASSUME NEW q \in Queues, Thread(q), q # r
      PROVE  pc'[r] = pc[r] /\ rows'[r] = rows[r] /\ batch'[r] = batch[r]
  BY <1>3, OwnStep
<1>4. ASSUME NEW w \in Workers, Crash(w) \/ Restart(w)
      PROVE  pc'[r] = pc[r] /\ rows'[r] = rows[r] /\ batch'[r] = batch[r]
  BY <1>4 DEF Crash, Restart, Forget
<1> QED BY <1>1, <1>2, <1>3, <1>4, OtherStep

LEMMA MarkAlways == Spec => []MarkFollowsCreate
<1>1. Init => MarkFollowsCreate
  BY DEF Init, MarkFollowsCreate
<1>2. TypeOK /\ MarkFollowsCreate /\ [Next]_vars => MarkFollowsCreate'
  BY MarkInductive
<1> QED BY <1>1, <1>2, TypeCorrect, PTL DEF Spec

(* No thread holds a row that has its result. *)
LEMMA HeldNotDone ==
  ASSUME TypeOK, Inv, MarkFollowsCreate, Creatable, NEW q \in Queues, NEW j \in Held(q)
  PROVE  j \in Jobs /\ status[j] \notin Done
<1>1. j \in Jobs
  BY DEF TypeOK, Held
<1>2. WorkerOf(q) \in Workers
  BY QueueFacts
<1>3. ~Rejected(q, j)
  BY <1>2 DEF Rejected, MarkFollowsCreate, Creatable, IsOldest
<1> QED BY <1>1, <1>3 DEF Inv, HeldIsLocked, Done

(* A step of any thread, crash or client leaves rows with a result alone. *)
LEMMA DoneStep ==
  ASSUME TypeOK, Inv, MarkFollowsCreate, Creatable, [Next]_vars,
         NEW j \in Jobs, status[j] \in Done
  PROVE  status'[j] = status[j] /\ runs'[j] = runs[j]
<1> USE DEF TypeOK, TableTypeOK, Done
<1>1. ASSUME NEW q \in Queues, Thread(q) PROVE status'[j] = status[j] /\ runs'[j] = runs[j]
  <2>0. j \notin Held(q)
    BY HeldNotDone
  <2>1. CASE Check(q) \/ PopWork(q) \/ PopStop(q) \/ PopNothing(q) \/ BatchDone(q)
    BY <2>1 DEF Check, PopWork, PopStop, PopNothing, BatchDone, local, table
  <2>2. CASE Claim(q)
    BY <2>2 DEF Claim, UpdateClaim, SetRows, Claimable, Pending, table
  <2>3. CASE Select(q)
    BY <2>3 DEF Select, Try, UpdateRelease, table
  <2>4. ASSUME NEW k \in Jobs, Create(q, k) \/ Unknown(q, k)
        PROVE  status'[j] = status[j] /\ runs'[j] = runs[j]
    <3>1. k # j /\ runs' = runs /\ (Try(UpdateResult(k, "error")) \/ UNCHANGED table)
      BY <2>0, <2>4 DEF Create, Unknown, DiscardRow, IsOldest, Held
    <3> QED BY <3>1, TriedResult DEF table
  <2>5. ASSUME NEW k \in Jobs, Mark(q, k)
        PROVE  status'[j] = status[j] /\ runs'[j] = runs[j]
    <3>1. k # j /\ runs' = runs /\ Try(UpdateProcessing(k))
      BY <2>0, <2>5 DEF Mark, IsOldest, Held
    <3> QED BY <3>1 DEF Try, UpdateProcessing, table
  <2>6. ASSUME NEW k \in Jobs, Execute(q, k)
        PROVE  status'[j] = status[j] /\ runs'[j] = runs[j]
    BY <2>0, <2>6 DEF Execute, IsOldest, Held, table
  <2>7. ASSUME NEW k \in Jobs, Finish(q, k)
        PROVE  status'[j] = status[j] /\ runs'[j] = runs[j]
    <3>1. PICK st \in Done : Try(UpdateResult(k, st))
      BY <2>7 DEF Finish
    <3>2. k # j /\ runs' = runs
      BY <2>0, <2>7 DEF Finish, IsOldest, Held
    <3> QED BY <3>1, <3>2, TriedResult
  <2> QED BY <1>1, <2>1, <2>2, <2>3, <2>4, <2>5, <2>6, <2>7 DEF Thread
<1>2. ASSUME NEW w \in Workers, Crash(w) \/ Restart(w)
      PROVE  status'[j] = status[j] /\ runs'[j] = runs[j]
  BY <1>2 DEF Crash, Restart, table
<1>3. ASSUME NEW k \in Jobs, Insert(k) PROVE status'[j] = status[j]
  BY <1>3 DEF Insert, SetRows
<1> QED BY <1>1, <1>2, <1>3, OtherStep DEF table

(* The result of a job is final, also when statements fail and processes   *)
(* crash and are started anew: no statement of any thread changes a row    *)
(* that is complete or discarded, and no thread runs its job.  The only    *)
(* assumption is that creators do not return NULL: a row discarded for     *)
(* that is set to processing next.                                         *)
THEOREM ResultsAreFinal == ASSUME Creatable PROVE Spec => ResultIsFinal
<1>1. TypeOK /\ Inv /\ MarkFollowsCreate /\ [Next]_vars =>
        [\A j \in Jobs : status[j] \in {"complete", "error"} =>
           /\ status'[j] = status[j]
           /\ runs'[j] = runs[j]]_vars
  BY DoneStep DEF Done
<1> QED BY <1>1, TypeCorrect, Invariance, MarkAlways, PTL DEF Spec, ResultIsFinal

-----------------------------------------------------------------------------
(* The SELECT fetches all that was claimed                                 *)

(* A queue about to SELECT has locked no more rows than its LIMIT. *)
ClaimFits ==
  \A q \in Queues : pc[q] = "select" => Cardinality(LockedBy(lockid[q])) <= workload[q]

(* Nobody else gives a row the lock of a queue that is about to SELECT. *)
LEMMA LockStep ==
  ASSUME TypeOK, Inv, [Next]_vars, NEW r \in Queues, pc[r] = "select", ~Thread(r),
         NEW j \in Jobs, locked_queue_id'[j] = lockid[r]
  PROVE  locked_queue_id[j] = lockid[r]
<1> USE DEF TypeOK, TableTypeOK
<1>1. PICK t \in Stamps : lockid[r] = <<r, t>>
  BY DEF Inv, OwnLock
<1>2. lockid[r] # Unlocked
  BY <1>1, QueueFacts, UnlockedAssumption
<1>3. CASE locked_queue_id'[j] \in {locked_queue_id[j], Unlocked}
  BY <1>2, <1>3
<1>4. ASSUME NEW q \in Queues, q # r, Thread(q)
      PROVE  locked_queue_id[j] = lockid[r]
  <2>1. CASE Check(q) \/ PopWork(q) \/ PopStop(q) \/ PopNothing(q) \/ BatchDone(q)
             \/ \E k \in Jobs : Execute(q, k)
    BY <1>3, <2>1 DEF Check, PopWork, PopStop, PopNothing, BatchDone, Execute, local, table
  <2>2. CASE Claim(q)
    <3>1. PICK s \in Stamps : UpdateClaim(<<q, s>>, workload[q]) \/ UNCHANGED table
      BY <2>2 DEF Claim
    <3>2. locked_queue_id'[j] \in {locked_queue_id[j], <<q, s>>}
      BY <3>1 DEF UpdateClaim, SetRows, table
    <3> QED BY <1>1, <1>4, <3>2
  <2>3. CASE Select(q)
    BY <1>3, <2>3 DEF Select, Try, UpdateRelease, table
  <2>4. ASSUME NEW k \in Jobs, Create(q, k) \/ Unknown(q, k)
        PROVE  locked_queue_id[j] = lockid[r]
    <3>1. Try(UpdateResult(k, "error")) \/ UNCHANGED table
      BY <2>4 DEF Create, Unknown, DiscardRow
    <3> QED BY <1>3, <3>1, TriedResult DEF table
  <2>5. ASSUME NEW k \in Jobs, Mark(q, k) PROVE locked_queue_id[j] = lockid[r]
    BY <1>3, <2>5 DEF Mark, Try, UpdateProcessing, table
  <2>6. ASSUME NEW k \in Jobs, Finish(q, k) PROVE locked_queue_id[j] = lockid[r]
    <3>1. PICK st \in Done : Try(UpdateResult(k, st))
      BY <2>6 DEF Finish, Done
    <3> QED BY <1>3, <3>1, TriedResult DEF Done
  <2> QED BY <1>4, <2>1, <2>2, <2>3, <2>4, <2>5, <2>6 DEF Thread
<1>5. ASSUME NEW w \in Workers, Crash(w) \/ Restart(w) PROVE locked_queue_id' = locked_queue_id
  BY <1>5 DEF Crash, Restart, table
<1>6. ASSUME NEW k \in Jobs, Insert(k) PROVE locked_queue_id[j] = lockid[r]
  BY <1>3, <1>6 DEF Insert, SetRows
<1> QED BY <1>3, <1>4, <1>5, <1>6, OtherStep DEF table

LEMMA ClaimFitsInductive ==
  ASSUME TypeOK, Inv, ClaimFits, [Next]_vars
  PROVE  ClaimFits'
<1> SUFFICES ASSUME NEW r \in Queues, pc'[r] = "select"
             PROVE  Cardinality(LockedBy(lockid[r])') <= workload'[r]
  BY DEF ClaimFits
<1>1. CASE Thread(r)
  <2>1. Claim(r)
    BY <1>1 DEF Thread, Check, PopWork, PopStop, PopNothing, Select, Create, Mark, Unknown,
                Execute, Finish, BatchDone, Goto, TypeOK
  <2>2. PICK s \in Stamps :
          /\ FreshLockId(<<r, s>>)
          /\ UpdateClaim(<<r, s>>, workload[r])
          /\ lockid' = [lockid EXCEPT ![r] = <<r, s>>]
    BY <2>1 DEF Claim, Goto, TypeOK
  <2>3. PICK T \in SUBSET Claimable :
          OldestOf(T, Claimable, workload[r]) /\ SetRows(T, "loading", <<r, s>>)
    BY <2>2 DEF UpdateClaim
  <2>4. LockedBy(lockid[r])' = T
    BY <2>2, <2>3 DEF LockedBy, FreshLockId, SetRows, Claimable, Pending, TypeOK
  <2>5. workload' = workload
    BY <2>1 DEF Claim
  <2> QED BY <2>3, <2>4, <2>5 DEF OldestOf
<1>2. CASE ~Thread(r) /\ pc[r] = "select" /\ lockid'[r] = lockid[r] /\ workload'[r] = workload[r]
  <2>1. LockedBy(lockid[r])' \in SUBSET LockedBy(lockid[r])
    BY <1>2, LockStep DEF LockedBy
  <2>2. LockedBy(lockid[r]) \in SUBSET Jobs
    BY DEF LockedBy
  <2>3. /\ Cardinality(LockedBy(lockid[r])') <= Cardinality(LockedBy(lockid[r]))
        /\ Cardinality(LockedBy(lockid[r])) \in Nat
    BY <2>1, <2>2, JobSets
  <2>4. LockedBy(lockid[r])' \in SUBSET Jobs
    BY <2>1, <2>2
  <2>5. Cardinality(LockedBy(lockid[r])') \in Nat
    BY <2>4, JobSets
  <2>6. Cardinality(LockedBy(lockid[r])) <= workload[r] /\ workload[r] \in Int
    BY <1>2 DEF ClaimFits, TypeOK
  <2> QED BY <1>2, <2>3, <2>5, <2>6
<1>3. ASSUME NEW q \in Queues, Thread(q), q # r
      PROVE  pc'[r] = pc[r] /\ lockid'[r] = lockid[r] /\ workload'[r] = workload[r]
  BY <1>3, OwnStep
<1>4. ASSUME NEW w \in Workers, Crash(w) \/ Restart(w)
      PROVE  pc'[r] = pc[r] /\ lockid'[r] = lockid[r] /\ workload'[r] = workload[r]
  BY <1>4 DEF Crash, Restart, Forget
<1> QED BY <1>1, <1>2, <1>3, <1>4, OtherStep

LEMMA ClaimFitsAlways == Spec => []ClaimFits
<1>1. Init => ClaimFits
  BY DEF Init, ClaimFits
<1>2. TypeOK /\ Inv /\ ClaimFits /\ [Next]_vars => ClaimFits'
  BY ClaimFitsInductive
<1> QED BY <1>1, <1>2, TypeCorrect, Invariance, PTL DEF Spec
-----------------------------------------------------------------------------
(* A claimed row stays in the hands of a thread until it has its result    *)

(* q has no claimed row in hand, nor is it about to read the rows it claimed. *)
HoldsNone(q) == pc[q] \notin Holding \cup {"select"}

(* q is the thread that has j in hand. *)
HasInHand(q, j) == j \in Held(q) \/ (pc[q] = "select" /\ locked_queue_id[j] = lockid[q])

(* A LIMIT that is large enough keeps all rows. *)
LEMMA LimitKeepsAll ==
  ASSUME NEW S \in SUBSET Jobs, NEW T, NEW n \in Int, OldestOf(T, S, n), Cardinality(S) <= n
  PROVE  T = S
<1>1. IsFiniteSet(S) /\ T \in SUBSET S
  BY JobsAssumption, FS_Subset DEF OldestOf
<1>2. /\ IsFiniteSet(T)
      /\ Cardinality(T) <= Cardinality(S)
      /\ Cardinality(T) = Cardinality(S) => S = T
  BY <1>1, FS_Subset
<1>3. Cardinality(T) \in Nat /\ Cardinality(S) \in Nat
  BY <1>1, <1>2, FS_CardinalityType
<1> QED BY <1>2, <1>3 DEF OldestOf

(* A thread that goes on to the SELECT has all it claimed in its rows. *)
LEMMA SelectTakesAll ==
  ASSUME TypeOK, Inv, ClaimFits, ~DbFails, NEW q \in Queues, Select(q),
         NEW j \in Jobs, HasInHand(q, j)
  PROVE  j \in rows'[q]
<1> DEFINE S == {k \in LockedBy(lockid[q]) : status[k] = "loading"}
<1>1. pc[q] = "select" /\ Held(q) = {}
  BY DEF Select, Inv, HoldsInBatch, Holding, Held
<1>2. j \in S
  BY <1>1 DEF HasInHand, Inv, JustClaimed, LockedBy
<1>3. PICK T \in SUBSET Jobs : OldestOf(T, S, workload[q]) /\ rows'[q] = T
  BY DEF Select, SelectLoading, TypeOK
<1>4. S \in SUBSET LockedBy(lockid[q]) /\ LockedBy(lockid[q]) \in SUBSET Jobs
  BY DEF LockedBy
<1>5. Cardinality(S) <= Cardinality(LockedBy(lockid[q]))
      /\ Cardinality(LockedBy(lockid[q])) \in Nat
  BY <1>4, JobSets
<1>6. S \in SUBSET Jobs
  BY <1>4
<1>7. Cardinality(S) \in Nat
  BY <1>6, JobSets
<1>8. workload[q] \in Int /\ Cardinality(S) <= workload[q]
  BY <1>1, <1>5, <1>7 DEF ClaimFits, TypeOK
<1> HIDE DEF S
<1>9. T = S
  BY <1>3, <1>6, <1>8, LimitKeepsAll
<1> QED BY <1>2, <1>3, <1>9

(* The step of a thread keeps what is in progress in the hands of a thread. *)
LEMMA ThreadKeepsInHand ==
  ASSUME TypeOK, Inv, ClaimFits, MarkFollowsCreate, Dependable, InProgressHasWorker,
         NEW q \in Queues, Thread(q), NEW j \in Jobs, status'[j] \in {"loading", "processing"}
  PROVE  \E r \in Queues : HasInHand(r, j)'
<1> USE DEF TypeOK, TableTypeOK
<1>1. ASSUME status[j] \in {"loading", "processing"}
      PROVE  \E r \in Queues : HasInHand(r, j)
  BY <1>1 DEF InProgressHasWorker, InHand, HasInHand
<1>2. ASSUME NEW r \in Queues, r # q, HasInHand(r, j), locked_queue_id'[j] = locked_queue_id[j]
      PROVE  HasInHand(r, j)'
  BY <1>2, OwnStep DEF HasInHand, Held
<1>3. CASE Check(q) \/ PopWork(q) \/ PopStop(q) \/ PopNothing(q) \/ BatchDone(q)
  <2>1. ~HasInHand(q, j) /\ UNCHANGED table
    BY <1>3 DEF HasInHand, Held, Inv, HoldsInBatch, Holding, Check, PopWork, PopStop,
                PopNothing, BatchDone
  <2> QED BY <1>1, <1>2, <2>1 DEF table
<1>4. CASE Claim(q)
  <2>1. PICK s \in Stamps, T \in SUBSET Claimable :
          /\ SetRows(T, "loading", <<q, s>>)
          /\ lockid'[q] = <<q, s>> /\ pc'[q] = "select"
    BY <1>4 DEF Dependable, Claim, UpdateClaim, Goto
  <2>2. CASE j \in T
    BY <2>1, <2>2 DEF SetRows, HasInHand
  <2>3. CASE j \notin T
    <3>1. status'[j] = status[j] /\ locked_queue_id'[j] = locked_queue_id[j]
      BY <2>1, <2>3 DEF SetRows
    <3>2. ~HasInHand(q, j)
      BY <1>4 DEF Claim, HasInHand, Held, Inv, HoldsInBatch, Holding
    <3> QED BY <1>1, <1>2, <3>1, <3>2
  <2> QED BY <2>2, <2>3
<1>5. CASE Select(q)
  <2>1. UNCHANGED table
    BY <1>5 DEF Select, Dependable
  <2>2. PICK r \in Queues : HasInHand(r, j)
    BY <1>1, <2>1 DEF table
  <2>3. CASE r = q
    BY <1>5, <2>2, <2>3, SelectTakesAll DEF Dependable, HasInHand, Held
  <2> QED BY <1>2, <2>1, <2>2, <2>3 DEF table
<1>6. ASSUME NEW k \in Jobs, Create(q, k) PROVE \E r \in Queues : HasInHand(r, j)'
  <2>1. k \notin Uncreatable
    BY <1>6, QueueFacts DEF Create, Dependable, Creatable
  <2>2. UNCHANGED <<table, rows>> /\ batch[q] \subseteq batch'[q] /\ pc[q] # "select"
    BY <1>6, <2>1 DEF Create
  <2>3. HasInHand(q, j) => HasInHand(q, j)'
    BY <2>2 DEF HasInHand, Held
  <2> QED BY <1>1, <1>2, <2>2, <2>3 DEF table
<1>7. ASSUME NEW k \in Jobs, Mark(q, k) PROVE \E r \in Queues : HasInHand(r, j)'
  <2>1. /\ UpdateProcessing(k) /\ IsOldest(k, rows[q]) /\ pc[q] = "mark"
        /\ rows'[q] = rows[q] \ {k} /\ batch' = batch
    BY <1>7 DEF Mark, Try, Dependable
  <2>2. CASE j = k
    <3>1. k \in Registered[WorkerOf(q)] /\ (k \in batch[q] \/ k \in Uncreatable)
      BY <2>1 DEF MarkFollowsCreate, IsOldest
    <3>2. k \in batch[q]
      BY <3>1, QueueFacts DEF Dependable, Creatable
    <3> QED BY <2>1, <2>2, <3>2 DEF HasInHand, Held
  <2>3. CASE j # k
    <3>1. status'[j] = status[j] /\ locked_queue_id'[j] = locked_queue_id[j]
      BY <2>1, <2>3 DEF UpdateProcessing
    <3>2. HasInHand(q, j) => HasInHand(q, j)'
      BY <2>1, <2>3 DEF HasInHand, Held
    <3> QED BY <1>1, <1>2, <3>1, <3>2
  <2> QED BY <2>2, <2>3
<1>8. ASSUME NEW k \in Jobs, Unknown(q, k) PROVE \E r \in Queues : HasInHand(r, j)'
  <2>1. Discard[WorkerOf(q)]
    BY <1>8, QueueFacts DEF Unknown, Dependable
  <2>2. /\ UpdateResult(k, "error") /\ pc[q] = "jobs"
        /\ rows'[q] = rows[q] \ {k} /\ batch' = batch
    BY <1>8, <2>1 DEF Unknown, DiscardRow, Try, Dependable
  <2>3. j # k /\ status'[j] = status[j] /\ locked_queue_id'[j] = locked_queue_id[j]
    BY <2>2 DEF UpdateResult, SetRows
  <2>4. HasInHand(q, j) => HasInHand(q, j)'
    BY <2>2, <2>3 DEF HasInHand, Held
  <2> QED BY <1>1, <1>2, <2>3, <2>4
<1>9. ASSUME NEW k \in Jobs, Execute(q, k) PROVE \E r \in Queues : HasInHand(r, j)'
  <2>1. UNCHANGED <<table, rows, batch>> /\ pc[q] = "jobs"
    BY <1>9 DEF Execute
  <2>2. HasInHand(q, j) => HasInHand(q, j)'
    BY <2>1 DEF HasInHand, Held
  <2> QED BY <1>1, <1>2, <2>1, <2>2 DEF table
<1>10. ASSUME NEW k \in Jobs, Finish(q, k) PROVE \E r \in Queues : HasInHand(r, j)'
  <2>1. PICK st \in Done : UpdateResult(k, st)
    BY <1>10 DEF Finish, Try, Dependable, Done
  <2>2. rows' = rows /\ batch'[q] = batch[q] \ {k} /\ pc[q] = "running"
    BY <1>10 DEF Finish
  <2>3. j # k /\ status'[j] = status[j] /\ locked_queue_id'[j] = locked_queue_id[j]
    BY <2>1 DEF UpdateResult, SetRows, Done
  <2>4. HasInHand(q, j) => HasInHand(q, j)'
    BY <2>2, <2>3 DEF HasInHand, Held
  <2> QED BY <1>1, <1>2, <2>3, <2>4
<1> QED BY <1>3, <1>4, <1>5, <1>6, <1>7, <1>8, <1>9, <1>10 DEF Thread

(* A step in which no process dies with rows in hand. *)
HarmlessStep ==
  \/ \E q \in Queues : Thread(q)
  \/ \E w \in Workers : (Crash(w) \/ Restart(w)) /\ \A q \in Of(w) : HoldsNone(q)
  \/ /\ UNCHANGED <<pc, lockid, rows, batch>>
     /\ UNCHANGED table \/ \E j \in Jobs : Insert(j)

(* Every such step keeps what is in progress in the hands of a thread. *)
LEMMA InProgressStep ==
  ASSUME TypeOK, Inv, ClaimFits, MarkFollowsCreate, Dependable, InProgressHasWorker, HarmlessStep
  PROVE  InProgressHasWorker'
<1> SUFFICES ASSUME NEW j \in Jobs, status'[j] \in {"loading", "processing"}
             PROVE  \E r \in Queues : HasInHand(r, j)'
  BY DEF InProgressHasWorker, InHand, HasInHand
<1>1. CASE \E q \in Queues : Thread(q)
  BY <1>1, ThreadKeepsInHand
<1>2. ASSUME status[j] \in {"loading", "processing"}
      PROVE  \E r \in Queues : HasInHand(r, j)
  BY <1>2 DEF InProgressHasWorker, InHand, HasInHand
<1>3. ASSUME NEW w \in Workers, Crash(w) \/ Restart(w), \A q \in Of(w) : HoldsNone(q)
      PROVE  \E r \in Queues : HasInHand(r, j)'
  <2>1. UNCHANGED table
    BY <1>3 DEF Crash, Restart
  <2>2. PICK r \in Queues : HasInHand(r, j)
    BY <1>2, <2>1 DEF table
  <2>3. r \notin Of(w)
    BY <1>3, <2>2 DEF HoldsNone, HasInHand, Held, Inv, HoldsInBatch
  <2>4. pc'[r] = pc[r] /\ lockid'[r] = lockid[r] /\ rows'[r] = rows[r] /\ batch'[r] = batch[r]
    BY <1>3, <2>3 DEF Crash, Restart, Forget
  <2> QED BY <2>1, <2>2, <2>4 DEF HasInHand, Held, table
<1>4. CASE /\ UNCHANGED <<pc, lockid, rows, batch>>
           /\ status'[j] = status[j] /\ locked_queue_id'[j] = locked_queue_id[j]
  BY <1>2, <1>4 DEF HasInHand, Held
<1>5. ASSUME NEW k \in Jobs, Insert(k)
      PROVE  status'[j] = status[j] /\ locked_queue_id'[j] = locked_queue_id[j]
  BY <1>5 DEF Insert, SetRows
<1> QED BY <1>1, <1>3, <1>4, <1>5 DEF HarmlessStep, table

(* A process that ended before it is started anew has nothing in hand. *)
LEMMA RestartIsIdle ==
  ASSUME NEW w \in Workers, Restart(w) PROVE \A q \in Of(w) : HoldsNone(q)
BY DEF Restart, HoldsNone, Holding

(* No row is left behind between the claim and the result, whatever the    *)
(* number of workers, and whenever a worker is told to stop: a row that is *)
(* loading or processing is in the hands of a running thread.  The theorem *)
(* is about processes that live (MaxRestarts = 0: no crash) and statements *)
(* that succeed; the violation runs show what each exception costs.        *)
THEOREM NothingLeftBehind ==
  ASSUME Dependable, MaxRestarts = 0 PROVE Spec => []InProgressHasWorker
<1>1. Init => InProgressHasWorker
  BY DEF Init, TableInit, InProgressHasWorker
<1>2. TypeOK /\ Inv /\ ClaimFits /\ MarkFollowsCreate /\ InProgressHasWorker /\ [Next]_vars
        => InProgressHasWorker'
  <2> SUFFICES ASSUME TypeOK, Inv, ClaimFits, MarkFollowsCreate, InProgressHasWorker, [Next]_vars
               PROVE  InProgressHasWorker'
    OBVIOUS
  <2>1. \A w \in Workers : ~Crash(w)
    BY DEF Crash, TypeOK
  <2>2. HarmlessStep
    BY <2>1, OtherStep, RestartIsIdle DEF HarmlessStep
  <2> QED BY <2>2, InProgressStep
<1> QED BY <1>1, <1>2, TypeCorrect, Invariance, ClaimFitsAlways, MarkAlways, PTL DEF Spec

-----------------------------------------------------------------------------
(* The same for whole worker processes, which do end and are started anew  *)

(* A process that is starting has been given no work. *)
StartsIdle ==
  \A w \in Workers : main[w] = "starting" =>
    \A q \in Of(w) : tokens[q] = 0 /\ pc[q] \in {"check", "pop", "exited", "dead"}

(* A running process without handlers has had its stop signal. *)
StopsOnce ==
  \A w \in Workers :
    /\ caught[w] \subseteq signalled[w]
    /\ main[w] \notin Gone \cup {"starting"} /\ ~handled[w] => signalled[w] # {}

(* Handlers go away only for a signal that was sent. *)
LEMMA StopsOnceInductive ==
  ASSUME OwnTypeOK, StopsOnce, [WorkerNext]_workerVars
  PROVE  StopsOnce'
<1> USE DEF OwnTypeOK, StopsOnce, Gone, At, schedvars, sigvars, envvars
<1>1. ASSUME NEW w \in Workers, MainThread(w) PROVE StopsOnce'
  <2>1. CASE Boot(w)
    BY <2>1 DEF Boot
  <2>2. CASE OnIoWork(w) \/ ScanThread(w) \/ ReadBytes(w) \/ StopThread(w) \/ JoinThreads(w)
    BY <2>2 DEF OnIoWork, ScanThread, ReadBytes, StopThread, JoinThreads
  <2>3. CASE Dispatch(w)
    BY <2>3 DEF Dispatch, NextByte
  <2>4. CASE ReadEof(w)
    BY <2>4 DEF ReadEof
  <2>5. CASE OnSignalStop(w)
    BY <2>5 DEF OnSignalStop
  <2> QED BY <1>1, <2>1, <2>2, <2>3, <2>4, <2>5 DEF MainThread
<1>2. ASSUME NEW w \in Workers, BootFails(w) \/ StartAnew(w) PROVE StopsOnce'
  BY <1>2 DEF BootFails, StartAnew
<1>3. ASSUME NEW w \in Workers, NEW s \in Signals, Signal(w, s) PROVE StopsOnce'
  BY <1>3 DEF Signal
<1>4. CASE UNCHANGED <<main, handled, caught, signalled>>
  BY <1>4
<1>5. ASSUME NEW w \in Workers, Notify(w) \/ ParentDies(w)
      PROVE  UNCHANGED <<main, handled, caught, signalled>>
  BY <1>5 DEF Notify, ParentDies
<1>6. ASSUME NEW q \in Queues, Work(q) PROVE UNCHANGED <<main, handled, caught, signalled>>
  BY <1>6 DEF Work
<1>7. ASSUME NEW j \in Jobs, ClientSubmits(j) PROVE UNCHANGED <<main, handled, caught, signalled>>
  BY <1>7 DEF ClientSubmits
<1> QED BY <1>1, <1>2, <1>3, <1>4, <1>5, <1>6, <1>7 DEF WorkerNext, workerVars

(* A thread without work stays without. *)
LEMMA IdleThread ==
  ASSUME TypeOK, Covered, NEW q \in Queues, Thread(q), tokens[q] = 0,
         pc[q] \in {"check", "pop", "exited", "dead"}
  PROVE  tokens'[q] = 0 /\ pc'[q] \in {"check", "pop", "exited", "dead"}
<1> USE DEF TypeOK, Goto
<1>1. CASE Check(q)
  BY <1>1 DEF Check
<1>2. CASE PopStop(q)
  BY <1>2 DEF PopStop
<1>3. CASE PopNothing(q)
  BY <1>3 DEF PopNothing, Covered, local
<1> QED BY <1>1, <1>2, <1>3 DEF Thread, PopWork, Claim, Select, Create, Mark, Unknown,
                               Execute, Finish, BatchDone

LEMMA StartsIdleInductive ==
  ASSUME TypeOK, Covered, OwnTypeOK, StartsIdle, [WorkerNext]_workerVars
  PROVE  StartsIdle'
<1> SUFFICES ASSUME NEW v \in Workers, main'[v] = "starting", NEW r \in Of(v)
             PROVE  tokens'[r] = 0 /\ pc'[r] \in {"check", "pop", "exited", "dead"}
  BY DEF StartsIdle, Of
<1> USE DEF TypeOK, OwnTypeOK, At
<1>0. r \in Queues /\ WorkerOf(r) = v
  BY DEF Of
<1>1. CASE main[v] = "starting" /\ tokens'[r] = tokens[r] /\ pc'[r] = pc[r]
  BY <1>1 DEF StartsIdle
<1>2. ASSUME NEW w \in Workers, MainThread(w)
      PROVE  main[v] = "starting" /\ tokens'[r] = tokens[r] /\ pc'[r] = pc[r]
  <2>1. main[v] = "starting" /\ v # w
    BY <1>2 DEF MainThread, Boot, OnIoWork, ScanThread, Dispatch, NextByte, ReadBytes, ReadEof,
                OnSignalStop, StopThread, JoinThreads
  <2>2. CASE Dispatch(w)
    <3>1. <<w, selected[w]>> \in Queues /\ <<w, selected[w]>> # r
      BY <1>0, <2>1 DEF Queues, WorkerOf
    <3> QED BY <2>1, <2>2, <3>1 DEF Dispatch, SendWork
  <2>3. CASE ~Dispatch(w)
    BY <1>2, <2>1, <2>3 DEF MainThread, Boot, OnIoWork, ScanThread, ReadBytes, ReadEof,
       OnSignalStop, StopThread, JoinThreads, Shutdown, SendStop, vars
  <2> QED BY <2>2, <2>3
<1>3. ASSUME NEW w \in Workers, BootFails(w) \/ \E s \in Signals : Signal(w, s)
      PROVE  main[v] = "starting" /\ tokens'[r] = tokens[r] /\ pc'[r] = pc[r]
  BY <1>0, <1>3 DEF BootFails, Signal, Crash, Forget, Of, vars
<1>4. ASSUME NEW w \in Workers, StartAnew(w)
      PROVE  tokens'[r] = 0 /\ pc'[r] \in {"check", "pop", "exited", "dead"}
  BY <1>0, <1>1, <1>4 DEF StartAnew, Restart, Forget, Of
<1>5. ASSUME NEW q \in Queues, Work(q)
      PROVE  tokens'[r] = 0 /\ pc'[r] \in {"check", "pop", "exited", "dead"}
  <2>1. main[v] = "starting" /\ Thread(q)
    BY <1>5 DEF Work, Thread
  <2>2. tokens[r] = 0 /\ pc[r] \in {"check", "pop", "exited", "dead"}
    BY <2>1 DEF StartsIdle
  <2>3. CASE q = r
    BY <1>0, <2>1, <2>2, <2>3, IdleThread
  <2>4. CASE q # r
    <3>1. tokens'[r] = tokens[r]
      BY <1>0, <2>1, <2>4 DEF Thread, Check, PopWork, PopStop, PopNothing, Claim, Select, Create,
         Mark, Unknown, Execute, Finish, BatchDone, local
    <3> QED BY <1>0, <2>1, <2>2, <2>4, <3>1, OwnStep
  <2> QED BY <2>3, <2>4
<1>6. ASSUME NEW j \in Jobs, ClientSubmits(j)
      PROVE  main[v] = "starting" /\ tokens'[r] = tokens[r] /\ pc'[r] = pc[r]
  BY <1>6 DEF ClientSubmits, Submit, local
<1>7. ASSUME NEW w \in Workers, Notify(w) \/ ParentDies(w)
      PROVE  main[v] = "starting" /\ tokens'[r] = tokens[r] /\ pc'[r] = pc[r]
  BY <1>7 DEF Notify, ParentDies, vars
<1>8. CASE UNCHANGED workerVars
  BY <1>1, <1>8 DEF workerVars, vars
<1> QED BY <1>1, <1>2, <1>3, <1>4, <1>5, <1>6, <1>7, <1>8 DEF WorkerNext

LEMMA StartStopAlways == WorkerSpec => [](StartsIdle /\ StopsOnce)
<1>1. WorkerInit => StartsIdle /\ StopsOnce
  BY DEF WorkerInit, Init, StartsIdle, StopsOnce, Of
<1>2. TypeOK /\ Covered /\ OwnTypeOK /\ StartsIdle /\ StopsOnce /\ [WorkerNext]_workerVars
        => (StartsIdle /\ StopsOnce)'
  BY StartsIdleInductive, StopsOnceInductive
<1>3. WorkerSpec => []TypeOK /\ []Covered
  BY WorkerIsWorkQueue, TypeCorrect, CoveredAlways, PTL
<1> QED BY <1>1, <1>2, <1>3, OwnTypeAlways, PTL DEF WorkerSpec

(* At most one signal reaches a process. *)
OneSignal == \A s, t \in Signals : s = t

(* With one signal, a process dies only while it is starting. *)
LEMMA WorkerHarmless ==
  ASSUME TypeOK, OwnTypeOK, StartsIdle, StopsOnce, OneSignal, [WorkerNext]_workerVars
  PROVE  HarmlessStep
<1> USE DEF HarmlessStep
<1>1. ASSUME NEW w \in Workers, MainThread(w) PROVE UNCHANGED <<pc, lockid, rows, batch, table>>
  BY <1>1 DEF MainThread, Boot, OnIoWork, ScanThread, Dispatch, ReadBytes, ReadEof,
              OnSignalStop, StopThread, JoinThreads, Shutdown, SendStop, SendWork, vars, table
<1>2. ASSUME NEW w \in Workers, main[w] = "starting", Crash(w) PROVE HarmlessStep
  BY <1>2 DEF StartsIdle, HoldsNone, Holding
<1>3. ASSUME NEW w \in Workers, BootFails(w) PROVE HarmlessStep
  BY <1>2, <1>3 DEF BootFails
<1>4. ASSUME NEW w \in Workers, NEW s \in Signals, Signal(w, s) PROVE HarmlessStep
  <2>1. CASE UNCHANGED vars
    BY <2>1 DEF vars, table
  <2>2. CASE Crash(w) /\ ~handled[w]
    <3>1. signalled[w] = {}
      BY <1>4 DEF Signal, OneSignal, OwnTypeOK
    <3>2. main[w] = "starting"
      BY <1>4, <2>2, <3>1 DEF StopsOnce, Signal
    <3> QED BY <1>2, <2>2, <3>2
  <2> QED BY <1>4, <2>1, <2>2 DEF Signal
<1>5. ASSUME NEW w \in Workers, StartAnew(w) PROVE HarmlessStep
  BY <1>5, RestartIsIdle DEF StartAnew
<1>6. ASSUME NEW q \in Queues, Work(q) PROVE HarmlessStep
  BY <1>6 DEF Work, Thread
<1>7. ASSUME NEW j \in Jobs, ClientSubmits(j) PROVE HarmlessStep
  BY <1>7 DEF ClientSubmits, Submit, local
<1>8. ASSUME NEW w \in Workers, Notify(w) \/ ParentDies(w) PROVE HarmlessStep
  BY <1>8 DEF Notify, ParentDies, vars, table
<1>9. CASE UNCHANGED workerVars
  BY <1>9 DEF workerVars, vars, table
<1> QED BY <1>1, <1>3, <1>4, <1>5, <1>6, <1>7, <1>8, <1>9 DEF WorkerNext

(* A worker process leaves no row behind: not when it is told to stop by a *)
(* signal or by the death of the server, in the middle of scheduling or of *)
(* a batch, and not when it fails to start; shutdown() joins threads that  *)
(* finish what they have claimed.  One signal per process is assumed: the  *)
(* run two_signals shows what a second one does.                           *)
THEOREM WorkerLeavesNothingBehind ==
  ASSUME Dependable, OneSignal PROVE WorkerSpec => []InProgressHasWorker
<1>1. WorkerInit => InProgressHasWorker
  BY DEF WorkerInit, Init, TableInit, InProgressHasWorker
<1>2. TypeOK /\ Inv /\ ClaimFits /\ MarkFollowsCreate /\ OwnTypeOK /\ StartsIdle /\ StopsOnce
        /\ InProgressHasWorker /\ [WorkerNext]_workerVars => InProgressHasWorker'
  BY WorkerHarmless, InProgressStep
<1>3. WorkerSpec => []TypeOK /\ []Inv /\ []ClaimFits /\ []MarkFollowsCreate
  BY WorkerIsWorkQueue, TypeCorrect, Invariance, ClaimFitsAlways, MarkAlways, PTL
<1> QED BY <1>1, <1>2, <1>3, OwnTypeAlways, StartStopAlways, PTL DEF WorkerSpec

(* The result of a job stays final when main threads, signals and new      *)
(* servers are added to the work queues.                                   *)
THEOREM WorkerResultsAreFinal == ASSUME Creatable PROVE WorkerSpec => ResultIsFinal
BY WorkerIsWorkQueue, ResultsAreFinal, PTL
=============================================================================
