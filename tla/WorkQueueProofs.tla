--------------------------- MODULE WorkQueueProofs ---------------------------
(***************************************************************************)
(* Proofs about WorkQueue, for any number of workers, threads and jobs,    *)
(* with any statement failing and any process crashing at any time.        *)
(***************************************************************************)
EXTENDS WorkQueue, FiniteSetTheorems, TLAPS

(* A work queue is a thread of some worker, and its lock strings name it. *)
LEMMA QueueFacts ==
  ASSUME NEW q \in Queues
  PROVE  /\ WorkerOf(q) \in Workers
         /\ \A s \in Stamps : <<q, s>> \in LockIds /\ <<q, s>>[1] = q
BY DEF Queues, WorkerOf, LockIds

(* A set of rows has one oldest row. *)
LEMMA OldestUnique ==
  ASSUME NEW S \in SUBSET Jobs, NEW j, NEW k, IsOldest(j, S), IsOldest(k, S)
  PROVE  j = k
<1>1. j \in Nat /\ k \in Nat
  BY JobsAssumption DEF IsOldest
<1>2. j <= k /\ k <= j
  BY DEF IsOldest
<1> QED BY <1>1, <1>2

(* Writing rows keeps the types of the columns. *)
LEMMA SetRowsType ==
  ASSUME TableTypeOK, NEW S, NEW st \in Statuses,
         NEW lock \in LockIds \cup {Unlocked}, SetRows(S, st, lock)
  PROVE  TableTypeOK'
BY DEF TableTypeOK, SetRows

(* Every SQL statement, executed or not, keeps the types of the columns. *)
LEMMA StatementTypes ==
  ASSUME TableTypeOK
  PROVE  /\ \A lid \in LockIds, n \in Int : UpdateClaim(lid, n) => TableTypeOK'
         /\ \A lid \in LockIds \cup {Unlocked} : UpdateRelease(lid) => TableTypeOK'
         /\ \A j \in Jobs : UpdateProcessing(j) => TableTypeOK'
         /\ \A j \in Jobs : UpdateResult(j, "error") => TableTypeOK'
         /\ \A j \in Jobs : UpdateResult(j, "complete") => TableTypeOK'
         /\ \A j \in Jobs : Insert(j) => TableTypeOK'
         /\ UNCHANGED table => TableTypeOK'
<1>1. \A lid \in LockIds, n \in Int : UpdateClaim(lid, n) => TableTypeOK'
  BY SetRowsType DEF UpdateClaim, Statuses
<1>2. \A lid \in LockIds \cup {Unlocked} : UpdateRelease(lid) => TableTypeOK'
  BY DEF UpdateRelease, TableTypeOK
<1>3. \A j \in Jobs : UpdateProcessing(j) => TableTypeOK'
  BY DEF UpdateProcessing, TableTypeOK, Statuses
<1>4. \A j \in Jobs : UpdateResult(j, "error") => TableTypeOK'
  BY SetRowsType DEF UpdateResult, Statuses
<1>5. \A j \in Jobs : UpdateResult(j, "complete") => TableTypeOK'
  BY SetRowsType DEF UpdateResult, Statuses
<1>6. \A j \in Jobs : Insert(j) => TableTypeOK'
  BY SetRowsType DEF Insert, Statuses
<1>7. UNCHANGED table => TableTypeOK'
  BY DEF table, TableTypeOK
<1> QED BY <1>1, <1>2, <1>3, <1>4, <1>5, <1>6, <1>7

(* The variables have their types in every reachable state. *)
THEOREM TypeCorrect == Spec => []TypeOK
<1>1. Init => TypeOK
  BY DEF Init, TypeOK, TableInit, TableTypeOK, Statuses, Labels
<1>2. TypeOK /\ [Next]_vars => TypeOK'
  <2> SUFFICES ASSUME TypeOK, [Next]_vars PROVE TypeOK'
    OBVIOUS
  <2> USE DEF TypeOK, Labels, Goto
  <2>1. ASSUME NEW q \in Queues, Thread(q) PROVE TypeOK'
    <3>1. CASE Check(q)
      BY <3>1, StatementTypes DEF Check, table
    <3>2. CASE PopWork(q)
      BY <3>2, StatementTypes DEF PopWork
    <3>3. CASE PopStop(q)
      BY <3>3, StatementTypes DEF PopStop
    <3>4. CASE PopNothing(q)
      BY <3>4, StatementTypes DEF PopNothing, local
    <3>5. CASE Claim(q)
      BY <3>5, StatementTypes, QueueFacts DEF Claim
    <3>6. CASE Select(q)
      BY <3>6, StatementTypes DEF Select, Try
    <3>7. ASSUME NEW j \in Jobs, Create(q, j) PROVE TypeOK'
      BY <3>7, StatementTypes DEF Create, DiscardRow, Try
    <3>8. ASSUME NEW j \in Jobs, Mark(q, j) PROVE TypeOK'
      BY <3>8, StatementTypes DEF Mark, Try
    <3>9. ASSUME NEW j \in Jobs, Unknown(q, j) PROVE TypeOK'
      BY <3>9, StatementTypes DEF Unknown, DiscardRow, Try
    <3>10. ASSUME NEW j \in Jobs, Execute(q, j) PROVE TypeOK'
      BY <3>10, StatementTypes DEF Execute
    <3>11. ASSUME NEW j \in Jobs, Finish(q, j) PROVE TypeOK'
      BY <3>11, StatementTypes DEF Finish, Try
    <3>12. CASE BatchDone(q)
      BY <3>12, StatementTypes DEF BatchDone
    <3> QED BY <2>1, <3>1, <3>2, <3>3, <3>4, <3>5, <3>6, <3>7, <3>8, <3>9,
               <3>10, <3>11, <3>12 DEF Thread
  <2>2. ASSUME NEW q \in Queues, SendWork(q) PROVE TypeOK'
    BY <2>2, StatementTypes DEF SendWork
  <2>3. ASSUME NEW q \in Queues, SendStop(q) PROVE TypeOK'
    BY <2>3, StatementTypes DEF SendStop
  <2>4. ASSUME NEW w \in Workers, Shutdown(w) PROVE TypeOK'
    BY <2>4, StatementTypes DEF Shutdown
  <2>5. ASSUME NEW w \in Workers, Crash(w) PROVE TypeOK'
    BY <2>5, StatementTypes DEF Crash, Forget
  <2>6. ASSUME NEW w \in Workers, Restart(w) PROVE TypeOK'
    BY <2>6, StatementTypes DEF Restart, Forget
  <2>7. ASSUME NEW j \in Jobs, Submit(j) PROVE TypeOK'
    BY <2>7, StatementTypes DEF Submit, local
  <2>8. CASE UNCHANGED vars
    BY <2>8, StatementTypes DEF vars, table
  <2> QED BY <2>1, <2>2, <2>3, <2>4, <2>5, <2>6, <2>7, <2>8 DEF Next
<1> QED BY <1>1, <1>2, PTL DEF Spec

-----------------------------------------------------------------------------
(* The inductive invariant                                                 *)

Holding == {"jobs", "mark", "running"}

(* A row nobody has claimed yet is unlocked and has not run. *)
NewRows ==
  \A j \in Jobs :
    status[j] \in {"absent", "pending"} =>
      locked_queue_id[j] = Unlocked /\ runs[j] = 0

(* A queue has a lock string exactly while it has a batch, its own one. *)
OwnLock ==
  \A q \in Queues :
    IF pc[q] \in Holding \cup {"select"}
      THEN \E s \in Stamps : lockid[q] = <<q, s>>
      ELSE lockid[q] = Unlocked

(* It holds jobs only then, and makes Job objects only of known types. *)
HoldsInBatch ==
  \A q \in Queues :
    /\ pc[q] \notin Holding => rows[q] = {} /\ batch[q] = {}
    /\ pc[q] = "running" => rows[q] = {}
    /\ batch[q] \subseteq Registered[WorkerOf(q)] \ Uncreatable

(* What was just claimed, and only that, carries the new lock string. *)
JustClaimed ==
  \A q \in Queues : pc[q] = "select" =>
    \A j \in Jobs : locked_queue_id[j] = lockid[q] =>
      status[j] = "loading" /\ runs[j] = 0

(* Of the jobs a queue holds only the one it is running has run. *)
HeldNotRun ==
  \A q \in Queues : \A j \in Held(q) :
    runs[j] = 0 \/ (pc[q] = "running" /\ IsOldest(j, batch[q]))

Inv ==
  /\ NewRows
  /\ OwnLock
  /\ HoldsInBatch
  /\ HeldIsLocked
  /\ Exclusive
  /\ JustClaimed
  /\ HeldNotRun
  /\ AtMostOnce

(* A step that changes no row, no batch and no history, and moves threads  *)
(* only between places where they hold nothing, preserves the invariant.   *)
LEMMA QuietStep ==
  ASSUME TypeOK, Inv,
         UNCHANGED <<table, lockid, rows, batch, runs>>,
         \A q \in Queues :
           \/ pc'[q] = pc[q]
           \/ /\ pc[q] \notin Holding \cup {"select"}
              /\ pc'[q] \notin Holding \cup {"select"}
  PROVE  Inv'
<1> USE DEF Inv, Holding, table
<1>1. NewRows'
  BY DEF NewRows
<1>2. OwnLock'
  BY DEF OwnLock
<1>3. HoldsInBatch'
  BY DEF HoldsInBatch
<1>4. HeldIsLocked'
  BY DEF HeldIsLocked, Held, Rejected
<1>5. Exclusive'
  BY DEF Exclusive, Held
<1>6. JustClaimed'
  BY DEF JustClaimed
<1>7. HeldNotRun'
  BY DEF HeldNotRun, Held
<1>8. AtMostOnce'
  BY DEF AtMostOnce
<1> QED BY <1>1, <1>2, <1>3, <1>4, <1>5, <1>6, <1>7, <1>8

(* The locks of two queues that have one are different. *)
LEMMA LocksDiffer ==
  ASSUME OwnLock, NEW q \in Queues, NEW r \in Queues, q # r,
         pc[q] \in Holding \cup {"select"}
  PROVE  lockid[q] # lockid[r] /\ lockid[q] # Unlocked /\ lockid[q] \in LockIds
<1>1. PICK s \in Stamps : lockid[q] = <<q, s>>
  BY DEF OwnLock
<1>2. <<q, s>> \in LockIds /\ <<q, s>> # Unlocked
  BY QueueFacts, UnlockedAssumption
<1>3. CASE pc[r] \in Holding \cup {"select"}
  <2>1. PICK t \in Stamps : lockid[r] = <<r, t>>
    BY <1>3 DEF OwnLock
  <2> QED BY <1>1, <1>2, <2>1
<1>4. CASE pc[r] \notin Holding \cup {"select"}
  BY <1>1, <1>2, <1>4 DEF OwnLock
<1> QED BY <1>3, <1>4

(* The claim takes rows nobody holds, under a lock string nobody has. *)
LEMMA ClaimKeepsInv ==
  ASSUME TypeOK, Inv, NEW q \in Queues, Claim(q)
  PROVE  Inv'
<1> USE DEF Inv, Holding, TypeOK, TableTypeOK
<1>1. PICK s \in Stamps :
        /\ FreshLockId(<<q, s>>)
        /\ \/ /\ UpdateClaim(<<q, s>>, workload[q])
              /\ lockid' = [lockid EXCEPT ![q] = <<q, s>>]
              /\ Goto(q, "select")
           \/ /\ DbFails
              /\ UpdateClaim(<<q, s>>, workload[q]) \/ UNCHANGED table
              /\ Goto(q, "check")
              /\ UNCHANGED lockid
  BY DEF Claim
<1> DEFINE lid == <<q, s>>
<1>a. lid \in LockIds /\ lid # Unlocked /\ lid[1] = q
  BY QueueFacts, UnlockedAssumption
<1>b. /\ pc[q] = "claim" /\ rows' = rows /\ batch' = batch /\ runs' = runs
      /\ rows[q] = {} /\ batch[q] = {}
      /\ \A r \in Queues : r # q => pc'[r] = pc[r] /\ lockid'[r] = lockid[r]
      /\ pc'[q] \in {"select", "check"}
  BY <1>1 DEF Claim, Goto, HoldsInBatch
<1>c. PICK T \in SUBSET Claimable : SetRows(T, "loading", lid)
  <2>1. CASE UpdateClaim(lid, workload[q])
    BY <2>1 DEF UpdateClaim
  <2>2. CASE UNCHANGED table
    <3>1. SetRows({}, "loading", lid)
      BY <2>2 DEF SetRows, table
    <3> QED BY <3>1
  <2> QED BY <1>1, <2>1, <2>2
<1>d. \A j \in T : status[j] = "pending" /\ runs[j] = 0
  BY DEF Claimable, Pending, NewRows
<1>e. \A j \in Jobs : j \notin T => /\ status'[j] = status[j]
                                   /\ locked_queue_id'[j] = locked_queue_id[j]
                                   /\ locked_queue_id'[j] # lid
  BY <1>1, <1>c DEF SetRows, FreshLockId, LockedBy
<1>f. \A j \in T : status'[j] = "loading" /\ locked_queue_id'[j] = lid
  BY <1>c DEF SetRows, Claimable, Pending
<1>g. \A r \in Queues : \A j \in Held(r) : j \notin T /\ j \in Jobs
  BY <1>d DEF HeldIsLocked, Held, Rejected
<1>2. NewRows'
  BY <1>b, <1>e, <1>f DEF NewRows
<1>3. OwnLock'
  BY <1>1, <1>b DEF OwnLock, Goto, Claim
<1>4. HoldsInBatch'
  BY <1>b DEF HoldsInBatch
<1>5. HeldIsLocked'
  <2> SUFFICES ASSUME NEW r \in Queues, NEW j \in Held(r)'
               PROVE  \/ /\ locked_queue_id'[j] = lockid'[r]
                         /\ status'[j] \in {"loading", "processing"}
                      \/ Rejected(r, j)'
    BY DEF HeldIsLocked
  <2>1. j \in Held(r) /\ r # q
    BY <1>b DEF Held
  <2> QED BY <2>1, <1>b, <1>e, <1>g DEF HeldIsLocked, Rejected
<1>6. Exclusive'
  BY <1>b DEF Exclusive, Held
<1>7. JustClaimed'
  <2> SUFFICES ASSUME NEW r \in Queues, pc'[r] = "select", NEW j \in Jobs,
                      locked_queue_id'[j] = lockid'[r]
               PROVE  status'[j] = "loading" /\ runs'[j] = 0
    BY DEF JustClaimed
  <2>1. CASE r = q
    BY <2>1, <1>1, <1>b, <1>d, <1>e, <1>f DEF Goto
  <2>2. CASE r # q
    <3>1. lockid'[r] # lid
      BY <2>2, <1>a, <1>b DEF OwnLock
    <3> QED BY <2>2, <3>1, <1>b, <1>e, <1>f DEF JustClaimed
  <2> QED BY <2>1, <2>2
<1>8. HeldNotRun'
  <2> SUFFICES ASSUME NEW r \in Queues, NEW j \in Held(r)'
               PROVE  runs'[j] = 0 \/ (pc'[r] = "running" /\ IsOldest(j, batch'[r]))
    BY DEF HeldNotRun
  <2>1. j \in Held(r) /\ r # q
    BY <1>b DEF Held
  <2> QED BY <2>1, <1>b DEF HeldNotRun
<1>9. AtMostOnce'
  BY <1>b DEF AtMostOnce
<1> QED BY <1>2, <1>3, <1>4, <1>5, <1>6, <1>7, <1>8, <1>9

(* The SELECT hands a queue rows only its own claim has locked. *)
LEMMA SelectKeepsInv ==
  ASSUME TypeOK, Inv, NEW q \in Queues, Select(q)
  PROVE  Inv'
<1> USE DEF Inv, Holding, TypeOK, TableTypeOK
<1>a. /\ pc[q] = "select" /\ batch' = batch /\ runs' = runs
      /\ rows[q] = {} /\ batch[q] = {}
      /\ pc'[q] \in {"jobs", "check"}
      /\ \A r \in Queues : r # q => /\ pc'[r] = pc[r]
                                    /\ lockid'[r] = lockid[r]
                                    /\ rows'[r] = rows[r]
      /\ pc'[q] = "jobs" => lockid'[q] = lockid[q]
      /\ pc'[q] = "check" => lockid'[q] = Unlocked /\ rows'[q] = {}
      /\ status' = status
      /\ rows'[q] \subseteq {j \in Jobs : locked_queue_id[j] = lockid[q] /\ status[j] = "loading"}
  <2>1. HoldsInBatch
    OBVIOUS
  <2> QED BY <2>1 DEF Select, Goto, HoldsInBatch, Try, UpdateRelease, table, SelectLoading,
                OldestOf, LockedBy
<1>b. lockid[q] \in LockIds /\ lockid[q] # Unlocked
  <2>1. PICK s \in Stamps : lockid[q] = <<q, s>>
    BY <1>a DEF OwnLock
  <2> QED BY <2>1, QueueFacts, UnlockedAssumption
<1>c. \A r \in Queues : r # q => lockid[r] # lockid[q]
  BY <1>a, LocksDiffer
<1>d. \A j \in Jobs : locked_queue_id'[j] = locked_queue_id[j]
                      \/ /\ locked_queue_id[j] = lockid[q]
                         /\ locked_queue_id'[j] = Unlocked
                         /\ pc'[q] = "check"
  BY DEF Select, Goto, Try, UpdateRelease, LockedBy, table
<1>e. \A j \in Jobs : locked_queue_id[j] = lockid[q] => status[j] = "loading" /\ runs[j] = 0
  BY <1>a DEF JustClaimed
<1>2. NewRows'
  BY <1>a, <1>d, <1>e DEF NewRows
<1>3. OwnLock'
  BY <1>a DEF OwnLock
<1>4. HoldsInBatch'
  BY <1>a DEF HoldsInBatch
<1>5. HeldIsLocked'
  <2> SUFFICES ASSUME NEW r \in Queues, NEW j \in Held(r)'
               PROVE  \/ /\ locked_queue_id'[j] = lockid'[r]
                         /\ status'[j] \in {"loading", "processing"}
                      \/ Rejected(r, j)'
    BY DEF HeldIsLocked
  <2>1. CASE r = q
    BY <2>1, <1>a, <1>d DEF Held
  <2>2. CASE r # q
    <3>1. j \in Held(r) /\ j \in Jobs
      BY <2>2, <1>a DEF Held
    <3>2. locked_queue_id[j] # lockid[q]
      BY <3>1, <2>2, <1>b, <1>c DEF HeldIsLocked, Rejected
    <3> QED BY <2>2, <3>1, <3>2, <1>a, <1>d DEF HeldIsLocked, Rejected
  <2> QED BY <2>1, <2>2
<1>6. Exclusive'
  <2>1. \A r \in Queues : r # q => \A j \in Held(r) : ~(j \in rows'[q])
    BY <1>a, <1>b, <1>c DEF HeldIsLocked, Rejected
  <2> QED BY <2>1, <1>a DEF Exclusive, Held
<1>7. JustClaimed'
  BY <1>a, <1>b, <1>c, <1>d DEF JustClaimed
<1>8. HeldNotRun'
  BY <1>a, <1>e DEF HeldNotRun, Held
<1>9. AtMostOnce'
  BY <1>a DEF AtMostOnce
<1> QED BY <1>2, <1>3, <1>4, <1>5, <1>6, <1>7, <1>8, <1>9

(* What q says of a job it holds. *)
LockedOrRejected(q, j) ==
  \/ /\ locked_queue_id[j] = lockid[q]
     /\ status[j] \in {"loading", "processing"}
  \/ Rejected(q, j)

NotRunYet(q, j) == runs[j] = 0 \/ (pc[q] = "running" /\ IsOldest(j, batch[q]))

(* A queue that works on one row j of its batch, and changes nothing else  *)
(* in the table, does not disturb the other queues.                        *)
LEMMA OthersKeep ==
  ASSUME TypeOK, Inv,
         NEW q \in Queues, NEW j \in Held(q),
         pc[q] \in Holding, pc'[q] \in Holding, lockid' = lockid,
         rows'[q] \subseteq rows[q], batch'[q] \subseteq Held(q),
         \A r \in Queues :
           r # q => pc'[r] = pc[r] /\ rows'[r] = rows[r] /\ batch'[r] = batch[r],
         \A k \in Jobs :
           k # j => /\ status'[k] = status[k]
                    /\ locked_queue_id'[k] = locked_queue_id[k]
                    /\ runs'[k] = runs[k],
         status'[j] \notin {"absent", "pending"},
         locked_queue_id'[j] \in {locked_queue_id[j], Unlocked}
  PROVE  /\ NewRows' /\ OwnLock' /\ Exclusive' /\ JustClaimed'
         /\ \A r \in Queues : r # q => \A k \in Held(r)' :
              LockedOrRejected(r, k)' /\ NotRunYet(r, k)'
<1> USE DEF Inv, Holding, TypeOK, TableTypeOK
<1>a. j \in Jobs
  BY DEF Held
<1>b. locked_queue_id[j] \in {lockid[q], Unlocked}
  BY DEF HeldIsLocked, Rejected
<1>c. \A r \in Queues : r # q => lockid[r] # lockid[q] /\ j \notin Held(r)
  BY LocksDiffer DEF Exclusive
<1>1. NewRows'
  BY <1>a DEF NewRows
<1>2. OwnLock'
  BY DEF OwnLock
<1>3. Exclusive'
  <2>1. Held(q)' \subseteq Held(q) /\ \A r \in Queues : r # q => Held(r)' = Held(r)
    BY DEF Held
  <2> QED BY <2>1 DEF Exclusive
<1>4. JustClaimed'
  <2> SUFFICES ASSUME NEW r \in Queues, pc'[r] = "select", NEW k \in Jobs,
                      locked_queue_id'[k] = lockid'[r]
               PROVE  status'[k] = "loading" /\ runs'[k] = 0
    BY DEF JustClaimed
  <2>1. r # q /\ pc[r] = "select"
    OBVIOUS
  <2>2. lockid[r] # Unlocked
    BY <2>1, LocksDiffer
  <2>3. k # j
    BY <1>b, <1>c, <2>1, <2>2
  <2> QED BY <2>1, <2>3 DEF JustClaimed
<1>5. ASSUME NEW r \in Queues, r # q, NEW k \in Held(r)'
      PROVE  LockedOrRejected(r, k)' /\ NotRunYet(r, k)'
  <2>1. k \in Held(r) /\ k \in Jobs /\ k # j
    BY <1>5, <1>c DEF Held
  <2>2. LockedOrRejected(r, k) /\ NotRunYet(r, k)
    BY <2>1 DEF HeldIsLocked, HeldNotRun, LockedOrRejected, NotRunYet
  <2> QED BY <2>1, <2>2, <1>5 DEF LockedOrRejected, NotRunYet, Rejected
<1> QED BY <1>1, <1>2, <1>3, <1>4, <1>5

(* A statement that writes a result, tried, leaves j out of the queue. *)
LEMMA TriedResult ==
  ASSUME TypeOK, NEW j \in Jobs, NEW st \in {"complete", "error"},
         Try(UpdateResult(j, st))
  PROVE  /\ \A k \in Jobs : k # j => /\ status'[k] = status[k]
                                     /\ locked_queue_id'[k] = locked_queue_id[k]
         /\ \/ status'[j] = st /\ locked_queue_id'[j] = Unlocked
            \/ status'[j] = status[j] /\ locked_queue_id'[j] = locked_queue_id[j]
BY DEF TypeOK, TableTypeOK, Try, UpdateResult, SetRows, table

(* Making a Job object, or discarding the row, concerns a row in hand. *)
LEMMA CreateKeepsInv ==
  ASSUME TypeOK, Inv, NEW q \in Queues, NEW j \in Jobs, Create(q, j)
  PROVE  Inv'
<1> USE DEF Inv, Holding, TypeOK, TableTypeOK
<1>a. /\ pc[q] = "jobs" /\ IsOldest(j, rows[q]) /\ j \in rows[q] /\ j \in Held(q)
      /\ j \in Registered[WorkerOf(q)]
      /\ pc'[q] = "mark" /\ lockid' = lockid /\ rows' = rows /\ runs' = runs
      /\ \A r \in Queues : r # q => pc'[r] = pc[r] /\ batch'[r] = batch[r]
  BY DEF Create, Goto, IsOldest, Held
<1>b. locked_queue_id[j] = lockid[q] /\ status[j] \in {"loading", "processing"}
  BY <1>a DEF HeldIsLocked, Rejected
<1>c. \/ j \notin Uncreatable /\ batch'[q] = batch[q] \cup {j} /\ UNCHANGED table
      \/ /\ j \in Uncreatable /\ batch' = batch
         /\ Try(UpdateResult(j, "error")) \/ UNCHANGED table
  BY DEF Create, DiscardRow
<1>d. /\ \A k \in Jobs : k # j => /\ status'[k] = status[k]
                                  /\ locked_queue_id'[k] = locked_queue_id[k]
      /\ \/ status'[j] = status[j] /\ locked_queue_id'[j] = locked_queue_id[j]
         \/ j \in Uncreatable /\ status'[j] = "error" /\ locked_queue_id'[j] = Unlocked
  BY <1>c, TriedResult DEF table
<1>1. /\ NewRows' /\ OwnLock' /\ Exclusive' /\ JustClaimed'
      /\ \A r \in Queues : r # q => \A k \in Held(r)' :
           LockedOrRejected(r, k)' /\ NotRunYet(r, k)'
  <2>1. batch'[q] \subseteq Held(q)
    BY <1>a, <1>c DEF Held
  <2> QED BY <1>a, <1>b, <1>d, <2>1, OthersKeep
<1>2. HoldsInBatch'
  BY <1>a, <1>c DEF HoldsInBatch
<1>3. ASSUME NEW k \in Held(q)' PROVE LockedOrRejected(q, k)' /\ NotRunYet(q, k)'
  <2>1. k \in Held(q) /\ k \in Jobs
    BY <1>a, <1>c DEF Held
  <2>2. runs'[k] = 0
    BY <2>1, <1>a DEF HeldNotRun
  <2>3. locked_queue_id[k] = lockid[q] /\ status[k] \in {"loading", "processing"}
    BY <2>1, <1>a DEF HeldIsLocked, Rejected
  <2> QED BY <2>1, <2>2, <2>3, <1>a, <1>d DEF LockedOrRejected, NotRunYet, Rejected
<1>4. AtMostOnce'
  BY <1>a DEF AtMostOnce
<1>5. HeldIsLocked'
  BY <1>1, <1>3 DEF HeldIsLocked, LockedOrRejected
<1>6. HeldNotRun'
  BY <1>1, <1>3 DEF HeldNotRun, NotRunYet
<1> QED BY <1>1, <1>2, <1>4, <1>5, <1>6

(* Setting a row to processing concerns a row in hand. *)
LEMMA MarkKeepsInv ==
  ASSUME TypeOK, Inv, NEW q \in Queues, NEW j \in Jobs, Mark(q, j)
  PROVE  Inv'
<1> USE DEF Inv, Holding, TypeOK, TableTypeOK
<1>a. /\ pc[q] = "mark" /\ IsOldest(j, rows[q]) /\ j \in rows[q] /\ j \in Held(q)
      /\ pc'[q] = "jobs" /\ lockid' = lockid /\ batch' = batch /\ runs' = runs
      /\ rows'[q] = rows[q] \ {j}
      /\ \A r \in Queues : r # q => pc'[r] = pc[r] /\ rows'[r] = rows[r]
  BY DEF Mark, Goto, IsOldest, Held
<1>b. /\ locked_queue_id' = locked_queue_id
      /\ \A k \in Jobs : k # j => status'[k] = status[k]
      /\ status'[j] \in {status[j], "processing"}
  BY DEF Mark, Try, UpdateProcessing, table
<1>1. /\ NewRows' /\ OwnLock' /\ Exclusive' /\ JustClaimed'
      /\ \A r \in Queues : r # q => \A k \in Held(r)' :
           LockedOrRejected(r, k)' /\ NotRunYet(r, k)'
  <2>1. batch'[q] \subseteq Held(q)
    BY <1>a DEF Held
  <2>2. status[j] \notin {"absent", "pending"}
    BY <1>a DEF HeldIsLocked, Rejected
  <2> QED BY <1>a, <1>b, <2>1, <2>2, OthersKeep
<1>2. HoldsInBatch'
  BY <1>a DEF HoldsInBatch
<1>3. ASSUME NEW k \in Held(q)' PROVE LockedOrRejected(q, k)' /\ NotRunYet(q, k)'
  <2>1. k \in Held(q) /\ k \in Jobs
    BY <1>a DEF Held
  <2>2. runs'[k] = 0
    BY <2>1, <1>a DEF HeldNotRun
  <2>3. ~Rejected(q, k)
    <3>1. CASE k \in batch[q]
      BY <3>1 DEF HoldsInBatch, Rejected
    <3>2. CASE k \in rows[q] /\ k # j
      BY <3>2, <1>a, OldestUnique DEF Rejected
    <3> QED BY <1>a, <3>1, <3>2 DEF Held
  <2>4. locked_queue_id[k] = lockid[q] /\ status[k] \in {"loading", "processing"}
    BY <2>1, <2>3 DEF HeldIsLocked
  <2> QED BY <2>1, <2>2, <2>4, <1>a, <1>b DEF LockedOrRejected, NotRunYet
<1>4. AtMostOnce'
  BY <1>a DEF AtMostOnce
<1>5. HeldIsLocked'
  BY <1>1, <1>3 DEF HeldIsLocked, LockedOrRejected
<1>6. HeldNotRun'
  BY <1>1, <1>3 DEF HeldNotRun, NotRunYet
<1> QED BY <1>1, <1>2, <1>4, <1>5, <1>6

(* Passing over a row of an unknown type concerns a row in hand. *)
LEMMA UnknownKeepsInv ==
  ASSUME TypeOK, Inv, NEW q \in Queues, NEW j \in Jobs, Unknown(q, j)
  PROVE  Inv'
<1> USE DEF Inv, Holding, TypeOK, TableTypeOK
<1>a. /\ pc[q] = "jobs" /\ IsOldest(j, rows[q]) /\ j \in rows[q] /\ j \in Held(q)
      /\ pc' = pc /\ lockid' = lockid /\ batch' = batch /\ runs' = runs
      /\ rows'[q] = rows[q] \ {j} /\ j \notin batch[q]
      /\ \A r \in Queues : r # q => rows'[r] = rows[r]
  BY DEF Unknown, IsOldest, Held, HoldsInBatch
<1>b. /\ \A k \in Jobs : k # j => /\ status'[k] = status[k]
                                  /\ locked_queue_id'[k] = locked_queue_id[k]
      /\ \/ status'[j] = status[j] /\ locked_queue_id'[j] = locked_queue_id[j]
         \/ status'[j] = "error" /\ locked_queue_id'[j] = Unlocked
  BY TriedResult DEF Unknown, DiscardRow, table
<1>1. /\ NewRows' /\ OwnLock' /\ Exclusive' /\ JustClaimed'
      /\ \A r \in Queues : r # q => \A k \in Held(r)' :
           LockedOrRejected(r, k)' /\ NotRunYet(r, k)'
  <2>1. batch'[q] \subseteq Held(q)
    BY <1>a DEF Held
  <2>2. status[j] \notin {"absent", "pending"}
    BY <1>a DEF HeldIsLocked, Rejected
  <2> QED BY <1>a, <1>b, <2>1, <2>2, OthersKeep
<1>2. HoldsInBatch'
  BY <1>a DEF HoldsInBatch
<1>3. ASSUME NEW k \in Held(q)' PROVE LockedOrRejected(q, k)' /\ NotRunYet(q, k)'
  <2>1. k \in Held(q) /\ k \in Jobs /\ k # j
    BY <1>a DEF Held
  <2>2. LockedOrRejected(q, k) /\ ~Rejected(q, k) /\ NotRunYet(q, k)
    BY <2>1, <1>a DEF HeldIsLocked, HeldNotRun, LockedOrRejected, NotRunYet, Rejected
  <2> QED BY <2>1, <2>2, <1>a, <1>b DEF LockedOrRejected, NotRunYet
<1>4. AtMostOnce'
  BY <1>a DEF AtMostOnce
<1>5. HeldIsLocked'
  BY <1>1, <1>3 DEF HeldIsLocked, LockedOrRejected
<1>6. HeldNotRun'
  BY <1>1, <1>3 DEF HeldNotRun, NotRunYet
<1> QED BY <1>1, <1>2, <1>4, <1>5, <1>6

(* A job is started from a batch, where it has not run before. *)
LEMMA ExecuteKeepsInv ==
  ASSUME TypeOK, Inv, NEW q \in Queues, NEW j \in Jobs, Execute(q, j)
  PROVE  Inv'
<1> USE DEF Inv, Holding, TypeOK, TableTypeOK
<1>a. /\ pc[q] = "jobs" /\ IsOldest(j, batch[q]) /\ j \in batch[q] /\ j \in Held(q)
      /\ pc'[q] = "running" /\ lockid' = lockid /\ batch' = batch /\ rows' = rows
      /\ rows[q] = {} /\ status' = status /\ locked_queue_id' = locked_queue_id
      /\ \A r \in Queues : r # q => pc'[r] = pc[r]
      /\ \A k \in Jobs : k # j => runs'[k] = runs[k]
  BY DEF Execute, Goto, IsOldest, Held, table
<1>b. locked_queue_id[j] = lockid[q] /\ status[j] \in {"loading", "processing"}
  BY <1>a DEF HeldIsLocked, Rejected
<1>c. runs[j] = 0 /\ runs'[j] = 1
  <2>1. runs[j] = 0
    BY <1>a DEF HeldNotRun
  <2> QED BY <2>1 DEF Execute
<1>1. /\ NewRows' /\ OwnLock' /\ Exclusive' /\ JustClaimed'
      /\ \A r \in Queues : r # q => \A k \in Held(r)' :
           LockedOrRejected(r, k)' /\ NotRunYet(r, k)'
  <2>1. batch'[q] \subseteq Held(q)
    BY <1>a DEF Held
  <2> QED BY <1>a, <1>b, <2>1, OthersKeep
<1>2. HoldsInBatch'
  BY <1>a DEF HoldsInBatch
<1>3. ASSUME NEW k \in Held(q)' PROVE LockedOrRejected(q, k)' /\ NotRunYet(q, k)'
  <2>1. k \in Held(q) /\ k \in Jobs /\ k \in batch[q]
    BY <1>a DEF Held
  <2>2. locked_queue_id[k] = lockid[q] /\ status[k] \in {"loading", "processing"}
    BY <2>1, <1>a DEF HeldIsLocked, Rejected
  <2>3. k # j => runs[k] = 0
    BY <2>1, <1>a DEF HeldNotRun
  <2> QED BY <2>1, <2>2, <2>3, <1>a DEF LockedOrRejected, NotRunYet
<1>4. AtMostOnce'
  BY <1>a, <1>c DEF AtMostOnce
<1>5. HeldIsLocked'
  BY <1>1, <1>3 DEF HeldIsLocked, LockedOrRejected
<1>6. HeldNotRun'
  BY <1>1, <1>3 DEF HeldNotRun, NotRunYet
<1> QED BY <1>1, <1>2, <1>4, <1>5, <1>6

(* Writing a result, or failing to, ends the hold on the job. *)
LEMMA FinishKeepsInv ==
  ASSUME TypeOK, Inv, NEW q \in Queues, NEW j \in Jobs, Finish(q, j)
  PROVE  Inv'
<1> USE DEF Inv, Holding, TypeOK, TableTypeOK
<1>a. /\ pc[q] = "running" /\ IsOldest(j, batch[q]) /\ j \in batch[q] /\ j \in Held(q)
      /\ pc'[q] = "jobs" /\ lockid' = lockid /\ rows' = rows /\ runs' = runs
      /\ rows[q] = {} /\ batch'[q] = batch[q] \ {j}
      /\ \A r \in Queues : r # q => pc'[r] = pc[r] /\ batch'[r] = batch[r]
  BY DEF Finish, Goto, IsOldest, Held, HoldsInBatch
<1>b. /\ \A k \in Jobs : k # j => /\ status'[k] = status[k]
                                  /\ locked_queue_id'[k] = locked_queue_id[k]
      /\ \/ status'[j] = status[j] /\ locked_queue_id'[j] = locked_queue_id[j]
         \/ status'[j] \in {"complete", "error"} /\ locked_queue_id'[j] = Unlocked
  BY TriedResult DEF Finish
<1>1. /\ NewRows' /\ OwnLock' /\ Exclusive' /\ JustClaimed'
      /\ \A r \in Queues : r # q => \A k \in Held(r)' :
           LockedOrRejected(r, k)' /\ NotRunYet(r, k)'
  <2>1. batch'[q] \subseteq Held(q)
    BY <1>a DEF Held
  <2>2. status[j] \notin {"absent", "pending"}
    BY <1>a DEF HeldIsLocked, Rejected
  <2> QED BY <1>a, <1>b, <2>1, <2>2, OthersKeep
<1>2. HoldsInBatch'
  BY <1>a DEF HoldsInBatch
<1>3. ASSUME NEW k \in Held(q)' PROVE LockedOrRejected(q, k)' /\ NotRunYet(q, k)'
  <2>1. k \in Held(q) /\ k \in Jobs /\ k \in batch[q] /\ k # j
    BY <1>a DEF Held
  <2>2. locked_queue_id[k] = lockid[q] /\ status[k] \in {"loading", "processing"}
    BY <2>1, <1>a DEF HeldIsLocked, Rejected
  <2>3. runs[k] = 0
    BY <2>1, <1>a, OldestUnique DEF HeldNotRun
  <2> QED BY <2>1, <2>2, <2>3, <1>a, <1>b DEF LockedOrRejected, NotRunYet
<1>4. AtMostOnce'
  BY <1>a DEF AtMostOnce
<1>5. HeldIsLocked'
  BY <1>1, <1>3 DEF HeldIsLocked, LockedOrRejected
<1>6. HeldNotRun'
  BY <1>1, <1>3 DEF HeldNotRun, NotRunYet
<1> QED BY <1>1, <1>2, <1>4, <1>5, <1>6

(* Queues that lose their memory and are left holding nothing, the table   *)
(* being untouched: the end of a batch, a crash, a restart.                *)
LEMMA ForgettingKeepsInv ==
  ASSUME TypeOK, Inv, NEW Q \in SUBSET Queues,
         UNCHANGED <<table, runs>>,
         \A q \in Q : /\ pc'[q] \notin Holding \cup {"select"}
                      /\ lockid'[q] = Unlocked /\ rows'[q] = {} /\ batch'[q] = {},
         \A q \in Queues \ Q : /\ pc'[q] = pc[q] /\ lockid'[q] = lockid[q]
                               /\ rows'[q] = rows[q] /\ batch'[q] = batch[q]
  PROVE  Inv'
<1> USE DEF Inv, Holding, table
<1>1. NewRows'
  BY DEF NewRows
<1>2. OwnLock'
  BY DEF OwnLock
<1>3. HoldsInBatch'
  BY DEF HoldsInBatch
<1>4. HeldIsLocked'
  BY DEF HeldIsLocked, Held, Rejected
<1>5. Exclusive'
  BY DEF Exclusive, Held
<1>6. JustClaimed'
  BY DEF JustClaimed
<1>7. HeldNotRun'
  BY DEF HeldNotRun, Held
<1>8. AtMostOnce'
  BY DEF AtMostOnce
<1> QED BY <1>1, <1>2, <1>3, <1>4, <1>5, <1>6, <1>7, <1>8

(* A new row is in nobody's hands. *)
LEMMA SubmitKeepsInv ==
  ASSUME TypeOK, Inv, NEW j \in Jobs, Submit(j)
  PROVE  Inv'
<1> USE DEF Inv, Holding, TypeOK, TableTypeOK
<1>a. /\ UNCHANGED <<pc, lockid, rows, batch, runs>>
      /\ status[j] = "absent" /\ status'[j] = "pending" /\ locked_queue_id'[j] = Unlocked
      /\ \A k \in Jobs : k # j => /\ status'[k] = status[k]
                                  /\ locked_queue_id'[k] = locked_queue_id[k]
  BY DEF Submit, Insert, SetRows, local
<1>b. \A q \in Queues : \A k \in Held(q) : k \in Jobs /\ k # j
  BY <1>a DEF HeldIsLocked, Rejected, Held
<1>c. \A q \in Queues : pc[q] = "select" => lockid[q] # Unlocked
  <2> SUFFICES ASSUME NEW q \in Queues, pc[q] = "select" PROVE lockid[q] # Unlocked
    OBVIOUS
  <2>1. PICK s \in Stamps : lockid[q] = <<q, s>>
    BY DEF OwnLock
  <2> QED BY <2>1, QueueFacts, UnlockedAssumption
<1>1. NewRows'
  BY <1>a DEF NewRows
<1>2. OwnLock'
  BY <1>a DEF OwnLock
<1>3. HoldsInBatch'
  BY <1>a DEF HoldsInBatch
<1>4. HeldIsLocked'
  BY <1>a, <1>b DEF HeldIsLocked, Held, Rejected
<1>5. Exclusive'
  BY <1>a DEF Exclusive, Held
<1>6. JustClaimed'
  BY <1>a, <1>c DEF JustClaimed
<1>7. HeldNotRun'
  BY <1>a DEF HeldNotRun, Held
<1>8. AtMostOnce'
  BY <1>a DEF AtMostOnce
<1> QED BY <1>1, <1>2, <1>3, <1>4, <1>5, <1>6, <1>7, <1>8

(* The inductive invariant holds before anything has happened. *)
LEMMA InvInitially == Init => Inv
BY DEF Init, TableInit, Inv, NewRows, OwnLock, HoldsInBatch, HeldIsLocked, Exclusive,
       JustClaimed, HeldNotRun, AtMostOnce, Held, Holding

(* Every step preserves the inductive invariant. *)
LEMMA InvInductive == TypeOK /\ Inv /\ [Next]_vars => Inv'
<1> SUFFICES ASSUME TypeOK, Inv, [Next]_vars PROVE Inv'
  OBVIOUS
<1> USE DEF Goto, Holding
<1>1. ASSUME NEW q \in Queues, Thread(q) PROVE Inv'
  <2>1. CASE Check(q)
    BY <2>1, QuietStep DEF Check, TypeOK
  <2>2. CASE PopWork(q)
    BY <2>2, QuietStep DEF PopWork, TypeOK
  <2>3. CASE PopStop(q)
    BY <2>3, QuietStep DEF PopStop, TypeOK
  <2>4. CASE PopNothing(q)
    BY <2>4, QuietStep DEF PopNothing, TypeOK, local
  <2>5. CASE BatchDone(q)
    <3> DEFINE Q == {q}
    <3>1. \A r \in Q : /\ pc'[r] \notin Holding \cup {"select"}
                       /\ lockid'[r] = Unlocked /\ rows'[r] = {} /\ batch'[r] = {}
      BY <2>5 DEF BatchDone, TypeOK
    <3>2. \A r \in Queues \ Q : /\ pc'[r] = pc[r] /\ lockid'[r] = lockid[r]
                                /\ rows'[r] = rows[r] /\ batch'[r] = batch[r]
      BY <2>5 DEF BatchDone, TypeOK
    <3>3. UNCHANGED <<table, runs>>
      BY <2>5 DEF BatchDone
    <3>4. Q \in SUBSET Queues
      OBVIOUS
    <3> HIDE DEF Q
    <3> QED BY <3>1, <3>2, <3>3, <3>4, ForgettingKeepsInv
  <2> QED BY <1>1, <2>1, <2>2, <2>3, <2>4, <2>5, ClaimKeepsInv, SelectKeepsInv,
             CreateKeepsInv, MarkKeepsInv, UnknownKeepsInv, ExecuteKeepsInv,
             FinishKeepsInv DEF Thread
<1>2. ASSUME NEW q \in Queues, SendWork(q) PROVE Inv'
  BY <1>2, QuietStep DEF SendWork
<1>3. ASSUME NEW q \in Queues, SendStop(q) PROVE Inv'
  BY <1>3, QuietStep DEF SendStop
<1>4. ASSUME NEW w \in Workers, Shutdown(w) PROVE Inv'
  BY <1>4, QuietStep DEF Shutdown
<1>5. ASSUME NEW w \in Workers, Crash(w) \/ Restart(w) PROVE Inv'
  <2>1. Of(w) \in SUBSET Queues
    BY DEF Of
  <2>2. \A r \in Of(w) : /\ pc'[r] \notin Holding \cup {"select"}
                         /\ lockid'[r] = Unlocked /\ rows'[r] = {} /\ batch'[r] = {}
    BY <1>5, <2>1 DEF Crash, Restart, Forget
  <2>3. \A r \in Queues \ Of(w) : /\ pc'[r] = pc[r] /\ lockid'[r] = lockid[r]
                                  /\ rows'[r] = rows[r] /\ batch'[r] = batch[r]
    BY <1>5 DEF Crash, Restart, Forget
  <2>4. UNCHANGED <<table, runs>>
    BY <1>5 DEF Crash, Restart
  <2> QED BY <2>1, <2>2, <2>3, <2>4, ForgettingKeepsInv
<1>6. CASE UNCHANGED vars
  BY <1>6, QuietStep DEF vars, table
<1> QED BY <1>1, <1>2, <1>3, <1>4, <1>5, <1>6, SubmitKeepsInv DEF Next

(* The inductive invariant holds in every reachable state. *)
THEOREM Invariance == Spec => []Inv
BY InvInitially, InvInductive, TypeCorrect, PTL DEF Spec

(* No job is executed twice: not by two threads, not by two processes, not *)
(* after a failed statement, not after a crash and a restart of workqd.    *)
THEOREM NoJobRunsTwice == Spec => []AtMostOnce
<1>1. Inv => AtMostOnce
  BY DEF Inv
<1> QED BY <1>1, Invariance, PTL

(* No two threads ever hold the same job. *)
THEOREM MutualExclusion == Spec => []Exclusive
<1>1. Inv => Exclusive
  BY DEF Inv
<1> QED BY <1>1, Invariance, PTL

(* What a thread holds is locked for it in the table. *)
THEOREM HeldJobsAreLocked == Spec => []HeldIsLocked
<1>1. Inv => HeldIsLocked
  BY DEF Inv
<1> QED BY <1>1, Invariance, PTL

-----------------------------------------------------------------------------
(* The work messages that cover a batch                                    *)

Covered ==
  \A q \in Queues :
    /\ pc[q] = "pop" => workload[q] = 0
    /\ pc[q] \in {"drain", "claim", "select"} => workload[q] >= 1
    /\ pc[q] \in Holding => Cardinality(Held(q)) <= workload[q]

(* Smaller sets of jobs have smaller cardinalities. *)
LEMMA JobSets ==
  ASSUME NEW S \in SUBSET Jobs
  PROVE  /\ IsFiniteSet(S) /\ Cardinality(S) \in Nat
         /\ \A T \in SUBSET S : Cardinality(T) <= Cardinality(S)
         /\ \A j \in S : Cardinality(S \ {j}) = Cardinality(S) - 1
<1>1. IsFiniteSet(S)
  BY JobsAssumption, FS_Subset
<1>2. Cardinality(S) \in Nat
  BY <1>1, FS_CardinalityType
<1>3. \A T \in SUBSET S : Cardinality(T) <= Cardinality(S)
  BY <1>1, FS_Subset
<1>4. \A j \in S : Cardinality(S \ {j}) = Cardinality(S) - 1
  BY <1>1, FS_RemoveElement
<1> QED BY <1>1, <1>2, <1>3, <1>4

(* Every step preserves the cover of a batch by work messages. *)
LEMMA CoveredInductive ==
  ASSUME TypeOK, Inv, Covered, [Next]_vars
  PROVE  Covered'
<1> USE DEF Holding
<1> DEFINE
      CoveredAt(q) ==
        /\ pc[q] = "pop" => workload[q] = 0
        /\ pc[q] \in {"drain", "claim", "select"} => workload[q] >= 1
        /\ pc[q] \in Holding => Cardinality(Held(q)) <= workload[q]
<1>0. \A q \in Queues : Held(q) \in SUBSET Jobs
  BY DEF TypeOK, Held
<1>1. ASSUME NEW q \in Queues, pc'[q] = pc[q], workload'[q] = workload[q],
             rows'[q] = rows[q], batch'[q] = batch[q]
      PROVE  CoveredAt(q)'
  BY <1>1 DEF Covered, Held
<1>2. ASSUME NEW q \in Queues, Thread(q) PROVE Covered'
  <2>1. \A r \in Queues : r # q => CoveredAt(r)'
    <3> SUFFICES ASSUME NEW r \in Queues, r # q
                 PROVE  /\ pc'[r] = pc[r] /\ workload'[r] = workload[r]
                        /\ rows'[r] = rows[r] /\ batch'[r] = batch[r]
      BY <1>1
    <3> QED BY <1>2 DEF Thread, Check, PopWork, PopStop, PopNothing, Claim, Select, Create,
                Mark, Unknown, Execute, Finish, BatchDone, Goto, local, TypeOK
  <2>2. CoveredAt(q)'
    <3> USE DEF TypeOK, Goto, Covered
    <3>1. CASE Check(q) \/ BatchDone(q)
      BY <3>1 DEF Check, BatchDone
    <3>2. CASE PopWork(q)
      BY <3>2 DEF PopWork
    <3>3. CASE PopStop(q)
      BY <3>3 DEF PopStop
    <3>4. CASE PopNothing(q)
      BY <3>4 DEF PopNothing, local
    <3>5. CASE Claim(q)
      BY <3>5 DEF Claim
    <3>6. CASE Select(q)
      <4>1. pc[q] = "select" /\ batch'[q] = {} /\ rows[q] = {} /\ workload' = workload
        BY <3>6 DEF Select, Inv, HoldsInBatch
      <4>2. \/ Cardinality(rows'[q]) <= workload[q] /\ pc'[q] = "jobs"
            \/ rows'[q] = {} /\ pc'[q] = "jobs"
            \/ pc'[q] = "check"
        BY <3>6, <4>1 DEF Select, SelectLoading, OldestOf
      <4>3. Held(q)' = rows'[q]
        BY <4>1 DEF Held
      <4>4. Cardinality({}) = 0
        BY FS_EmptySet
      <4>5. workload[q] \in Int /\ workload[q] >= 1
        BY <4>1
      <4>6. rows'[q] = {} => Cardinality(rows'[q]) <= workload[q]
        BY <4>4, <4>5
      <4>7. pc'[q] = "jobs" => Cardinality(rows'[q]) <= workload[q]
        BY <4>2, <4>6
      <4>8. pc'[q] = "jobs" => Cardinality(Held(q)') <= workload'[q]
        BY <4>1, <4>3, <4>7, Zenon
      <4> QED BY <4>2, <4>8
    <3>7. ASSUME NEW j \in Jobs, Create(q, j) PROVE CoveredAt(q)'
      <4>1. Held(q)' = Held(q) /\ pc[q] = "jobs" /\ pc'[q] = "mark" /\ workload' = workload
        BY <3>7 DEF Create, Held, IsOldest
      <4> QED BY <4>1
    <3>8. ASSUME NEW j \in Jobs, Mark(q, j) \/ Unknown(q, j) PROVE CoveredAt(q)'
      <4>1. /\ Held(q)' \in SUBSET Held(q) /\ workload' = workload
            /\ pc[q] \in {"mark", "jobs"} /\ pc'[q] = "jobs"
        BY <3>8 DEF Mark, Unknown, Held
      <4>2. /\ Cardinality(Held(q)') <= Cardinality(Held(q))
            /\ Cardinality(Held(q)') \in Nat /\ Cardinality(Held(q)) \in Nat
        <5>1. Held(q)' \in SUBSET Jobs
          BY <4>1, <1>0
        <5> QED BY <4>1, <5>1, <1>0, JobSets
      <4> QED BY <4>1, <4>2
    <3>9. ASSUME NEW j \in Jobs, Execute(q, j) PROVE CoveredAt(q)'
      BY <3>9 DEF Execute, Held
    <3>10. ASSUME NEW j \in Jobs, Finish(q, j) PROVE CoveredAt(q)'
      <4>1. /\ Held(q)' = Held(q) \ {j} /\ j \in Held(q) /\ workload'[q] = workload[q] - 1
            /\ pc[q] = "running" /\ pc'[q] = "jobs"
        BY <3>10 DEF Finish, Held, IsOldest, Inv, HoldsInBatch
      <4>2. Cardinality(Held(q)') = Cardinality(Held(q)) - 1 /\ Cardinality(Held(q)) \in Nat
        BY <4>1, <1>0, JobSets
      <4> QED BY <4>1, <4>2
    <3> QED BY <1>2, <3>1, <3>2, <3>3, <3>4, <3>5, <3>6, <3>7, <3>8, <3>9, <3>10 DEF Thread
  <2> QED BY <2>1, <2>2 DEF Covered
<1>3. ASSUME NEW w \in Workers, Crash(w) \/ Restart(w) PROVE Covered'
  <2> SUFFICES ASSUME NEW q \in Queues PROVE CoveredAt(q)'
    BY DEF Covered
  <2>1. CASE q \in Of(w)
    BY <1>3, <2>1 DEF Crash, Restart, Forget
  <2>2. CASE q \notin Of(w)
    BY <1>1, <1>3, <2>2 DEF Crash, Restart, Forget
  <2> QED BY <2>1, <2>2
<1>4. CASE UNCHANGED <<pc, workload, rows, batch>>
  BY <1>1, <1>4 DEF Covered
<1>5. ASSUME NEW q \in Queues, SendWork(q) \/ SendStop(q)
      PROVE  UNCHANGED <<pc, workload, rows, batch>>
  BY <1>5 DEF SendWork, SendStop
<1>6. ASSUME NEW w \in Workers, Shutdown(w) PROVE UNCHANGED <<pc, workload, rows, batch>>
  BY <1>6 DEF Shutdown
<1>7. ASSUME NEW j \in Jobs, Submit(j) PROVE UNCHANGED <<pc, workload, rows, batch>>
  BY <1>7 DEF Submit, local
<1> QED BY <1>2, <1>3, <1>4, <1>5, <1>6, <1>7 DEF Next, vars

(* The cover holds in every reachable state. *)
THEOREM CoveredAlways == Spec => []Covered
<1>1. Init => Covered
  BY DEF Init, Covered, Holding
<1>2. TypeOK /\ Inv /\ Covered /\ [Next]_vars => Covered'
  BY CoveredInductive
<1> QED BY <1>1, <1>2, TypeCorrect, Invariance, PTL DEF Spec

(* The jobs of a batch never outnumber the work messages left to pay for   *)
(* them.                                                                   *)
THEOREM BatchIsCovered == Spec => []WorkloadCovers
<1>1. Covered => WorkloadCovers
  BY DEF Covered, WorkloadCovers, Holding
<1> QED BY <1>1, CoveredAlways, PTL
=============================================================================
