----------------------------- MODULE LeaseProofs -----------------------------
(***************************************************************************)
(* WorkQueue implements JobLease: the initial states map to initial states *)
(* and every step maps to a lease, a start, a retirement, a submission or  *)
(* nothing at all.                                                         *)
(***************************************************************************)
EXTENDS WorkQueueProofs

(* Steps that leave the columns and the history alone are invisible. *)
LEMMA InvisibleStep ==
  ASSUME UNCHANGED <<table, runs>>
  PROVE  UNCHANGED Contract!vars
BY DEF Contract!vars, LeasePhase, LeaseHolder, table

(* A queue that unlocks rows carrying its own lock retires them. *)
LEMMA RetireStep ==
  ASSUME NEW q \in Queues, NEW S \in SUBSET Jobs, UNCHANGED runs,
         \A j \in S : /\ locked_queue_id[j] # Unlocked /\ locked_queue_id[j][1] = q
                      /\ status[j] \notin {"absent", "pending"}
                      /\ locked_queue_id'[j] = Unlocked
                      /\ status'[j] \notin {"absent", "pending"},
         \A j \in Jobs \ S : /\ locked_queue_id'[j] = locked_queue_id[j]
                             /\ status'[j] = status[j]
  PROVE  Contract!Next
<1>1. Contract!Retire(q, S)
  BY DEF Contract!Retire, Contract!Move, LeasePhase, LeaseHolder
<1> QED BY <1>1 DEF Contract!Next

(* A lock string of q, which q holds, is not empty and names q. *)
LEMMA OwnLockNames ==
  ASSUME Inv, NEW q \in Queues, pc[q] \in Holding \cup {"select"}
  PROVE  lockid[q] # Unlocked /\ lockid[q][1] = q
<1>1. PICK s \in Stamps : lockid[q] = <<q, s>>
  BY DEF Inv, OwnLock
<1> QED BY <1>1, QueueFacts, UnlockedAssumption

(* Writing a result for a job in hand, tried, retires it or does nothing. *)
LEMMA ResultStep ==
  ASSUME TypeOK, Inv, NEW q \in Queues, NEW j \in Held(q),
         pc[q] \in {"jobs", "running"}, UNCHANGED runs,
         NEW st \in {"complete", "error"}, Try(UpdateResult(j, st))
  PROVE  [Contract!Next]_(Contract!vars)
<1>0. j \in Jobs
  BY DEF TypeOK, Held
<1>1. locked_queue_id[j] = lockid[q] /\ status[j] \in {"loading", "processing"}
  BY DEF Inv, HeldIsLocked, Rejected
<1>2. lockid[q] # Unlocked /\ lockid[q][1] = q
  BY OwnLockNames DEF Holding
<1>3. CASE UNCHANGED table
  BY <1>3, InvisibleStep
<1>4. CASE UpdateResult(j, st)
  <2>1. /\ locked_queue_id'[j] = Unlocked /\ status'[j] = st
        /\ \A k \in Jobs \ {j} : /\ locked_queue_id'[k] = locked_queue_id[k]
                                 /\ status'[k] = status[k]
    BY <1>0, <1>4 DEF UpdateResult, SetRows
  <2> DEFINE S == {j}
  <2>2. S \in SUBSET Jobs /\ \A k \in S : k = j
    BY <1>0
  <2>3. \A k \in Jobs \ S : k \in Jobs \ {j}
    OBVIOUS
  <2> HIDE DEF S
  <2> QED BY <1>1, <1>2, <2>1, <2>2, <2>3, RetireStep
<1> QED BY <1>3, <1>4 DEF Try

(* An empty table is a lease with no jobs. *)
LEMMA LeaseInitially == Init => Contract!Init
BY DEF Init, TableInit, Contract!Init, LeasePhase, LeaseHolder

(* Every step of the threads is a step of the lease, or invisible. *)
LEMMA LeaseStep ==
  ASSUME TypeOK, Inv, [Next]_vars
  PROVE  [Contract!Next]_(Contract!vars)
<1>1. ASSUME NEW q \in Queues, Claim(q) PROVE [Contract!Next]_(Contract!vars)
  <2>1. PICK s \in Stamps : UpdateClaim(<<q, s>>, workload[q]) \/ UNCHANGED table
    BY <1>1 DEF Claim
  <2>2. UNCHANGED runs
    BY <1>1 DEF Claim
  <2>3. CASE UNCHANGED table
    BY <2>2, <2>3, InvisibleStep
  <2>4. CASE UpdateClaim(<<q, s>>, workload[q])
    <3>1. PICK T \in SUBSET Claimable : SetRows(T, "loading", <<q, s>>)
      BY <2>4 DEF UpdateClaim
    <3>2. T \in SUBSET Jobs /\ \A j \in T : status[j] = "pending"
      BY DEF Claimable, Pending
    <3>3. <<q, s>> # Unlocked
      BY QueueFacts, UnlockedAssumption
    <3>4. Contract!Lease(q, T)
      BY <2>2, <3>1, <3>2, <3>3
         DEF SetRows, Contract!Lease, Contract!Move, LeasePhase, LeaseHolder
    <3> QED BY <3>2, <3>4 DEF Contract!Next
  <2> QED BY <2>1, <2>3, <2>4
<1>2. ASSUME NEW q \in Queues, Select(q) PROVE [Contract!Next]_(Contract!vars)
  <2>1. UNCHANGED runs /\ pc[q] = "select"
    BY <1>2 DEF Select
  <2>2. CASE UNCHANGED table
    BY <2>1, <2>2, InvisibleStep
  <2>3. CASE UpdateRelease(lockid[q])
    <3> DEFINE S == {j \in Jobs : locked_queue_id[j] = lockid[q]}
    <3>1. \A j \in S : status[j] = "loading"
      BY <2>1 DEF Inv, JustClaimed
    <3>2. lockid[q] # Unlocked /\ lockid[q][1] = q
      BY <2>1, OwnLockNames
    <3>3. /\ status' = status
          /\ \A j \in S : locked_queue_id'[j] = Unlocked
          /\ \A j \in Jobs \ S : locked_queue_id'[j] = locked_queue_id[j]
      BY <2>3, <3>1 DEF UpdateRelease, LockedBy
    <3>4. S \in SUBSET Jobs /\ \A j \in S : locked_queue_id[j] = lockid[q]
      OBVIOUS
    <3> HIDE DEF S
    <3> QED BY <2>1, <3>1, <3>2, <3>3, <3>4, RetireStep
  <2> QED BY <1>2, <2>2, <2>3 DEF Select, Try, table
<1>3. ASSUME NEW q \in Queues, NEW j \in Jobs, Create(q, j) \/ Unknown(q, j)
      PROVE  [Contract!Next]_(Contract!vars)
  <2>1. j \in Held(q) /\ pc[q] = "jobs" /\ UNCHANGED runs
    BY <1>3 DEF Create, Unknown, Held, IsOldest
  <2>2. Try(UpdateResult(j, "error")) \/ UNCHANGED table
    BY <1>3 DEF Create, Unknown, DiscardRow
  <2> QED BY <2>1, <2>2, ResultStep, InvisibleStep
<1>4. ASSUME NEW q \in Queues, NEW j \in Jobs, Mark(q, j)
      PROVE  [Contract!Next]_(Contract!vars)
  <2>1. status[j] \notin {"absent", "pending"}
    BY <1>4 DEF Mark, IsOldest, Inv, HeldIsLocked, Held, Rejected
  <2>2. /\ UNCHANGED <<runs, locked_queue_id>>
        /\ \A k \in Jobs : status'[k] = status[k] \/ (k = j /\ status'[k] = "processing")
    BY <1>4 DEF Mark, Try, UpdateProcessing, table, TypeOK, TableTypeOK
  <2> QED BY <2>1, <2>2 DEF Contract!vars, LeasePhase, LeaseHolder
<1>5. ASSUME NEW q \in Queues, NEW j \in Jobs, Execute(q, j)
      PROVE  [Contract!Next]_(Contract!vars)
  <2>1. j \in Held(q) /\ pc[q] = "jobs" /\ UNCHANGED table
    BY <1>5 DEF Execute, Held, IsOldest
  <2>2. locked_queue_id[j] = lockid[q] /\ runs[j] = 0
    BY <2>1 DEF Inv, HeldIsLocked, HeldNotRun, Rejected
  <2>3. lockid[q] # Unlocked /\ lockid[q][1] = q
    BY <2>1, OwnLockNames DEF Holding
  <2>4. LeaseHolder[j] = q /\ UNCHANGED <<LeasePhase, LeaseHolder>>
    BY <2>1, <2>2, <2>3 DEF LeasePhase, LeaseHolder, table
  <2>5. runs' = [runs EXCEPT ![j] = 1]
    BY <1>5, <2>2 DEF Execute, TypeOK
  <2>6. Contract!Start(q, j)
    BY <2>2, <2>4, <2>5 DEF Contract!Start
  <2> QED BY <2>6 DEF Contract!Next
<1>6. ASSUME NEW q \in Queues, NEW j \in Jobs, Finish(q, j)
      PROVE  [Contract!Next]_(Contract!vars)
  <2>1. j \in Held(q) /\ pc[q] = "running" /\ UNCHANGED runs
    BY <1>6 DEF Finish, Held, IsOldest
  <2>2. PICK st \in {"complete", "error"} : Try(UpdateResult(j, st))
    BY <1>6 DEF Finish
  <2> QED BY <2>1, <2>2, ResultStep
<1>7. ASSUME NEW j \in Jobs, Submit(j) PROVE [Contract!Next]_(Contract!vars)
  <2>1. /\ UNCHANGED runs /\ status[j] = "absent"
        /\ SetRows({j}, "pending", Unlocked)
    BY <1>7 DEF Submit, Insert, local
  <2>2. locked_queue_id[j] = Unlocked
    BY <2>1 DEF Inv, NewRows
  <2>3. Contract!Submit(j)
    BY <2>1, <2>2 DEF SetRows, Contract!Submit, Contract!Move, LeasePhase, LeaseHolder
  <2> QED BY <2>3 DEF Contract!Next
<1>8. ASSUME NEW q \in Queues,
             Check(q) \/ PopWork(q) \/ PopStop(q) \/ PopNothing(q) \/ BatchDone(q)
      PROVE  UNCHANGED <<table, runs>>
  BY <1>8 DEF Check, PopWork, PopStop, PopNothing, BatchDone, local
<1>9. ASSUME NEW q \in Queues, SendWork(q) \/ SendStop(q)
      PROVE  UNCHANGED <<table, runs>>
  BY <1>9 DEF SendWork, SendStop
<1>10. ASSUME NEW w \in Workers, Shutdown(w) \/ Crash(w) \/ Restart(w)
      PROVE  UNCHANGED <<table, runs>>
  BY <1>10 DEF Shutdown, Crash, Restart
<1>11. CASE UNCHANGED vars
  BY <1>11, InvisibleStep DEF vars, table
<1> QED BY <1>1, <1>2, <1>3, <1>4, <1>5, <1>6, <1>7, <1>8, <1>9, <1>10, <1>11,
           InvisibleStep DEF Next, Thread

(* The threads, their statements and their failures implement the lease: a *)
(* job is leased to one queue, once, started at most once and by that      *)
(* queue, and never waits again.                                           *)
THEOREM LeaseIsImplemented == Spec => ImplementsLease
<1>1. TypeOK /\ Inv /\ [Next]_vars => [Contract!Next]_(Contract!vars)
  BY LeaseStep
<1> QED BY LeaseInitially, <1>1, TypeCorrect, Invariance, PTL
        DEF Spec, ImplementsLease, Contract!Spec
=============================================================================
