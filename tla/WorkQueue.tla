------------------------------ MODULE WorkQueue ------------------------------
(***************************************************************************)
(* Worker::WorkQueue: the threads of the worker processes, which claim     *)
(* rows of the jobs table, turn them into Job objects, run them and write  *)
(* the result back.  One action per SQL statement or queue operation, so   *)
(* that every interleaving of two threads, and a crash between any two     *)
(* statements, is a behaviour.                                             *)
(*                                                                         *)
(* The main thread of a worker appears through what it does to a work      *)
(* queue: send_work, clearing m_active, send_stop.                         *)
(***************************************************************************)
EXTENDS JobsTable

CONSTANTS
  Registered,   \* worker -> jobs whose name is a registered job type there
  Uncreatable,  \* jobs for which the registered creator returns NULL
  Discard,      \* worker -> setting discard_unknown_jobs
  DbFails,      \* whether statements may fail
  MaxWork,      \* bound on the work messages a queue has in hand
  MaxRestarts   \* bound on how often processes are started anew

ASSUME RegisteredAssumption == Registered \in [Workers -> SUBSET Jobs]
ASSUME DiscardAssumption == Discard \in [Workers -> BOOLEAN]
ASSUME BoundsAssumption == MaxWork \in Nat /\ MaxRestarts \in Nat

VARIABLES
  active,     \* worker -> m_active
  tokens,     \* queue -> work messages (1) in m_queue
  stop,       \* queue -> where the stop message (-1) is; it is always the last
  pc,         \* queue -> where run() is
  workload,   \* queue -> local workload of run()
  lockid,     \* queue -> lock string of the batch in hand
  rows,       \* queue -> rows of the SELECT not yet handled by find_jobs
  batch,      \* queue -> Job objects not yet executed and freed
  runs,       \* job -> how often its execute() was called (history)
  restarts    \* how often a worker process was started anew

vars == <<status, locked_queue_id, active, tokens, stop, pc, workload, lockid,
          rows, batch, runs, restarts>>

Labels == {"check", "pop", "drain", "claim", "select", "jobs", "mark",
           "running", "exited", "dead"}

TypeOK ==
  /\ TableTypeOK
  /\ active \in [Workers -> BOOLEAN]
  /\ tokens \in [Queues -> Nat]
  /\ stop \in [Queues -> {"unsent", "queued", "popped"}]
  /\ pc \in [Queues -> Labels]
  /\ workload \in [Queues -> Int]
  /\ lockid \in [Queues -> LockIds \cup {Unlocked}]
  /\ rows \in [Queues -> SUBSET Jobs]
  /\ batch \in [Queues -> SUBSET Jobs]
  /\ runs \in [Jobs -> Nat]
  /\ restarts \in Nat

Init ==
  /\ TableInit
  /\ active = [w \in Workers |-> TRUE]
  /\ tokens = [q \in Queues |-> 0]
  /\ stop = [q \in Queues |-> "unsent"]
  /\ pc = [q \in Queues |-> "check"]
  /\ workload = [q \in Queues |-> 0]
  /\ lockid = [q \in Queues |-> Unlocked]
  /\ rows = [q \in Queues |-> {}]
  /\ batch = [q \in Queues |-> {}]
  /\ runs = [j \in Jobs |-> 0]
  /\ restarts = 0

-----------------------------------------------------------------------------
WorkerOf(q) == q[1]
Of(w) == {q \in Queues : WorkerOf(q) = w}

Goto(q, label) == pc' = [pc EXCEPT ![q] = label]

(* A statement whose return code the program ignores. *)
Try(Statement) == Statement \/ (DbFails /\ UNCHANGED table)

local == <<active, tokens, stop, workload, lockid, rows, batch, runs, restarts>>

-----------------------------------------------------------------------------
(* run(): the queue of messages                                            *)

(* Defect: the loop does not look at m_active again. *)
CheckOnce(q) ==
  /\ pc[q] = "check"
  /\ Goto(q, "pop")
  /\ workload' = [workload EXCEPT ![q] = 0]
  /\ UNCHANGED <<table, active, tokens, stop, lockid, rows, batch, runs, restarts>>

(* while( m_active ) { workload = 0 ... *)
Check(q) ==
  /\ pc[q] = "check"
  /\ Goto(q, IF active[WorkerOf(q)] THEN "pop" ELSE "exited")
  /\ workload' = [workload EXCEPT ![q] = 0]
  /\ UNCHANGED <<table, active, tokens, stop, lockid, rows, batch, runs, restarts>>

(* timed_pop or try_pop returns a work message. *)
PopWork(q) ==
  /\ pc[q] \in {"pop", "drain"}
  /\ tokens[q] > 0
  /\ tokens' = [tokens EXCEPT ![q] = @ - 1]
  /\ workload' = [workload EXCEPT ![q] = @ + 1]
  /\ Goto(q, "drain")
  /\ UNCHANGED <<table, active, stop, lockid, rows, batch, runs, restarts>>

(* The stop message: the work drained so far is dropped. *)
PopStop(q) ==
  /\ pc[q] \in {"pop", "drain"}
  /\ tokens[q] = 0
  /\ stop[q] = "queued"
  /\ stop' = [stop EXCEPT ![q] = "popped"]
  /\ workload' = [workload EXCEPT ![q] = 0]
  /\ Goto(q, "check")
  /\ UNCHANGED <<table, active, tokens, lockid, rows, batch, runs, restarts>>

(* Defect: a single work message does not count as work. *)
PopNothingOne(q) ==
  /\ pc[q] \in {"pop", "drain"}
  /\ tokens[q] = 0
  /\ stop[q] # "queued"
  /\ Goto(q, IF workload[q] <= 1 THEN "check" ELSE "claim")
  /\ UNCHANGED <<table, local>>

(* The wait times out, or the queue is drained. *)
PopNothing(q) ==
  /\ pc[q] \in {"pop", "drain"}
  /\ tokens[q] = 0
  /\ stop[q] # "queued"
  /\ Goto(q, IF workload[q] <= 0 THEN "check" ELSE "claim")
  /\ UNCHANGED <<table, local>>

-----------------------------------------------------------------------------
(* find_jobs()                                                             *)

(* Defect: a clock too coarse, or a string cut short: the lock may repeat. *)
AnyLockId(lid) == TRUE

(* The lock string is new: no row carries it. *)
FreshLockId(lid) == LockedBy(lid) = {}

(* The claim may fail, and then may or may not have been executed. *)
Claim(q) ==
  /\ pc[q] = "claim"
  /\ \E s \in Stamps :
       /\ FreshLockId(<<q, s>>)
       /\ \/ /\ UpdateClaim(<<q, s>>, workload[q])
             /\ lockid' = [lockid EXCEPT ![q] = <<q, s>>]
             /\ Goto(q, "select")
          \/ /\ DbFails
             /\ UpdateClaim(<<q, s>>, workload[q]) \/ UNCHANGED table
             /\ Goto(q, "check")
             /\ UNCHANGED lockid
  /\ UNCHANGED <<active, tokens, stop, workload, rows, batch, runs, restarts>>

(* The SELECT succeeds; or its result cannot be stored, which reads as no  *)
(* rows; or it fails, and the rows are unlocked but stay loading.          *)
Select(q) ==
  /\ pc[q] = "select"
  /\ \/ /\ \E T \in SUBSET Jobs :
             /\ SelectLoading(T, lockid[q], workload[q])
             /\ rows' = [rows EXCEPT ![q] = T]
        /\ Goto(q, "jobs")
        /\ UNCHANGED <<table, lockid>>
     \/ /\ DbFails
        /\ Goto(q, "jobs")
        /\ UNCHANGED <<table, lockid, rows>>
     \/ /\ DbFails
        /\ Try(UpdateRelease(lockid[q]))
        /\ lockid' = [lockid EXCEPT ![q] = Unlocked]
        /\ Goto(q, "check")
        /\ UNCHANGED rows
  /\ UNCHANGED <<active, tokens, stop, workload, batch, runs, restarts>>

(* if( discard_unknown_jobs ) UPDATE ... status='error', locked_queue_id='' *)
DiscardRow(q, j) ==
  IF Discard[WorkerOf(q)] THEN Try(UpdateResult(j, "error")) ELSE UNCHANGED table

(* A row of a registered type: its creator makes a Job or returns NULL. *)
Create(q, j) ==
  /\ pc[q] = "jobs"
  /\ IsOldest(j, rows[q])
  /\ j \in Registered[WorkerOf(q)]
  /\ \/ /\ j \notin Uncreatable
        /\ batch' = [batch EXCEPT ![q] = @ \cup {j}]
        /\ UNCHANGED table
     \/ /\ j \in Uncreatable
        /\ DiscardRow(q, j)
        /\ UNCHANGED batch
  /\ Goto(q, "mark")
  /\ UNCHANGED <<active, tokens, stop, workload, lockid, rows, runs, restarts>>

(* Either way the row is then set to processing. *)
Mark(q, j) ==
  /\ pc[q] = "mark"
  /\ IsOldest(j, rows[q])
  /\ Try(UpdateProcessing(j))
  /\ rows' = [rows EXCEPT ![q] = @ \ {j}]
  /\ Goto(q, "jobs")
  /\ UNCHANGED <<active, tokens, stop, workload, lockid, batch, runs, restarts>>

(* A row of a type this worker has not registered. *)
Unknown(q, j) ==
  /\ pc[q] = "jobs"
  /\ IsOldest(j, rows[q])
  /\ j \notin Registered[WorkerOf(q)]
  /\ DiscardRow(q, j)
  /\ rows' = [rows EXCEPT ![q] = @ \ {j}]
  /\ UNCHANGED <<active, tokens, stop, pc, workload, lockid, batch, runs, restarts>>

-----------------------------------------------------------------------------
(* run(): the batch                                                        *)

(* real_execute() starts. *)
Execute(q, j) ==
  /\ pc[q] = "jobs"
  /\ rows[q] = {}
  /\ IsOldest(j, batch[q])
  /\ runs' = [runs EXCEPT ![j] = @ + 1]
  /\ Goto(q, "running")
  /\ UNCHANGED <<table, active, tokens, stop, workload, lockid, rows, batch, restarts>>

(* Defect: the number real_execute() returns is written as the status. *)
FinishNumber(q, j) ==
  /\ pc[q] = "running"
  /\ IsOldest(j, batch[q])
  /\ \E st \in {"1", "0"} : Try(UpdateResult(j, st))
  /\ batch' = [batch EXCEPT ![q] = @ \ {j}]
  /\ workload' = [workload EXCEPT ![q] = @ - 1]
  /\ Goto(q, "jobs")
  /\ UNCHANGED <<active, tokens, stop, lockid, rows, runs, restarts>>

(* real_execute() returns, with load_data() and execute() true or not. *)
Finish(q, j) ==
  /\ pc[q] = "running"
  /\ IsOldest(j, batch[q])
  /\ \E st \in {"complete", "error"} : Try(UpdateResult(j, st))
  /\ batch' = [batch EXCEPT ![q] = @ \ {j}]
  /\ workload' = [workload EXCEPT ![q] = @ - 1]
  /\ Goto(q, "jobs")
  /\ UNCHANGED <<active, tokens, stop, lockid, rows, runs, restarts>>

(* Defect: a worker told to stop leaves the rest of its batch. *)
BatchAbandoned(q) ==
  /\ pc[q] = "jobs"
  /\ rows[q] = {} /\ (batch[q] = {} \/ ~active[WorkerOf(q)])
  /\ lockid' = [lockid EXCEPT ![q] = Unlocked]
  /\ batch' = [batch EXCEPT ![q] = {}]
  /\ Goto(q, "check")
  /\ UNCHANGED <<table, active, tokens, stop, workload, rows, runs, restarts>>

(* The batch is done; back to the loop. *)
BatchDone(q) ==
  /\ pc[q] = "jobs"
  /\ rows[q] = {} /\ batch[q] = {}
  /\ lockid' = [lockid EXCEPT ![q] = Unlocked]
  /\ Goto(q, "check")
  /\ UNCHANGED <<table, active, tokens, stop, workload, rows, batch, runs, restarts>>

-----------------------------------------------------------------------------
(* What the rest of the system does to the work queues                     *)

(* A client inserts a job. *)
Submit(j) == Insert(j) /\ UNCHANGED <<pc, local>>

(* The main thread passes on one byte of the server's message. *)
SendWork(q) ==
  /\ active[WorkerOf(q)]
  /\ pc[q] # "dead"
  /\ tokens[q] + workload[q] < MaxWork
  /\ tokens' = [tokens EXCEPT ![q] = @ + 1]
  /\ UNCHANGED <<table, pc, active, stop, workload, lockid, rows, batch, runs, restarts>>

(* Worker::shutdown(): m_active = false, ... *)
Shutdown(w) ==
  /\ active[w]
  /\ \A q \in Of(w) : pc[q] # "dead"
  /\ active' = [active EXCEPT ![w] = FALSE]
  /\ UNCHANGED <<table, pc, tokens, stop, workload, lockid, rows, batch, runs, restarts>>

(* ... then a stop message to every thread. *)
SendStop(q) ==
  /\ ~active[WorkerOf(q)]
  /\ stop[q] = "unsent"
  /\ pc[q] # "dead"
  /\ stop' = [stop EXCEPT ![q] = "queued"]
  /\ UNCHANGED <<table, pc, active, tokens, workload, lockid, rows, batch, runs, restarts>>

(* What is in the memory of the work queues of w, before and after a process's life. *)
Forget(w, label) ==
  /\ pc' = [q \in Queues |-> IF q \in Of(w) THEN label ELSE pc[q]]
  /\ tokens' = [q \in Queues |-> IF q \in Of(w) THEN 0 ELSE tokens[q]]
  /\ stop' = [q \in Queues |-> IF q \in Of(w) THEN "unsent" ELSE stop[q]]
  /\ workload' = [q \in Queues |-> IF q \in Of(w) THEN 0 ELSE workload[q]]
  /\ lockid' = [q \in Queues |-> IF q \in Of(w) THEN Unlocked ELSE lockid[q]]
  /\ rows' = [q \in Queues |-> IF q \in Of(w) THEN {} ELSE rows[q]]
  /\ batch' = [q \in Queues |-> IF q \in Of(w) THEN {} ELSE batch[q]]

(* The process dies with its threads: a signal, a fault in a job. *)
Crash(w) ==
  /\ restarts < MaxRestarts
  /\ \E q \in Of(w) : pc[q] \notin {"exited", "dead"}
  /\ Forget(w, "dead")
  /\ UNCHANGED <<table, active, runs, restarts>>

(* workqd is started again.  Nothing looks at the rows the old process held. *)
Restart(w) ==
  /\ restarts < MaxRestarts
  /\ \A q \in Of(w) : pc[q] \in {"exited", "dead"}
  /\ Forget(w, "check")
  /\ active' = [active EXCEPT ![w] = TRUE]
  /\ restarts' = restarts + 1
  /\ UNCHANGED <<table, runs>>

-----------------------------------------------------------------------------
Thread(q) ==
  \/ Check(q)
  \/ PopWork(q)
  \/ PopStop(q)
  \/ PopNothing(q)
  \/ Claim(q)
  \/ Select(q)
  \/ \E j \in Jobs : Create(q, j)
  \/ \E j \in Jobs : Mark(q, j)
  \/ \E j \in Jobs : Unknown(q, j)
  \/ \E j \in Jobs : Execute(q, j)
  \/ \E j \in Jobs : Finish(q, j)
  \/ BatchDone(q)

Next ==
  \/ \E q \in Queues : Thread(q)
  \/ \E q \in Queues : SendWork(q)
  \/ \E q \in Queues : SendStop(q)
  \/ \E w \in Workers : Shutdown(w)
  \/ \E w \in Workers : Crash(w)
  \/ \E w \in Workers : Restart(w)
  \/ \E j \in Jobs : Submit(j)

Spec == Init /\ [][Next]_vars

(* Threads are scheduled, jobs end, and shutdown() gets to its stop messages. *)
Fairness == \A q \in Queues : WF_vars(Thread(q)) /\ WF_vars(SendStop(q))

FairSpec == Spec /\ Fairness

(* Moreover every queue keeps being sent work. *)
BusySpec == FairSpec /\ \A q \in Queues : WF_vars(SendWork(q))

-----------------------------------------------------------------------------
(* Properties                                                              *)

Held(q) == rows[q] \cup batch[q]

(* A row find_jobs has just discarded because its creator returned NULL    *)
(* and is about to set to processing nevertheless.                         *)
Rejected(q, j) ==
  /\ pc[q] = "mark"
  /\ IsOldest(j, rows[q])
  /\ j \in Uncreatable
  /\ status[j] = "error"
  /\ locked_queue_id[j] = Unlocked

(* No job's execute() is ever called twice, whatever statements fail,      *)
(* whichever processes crash between two statements and are started again. *)
AtMostOnce == \A j \in Jobs : runs[j] <= 1

(* Two threads, of one process or of two, never hold the same job: the     *)
(* claim "prevents any other workers from attempting to handle this        *)
(* record" (README).                                                       *)
Exclusive ==
  \A q, r \in Queues : q # r => Held(q) \cap Held(r) = {}

(* What a thread holds carries the lock string of its own claim in the     *)
(* table, and is loading or processing there, but for a row whose creator  *)
(* returned NULL: find_jobs has given that up and is about to set it to    *)
(* processing all the same.                                                *)
HeldIsLocked ==
  \A q \in Queues : \A j \in Held(q) :
    \/ /\ locked_queue_id[j] = lockid[q]
       /\ status[j] \in {"loading", "processing"}
    \/ Rejected(q, j)

(* j is in the hands of a running thread. *)
InHand(j) ==
  \E q \in Queues :
    \/ j \in Held(q)
    \/ pc[q] = "select" /\ locked_queue_id[j] = lockid[q]

(* A row that is loading or processing is in the hands of a thread that is *)
(* still running: no row is left behind between the claim and the result,  *)
(* also when the worker is told to stop.                                   *)
InProgressHasWorker ==
  \A j \in Jobs : status[j] \in {"loading", "processing"} => InHand(j)

(* "processing: the job has been seleted for work by a worker and is in    *)
(* progress" (README).                                                     *)
ProcessingInProgress ==
  \A j \in Jobs : status[j] = "processing" => InHand(j)

(* Every job in hand is covered by a work message: the jobs of a batch     *)
(* never outnumber what is left of workload, so that the decrements of     *)
(* m_pending never outnumber the increments.                               *)
WorkloadCovers ==
  \A q \in Queues :
    pc[q] \in {"jobs", "mark", "running"} => Cardinality(Held(q)) <= workload[q]

(* The result of a job is final: a complete or discarded row never changes *)
(* and is never run again.                                                 *)
ResultIsFinal ==
  [][\A j \in Jobs : status[j] \in {"complete", "error"} =>
       /\ status'[j] = status[j]
       /\ runs'[j] = runs[j]]_vars

(* A claimed job gets its result, also when the worker is told to stop     *)
(* while it is loading or waiting in a batch: run() finishes its batch.    *)
ClaimedFinishes ==
  \A j \in Jobs :
    status[j] \in {"loading", "processing"} ~> status[j] \in {"complete", "error"}

(* A job left loading by a worker that neither knows its type nor discards *)
(* it is eaten by another worker, one that knows it, keeps running and     *)
(* keeps being sent work (comment in find_jobs).                           *)
EatenByAnother ==
  \A j \in Jobs, w \in Workers :
    j \in Registered[w] =>
      ([]active[w] => (status[j] = "loading" ~> status[j] \in {"complete", "error"}))

(* shutdown() ends: every thread it joins leaves run(), whatever it was    *)
(* doing when m_active was cleared.                                        *)
ShutdownEnds ==
  \A w \in Workers : ~active[w] ~> \A q \in Of(w) : pc[q] = "exited"

-----------------------------------------------------------------------------
(* The table as the abstract lease: a pending row waits, a locked row is   *)
(* leased to the queue named in its lock string, any other is retired.     *)
LeasePhase == [j \in Jobs |->
  IF status[j] = "absent" THEN "new"
  ELSE IF status[j] = "pending" THEN "waiting"
  ELSE IF locked_queue_id[j] # Unlocked THEN "leased" ELSE "retired"]

LeaseHolder == [j \in Jobs |->
  IF locked_queue_id[j] = Unlocked THEN Unlocked ELSE locked_queue_id[j][1]]

Contract == INSTANCE JobLease
              WITH phase <- LeasePhase, holder <- LeaseHolder, Nobody <- Unlocked

(* The statements of find_jobs() and run(), interleaved, failing and cut   *)
(* short by crashes, implement the lease: a job is leased once, started at *)
(* most once and only by its leaseholder, and never waits again.           *)
ImplementsLease == Contract!Spec
=============================================================================
