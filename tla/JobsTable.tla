------------------------------ MODULE JobsTable ------------------------------
(***************************************************************************)
(* The MySQL table "jobs", the only state that workq's processes share.    *)
(* Each SQL statement the program issues is one action: MySQL runs with    *)
(* autocommit, so a statement is atomic and two statements are not.        *)
(*                                                                         *)
(* A row is abstracted to the two columns the program's WHERE clauses      *)
(* read: status and locked_queue_id.  Jobs are the values of the           *)
(* auto-increment column id, so "ORDER BY id" is the order of integers.    *)
(***************************************************************************)
EXTENDS Integers, FiniteSets

CONSTANTS
  Jobs,       \* ids of the rows that may ever be inserted
  Workers,    \* worker processes, of one server or of several
  Threads,    \* indexes of a worker's m_threads array
  Stamps,     \* values of the clock in a lock string
  Unlocked    \* the empty string, the default of locked_queue_id

(* A work queue is one thread of one worker process.  It signs the rows it *)
(* claims with the string "pid:this:seconds:microseconds": its own         *)
(* identity and a time stamp.                                              *)
Queues == Workers \X Threads
LockIds == Queues \X Stamps

ASSUME JobsAssumption == Jobs \subseteq Nat /\ IsFiniteSet(Jobs)
ASSUME UnlockedAssumption == Unlocked \notin LockIds

VARIABLES
  status,           \* column status, "absent" for a row not inserted yet
  locked_queue_id   \* column locked_queue_id

table == <<status, locked_queue_id>>

Statuses == {"absent", "pending", "loading", "processing", "complete", "error"}

TableTypeOK ==
  /\ status \in [Jobs -> Statuses]
  /\ locked_queue_id \in [Jobs -> LockIds \cup {Unlocked}]

TableInit ==
  /\ status = [j \in Jobs |-> "absent"]
  /\ locked_queue_id = [j \in Jobs |-> Unlocked]

-----------------------------------------------------------------------------
(* j is the first row of S in the order of the ids. *)
IsOldest(j, S) == j \in S /\ \A k \in S : j <= k

(* Defect: a limit that is off by one. *)
OldestOfOneMore(T, S, n) ==
  /\ T \subseteq S
  /\ Cardinality(T) <= n + 1
  /\ T # S => Cardinality(T) = n + 1
  /\ \A j \in T : \A k \in S \ T : j < k

(* T is what "ORDER BY id LIMIT n" keeps of the rows S. *)
OldestOf(T, S, n) ==
  /\ T \subseteq S
  /\ Cardinality(T) <= n
  /\ T # S => Cardinality(T) = n
  /\ \A j \in T : \A k \in S \ T : j < k

(* Rewrite both columns of the rows S. *)
SetRows(S, st, lock) ==
  /\ status' = [j \in Jobs |-> IF j \in S THEN st ELSE status[j]]
  /\ locked_queue_id' = [j \in Jobs |-> IF j \in S THEN lock ELSE locked_queue_id[j]]

Pending == {j \in Jobs : status[j] = "pending"}

(* Defect: the condition on the status is left out. *)
ClaimableUnlocked ==
  {j \in Jobs : status[j] # "absent" /\ locked_queue_id[j] = Unlocked}

(* WHERE status='pending' AND locked_queue_id='' *)
Claimable == {j \in Pending : locked_queue_id[j] = Unlocked}

LockedBy(lid) == {j \in Jobs : locked_queue_id[j] = lid}

-----------------------------------------------------------------------------
(* A client's INSERT of a pending, unlocked job.  Rows become visible in   *)
(* any order: InnoDB hands out ids before the inserting transactions       *)
(* commit.                                                                 *)
Insert(j) ==
  /\ status[j] = "absent"
  /\ SetRows({j}, "pending", Unlocked)

(* The claim: lock the oldest n claimable rows and mark them loading. *)
UpdateClaim(lid, n) ==
  \E T \in SUBSET Claimable :
    /\ OldestOf(T, Claimable, n)
    /\ SetRows(T, "loading", lid)

(* Defect: the SELECT does not look at the lock. *)
SelectAnyLoading(T, lid, n) == OldestOf(T, {j \in Jobs : status[j] = "loading"}, n)

(* Defect: the SELECT fetches one row too few. *)
SelectOneLess(T, lid, n) ==
  OldestOf(T, {j \in LockedBy(lid) : status[j] = "loading"}, n - 1)

(* T is an answer to the SELECT that fetches the rows just claimed. *)
SelectLoading(T, lid, n) ==
  OldestOf(T, {j \in LockedBy(lid) : status[j] = "loading"}, n)

(* Defect: the unlock gives the rows back as pending. *)
UpdateReleasePending(lid) == SetRows(LockedBy(lid), "pending", Unlocked)

(* The unlock sent when that SELECT fails.  It leaves the status alone. *)
UpdateRelease(lid) ==
  /\ locked_queue_id' =
       [j \in Jobs |-> IF j \in LockedBy(lid) /\ status[j] # "pending"
                         THEN Unlocked ELSE locked_queue_id[j]]
  /\ UNCHANGED status

(* Defect: marking a row drops its lock. *)
UpdateProcessingUnlock(j) == SetRows({j}, "processing", Unlocked)

UpdateProcessing(j) ==
  /\ status' = [status EXCEPT ![j] = "processing"]
  /\ UNCHANGED locked_queue_id

(* UPDATE ... SET locked_queue_id='', status=st WHERE id=j *)
UpdateResult(j, st) == SetRows({j}, st, Unlocked)
=============================================================================
