------------------------------- MODULE JobLease -------------------------------
(***************************************************************************)
(* What the jobs table and the lock strings promise, with no threads, SQL  *)
(* or failures in it: a job waits, is leased once and for all to one work  *)
(* queue, may be started once by that queue and by no other, and is        *)
(* retired.  A lease is never passed on and never returned to the waiting  *)
(* jobs, so a job whose holder is lost stays leased (or retired) unrun:    *)
(* workq is an at-most-once queue.                                         *)
(***************************************************************************)
EXTENDS Naturals

CONSTANTS Jobs, Queues, Nobody

VARIABLES
  phase,    \* job -> "new", "waiting", "leased" or "retired"
  holder,   \* job -> the queue that leases it, or Nobody
  runs      \* job -> how often it was started

vars == <<phase, holder, runs>>

Init ==
  /\ phase = [j \in Jobs |-> "new"]
  /\ holder = [j \in Jobs |-> Nobody]
  /\ runs = [j \in Jobs |-> 0]

(* The jobs S move from one phase to the next and get a holder. *)
Move(S, from, to, q) ==
  /\ \A j \in S : phase[j] = from
  /\ phase' = [j \in Jobs |-> IF j \in S THEN to ELSE phase[j]]
  /\ holder' = [j \in Jobs |-> IF j \in S THEN q ELSE holder[j]]
  /\ UNCHANGED runs

Submit(j) == Move({j}, "new", "waiting", Nobody)

Lease(q, S) == Move(S, "waiting", "leased", q)

Start(q, j) ==
  /\ holder[j] = q
  /\ runs[j] = 0
  /\ runs' = [runs EXCEPT ![j] = 1]
  /\ UNCHANGED <<phase, holder>>

(* q gives up leases of its own, of jobs it ran or not. *)
Retire(q, S) ==
  /\ \A j \in S : holder[j] = q
  /\ Move(S, "leased", "retired", Nobody)

Next ==
  \/ \E j \in Jobs : Submit(j)
  \/ \E q \in Queues :
       \/ \E S \in SUBSET Jobs : Lease(q, S)
       \/ \E j \in Jobs : Start(q, j)
       \/ \E S \in SUBSET Jobs : Retire(q, S)

Spec == Init /\ [][Next]_vars
=============================================================================
