----------------------------- MODULE MCWorkQueue -----------------------------
(* Instances of WorkQueue for TLC: two worker processes of one thread each. *)
EXTENDS WorkQueue, TLC

CONSTANTS w1, w2, t1, s1, s2

TwoWorkers == {w1, w2}
OneThread == {t1}

(* Job 1 is known to both workers, job 2 only to w1. *)
MixedTypes == (w1 :> {1, 2}) @@ (w2 :> {1})
OnlyW1 == (w1 :> {2}) @@ (w2 :> {})
(* w1 discards what it does not know, w2 leaves it. *)
MixedDiscard == (w1 :> TRUE) @@ (w2 :> FALSE)
StampSymmetry == Permutations({s1, s2})
AllDiscard == (w1 :> TRUE) @@ (w2 :> TRUE)
=============================================================================
