------------------------------- MODULE MCWorker -------------------------------
(* Instances of Worker for TLC: one process with two threads. *)
EXTENDS Worker, TLC

CONSTANTS w1, s1

AllTypes == (w1 :> Jobs)
Discards == (w1 :> TRUE)
ThreadIndexes == 0 .. (NumThreads - 1)
=============================================================================
