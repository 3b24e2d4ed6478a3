------------------------------- MODULE MCRunJob -------------------------------
(* The instance of RunJob for TLC: commands that write up to MaxPieces. *)
EXTENDS RunJob

CONSTANT MaxPieces

AllScripts == UNION {[1 .. n -> Streams] : n \in 0 .. MaxPieces}
=============================================================================
