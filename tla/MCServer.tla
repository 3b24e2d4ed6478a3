------------------------------- MODULE MCServer -------------------------------
(* The instance of Server for TLC. *)
EXTENDS Server
=============================================================================
