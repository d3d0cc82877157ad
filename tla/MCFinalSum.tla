----------------------------- MODULE MCFinalSum -----------------------------
(* Small instances of FinalSum for TLC. *)
EXTENDS FinalSum
=============================================================================
