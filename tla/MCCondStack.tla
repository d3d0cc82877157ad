---------------------------- MODULE MCCondStack ----------------------------
(* Small instances of CondStack for TLC. *)
EXTENDS CondStack
=============================================================================
