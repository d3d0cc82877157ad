----------------------------- MODULE MCSemStack -----------------------------
(* Small instances of SemStack for TLC. *)
EXTENDS SemStack
=============================================================================
