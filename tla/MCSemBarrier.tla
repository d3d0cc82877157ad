---------------------------- MODULE MCSemBarrier ----------------------------
(* Small instances of SemBarrier for TLC. *)
EXTENDS SemBarrier
=============================================================================
