----------------------------- MODULE MCMsgServer ----------------------------
(* Small instances of MsgServer for TLC. *)
EXTENDS MsgServer
=============================================================================
