---------------------------- MODULE MCFtpSession ----------------------------
(* Small instances of FtpSession for TLC. *)
EXTENDS FtpSession, TLC
CONSTANTS f, g, h
\* a buffer of two units: sizes below, at and above one buffer
ServerFiles == f :> 3 @@ g :> 2
ClientFiles == f :> 1 @@ g :> 4
=============================================================================
