------------------------------ MODULE AcceptLoop ----------------------------
(***************************************************************************)
(* main of ftpServerThread.c of TME08: it accepts NB_THREADS connections   *)
(* and creates a thread for each, which reads its socket through a pointer *)
(* to scom, a variable of main that the next accept overwrites; then main  *)
(* joins four of them and returns.  main is the Father, thread p the one   *)
(* created for the connection p.  A thread never returns, but any of them  *)
(* may end the whole server.  What a thread does with its socket is in     *)
(* FtpSession.                                                             *)
(***************************************************************************)
EXTENDS Processes

VARIABLES scom,       \* the connection accepted last
          served      \* the connection each thread serves

accepting == <<scom, served>>
AcceptPrograms == {"ftpServerThread"}
NoSocket == Father

AcceptInit == scom = NoSocket /\ served = [p \in Sons |-> NoSocket]

\* a client connects when it likes
Accept ==
  /\ \E p \in Forked : pc[p] = "none" /\ scom' = p /\ \A q \in 0 .. p - 1 : pc[q] # "none"
  /\ Goto(Father, "fork", "accepted")
  /\ UNCHANGED <<program, pending, reaped, failed, served>>

\* the result of pthread_create is not looked at
CreateServer ==
  /\ pc[Father] = "accepted"
  /\ \E to \in {"start", "never"} :
       pc' = [pc EXCEPT ![scom] = to, ![Father] = "fork"]
  /\ UNCHANGED <<program, pending, reaped, failed, accepting>>

ReadScom(p) ==
  /\ Goto(p, "start", "serve")
  /\ served' = [served EXCEPT ![p] = scom]
  /\ UNCHANGED <<program, pending, reaped, failed, scom>>

JoinServers ==
  /\ \A p \in Forked : pc[p] # "none"
  /\ Goto(Father, "fork", "join")
  /\ UNCHANGED <<program, pending, reaped, failed, accepting>>

\* exit, of main when accept fails or of a thread that reads an unknown
\* request or whose socket fails; and the return of main, whose joins wait or
\* not: the identifiers of the threads are kept in ints
EndServer ==
  /\ pc[Father] \in {"fork", "join"} \/ \E p \in Forked : pc[p] = "serve"
  /\ pc' = AllKilled
  /\ UNCHANGED <<program, pending, reaped, failed, accepting>>

AcceptStep == CreateServer \/ JoinServers \/ \E p \in Forked : ReadScom(p)
AcceptEvent == Accept \/ EndServer
-----------------------------------------------------------------------------
(* A client whose thread was created is served, by that thread or a later  *)
(* one, unless main has accepted another one meanwhile (line 40), so the   *)
(* last one is; or unless the server has ended, by main or by the thread   *)
(* of any other client.                                                    *)
ClientsServed == \A c \in 0 .. N - 1 :
  program \in AcceptPrograms /\ pc[c] = "start" ~>
    scom # c \/ (\E p \in Forked : served[p] = c) \/ pc[Father] = "killed"
=============================================================================
