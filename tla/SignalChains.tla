---------------------------- MODULE SignalChains ----------------------------
(***************************************************************************)
(* Signals passed from process to process.                                 *)
(*   "ex5"      (TME09) the last of the sons of one father starts, and     *)
(*              each wakes the one before it;                              *)
(*   "kill"     (TME01) each process forks the next one; the last sends    *)
(*              SIGUSR1 to its father, and so on up to the first;          *)
(*   "signaux"  (TME01) the same chain stops itself, and is continued from *)
(*              the first process on; sleep is a guess and orders nothing; *)
(*   "synchro"  (TME01) P3 and P2 tell P1, the grandfather, that P3 was    *)
(*              created and has ended.                                     *)
(* In a chain the first process is the Father, and p forks p + 1.          *)
(***************************************************************************)
EXTENDS Processes

VARIABLE log    \* what was announced, in order

chain == <<log>>
ChainPrograms == {"ex5", "kill", "signaux", "synchro"}
LastSon == N - 1

ChainInit == log = << >>
-----------------------------------------------------------------------------
(* ex5: every signal is blocked from before the forks, and SIGRTMIN        *)
(* received only in sigsuspend.  The last son calls kill twice.            *)

LastPasses ==
  /\ Goto(LastSon, "start", "again")
  /\ log' = Append(log, LastSon)
  /\ pending' = Sigqueue(pending, LastSon - 1, "RTMIN", 0)
  /\ UNCHANGED <<program, reaped, failed>>

\* fault: the handler is left to run before sigsuspend, which then waits
Suspend_open(p) == p # LastSon /\ Has(p, "RTMIN") /\ pc' \in {[pc EXCEPT ![p] = x] : x \in {"pass", "lost"}}
Suspend(p) == p # LastSon /\ Has(p, "RTMIN") /\ Goto(p, "start", "pass")

Awake(p) ==
  /\ Suspend(p)
  /\ pending' = Taken(pending, p, "RTMIN")
  /\ UNCHANGED <<program, reaped, failed, log>>

PassOn(p) ==
  /\ Goto(p, "pass", "again")
  /\ log' = Append(log, p)
  /\ UNCHANGED <<program, pending, reaped, failed>>

WakeNext(p) ==
  /\ Goto(p, "again", "end")
  /\ pending' = IF p > 0 THEN Sigqueue(pending, p - 1, "RTMIN", 0) ELSE pending
  /\ UNCHANGED <<program, reaped, failed, log>>

WaitSons ==
  /\ pc[Father] = "wait"
  /\ IF reaped = Forked THEN Goto(Father, "wait", "end") /\ UNCHANGED reaped
     ELSE (\E p \in Forked : Reap(p)) /\ UNCHANGED pc
  /\ UNCHANGED <<program, pending, failed, log>>

Ex5 ==
  \/ (Fork \/ ForkFailure \/ EndFork("wait")) /\ UNCHANGED log
  \/ WaitSons \/ LastPasses
  \/ \E p \in Forked : Awake(p) \/ PassOn(p) \/ WakeNext(p)
-----------------------------------------------------------------------------
(* kill and signaux: chaine *)

\* a fork that fails is not noticed
ForkOne(p, to) ==
  /\ pc[p] = "fork"
  /\ \/ /\ pc' = [pc EXCEPT ![p] = to, ![p + 1] = IF p + 1 = LastSon THEN "last" ELSE "fork"]
        /\ UNCHANGED failed
     \/ pc' = [pc EXCEPT ![p] = to] /\ failed' = TRUE
  /\ UNCHANGED <<program, pending, reaped, log>>

\* kill, with getppid
TellFather(p) ==
  /\ Goto(p, "last", "end")
  /\ log' = Append(log, p)
  /\ pending' = Kill(pending, p - 1, "USR1")
  /\ UNCHANGED <<program, reaped, failed>>

HandleSigusr1(p) ==
  /\ Has(p, "USR1") /\ Goto(p, "suspend", "end")
  /\ log' = Append(log, p)
  /\ LET rest == Taken(pending, p, "USR1")
     IN  pending' = IF p = Father THEN rest ELSE Kill(rest, p - 1, "USR1")
  /\ UNCHANGED <<program, reaped, failed>>

KillStep == \/ \E p \in Procs \ {LastSon, N} : ForkOne(p, "suspend") \/ HandleSigusr1(p)
            \/ TellFather(LastSon)

\* SIGCONT is lost on a process that is not stopped
Continued(S) == [p \in Procs |-> IF p \in S /\ pc[p] = "stopped" THEN "resume" ELSE pc[p]]

\* the last process suspends itself after it has told the first
TellFirst ==
  /\ Goto(LastSon, "last", "stop")
  /\ pending' = Kill(pending, Father, "USR1")
  /\ UNCHANGED <<program, reaped, failed, log>>

StopSelf(p) ==
  /\ Goto(p, "stop", "stopped")
  /\ UNCHANGED <<program, pending, reaped, failed, log>>

\* until child_pid is assigned, kill(0, SIGCONT) reaches the whole group
HandleFirst ==
  /\ pc[Father] \in {"forked", "suspend"} /\ Has(Father, "USR1")
  /\ pending' = Taken(pending, Father, "USR1")
  /\ pc' = Continued(IF pc[Father] = "forked" THEN Procs ELSE {0})
  /\ UNCHANGED <<program, reaped, failed, log>>

AssignChild ==
  /\ Goto(Father, "forked", "suspend")
  /\ UNCHANGED <<program, pending, reaped, failed, log>>

Resume(p) ==
  /\ pc[p] = "resume"
  /\ IF p = LastSon THEN pc' = [pc EXCEPT ![p] = "end"] /\ pending' = Kill(pending, Father, "USR2")
     ELSE pc' = [Continued({p + 1}) EXCEPT ![p] = "end"] /\ UNCHANGED pending
  /\ UNCHANGED <<program, reaped, failed, log>>

\* SIGUSR2 is received only in sigsuspend, and its default action taken
KilledFirst ==
  /\ Has(Father, "USR2") /\ Goto(Father, "suspend", "end")
  /\ UNCHANGED <<program, pending, reaped, failed, log>>

SignauxStep ==
  \/ ForkOne(Father, "forked") \/ AssignChild \/ HandleFirst \/ KilledFirst \/ TellFirst
  \/ \E p \in 0 .. LastSon : StopSelf(p) \/ Resume(p) \/ (p # LastSon /\ ForkOne(p, "stop"))
-----------------------------------------------------------------------------
(* synchro: P1 is the Father, P2 is 0 and P3 is 1 *)

\* a fork that fails is taken for the father's side of one that does not
ForkP(p, parent) ==
  /\ pc[parent] = "fork"
  /\ \/ pc' = [pc EXCEPT ![parent] = "wait", ![p] = IF p = 0 THEN "fork" ELSE "start"]
        /\ UNCHANGED failed
     \/ pc' = [pc EXCEPT ![parent] = "wait"] /\ failed' = TRUE
  /\ UNCHANGED <<program, pending, reaped, log>>

TellCreation ==
  /\ Goto(1, "start", "end")
  /\ pending' = Kill(pending, Father, "USR1")
  /\ UNCHANGED <<program, reaped, failed, log>>

P3Ended == pc[1] \in {"none", "end"}

TellEnding ==
  /\ P3Ended /\ Goto(0, "wait", "end")
  /\ pending' = Kill(pending, Father, "USR2")
  /\ UNCHANGED <<program, reaped, failed, log>>

\* SIGUSR2 is released inside handle_P3_creation, and held again on its return
\* fault: it is never held
Held_never == {}
Held == IF pc[Father] \in {"handler", "handler before wait"} THEN {} ELSE {"USR2"}

\* the handler ends the wait it interrupts, but it may have come before
HandleCreation ==
  /\ Has(Father, "USR1") /\ pc[Father] = "wait"
  /\ \E to \in {"handler", "handler before wait"} : pc' = [pc EXCEPT ![Father] = to]
  /\ pending' = Taken(pending, Father, "USR1")
  /\ log' = Append(log, "USR1")
  /\ UNCHANGED <<program, reaped, failed>>

HandleEnding ==
  /\ pc[Father] \notin {"fork", "end"}
  /\ Has(Father, "USR2") /\ "USR2" \notin Held
  /\ pending' = Taken(pending, Father, "USR2")
  /\ log' = Append(log, "USR2")
  /\ UNCHANGED <<program, pc, reaped, failed>>

\* a SIGUSR2 that was pending at sigrelse has been handled
ReturnHandler ==
  /\ ~ Has(Father, "USR2")
  /\ \/ Goto(Father, "handler", "interrupted")
     \/ Goto(Father, "handler before wait", "wait")
  /\ UNCHANGED <<program, pending, reaped, failed, log>>

\* "Processus P2 terminé"
AnnounceP2 ==
  /\ \/ pc[Father] = "wait" /\ pc[0] \in {"none", "end"}
     \/ pc[Father] = "interrupted"
  /\ pc' = [pc EXCEPT ![Father] = "end"]
  /\ UNCHANGED <<program, pending, reaped, failed, log>>

SynchroStep == ForkP(0, Father) \/ ForkP(1, 0) \/ TellCreation \/ TellEnding
               \/ HandleCreation \/ HandleEnding \/ ReturnHandler \/ AnnounceP2
-----------------------------------------------------------------------------
ChainNext ==
  \/ program = "ex5" /\ Ex5
  \/ program = "kill" /\ KillStep
  \/ program = "signaux" /\ SignauxStep
  \/ program = "synchro" /\ SynchroStep
-----------------------------------------------------------------------------
(* What is announced is announced in the order of the chain: the passages  *)
(* of ex5 and the handlers of kill from the last process back, and in      *)
(* synchro the creation of P3 before its end (synchro.c line 40), though   *)
(* the signals come from two processes and in any order.                   *)
Expected == CASE program = "ex5" -> [n \in 1 .. N |-> N - n]
              [] program = "kill" -> [n \in 1 .. N + 1 |-> N - n]
              [] program = "synchro" -> <<"USR1", "USR2">>
              [] OTHER -> << >>
InOrder == IsPrefix(log, Expected)

(* The inductive invariant of the proof.  In ex5 and in kill the processes *)
(* that have announced themselves are the last Len(log) of the chain, and  *)
(* a signal has reached at most the one before them.  In synchro nothing   *)
(* is pending twice, SIGUSR1 is sent by the end of P3 and SIGUSR2 by that  *)
(* of P2, and SIGUSR2 taken only in the handler of SIGUSR1.                *)
Announced == Len(log)
FromTheEnd == log = [n \in 1 .. Announced |-> N - n]
Pended == pending \in [Procs -> Seq({"RTMIN", "USR1", "USR2"} \X {0})] /\ DOMAIN pc = Procs
Ex5Inv ==
  /\ FromTheEnd /\ Announced \in 0 .. N
  /\ \A p \in 0 .. LastSon :
       /\ pc[p] \in {"again", "end"} <=> p >= N - Announced
       /\ pc[p] = "pass" => p = LastSon - Announced
       /\ p # LastSon /\ Has(p, "RTMIN") => p >= LastSon - Announced
KillInv ==
  /\ FromTheEnd /\ Announced \in 0 .. N + 1
  /\ \A p \in -1 .. LastSon :
       /\ pc[p] = "end" <=> p >= N - Announced
       /\ Has(p, "USR1") => p >= LastSon - Announced
  /\ \A p \in -1 .. LastSon - 1 : pc[p] \in {"none", "fork"} => pc[p + 1] = "none"
SynchroInv ==
  /\ log \in {<< >>, <<"USR1">>, <<"USR1", "USR2">>}
  /\ \A m, n \in DOMAIN pending[Father] :
       pending[Father][m][1] = pending[Father][n][1] => m = n
  /\ Has(Father, "USR1") => log = << >> /\ pc[1] = "end"
  /\ pc[1] # "end" => log = << >>
  /\ Has(Father, "USR2") => pc[0] = "end" /\ log # <<"USR1", "USR2">>
  /\ pc[0] # "end" => log # <<"USR1", "USR2">>
  /\ pc[Father] \in {"handler", "handler before wait"} => log # << >>
  /\ pc[Father] = "fork" => pc[0] = "none" /\ pc[1] = "none"
  /\ pc[0] = "fork" => pc[1] = "none"

ChainsInv ==
  /\ program \in {"ex5", "kill", "synchro"} => Pended
  /\ program = "ex5" => Ex5Inv
  /\ program = "kill" => KillInv
  /\ program = "synchro" => SynchroInv
  /\ program \notin {"ex5", "kill", "synchro"} => log = << >>

\* signaux: a SIGCONT has come before the process had stopped
Overtaken == \E p \in 0 .. LastSon :
  /\ pc[p] = "stopped"
  /\ IF p = 0 THEN ~ Has(Father, "USR1") /\ pc[LastSon] \notin {"none", "last"}
     ELSE pc[p - 1] = "end"

(* The chain goes round and the first process ends: no signal is lost,     *)
(* but the SIGCONT of signaux that sleep has not delayed enough.           *)
ChainEnds == program \in ChainPrograms ~>
  pc[Father] = "end" \/ failed \/ (program = "signaux" /\ Overtaken)
=============================================================================
