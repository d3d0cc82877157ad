----------------------------- MODULE SemBarrier -----------------------------
(***************************************************************************)
(* The barrier of TME04/src/rdvSem.c (System V semaphores 1 and 0) and     *)
(* TME05/src/rdvSem.c (POSIX semaphores sem_pere and sem_fils in shared    *)
(* memory).  Each child posts sem_pere and waits for sem_fils; the father  *)
(* waits once per child on sem_pere, then posts sem_fils as many times,    *)
(* reaps the children and destroys the semaphores.                         *)
(***************************************************************************)
EXTENDS Integers, FiniteSets

CONSTANTS Sons,        \* the NB_PROCS children
          ForkFails    \* may fork fail?

ASSUME SonsAssumption == IsFiniteSet(Sons) /\ Sons # {}
ASSUME ForkAssumption == ForkFails \in BOOLEAN

NB_PROCS == Cardinality(Sons)

VARIABLES sem_pere, sem_fils,
          destroyed,   \* the semaphores are gone
          fpc, n,      \* the father and its loop index
          pc,          \* the children
          reaped       \* children the father has waited for

vars == <<sem_pere, sem_fils, destroyed, fpc, n, pc, reaped>>

Init ==
  /\ sem_pere = 0 /\ sem_fils = 0 /\ destroyed = FALSE
  /\ fpc = "fork" /\ n = 0
  /\ pc = [s \in Sons |-> "none"]
  /\ reaped = {}

Goto(s, from, to) == pc[s] = from /\ pc' = [pc EXCEPT ![s] = to]

\* which child fork numbers i does not matter
Fork(s) ==
  /\ fpc = "fork"
  /\ Goto(s, "none", "before")
  /\ UNCHANGED <<sem_pere, sem_fils, destroyed, fpc, n, reaped>>

EndFork ==
  /\ fpc = "fork" /\ \A s \in Sons : pc[s] # "none"
  /\ fpc' = "collect" /\ n' = 0
  /\ UNCHANGED <<sem_pere, sem_fils, destroyed, pc, reaped>>

\* exit(-1), which leaves the children already forked behind
ForkFailure ==
  /\ ForkFails
  /\ fpc = "fork" /\ \E s \in Sons : pc[s] = "none"
  /\ fpc' = "failed"
  /\ UNCHANGED <<sem_pere, sem_fils, destroyed, n, pc, reaped>>

\* "avant barriere", then the first half of wait_barrier
Arrive(s) ==
  /\ Goto(s, "before", "blocked")
  /\ sem_pere' = sem_pere + 1
  /\ UNCHANGED <<sem_fils, destroyed, fpc, n, reaped>>

\* the second half, and "apres barriere"
Pass(s) ==
  /\ Goto(s, "blocked", "after")
  /\ sem_fils > 0
  /\ sem_fils' = sem_fils - 1
  /\ UNCHANGED <<sem_pere, destroyed, fpc, n, reaped>>

\* process() calls exit: the munmap after it in main is not reached
ExitSon(s) ==
  /\ Goto(s, "after", "done")
  /\ UNCHANGED <<sem_pere, sem_fils, destroyed, fpc, n, reaped>>

Collect ==
  /\ fpc = "collect" /\ n < NB_PROCS
  /\ sem_pere > 0 /\ sem_pere' = sem_pere - 1
  /\ n' = n + 1
  /\ UNCHANGED <<sem_fils, destroyed, fpc, pc, reaped>>

\* fault: one child is not waited for
EndCollect_early ==
  /\ fpc = "collect" /\ n = NB_PROCS - 1
  /\ fpc' = "release" /\ n' = 0
  /\ UNCHANGED <<sem_pere, sem_fils, destroyed, pc, reaped>>

EndCollect ==
  /\ fpc = "collect" /\ n = NB_PROCS
  /\ fpc' = "release" /\ n' = 0
  /\ UNCHANGED <<sem_pere, sem_fils, destroyed, pc, reaped>>

ReleaseOne ==
  /\ fpc = "release" /\ n < NB_PROCS
  /\ sem_fils' = sem_fils + 1
  /\ n' = n + 1
  /\ UNCHANGED <<sem_pere, destroyed, fpc, pc, reaped>>

\* fault: one child is not released
EndRelease_early ==
  /\ fpc = "release" /\ n = NB_PROCS - 1
  /\ fpc' = "wait" /\ n' = 0
  /\ UNCHANGED <<sem_pere, sem_fils, destroyed, pc, reaped>>

EndRelease ==
  /\ fpc = "release" /\ n = NB_PROCS
  /\ fpc' = "wait" /\ n' = 0
  /\ UNCHANGED <<sem_pere, sem_fils, destroyed, pc, reaped>>

\* fault: waitpid with WNOHANG, its result ignored
Reap_nohang(s) ==
  /\ fpc = "wait" /\ n < NB_PROCS
  /\ s \notin reaped
  /\ reaped' = reaped \cup {s}
  /\ n' = n + 1
  /\ UNCHANGED <<sem_pere, sem_fils, destroyed, fpc, pc>>

\* wait(NULL)
Reap(s) ==
  /\ fpc = "wait" /\ n < NB_PROCS
  /\ pc[s] = "done" /\ s \notin reaped
  /\ reaped' = reaped \cup {s}
  /\ n' = n + 1
  /\ UNCHANGED <<sem_pere, sem_fils, destroyed, fpc, pc>>

\* IPC_RMID, or sem_destroy, munmap and shm_unlink
Destroy ==
  /\ fpc = "wait" /\ n = NB_PROCS
  /\ fpc' = "done"
  /\ destroyed' = TRUE
  /\ UNCHANGED <<sem_pere, sem_fils, n, pc, reaped>>

Main == EndFork \/ Collect \/ EndCollect \/ ReleaseOne \/ EndRelease \/ Destroy
Son(s) == Arrive(s) \/ Pass(s) \/ ExitSon(s)

Next == \/ Main \/ ForkFailure
        \/ \E s \in Sons : Fork(s) \/ Son(s) \/ Reap(s)

Spec == Init /\ [][Next]_vars

(* Every process runs: the father's steps and each child's are taken. *)
Fairness ==
  /\ WF_vars(Main)
  /\ \A s \in Sons : WF_vars(Fork(s)) /\ WF_vars(Son(s)) /\ WF_vars(Reap(s))

FairSpec == Spec /\ Fairness
-----------------------------------------------------------------------------
(* The type invariant. *)
TypeOK ==
  /\ sem_pere \in Nat /\ sem_fils \in Nat /\ destroyed \in BOOLEAN
  /\ fpc \in {"fork", "failed", "collect", "release", "wait", "done"}
  /\ n \in 0 .. NB_PROCS
  /\ pc \in [Sons -> {"none", "before", "blocked", "after", "done"}]
  /\ reaped \subseteq Sons

Arrived == {s \in Sons : pc[s] \in {"blocked", "after", "done"}}
Passed == {s \in Sons : pc[s] \in {"after", "done"}}

(* The two semaphores make a barrier, without a shared counter: the        *)
(* comment of rdvSem.c (TME05, lines 37 to 42) says why.                   *)
Rendezvous == INSTANCE Barrier WITH Procs <- Sons, arrived <- Arrived, left <- Passed
ImplementsBarrier == Rendezvous!Spec

(* The father destroys the semaphores only when no child can use them any  *)
(* more, and none of their tokens is left.                                 *)
DestroyedUnused ==
  destroyed => sem_pere = 0 /\ sem_fils = 0 /\ \A s \in Sons : pc[s] = "done"

(* If no fork fails, every child passes the barrier and the father ends.   *)
Termination ==
  <>(fpc = "failed" \/ (fpc = "done" /\ \A s \in Sons : pc[s] = "done"))
-----------------------------------------------------------------------------
(* For the induction: each semaphore counts what one side has posted and   *)
(* the other has not yet taken.                                            *)
CollectedBy == CASE fpc \in {"fork", "failed"} -> 0
                 [] fpc = "collect" -> n
                 [] OTHER -> NB_PROCS
ReleasedBy == CASE fpc \in {"fork", "failed", "collect"} -> 0
                [] fpc = "release" -> n
                [] OTHER -> NB_PROCS

Accounted ==
  /\ sem_pere = Cardinality(Arrived) - CollectedBy
  /\ sem_fils = ReleasedBy - Cardinality(Passed)
Reaped ==
  /\ \A s \in reaped : pc[s] = "done"
  /\ fpc \in {"wait", "done"} => Cardinality(reaped) = n
  /\ fpc \notin {"wait", "done"} => reaped = {}
  /\ fpc = "done" => n = NB_PROCS
  /\ destroyed <=> fpc = "done"

IInv == TypeOK /\ Accounted /\ Reaped
=============================================================================
