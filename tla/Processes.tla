----------------------------- MODULE Processes ------------------------------
(***************************************************************************)
(* A father and the sons it forks, and what the exercises of TME01, TME04, *)
(* TME05 and TME09 use of the system: the loop that forks, wait, and       *)
(* signals.  A process with number p >= 0 is a son; in the chains of TME01 *)
(* each process is forked by the one before it.                            *)
(*                                                                         *)
(* The signals pending for a process are a sequence of <<signal, value>>.  *)
(* Real-time signals are queued, each with its value, the others are kept  *)
(* once.  Whether a signal is blocked is in the guards of the actions     *)
(* that take it.                                                           *)
(***************************************************************************)
EXTENDS Integers, Sequences, SequencesExt, FiniteSets

CONSTANTS N,          \* NB_PROCS, NB, or the length of a chain
          Programs    \* the programs that may run

ASSUME NAssumption == N \in Nat /\ N >= 2

VARIABLES program,    \* the program that runs
          pc, pending,
          reaped,     \* the sons wait has returned
          failed      \* a call of a process has failed, and ended it

processes == <<program, pc, pending, reaped, failed>>

Father == -1
Sons == 0 .. N
Procs == Sons \cup {Father}

\* ex7 forks one son more than NB, mq_example only one
Forked == CASE program = "ex7" -> 0 .. N
            [] program = "mq_example" -> {0}
            [] OTHER -> 0 .. N - 1

Goto(p, from, to) == pc[p] = from /\ pc' = [pc EXCEPT ![p] = to]
Alive(p) == pc[p] \notin {"none", "never", "end", "killed"}

Has(p, sig) == \E n \in DOMAIN pending[p] : pending[p][n][1] = sig
Oldest(p, sig) == SelectInSeq(pending[p], LAMBDA s : s[1] = sig)

\* sigqueue, or kill, of a real-time signal
Sigqueue(q, p, sig, val) ==
  IF Alive(p) THEN [q EXCEPT ![p] = Append(@, <<sig, val>>)] ELSE q
\* kill with another signal, which is lost while one is pending
Kill(q, p, sig) == IF Has(p, sig) THEN q ELSE Sigqueue(q, p, sig, 0)
\* the oldest signal of a number is delivered
Taken(q, p, sig) == [q EXCEPT ![p] = RemoveAt(@, Oldest(p, sig))]
SigValue(p, sig) == pending[p][Oldest(p, sig)][2]

ProcessesInit ==
  /\ program \in Programs
  /\ pc = [p \in Procs |-> IF p = Father THEN "fork" ELSE "none"]
  /\ pending = [p \in Procs |-> << >>]
  /\ reaped = {} /\ failed = FALSE

Fork ==
  /\ pc[Father] = "fork"
  /\ \E p \in Forked :
       /\ pc[p] = "none" /\ \A q \in 0 .. p - 1 : pc[q] # "none"
       /\ pc' = [pc EXCEPT ![p] = "start"]
  /\ UNCHANGED <<program, pending, reaped, failed>>

\* the father exits; the sons it has are left alone
ForkFailure ==
  /\ \E p \in Forked : pc[p] = "none"
  /\ Goto(Father, "fork", "end")
  /\ failed' = TRUE
  /\ UNCHANGED <<program, pending, reaped>>

EndFork(to) ==
  /\ \A p \in Forked : pc[p] # "none"
  /\ Goto(Father, "fork", to)
  /\ UNCHANGED <<program, pending, reaped, failed>>

\* an exit of one thread ends them all
AllKilled == [q \in Procs |-> IF pc[q] = "none" THEN "none" ELSE "killed"]

Reap(p) == pc[p] = "end" /\ p \notin reaped /\ reaped' = reaped \cup {p}
=============================================================================
