------------------------------ MODULE FinalSum ------------------------------
(***************************************************************************)
(* The threads of TME02 that add their random values into one sum, which   *)
(* another thread prints.  Three programs differ in how the printer knows  *)
(* that the sum is final, and in whether the sum is protected:             *)
(*   "exclusion"  main joins the threads; the sum has no mutex;            *)
(*   "synchro"    print_thread joins the threads; mutex_somme;             *)
(*   "daemon"     (daemon.c and daemonBIS.c) the threads are detached, the *)
(*                last one to count itself out in alive_count signals a    *)
(*                condition on which print_thread waits, without a         *)
(*                predicate and under another mutex.                       *)
(* The sum is the set of threads whose value is in it.                     *)
(***************************************************************************)
EXTENDS Integers, FiniteSets

CONSTANTS Workers,    \* the N threads
          Printer,    \* the thread that prints
          Free,       \* the owner of an unlocked mutex
          Programs    \* the programs considered

ASSUME WorkersAssumption ==
  IsFiniteSet(Workers) /\ Workers # {} /\ {Printer, Free} \cap Workers = {}
ASSUME FreeAssumption == Printer # Free
ASSUME ProgramsAssumption == Programs \subseteq {"exclusion", "synchro", "daemon"}

VARIABLES program,
          somme, mutex_somme,
          alive_count, mutex_alive_count,
          local,      \* the value of somme that a thread has loaded
          pc,         \* the threads
          maker,      \* the thread that creates them
          printer, printed,
          signals,    \* number of pthread_cond_signal
          missed,     \* one was sent with nobody waiting
          spurious,   \* print_thread was woken without a signal
          exited      \* a failed pthread_create has ended the process

vars == <<program, somme, mutex_somme, alive_count, mutex_alive_count, local, pc,
          maker, printer, printed, signals, missed, spurious, exited>>

N == Cardinality(Workers)

Init ==
  /\ program \in Programs
  /\ somme = {} /\ mutex_somme = Free
  /\ alive_count = N /\ mutex_alive_count = Free
  /\ local = [w \in Workers |-> {}]
  /\ pc = [w \in Workers |-> "none"]
  /\ maker = "create"
  /\ printer = IF program = "daemon" THEN "start" ELSE "off"
  /\ printed = {} /\ signals = 0
  /\ missed = FALSE /\ spurious = FALSE /\ exited = FALSE

Goto(w, from, to) == pc[w] = from /\ pc' = [pc EXCEPT ![w] = to]
LockSum(t) == IF program = "exclusion" THEN UNCHANGED mutex_somme
              ELSE mutex_somme = Free /\ mutex_somme' = t
UnlockSum == mutex_somme' = Free
-----------------------------------------------------------------------------
(* The thread that creates the others *)

Create(w) ==
  /\ maker = "create"
  /\ Goto(w, "none", "lock")
  /\ UNCHANGED <<program, somme, mutex_somme, alive_count, mutex_alive_count, local,
                 maker, printer, printed, signals, missed, spurious, exited>>

CreateFailure ==
  /\ maker = "create" /\ \E w \in Workers : pc[w] = "none"
  /\ exited' = TRUE
  /\ UNCHANGED <<program, somme, mutex_somme, alive_count, mutex_alive_count, local,
                 pc, maker, printer, printed, signals, missed, spurious>>

EndCreate ==
  /\ maker = "create" /\ \A w \in Workers : pc[w] # "none"
  /\ maker' = "join"
  /\ UNCHANGED <<program, somme, mutex_somme, alive_count, mutex_alive_count, local,
                 pc, printer, printed, signals, missed, spurious, exited>>

\* exclusion and synchro: the creator joins every thread, then prints
\* fault: it joins one thread only
JoinAll_one ==
  /\ program # "daemon" /\ maker = "join"
  /\ \E w \in Workers : pc[w] = "done"
  /\ maker' = "end" /\ printer' = "ready"
  /\ UNCHANGED <<program, somme, mutex_somme, alive_count, mutex_alive_count, local,
                 pc, printed, signals, missed, spurious, exited>>
JoinAll ==
  /\ program # "daemon" /\ maker = "join"
  /\ \A w \in Workers : pc[w] = "done"
  /\ maker' = "end" /\ printer' = "ready"
  /\ UNCHANGED <<program, somme, mutex_somme, alive_count, mutex_alive_count, local,
                 pc, printed, signals, missed, spurious, exited>>

\* daemon: main joins print_thread only
JoinPrinter ==
  /\ program = "daemon" /\ maker = "join" /\ printer = "done"
  /\ maker' = "end"
  /\ UNCHANGED <<program, somme, mutex_somme, alive_count, mutex_alive_count, local,
                 pc, printer, printed, signals, missed, spurious, exited>>
-----------------------------------------------------------------------------
(* thread_rand *)

Lock(w) ==
  /\ Goto(w, "lock", "load")
  /\ LockSum(w)
  /\ UNCHANGED <<program, somme, alive_count, mutex_alive_count, local,
                 maker, printer, printed, signals, missed, spurious, exited>>

\* somme += a_random, which is a load and a store
Load(w) ==
  /\ Goto(w, "load", "store")
  /\ local' = [local EXCEPT ![w] = somme]
  /\ UNCHANGED <<program, somme, mutex_somme, alive_count, mutex_alive_count,
                 maker, printer, printed, signals, missed, spurious, exited>>

Store(w) ==
  /\ Goto(w, "store", IF program = "daemon" THEN "alive" ELSE "done")
  /\ somme' = local[w] \cup {w}
  /\ UnlockSum
  /\ UNCHANGED <<program, alive_count, mutex_alive_count, local,
                 maker, printer, printed, signals, missed, spurious, exited>>

\* fault: mutex_alive_count is not used
LockAlive_missing(w) ==
  /\ Goto(w, "alive", "check")
  /\ UNCHANGED <<program, somme, mutex_somme, alive_count, mutex_alive_count, local,
                 maker, printer, printed, signals, missed, spurious, exited>>
LockAlive(w) ==
  /\ Goto(w, "alive", "check")
  /\ mutex_alive_count = Free /\ mutex_alive_count' = w
  /\ UNCHANGED <<program, somme, mutex_somme, alive_count, local,
                 maker, printer, printed, signals, missed, spurious, exited>>

\* fault: it tests the count as if it were already decremented
LastOne_early == alive_count <= 2
LastOne == alive_count <= 1

\* the last one signals; a signal with nobody waiting is lost
Check(w) ==
  /\ Goto(w, "check", "decrement")
  /\ IF LastOne
     THEN /\ signals' = signals + 1
          /\ printer' = IF printer = "asleep" THEN "ready" ELSE printer
          /\ missed' = (missed \/ printer # "asleep")
     ELSE UNCHANGED <<signals, printer, missed>>
  /\ UNCHANGED <<program, somme, mutex_somme, alive_count, mutex_alive_count, local,
                 maker, printed, spurious, exited>>

Decrement(w) ==
  /\ Goto(w, "decrement", "done")
  /\ alive_count' = alive_count - 1
  /\ mutex_alive_count' = Free
  /\ UNCHANGED <<program, somme, mutex_somme, local,
                 maker, printer, printed, signals, missed, spurious, exited>>
-----------------------------------------------------------------------------
(* print_thread, or the end of main in exclusion.c *)

StartWait ==
  /\ printer = "start" /\ printer' = "locked"
  /\ LockSum(Printer)
  /\ UNCHANGED <<program, somme, alive_count, mutex_alive_count, local, pc,
                 maker, printed, signals, missed, spurious, exited>>

CondWait ==
  /\ printer = "locked" /\ printer' = "asleep"
  /\ UnlockSum
  /\ UNCHANGED <<program, somme, alive_count, mutex_alive_count, local, pc,
                 maker, printed, signals, missed, spurious, exited>>

SpuriousWakeup ==
  /\ printer = "asleep" /\ printer' = "ready"
  /\ spurious' = TRUE
  /\ UNCHANGED <<program, somme, mutex_somme, alive_count, mutex_alive_count, local,
                 pc, maker, printed, signals, missed, exited>>

LockToPrint ==
  /\ printer = "ready" /\ printer' = "print"
  /\ LockSum(Printer)
  /\ UNCHANGED <<program, somme, alive_count, mutex_alive_count, local, pc,
                 maker, printed, signals, missed, spurious, exited>>

PrintSum ==
  /\ printer = "print" /\ printer' = "done"
  /\ printed' = somme
  /\ UnlockSum
  /\ UNCHANGED <<program, somme, alive_count, mutex_alive_count, local, pc,
                 maker, signals, missed, spurious, exited>>
-----------------------------------------------------------------------------
\* when main returns, or exits, every thread is gone
Over == exited \/ (maker = "end" /\ printer = "done")

Making == EndCreate \/ JoinAll \/ JoinPrinter
Printing == StartWait \/ CondWait \/ LockToPrint \/ PrintSum
Thread_rand(w) == Lock(w) \/ Load(w) \/ Store(w)
                  \/ LockAlive(w) \/ Check(w) \/ Decrement(w)

Next ==
  /\ ~ Over
  /\ \/ Making \/ CreateFailure \/ Printing \/ SpuriousWakeup
     \/ \E w \in Workers : Create(w) \/ Thread_rand(w)

Spec == Init /\ [][Next]_vars

(* Threads run.  Each mutex is taken a bounded number of times, so a thread *)
(* that waits for one gets it without more than that.                      *)
Fairness ==
  /\ WF_vars(~ Over /\ Making) /\ WF_vars(~ Over /\ Printing)
  /\ \A w \in Workers : WF_vars(~ Over /\ Create(w)) /\ WF_vars(~ Over /\ Thread_rand(w))

FairSpec == Spec /\ Fairness
-----------------------------------------------------------------------------
(* The type invariant. *)
TypeOK ==
  /\ program \in Programs
  /\ somme \subseteq Workers /\ printed \subseteq Workers
  /\ mutex_somme \in Workers \cup {Printer, Free}
  /\ mutex_alive_count \in Workers \cup {Free}
  /\ alive_count \in 0 .. Cardinality(Workers)
  /\ local \in [Workers -> SUBSET Workers]
  /\ pc \in [Workers -> {"none", "lock", "load", "store", "alive", "check",
                         "decrement", "done"}]
  /\ maker \in {"create", "join", "end"}
  /\ printer \in {"off", "start", "locked", "asleep", "ready", "print", "done"}
  /\ signals \in Nat
  /\ missed \in BOOLEAN /\ spurious \in BOOLEAN /\ exited \in BOOLEAN

(* The sum that is printed is final: no value is missing from it and none  *)
(* was overwritten, unless the wakeup was spurious (daemon.c line 34 waits *)
(* without a predicate) or the sum is not protected (exclusion.c line 23). *)
SumIsFinal ==
  printer = "done" /\ program # "exclusion" /\ ~ spurious => printed = Workers

(* The signal is sent once, by a thread after which no other will add its  *)
(* value: alive_count is tested and decremented in one critical section,   *)
(* and each thread adds before it counts itself out.                       *)
LastOneSignals == signals <= 1 /\ (signals = 1 => somme = Workers)

(* What a step relies on, conjunct by conjunct: who holds the mutexes, what  *)
(* the sum holds, what alive_count counts, what a signal and a printer that *)
(* was woken mean.                                                         *)
Running == {w \in Workers : pc[w] # "done"}
Protected == program # "exclusion"
Holding ==
  /\ \A w \in Workers : pc[w] \in {"load", "store"} /\ Protected => mutex_somme = w
  /\ printer \in {"locked", "print"} /\ Protected => mutex_somme = Printer
  /\ \A w \in Workers : pc[w] \in {"check", "decrement"} => mutex_alive_count = w
Added ==
  Protected =>
    /\ somme = {w \in Workers : pc[w] \in {"alive", "check", "decrement", "done"}}
    /\ \A w \in Workers : pc[w] = "store" => local[w] = somme
Counted ==
  IF program = "daemon" THEN alive_count = Cardinality(Running)
  ELSE \A w \in Workers : pc[w] \notin {"alive", "check", "decrement"}
Signalled ==
  /\ signals \in {0, 1}
  /\ signals = 1 => program = "daemon" /\ \A w \in Workers : pc[w] \in {"decrement", "done"}
Woken ==
  printer \in {"ready", "print", "done"} /\ ~ spurious =>
    signals = 1 \/ \A w \in Workers : pc[w] = "done"
IInv == TypeOK /\ Holding /\ Added /\ Counted /\ Signalled /\ Woken /\ SumIsFinal

(* main announces that its threads are finished (daemon.c line 114), unless *)
(* the last of them signals before print_thread waits: nothing else can    *)
(* make the program wait for ever.                                         *)
EndsUnlessMissed == <>(Over \/ missed)
=============================================================================
