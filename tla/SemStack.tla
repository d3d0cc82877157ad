------------------------------ MODULE SemStack ------------------------------
(***************************************************************************)
(* The stack of TME04/src/thread_stack.c, rebuilt on two System V          *)
(* semaphores: semaphore 1 is a lock, semaphore 0 wakes the consumers      *)
(* counted in nb_endormis.  A consumer that has slept does not look at the *)
(* stack again: Pop returns the NUL character.  The threads are those of   *)
(* TME04/src/produc.c.                                                     *)
(***************************************************************************)
EXTENDS Integers, FiniteSets

CONSTANTS Producers, Consumers,
          Size,    \* STACK_SIZE
          Input    \* number of characters before EOF on standard input

ASSUME ThreadsAssumption ==
  /\ Producers \cap Consumers = {}
  /\ IsFiniteSet(Consumers)
ASSUME SizeAssumption == Size \in Nat \ {0}
ASSUME InputAssumption == Input \in Nat

VARIABLES sem,            \* the two semaphores
          stack_pointer, pile,
          nb_endormis,    \* consumers counted as asleep
          i,              \* Push's loop index: semaphore 0 posted i times
          pc, c, rd, lost, out

vars == <<sem, stack_pointer, pile, nb_endormis, i, pc, c, rd, lost, out>>
data == <<stack_pointer, pile, rd, lost, out>>

Threads == Producers \cup Consumers
Chars == 1 .. Input
Slots == 0 .. Size - 1
NUL == 0

Init ==
  /\ sem = [s \in {0, 1} |-> s]   \* sem_table = {0, 1}
  /\ stack_pointer = 0
  /\ pile = [s \in Slots |-> 0]
  /\ nb_endormis = 0
  /\ i = 0
  /\ pc = [t \in Threads |-> IF t \in Producers THEN "read" ELSE "pop"]
  /\ c = [t \in Threads |-> NUL]
  /\ rd = 0
  /\ lost = {}
  /\ out = {}

\* fault: semop with IPC_NOWAIT, its result ignored
P_nowait(s) == sem' = [sem EXCEPT ![s] = IF @ > 0 THEN @ - 1 ELSE @]
P(s) == sem[s] > 0 /\ sem' = [sem EXCEPT ![s] = @ - 1]
V(s) == sem' = [sem EXCEPT ![s] = @ + 1]
Goto(t, from, to) == pc[t] = from /\ pc' = [pc EXCEPT ![t] = to]
Full == stack_pointer >= Size
Forget(t) == c' = [c EXCEPT ![t] = NUL]   \* a local that is read no more

Getchar(p) ==
  /\ IF rd < Input
     THEN /\ Goto(p, "read", "push")
          /\ rd' = rd + 1
          /\ c' = [c EXCEPT ![p] = rd + 1]
     ELSE Goto(p, "read", "done") /\ UNCHANGED <<rd, c>>
  /\ UNCHANGED <<sem, stack_pointer, pile, nb_endormis, i, lost, out>>

PushLock(p) ==
  /\ Goto(p, "push", "locked")
  /\ P(1)
  /\ i' = 0
  /\ UNCHANGED <<data, nb_endormis, c>>

PushFull(p) ==
  /\ Full
  /\ Goto(p, "locked", "read")
  /\ V(1)
  /\ lost' = lost \cup {c[p]}
  /\ Forget(p)
  /\ UNCHANGED <<stack_pointer, pile, nb_endormis, i, rd, out>>

\* one turn of the loop that wakes the sleepers of an empty stack
PushWake(p) ==
  /\ pc[p] = "locked"
  /\ stack_pointer <= 0
  /\ i < nb_endormis
  /\ V(0)
  /\ i' = i + 1
  /\ UNCHANGED <<data, nb_endormis, pc, c>>

PushStore(p) ==
  /\ ~ Full
  /\ stack_pointer <= 0 => i >= nb_endormis
  /\ Goto(p, "locked", "read")
  /\ nb_endormis' = 0
  /\ i' = 0
  /\ pile' = [pile EXCEPT ![stack_pointer] = c[p]]
  /\ stack_pointer' = stack_pointer + 1
  /\ V(1)
  /\ Forget(p)
  /\ UNCHANGED <<rd, lost, out>>

PopLock(k) ==
  /\ Goto(k, "pop", "test")
  /\ P(1)
  /\ UNCHANGED <<data, nb_endormis, i, c>>

\* fault: the sleeper is not counted
PopSleep_uncounted(k) ==
  /\ stack_pointer <= 0
  /\ Goto(k, "test", "asleep")
  /\ V(1)
  /\ UNCHANGED <<data, nb_endormis, i, c>>

PopSleep(k) ==
  /\ stack_pointer <= 0
  /\ Goto(k, "test", "asleep")
  /\ nb_endormis' = nb_endormis + 1
  /\ V(1)
  /\ UNCHANGED <<data, i, c>>

\* P(0) and return 0
PopWake(k) ==
  /\ Goto(k, "asleep", "put")
  /\ P(0)
  /\ c' = [c EXCEPT ![k] = NUL]
  /\ UNCHANGED <<data, nb_endormis, i>>

\* fault: the element pushed first is taken
PopTake_fifo(k) ==
  /\ stack_pointer > 0
  /\ Goto(k, "test", "put")
  /\ stack_pointer' = stack_pointer - 1
  /\ c' = [c EXCEPT ![k] = pile[0]]
  /\ V(1)
  /\ UNCHANGED <<pile, nb_endormis, i, rd, lost, out>>

PopTake(k) ==
  /\ stack_pointer > 0
  /\ Goto(k, "test", "put")
  /\ stack_pointer' = stack_pointer - 1
  /\ c' = [c EXCEPT ![k] = pile[stack_pointer - 1]]
  /\ V(1)
  /\ UNCHANGED <<pile, nb_endormis, i, rd, lost, out>>

Putchar(k) ==
  /\ Goto(k, "put", "pop")
  /\ out' = out \cup {c[k]}
  /\ Forget(k)
  /\ UNCHANGED <<sem, stack_pointer, pile, nb_endormis, i, rd, lost>>

Producteur(p) ==
  Getchar(p) \/ PushLock(p) \/ PushFull(p) \/ PushWake(p) \/ PushStore(p)
Consommateur(k) ==
  PopLock(k) \/ PopSleep(k) \/ PopWake(k) \/ PopTake(k) \/ Putchar(k)

Next == \/ \E p \in Producers : Producteur(p)
        \/ \E k \in Consumers : Consommateur(k)

Spec == Init /\ [][Next]_vars

(* Threads take their steps, and System V queues the callers of P, so that *)
(* none is passed over for ever.                                           *)
Fairness ==
  /\ \A p \in Producers : WF_vars(Producteur(p)) /\ SF_vars(PushLock(p))
  /\ \A k \in Consumers :
       WF_vars(Consommateur(k)) /\ SF_vars(PopLock(k)) /\ SF_vars(PopWake(k))

FairSpec == Spec /\ Fairness
-----------------------------------------------------------------------------
(* The type invariant; stack_pointer stays within the array. *)
TypeOK ==
  /\ sem \in [{0, 1} -> Nat]
  /\ stack_pointer \in 0 .. Size
  /\ pile \in [Slots -> 0 .. Input]
  /\ nb_endormis \in Nat
  /\ i \in 0 .. nb_endormis
  /\ pc \in [Threads -> {"read", "push", "locked", "done",
                         "pop", "test", "asleep", "put"}]
  /\ \A t \in Threads : pc[t] \in {"read", "push", "locked", "done"}
                          <=> t \in Producers
  /\ c \in [Threads -> 0 .. Input]
  /\ rd \in 0 .. Input
  /\ lost \subseteq Chars
  /\ out \subseteq 0 .. Input

InCritical == {t \in Threads : pc[t] \in {"locked", "test"}}
Sleepers == {k \in Consumers : pc[k] = "asleep"}

(* Semaphore 1 is a lock: it is taken exactly when one thread is between   *)
(* P(1) and V(1), on every path through Push and Pop.                      *)
MutualExclusion ==
  /\ sem[1] = IF InCritical = {} THEN 1 ELSE 0
  /\ \A t, u \in InCritical : t = u

(* Every consumer that released the lock in order to sleep is accounted    *)
(* for, either in nb_endormis or by a token of semaphore 0, although the   *)
(* count is written under the lock and the token taken outside it: a       *)
(* consumer that comes late may take the token meant for another.          *)
SleepersAccounted == Cardinality(Sleepers) = sem[0] + nb_endormis - i

(* Push wakes sleepers only when the stack is empty and then forgets them: *)
(* with elements in the stack every sleeper has a token waiting.           *)
NoSleeperForgotten == stack_pointer > 0 => Cardinality(Sleepers) = sem[0]

(* The semaphores implement the abstract bounded stack. *)
Hand(T) == {c[t] : t \in T} \ {NUL}
Lifo == INSTANCE LifoStack
  WITH Elem <- Chars,
       stack <- [n \in 1 .. stack_pointer |-> pile[n - 1]],
       taken <- (out \cup Hand(Consumers)) \ {NUL}
ImplementsLifo == Lifo!Spec

(* Every character that was read and not dropped is written in the end,    *)
(* however many times its consumers return a NUL instead.                  *)
EverythingConsumed == \A x \in Chars : (x <= rd) ~> (x \in out \cup lost)
-----------------------------------------------------------------------------
(* The inductive invariant: sleepers are counted only beside an empty      *)
(* stack, and only the thread in Push moves the loop index.                *)
CountedOnlyWhenEmpty == stack_pointer > 0 => nb_endormis = 0
LoopIndex == i > 0 => \E p \in Producers : pc[p] = "locked"
Holding == \A p \in Producers : pc[p] \in {"push", "locked"} => c[p] # NUL

IInv == /\ TypeOK
        /\ MutualExclusion
        /\ LoopIndex
        /\ Holding
        /\ CountedOnlyWhenEmpty
        /\ SleepersAccounted

(* Where a character that was read is, for the refinement: in the hands of *)
(* one thread, in one cell of the stack, written, or dropped.  A thread    *)
(* that is not in Push nor about to write holds nothing.                   *)
Stacked == {pile[s] : s \in 0 .. stack_pointer - 1}
InHand == Hand(Threads)
Covered == Stacked \cup InHand \cup lost \cup (out \ {NUL}) = 1 .. rd
Disjoint ==
  /\ Stacked \cap InHand = {} /\ Stacked \cap lost = {} /\ Stacked \cap out = {}
  /\ InHand \cap lost = {} /\ InHand \cap out = {} /\ lost \cap out = {}
OneCopy ==
  /\ \A s, u \in 0 .. stack_pointer - 1 : pile[s] = pile[u] => s = u
  /\ \A t, u \in Threads : c[t] = c[u] /\ c[t] # NUL => t = u
EmptyHanded ==
  \A t \in Threads : pc[t] \notin {"push", "locked", "put"} => c[t] = NUL

Conservation == Covered /\ Disjoint /\ OneCopy /\ EmptyHanded
=============================================================================
