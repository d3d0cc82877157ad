----------------------------- MODULE CondStack -----------------------------
(***************************************************************************)
(* The bounded stack of TME03/src/thread_stack.c, protected by one mutex   *)
(* and one condition variable, driven by the producers and consumers of    *)
(* TME03/src/produc.c and producS.c.  A producer reads the shared standard *)
(* input a character at a time and pushes it; a consumer pops for ever.    *)
(* A character is the rank at which getchar() returned it, so that two     *)
(* copies of one character can be told apart.                              *)
(***************************************************************************)
EXTENDS Integers, FiniteSets

CONSTANTS Producers,   \* the threads that run Producteur
          Consumers,   \* the threads that run Consommateur
          Size,        \* SIZEPILE
          Input,       \* number of characters before EOF on standard input
          Free         \* the owner of an unlocked mutex

ASSUME ThreadsAssumption ==
  /\ Producers \cap Consumers = {}
  /\ Free \notin Producers \cup Consumers
ASSUME SizeAssumption == Size \in Nat \ {0}
ASSUME InputAssumption == Input \in Nat

VARIABLES mutex,       \* owner of mutex_pile
          stack_size,
          pile,        \* pile[0 .. Size-1]
          pc,          \* where each thread is
          c,           \* the character a thread holds: argument or result
          etait_vide,  \* Push's local: the stack was empty on entry
          rd,          \* characters read from standard input so far
          lost,        \* characters dropped by Push because the stack was full
          out          \* characters written by putchar

vars == <<mutex, stack_size, pile, pc, c, etait_vide, rd, lost, out>>

Threads == Producers \cup Consumers
Chars == 1 .. Input
Slots == 0 .. Size - 1

est_pleine == stack_size >= Size
est_vide == stack_size = 0

Init ==
  /\ mutex = Free
  /\ stack_size = 0
  /\ pile = [i \in Slots |-> 0]
  /\ pc = [t \in Threads |-> IF t \in Producers THEN "read" ELSE "pop"]
  /\ c = [t \in Threads |-> 0]
  /\ etait_vide = [p \in Producers |-> FALSE]
  /\ rd = 0
  /\ lost = {}
  /\ out = {}

Lock(t) == mutex = Free /\ mutex' = t
Unlock == mutex' = Free
Goto(t, from, to) == pc[t] = from /\ pc' = [pc EXCEPT ![t] = to]

\* while ((c = getchar()) != EOF): the stdio lock makes each read atomic
Getchar(p) ==
  /\ IF rd < Input
     THEN /\ Goto(p, "read", "push")
          /\ rd' = rd + 1
          /\ c' = [c EXCEPT ![p] = rd + 1]
     ELSE Goto(p, "read", "done") /\ UNCHANGED <<rd, c>>
  /\ UNCHANGED <<mutex, stack_size, pile, etait_vide, lost, out>>

PushLock(p) ==
  /\ Goto(p, "push", "store")
  /\ Lock(p)
  /\ etait_vide' = [etait_vide EXCEPT ![p] = est_vide]
  /\ UNCHANGED <<stack_size, pile, c, rd, lost, out>>

\* a full stack drops the character without telling the producer
PushStore(p) ==
  /\ Goto(p, "store", "wake")
  /\ IF ~ est_pleine
     THEN /\ pile' = [pile EXCEPT ![stack_size] = c[p]]
          /\ stack_size' = stack_size + 1
          /\ lost' = lost
     ELSE lost' = lost \cup {c[p]} /\ UNCHANGED <<pile, stack_size>>
  /\ c' = [c EXCEPT ![p] = 0]
  /\ UNCHANGED <<mutex, etait_vide, rd, out>>

\* faults: a signal in place of the broadcast, and neither of them
Broadcast_signal(f) ==
  LET sleepers == {t \in Threads : f[t] = "asleep"}
  IN  [t \in Threads |-> IF sleepers # {} /\ t = CHOOSE u \in sleepers : TRUE
                          THEN "pop" ELSE f[t]]
Broadcast_missing(f) == f
\* The broadcast moves every sleeper back to contending for the mutex.
Broadcast(f) == [t \in Threads |-> IF f[t] = "asleep" THEN "pop" ELSE f[t]]

PushUnlock(p) ==
  /\ pc[p] = "wake"
  /\ pc' = LET next == [pc EXCEPT ![p] = "read"]
           IN  IF etait_vide[p] THEN Broadcast(next) ELSE next
  /\ Unlock
  /\ UNCHANGED <<stack_size, pile, c, etait_vide, rd, lost, out>>

PopLock(k) ==
  /\ Goto(k, "pop", "test")
  /\ Lock(k)
  /\ UNCHANGED <<stack_size, pile, c, etait_vide, rd, lost, out>>

PopWait(k) ==
  /\ est_vide
  /\ Goto(k, "test", "asleep")
  /\ Unlock
  /\ UNCHANGED <<stack_size, pile, c, etait_vide, rd, lost, out>>

\* POSIX lets pthread_cond_wait return without a signal.
SpuriousWakeup(k) ==
  /\ Goto(k, "asleep", "pop")
  /\ UNCHANGED <<mutex, stack_size, pile, c, etait_vide, rd, lost, out>>

\* fault: the element pushed first is taken
PopTake_fifo(k) ==
  /\ ~ est_vide
  /\ Goto(k, "test", "put")
  /\ stack_size' = stack_size - 1
  /\ c' = [c EXCEPT ![k] = pile[0]]
  /\ Unlock
  /\ UNCHANGED <<pile, etait_vide, rd, lost, out>>

PopTake(k) ==
  /\ ~ est_vide
  /\ Goto(k, "test", "put")
  /\ stack_size' = stack_size - 1
  /\ c' = [c EXCEPT ![k] = pile[stack_size - 1]]
  /\ Unlock
  /\ UNCHANGED <<pile, etait_vide, rd, lost, out>>

Putchar(k) ==
  /\ Goto(k, "put", "pop")
  /\ out' = out \cup {c[k]}
  /\ c' = [c EXCEPT ![k] = 0]
  /\ UNCHANGED <<mutex, stack_size, pile, etait_vide, rd, lost>>

Producteur(p) == Getchar(p) \/ PushLock(p) \/ PushStore(p) \/ PushUnlock(p)
Consommateur(k) == PopLock(k) \/ PopWait(k) \/ PopTake(k) \/ Putchar(k)

Next == \/ \E p \in Producers : Producteur(p)
        \/ \E k \in Consumers : Consommateur(k) \/ SpuriousWakeup(k)

Spec == Init /\ [][Next]_vars

(* A running thread takes its steps; a thread that keeps asking for the    *)
(* mutex is not passed over for ever.  Nothing promises a spurious wakeup. *)
Fairness ==
  /\ \A p \in Producers : WF_vars(Producteur(p)) /\ SF_vars(PushLock(p))
  /\ \A k \in Consumers : WF_vars(Consommateur(k)) /\ SF_vars(PopLock(k))

FairSpec == Spec /\ Fairness
-----------------------------------------------------------------------------
(* The type invariant; its bound on stack_size says that Pop never takes   *)
(* from an empty stack and Push never writes past the array.               *)
TypeOK ==
  /\ mutex \in Threads \cup {Free}
  /\ stack_size \in 0 .. Size
  /\ pile \in [Slots -> 0 .. Input]
  /\ pc \in [Threads -> {"read", "push", "store", "wake", "done",
                         "pop", "test", "asleep", "put"}]
  /\ \A t \in Threads : pc[t] \in {"read", "push", "store", "wake", "done"}
                          <=> t \in Producers
  /\ c \in [Threads -> 0 .. Input]
  /\ etait_vide \in [Producers -> BOOLEAN]
  /\ rd \in 0 .. Input
  /\ lost \subseteq Chars
  /\ out \subseteq Chars

(* No lost wakeup: a consumer sleeps beside a non-empty stack only until   *)
(* the producer that made it non-empty broadcasts.  Push broadcasts only   *)
(* when the stack was empty on entry, so this rests on the broadcast       *)
(* reaching every sleeper and on the test being made under the mutex.      *)
NoLostWakeup ==
  stack_size > 0 =>
    \/ \A k \in Consumers : pc[k] # "asleep"
    \/ \E p \in Producers : pc[p] = "wake" /\ etait_vide[p]

Stacked == {pile[i] : i \in 0 .. stack_size - 1}
InHand == {c[t] : t \in {u \in Threads : c[u] # 0}}

(* Every character read from standard input is in exactly one place: in    *)
(* the hands of one thread, in one cell of the stack, written, or dropped  *)
(* on a full stack.  No interleaving of Push and Pop loses or duplicates.  *)
Covered == Stacked \cup InHand \cup lost \cup out = 1 .. rd
Disjoint ==
  /\ Stacked \cap InHand = {} /\ Stacked \cap lost = {} /\ Stacked \cap out = {}
  /\ InHand \cap lost = {} /\ InHand \cap out = {} /\ lost \cap out = {}
OneCopy ==
  /\ \A i, j \in 0 .. stack_size - 1 : pile[i] = pile[j] => i = j
  /\ \A t, u \in Threads : c[t] = c[u] /\ c[t] # 0 => t = u
Conservation == Covered /\ Disjoint /\ OneCopy

(* The mutex and the condition variable implement the abstract stack: Pop  *)
(* returns the last character stored, and only a full stack drops one.     *)
Lifo == INSTANCE LifoStack
  WITH Elem <- Chars,
       stack <- [n \in 1 .. stack_size |-> pile[n - 1]],
       taken <- out \cup ({c[k] : k \in Consumers} \ {0})
ImplementsLifo == Lifo!Spec

(* Every character that was pushed is written in the end, in spite of      *)
(* wakeups that find the stack empty again: nothing but a full stack keeps *)
(* a character that was read from reaching the output.                     *)
EverythingConsumed == \A x \in Chars : (x <= rd) ~> (x \in out \cup lost)
-----------------------------------------------------------------------------
(* What else every reachable state satisfies, for the induction: a thread  *)
(* is between lock and unlock exactly when it owns mutex_pile, the test    *)
(* made on entry of Push is still right when the character is stored, and  *)
(* a thread holds a character exactly when its program counter says so.    *)
Owner == \A t \in Threads : pc[t] \in {"store", "wake", "test"} <=> mutex = t
EntryTest == \A p \in Producers : pc[p] = "store" => (etait_vide[p] <=> est_vide)
Holding == \A t \in Threads : c[t] # 0 <=> pc[t] \in {"push", "store", "put"}

IInv == TypeOK /\ Owner /\ EntryTest /\ Holding /\ NoLostWakeup /\ Conservation
=============================================================================
