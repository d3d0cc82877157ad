---------------------------- MODULE Philosophers ----------------------------
(***************************************************************************)
(* The dining philosophers of TME05/src/nietzscheBrot.c.  Philosopher i    *)
(* takes chopsticks i and i+1 together, testing flags in shared memory     *)
(* under the semaphore regulator_terminator; refused, it passes through    *)
(* the semaphores of the chopsticks it found taken (which nobody ever      *)
(* holds) and tries again.  SIGINT ends a philosopher anywhere.            *)
(***************************************************************************)
EXTENDS Integers

CONSTANTS NB_PROCS,
          Mortal       \* philosophers that may receive SIGINT

Phil == 0 .. NB_PROCS - 1

ASSUME NbAssumption == NB_PROCS \in Nat /\ NB_PROCS >= 2
ASSUME MortalAssumption == Mortal \subseteq Phil

VARIABLES regulator_terminator, baguettes, semtab,
          gauche, droite,      \* each process's flags
          pc

vars == <<regulator_terminator, baguettes, semtab, gauche, droite, pc>>

Right(i) == (i + 1) % NB_PROCS
Mine(i) == {i, Right(i)}

Init ==
  /\ regulator_terminator = 1
  /\ baguettes = [i \in Phil |-> 1]
  /\ semtab = [i \in Phil |-> 1]
  /\ gauche = [i \in Phil |-> FALSE]
  /\ droite = [i \in Phil |-> FALSE]
  /\ pc = [i \in Phil |-> "hungry"]

Goto(i, from, to) == pc[i] = from /\ pc' = [pc EXCEPT ![i] = to]
WaitRegulator ==
  regulator_terminator > 0 /\ regulator_terminator' = regulator_terminator - 1
PostRegulator == regulator_terminator' = regulator_terminator + 1
Set(S, v) == baguettes' = [k \in Phil |-> IF k \in S THEN v ELSE baguettes[k]]

Enter(i) ==
  /\ Goto(i, "hungry", "look")
  /\ WaitRegulator
  /\ UNCHANGED <<baguettes, semtab, gauche, droite>>

\* fault: the chopstick on the right is not looked at
Look_left(i) ==
  /\ Goto(i, "look", "decide")
  /\ gauche' = [gauche EXCEPT ![i] = @ \/ baguettes[i] = 0]
  /\ UNCHANGED <<regulator_terminator, baguettes, semtab, droite>>

\* the flags are only ever raised here
Look(i) ==
  /\ Goto(i, "look", "decide")
  /\ gauche' = [gauche EXCEPT ![i] = @ \/ baguettes[i] = 0]
  /\ droite' = [droite EXCEPT ![i] = @ \/ baguettes[Right(i)] = 0]
  /\ UNCHANGED <<regulator_terminator, baguettes, semtab>>

Take(i) ==
  /\ ~ gauche[i] /\ ~ droite[i]
  /\ Goto(i, "decide", "eat")
  /\ Set(Mine(i), 0)
  /\ PostRegulator
  /\ UNCHANGED <<semtab, gauche, droite>>

Refuse(i) ==
  /\ gauche[i] \/ droite[i]
  /\ Goto(i, "decide", "left")
  /\ PostRegulator
  /\ UNCHANGED <<baguettes, semtab, gauche, droite>>

\* manger has returned
Leave(i) ==
  /\ Goto(i, "eat", "put")
  /\ WaitRegulator
  /\ UNCHANGED <<baguettes, semtab, gauche, droite>>

\* fault: only one chopstick is put back
PutBack_left(i) ==
  /\ Goto(i, "put", "left")
  /\ Set({i}, 1)
  /\ PostRegulator
  /\ UNCHANGED <<semtab, gauche, droite>>

PutBack(i) ==
  /\ Goto(i, "put", "left")
  /\ Set(Mine(i), 1)
  /\ PostRegulator
  /\ UNCHANGED <<semtab, gauche, droite>>

\* sem_wait then sem_post of semtab[k], or nothing when the flag is down
Through(i, k, flag, here, inside, after) ==
  \/ ~ flag /\ Goto(i, here, after) /\ UNCHANGED semtab
  \/ /\ flag /\ semtab[k] > 0
     /\ Goto(i, here, inside)
     /\ semtab' = [semtab EXCEPT ![k] = @ - 1]
  \/ /\ Goto(i, inside, after)
     /\ semtab' = [semtab EXCEPT ![k] = @ + 1]

Wait(i) ==
  /\ \/ Through(i, i, gauche[i], "left", "inleft", "right")
     \/ Through(i, Right(i), droite[i], "right", "inright", "reset")
  /\ UNCHANGED <<regulator_terminator, baguettes, gauche, droite>>

Reset(i) ==
  /\ Goto(i, "reset", "hungry")
  /\ gauche' = [gauche EXCEPT ![i] = FALSE]
  /\ droite' = [droite EXCEPT ![i] = FALSE]
  /\ UNCHANGED <<regulator_terminator, baguettes, semtab>>

\* the handler unmaps the memory and exits, whatever the philosopher holds
Handler(i) ==
  /\ i \in Mortal /\ pc[i] # "gone"
  /\ pc' = [pc EXCEPT ![i] = "gone"]
  /\ UNCHANGED <<regulator_terminator, baguettes, semtab, gauche, droite>>

Philosopher(i) ==
  \/ Enter(i) \/ Look(i) \/ Take(i) \/ Refuse(i) \/ Leave(i) \/ PutBack(i)
  \/ Wait(i) \/ Reset(i)

Next == \E i \in Phil : Philosopher(i) \/ Handler(i)

Spec == Init /\ [][Next]_vars

(* Processes run, and one that waits for a semaphore posted again and again *)
(* is not overtaken for ever.                                              *)
Fairness == \A i \in Phil : SF_vars(Philosopher(i))

FairSpec == Spec /\ Fairness
-----------------------------------------------------------------------------
(* The type invariant. *)
TypeOK ==
  /\ regulator_terminator \in 0 .. 1
  /\ baguettes \in [Phil -> 0 .. 1]
  /\ semtab \in [Phil -> Nat]
  /\ gauche \in [Phil -> BOOLEAN] /\ droite \in [Phil -> BOOLEAN]
  /\ pc \in [Phil -> {"hungry", "look", "decide", "eat", "put", "left", "inleft",
                      "right", "inright", "reset", "gone"}]

Eating == {i \in Phil : pc[i] \in {"eat", "put"}}
InRegion == {i \in Phil : pc[i] \in {"look", "decide", "put"}}

(* Two philosophers that share a chopstick never eat at the same time. *)
Neighbours == \A i, j \in Eating : i # j => Mine(i) \cap Mine(j) = {}

(* A chopstick in use is flagged, so that the test of a neighbour that     *)
(* holds the regulator is right, even when a philosopher dies.             *)
Flagged == \A i \in Eating : \A k \in Mine(i) : baguettes[k] = 0

Dead == {i \in Phil : pc[i] = "gone"}

(* Until somebody is killed, a chopstick is flagged only while somebody    *)
(* eats with it: a refusal is never due to a stale flag.                   *)
NoStaleFlag == Dead = {} =>
  \A k \in Phil : baguettes[k] = 0 => \E i \in Eating : k \in Mine(i)

(* Somebody always eats again, unless one is killed, although one          *)
(* philosopher may be overtaken by its two neighbours for ever.            *)
SomebodyEats == []<>(Eating # {} \/ Dead # {})
-----------------------------------------------------------------------------
(* For the induction: the regulator is a lock, and what a philosopher that *)
(* holds it saw is still so.                                               *)
Region ==
  /\ \A i, j \in InRegion : i = j
  /\ InRegion # {} => regulator_terminator = 0
Seen == \A i \in Phil : pc[i] = "decide" /\ ~ gauche[i] /\ ~ droite[i] =>
                           \A k \in Mine(i) : baguettes[k] = 1

IInv == TypeOK /\ Region /\ Seen /\ Flagged /\ Neighbours
=============================================================================
