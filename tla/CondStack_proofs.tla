-------------------------- MODULE CondStack_proofs --------------------------
(* Proofs about CondStack, for any number of threads and any stack size. *)
EXTENDS CondStack, SequenceTheorems, TLAPS

LEMMA InitIInv == Init => IInv
<1> SUFFICES ASSUME Init PROVE IInv
    OBVIOUS
<1> USE ThreadsAssumption, SizeAssumption, InputAssumption DEF Init, Threads, Slots
<1>1. TypeOK
  BY DEF TypeOK, Chars
<1>2. Owner /\ EntryTest /\ Holding /\ NoLostWakeup
  BY DEF Owner, EntryTest, Holding, NoLostWakeup
<1>3. Conservation
  BY DEF Conservation, Covered, Disjoint, OneCopy, Stacked, InHand
<1> QED BY <1>1, <1>2, <1>3 DEF IInv

(* The control part of the invariant: types, ownership of the mutex, the   *)
(* entry test, and the absence of lost wakeups.                            *)
LEMMA ControlStep ==
  ASSUME IInv, [Next]_vars
  PROVE  TypeOK' /\ Owner' /\ EntryTest' /\ Holding' /\ NoLostWakeup'
<1> DEFINE Goal == TypeOK' /\ Owner' /\ EntryTest' /\ Holding' /\ NoLostWakeup'
<1> USE ThreadsAssumption, SizeAssumption, InputAssumption
      DEF IInv, TypeOK, Owner, EntryTest, Holding, NoLostWakeup, Threads, Slots,
          Chars, Lock, Unlock, Goto, est_vide, est_pleine
<1>1. ASSUME NEW p \in Producers, Getchar(p) PROVE Goal
  <2>1. CASE rd < Input
    <3>1. TypeOK'
      <4>1. rd + 1 \in 0 .. Input BY <2>1
      <4>2. c' \in [Threads -> 0 .. Input] BY <1>1, <2>1, <4>1 DEF Getchar
      <4>3. pc' = [pc EXCEPT ![p] = "push"] BY <1>1, <2>1 DEF Getchar
      <4> QED BY <1>1, <2>1, <4>1, <4>2, <4>3 DEF Getchar
    <3>2. Owner' /\ EntryTest' /\ Holding' BY <1>1, <2>1 DEF Getchar
    <3>3. NoLostWakeup' BY <1>1, <2>1 DEF Getchar
    <3> QED BY <3>1, <3>2, <3>3
  <2>2. CASE ~ (rd < Input)
    BY <1>1, <2>2 DEF Getchar
  <2> QED BY <2>1, <2>2
<1>2. ASSUME NEW p \in Producers, PushLock(p) PROVE Goal
  BY <1>2 DEF PushLock
<1>3. ASSUME NEW p \in Producers, PushStore(p) PROVE Goal
  <2>1. CASE ~ est_pleine
    <3>1. TypeOK'
      <4>1. c[p] \in 1 .. Input BY <1>3 DEF PushStore
      <4>2. lost' \subseteq Chars BY <1>3, <2>1, <4>1 DEF PushStore
      <4>3. c' \in [Threads -> 0 .. Input] BY <1>3, <4>1 DEF PushStore
      <4>4. pile' \in [Slots -> 0 .. Input] /\ stack_size' \in 0 .. Size
        <5>1. stack_size \in Slots BY <2>1
        <5>2. pile' = [pile EXCEPT ![stack_size] = c[p]] /\ stack_size' = stack_size + 1
          BY <1>3, <2>1 DEF PushStore
        <5>3. pile' \in [Slots -> 0 .. Input] BY <4>1, <5>1, <5>2
        <5> QED BY <5>1, <5>2, <5>3
      <4>5. pc' = [pc EXCEPT ![p] = "wake"] BY <1>3 DEF PushStore
      <4> QED BY <1>3, <4>2, <4>3, <4>4, <4>5 DEF PushStore
    <3>2. Owner' /\ EntryTest' /\ Holding' BY <1>3, <2>1 DEF PushStore
    <3>3. NoLostWakeup' BY <1>3, <2>1 DEF PushStore
    <3> QED BY <3>1, <3>2, <3>3
  <2>2. CASE est_pleine
    <3>1. TypeOK'
      <4>1. c[p] \in 1 .. Input BY <1>3 DEF PushStore
      <4>2. lost' \subseteq Chars BY <1>3, <2>2, <4>1 DEF PushStore
      <4>3. c' \in [Threads -> 0 .. Input] BY <1>3, <4>1 DEF PushStore
      <4>4. pile' \in [Slots -> 0 .. Input] /\ stack_size' \in 0 .. Size
        BY <1>3, <2>2, <4>1 DEF PushStore
      <4>5. pc' = [pc EXCEPT ![p] = "wake"] BY <1>3 DEF PushStore
      <4> QED BY <1>3, <4>2, <4>3, <4>4, <4>5 DEF PushStore
    <3>2. Owner' /\ EntryTest' /\ Holding' BY <1>3, <2>2 DEF PushStore
    <3>3. NoLostWakeup' BY <1>3, <2>2 DEF PushStore
    <3> QED BY <3>1, <3>2, <3>3
  <2> QED BY <2>1, <2>2
<1>4. ASSUME NEW p \in Producers, PushUnlock(p) PROVE Goal
  BY <1>4 DEF PushUnlock, Broadcast
<1>5. ASSUME NEW k \in Consumers, PopLock(k) PROVE Goal
  BY <1>5 DEF PopLock
<1>6. ASSUME NEW k \in Consumers, PopWait(k) PROVE Goal
  BY <1>6 DEF PopWait
<1>7. ASSUME NEW k \in Consumers, SpuriousWakeup(k) PROVE Goal
  BY <1>7 DEF SpuriousWakeup
<1>8. ASSUME NEW k \in Consumers, PopTake(k) PROVE Goal
  <2>1. pile[stack_size - 1] \in 1 .. Input
    BY <1>8 DEF PopTake, Conservation, Covered, Stacked
  <2>2. TypeOK' BY <1>8, <2>1 DEF PopTake
  <2>3. Owner' /\ EntryTest' /\ Holding' BY <1>8, <2>1 DEF PopTake
  <2>4. NoLostWakeup' BY <1>8, <2>1 DEF PopTake
  <2> QED BY <2>2, <2>3, <2>4
<1>9. ASSUME NEW k \in Consumers, Putchar(k) PROVE Goal
  <2>1. c[k] \in 1 .. Input BY <1>9 DEF Putchar
  <2>2. TypeOK'
    <3>1. out' \subseteq Chars BY <1>9, <2>1 DEF Putchar
    <3>2. c' \in [Threads -> 0 .. Input] BY <1>9 DEF Putchar
    <3>3. pc' = [pc EXCEPT ![k] = "pop"] BY <1>9 DEF Putchar
    <3> QED BY <1>9, <3>1, <3>2, <3>3 DEF Putchar
  <2>3. Owner' /\ EntryTest' /\ Holding' /\ NoLostWakeup' BY <1>9, <2>1 DEF Putchar
  <2> QED BY <2>2, <2>3
<1>10. CASE UNCHANGED vars
  BY <1>10 DEF vars
<1> QED
  BY <1>1, <1>2, <1>3, <1>4, <1>5, <1>6, <1>7, <1>8, <1>9, <1>10
  DEF Next, Producteur, Consommateur

-----------------------------------------------------------------------------
(* What the hands of the threads hold after one thread is given, or loses, *)
(* a character.                                                            *)
LEMMA HandGains ==
  ASSUME NEW t \in Threads, NEW x \in Chars, IInv, c[t] = 0,
         c' = [c EXCEPT ![t] = x]
  PROVE  InHand' = InHand \cup {x}
BY InputAssumption DEF InHand, IInv, TypeOK, Chars

LEMMA HandLoses ==
  ASSUME NEW t \in Threads, IInv, c[t] # 0, c' = [c EXCEPT ![t] = 0]
  PROVE  InHand' = InHand \ {c[t]}
BY DEF InHand, IInv, TypeOK, Conservation, OneCopy

LEMMA ConservationStep ==
  ASSUME IInv, [Next]_vars
  PROVE  Conservation'
<1> USE ThreadsAssumption, SizeAssumption, InputAssumption DEF Threads, Slots, Chars
<1>0. TypeOK /\ Holding /\ Covered /\ Disjoint /\ OneCopy
  BY DEF IInv, Conservation
<1>1. ASSUME NEW p \in Producers, Getchar(p) PROVE Conservation'
  <2>1. CASE rd < Input
    <3>1. rd + 1 \in Chars /\ rd' = rd + 1 /\ 1 .. rd' = 1 .. rd \cup {rd + 1}
      BY <1>0, <1>1, <2>1 DEF Getchar, TypeOK
    <3>2. c[p] = 0 /\ c' = [c EXCEPT ![p] = rd + 1]
      BY <1>0, <1>1, <2>1 DEF Getchar, Goto, Holding, TypeOK
    <3>3. InHand' = InHand \cup {rd + 1}
      BY <3>1, <3>2, HandGains
    <3>4. Stacked' = Stacked /\ lost' = lost /\ out' = out
      BY <1>1 DEF Getchar, Stacked
    <3>5. rd + 1 \notin Stacked \cup InHand \cup lost \cup out
      <4>1. rd + 1 \notin 1 .. rd BY <1>0 DEF TypeOK
      <4> QED BY <4>1, <1>0 DEF Covered
    <3>6. Covered' BY <1>0, <3>1, <3>3, <3>4 DEF Covered
    <3>7. Disjoint' BY <1>0, <3>3, <3>4, <3>5 DEF Disjoint
    <3>8. \A t \in Threads : c[t] # rd + 1
      BY <1>0, <3>5 DEF InHand, TypeOK
    <3>9. OneCopy' BY <1>0, <1>1, <3>2, <3>8 DEF OneCopy, Getchar, TypeOK
    <3> QED BY <3>6, <3>7, <3>9 DEF Conservation
  <2>2. CASE ~ (rd < Input)
    BY <1>0, <1>1, <2>2
    DEF Getchar, Conservation, Covered, Disjoint, OneCopy, Stacked, InHand
  <2> QED BY <2>1, <2>2
<1>2. ASSUME NEW p \in Producers, PushStore(p) PROVE Conservation'
  <2>1. c[p] # 0 /\ c' = [c EXCEPT ![p] = 0]
    BY <1>0, <1>2 DEF PushStore, Goto, Holding, TypeOK
  <2>2. InHand' = InHand \ {c[p]}
    BY <2>1, HandLoses
  <2>3. c[p] \in InHand
    BY <2>1 DEF InHand
  <2>4. \A t, u \in Threads : c'[t] = c'[u] /\ c'[t] # 0 => t = u
    BY <1>0, <2>1 DEF OneCopy, TypeOK
  <2>5. CASE ~ est_pleine
    <3>1. stack_size \in Slots /\ stack_size' = stack_size + 1
      BY <1>0, <1>2, <2>5 DEF PushStore, est_pleine, TypeOK
    <3>2. pile' = [pile EXCEPT ![stack_size] = c[p]]
      BY <1>2, <2>5 DEF PushStore
    <3>3. \A i \in 0 .. stack_size' - 1 :
            pile'[i] = IF i = stack_size THEN c[p] ELSE pile[i]
      BY <1>0, <3>1, <3>2 DEF TypeOK
    <3>4. Stacked' = Stacked \cup {c[p]}
      <4>1. 0 .. stack_size' - 1 = 0 .. stack_size - 1 \cup {stack_size}
        BY <3>1
      <4> QED BY <3>3, <4>1, <3>1 DEF Stacked
    <3>5. lost' = lost /\ out' = out /\ rd' = rd
      BY <1>2, <2>5 DEF PushStore
    <3>6. Covered' BY <1>0, <2>2, <2>3, <3>4, <3>5 DEF Covered
    <3>7. Disjoint' BY <1>0, <2>2, <2>3, <3>4, <3>5 DEF Disjoint
    <3>8. \A i \in 0 .. stack_size - 1 : pile[i] # c[p]
      BY <1>0, <2>3 DEF Disjoint, Stacked
    <3>9. OneCopy'
      BY <1>0, <2>4, <3>1, <3>3, <3>8 DEF OneCopy
    <3> QED BY <3>6, <3>7, <3>9 DEF Conservation
  <2>6. CASE est_pleine
    <3>1. Stacked' = Stacked /\ lost' = lost \cup {c[p]} /\ out' = out /\ rd' = rd
      BY <1>2, <2>6 DEF PushStore, Stacked
    <3>2. Covered' BY <1>0, <2>2, <2>3, <3>1 DEF Covered
    <3>3. Disjoint' BY <1>0, <2>2, <2>3, <3>1 DEF Disjoint
    <3>4. OneCopy' BY <1>0, <1>2, <2>4, <2>6 DEF OneCopy, PushStore
    <3> QED BY <3>2, <3>3, <3>4 DEF Conservation
  <2> QED BY <2>5, <2>6
<1>3. ASSUME NEW k \in Consumers, PopTake(k) PROVE Conservation'
  <2> DEFINE x == pile[stack_size - 1]
  <2>1. stack_size - 1 \in Slots /\ stack_size' = stack_size - 1 /\ pile' = pile
    BY <1>0, <1>3 DEF PopTake, est_vide, TypeOK
  <2>2. x \in Stacked
    BY <1>0, <2>1 DEF Stacked, TypeOK
  <2>3. x \in 1 .. rd /\ x \in Chars
    BY <1>0, <2>2 DEF Covered, TypeOK
  <2>4. c[k] = 0 /\ c' = [c EXCEPT ![k] = x]
    BY <1>0, <1>3 DEF PopTake, Goto, Holding, TypeOK
  <2>5. InHand' = InHand \cup {x}
    BY <2>3, <2>4, HandGains
  <2>6. Stacked' = Stacked \ {x}
    <3>1. 0 .. stack_size' - 1 = (0 .. stack_size - 1) \ {stack_size - 1}
      BY <2>1
    <3>2. \A i \in 0 .. stack_size' - 1 : pile[i] # x
      BY <1>0, <2>1, <3>1 DEF OneCopy
    <3> QED BY <2>1, <3>1, <3>2 DEF Stacked
  <2>7. lost' = lost /\ out' = out /\ rd' = rd
    BY <1>3 DEF PopTake
  <2>8. Covered' BY <1>0, <2>2, <2>5, <2>6, <2>7 DEF Covered
  <2>9. Disjoint' BY <1>0, <2>2, <2>5, <2>6, <2>7 DEF Disjoint
  <2>10. \A t \in Threads : c[t] # x
    <3>1. x \notin InHand BY <1>0, <2>2 DEF Disjoint
    <3> QED BY <2>3, <3>1 DEF InHand
  <2>11. OneCopy'
    <3>1. \A i, j \in 0 .. stack_size' - 1 : pile'[i] = pile'[j] => i = j
      BY <1>0, <2>1 DEF OneCopy
    <3>2. \A t, u \in Threads : c'[t] = c'[u] /\ c'[t] # 0 => t = u
      BY <1>0, <2>4, <2>10 DEF OneCopy, TypeOK
    <3> QED BY <3>1, <3>2 DEF OneCopy
  <2> QED BY <2>8, <2>9, <2>11 DEF Conservation
<1>4. ASSUME NEW k \in Consumers, Putchar(k) PROVE Conservation'
  <2>1. c[k] # 0 /\ c' = [c EXCEPT ![k] = 0]
    BY <1>0, <1>4 DEF Putchar, Goto, Holding, TypeOK
  <2>2. InHand' = InHand \ {c[k]}
    BY <2>1, HandLoses
  <2>3. c[k] \in InHand
    BY <2>1 DEF InHand
  <2>4. Stacked' = Stacked /\ lost' = lost /\ out' = out \cup {c[k]} /\ rd' = rd
    BY <1>4 DEF Putchar, Stacked
  <2>5. Covered' BY <1>0, <2>2, <2>3, <2>4 DEF Covered
  <2>6. Disjoint' BY <1>0, <2>2, <2>3, <2>4 DEF Disjoint
  <2>7. OneCopy' BY <1>0, <1>4, <2>1 DEF OneCopy, Putchar, TypeOK
  <2> QED BY <2>5, <2>6, <2>7 DEF Conservation
<1>5. CASE UNCHANGED <<stack_size, pile, c, rd, lost, out>>
  BY <1>0, <1>5 DEF Conservation, Covered, Disjoint, OneCopy, Stacked, InHand
<1>6. CASE \/ \E p \in Producers : PushLock(p) \/ PushUnlock(p)
           \/ \E k \in Consumers : PopLock(k) \/ PopWait(k) \/ SpuriousWakeup(k)
           \/ UNCHANGED vars
  BY <1>5, <1>6 DEF PushLock, PushUnlock, PopLock, PopWait, SpuriousWakeup, vars
<1> QED
  BY <1>1, <1>2, <1>3, <1>4, <1>6 DEF Next, Producteur, Consommateur

(* IInv is inductive, so it holds in every reachable state. *)
THEOREM Invariance == Spec => []IInv
<1>1. IInv /\ [Next]_vars => IInv'
  BY ControlStep, ConservationStep DEF IInv
<1> QED BY InitIInv, <1>1, PTL DEF Spec

(* No consumer is left asleep beside a non-empty stack, whatever the       *)
(* number of producers, of consumers and the size of the stack.            *)
THEOREM NoWakeupIsLost == Spec => []NoLostWakeup
<1>1. IInv => NoLostWakeup BY DEF IInv
<1> QED BY Invariance, <1>1, PTL

(* Push and Pop neither lose nor duplicate a character, except the ones a  *)
(* full stack drops.                                                       *)
THEOREM CharactersConserved == Spec => []Conservation
<1>1. IInv => Conservation BY DEF IInv
<1> QED BY Invariance, <1>1, PTL

(* The stack pointer stays within the array and types are preserved. *)
THEOREM Typing == Spec => []TypeOK
<1>1. IInv => TypeOK BY DEF IInv
<1> QED BY Invariance, <1>1, PTL
-----------------------------------------------------------------------------
(* The cells below the stack pointer, read as a sequence: it grows at its  *)
(* end when a cell is filled and loses its end when the pointer goes down. *)
LEMMA CellsSeq ==
  ASSUME NEW S, NEW n \in Nat, NEW f, \A m \in 1 .. n : f[m - 1] \in S
  PROVE  /\ [m \in 1 .. n |-> f[m - 1]] \in Seq(S)
         /\ Len([m \in 1 .. n |-> f[m - 1]]) = n
OBVIOUS

LEMMA PushCells ==
  ASSUME NEW S, NEW n \in Nat, NEW f, NEW g, NEW x \in S,
         \A m \in 1 .. n : f[m - 1] \in S /\ g[m - 1] = f[m - 1],
         g[n] = x
  PROVE  [m \in 1 .. n + 1 |-> g[m - 1]] = Append([m \in 1 .. n |-> f[m - 1]], x)
<1> DEFINE s == [m \in 1 .. n |-> f[m - 1]]
<1>1. s \in Seq(S) /\ Len(s) = n
  BY CellsSeq
<1>2. Append(s, x) = [m \in 1 .. n + 1 |-> IF m <= n THEN s[m] ELSE x]
  BY <1>1
<1> QED BY <1>1, <1>2

LEMMA PopCells ==
  ASSUME NEW S, NEW n \in Nat \ {0}, NEW f, \A m \in 1 .. n : f[m - 1] \in S
  PROVE  [m \in 1 .. n - 1 |-> f[m - 1]]
           = SubSeq([m \in 1 .. n |-> f[m - 1]], 1, n - 1)
<1> DEFINE s == [m \in 1 .. n |-> f[m - 1]]
<1>1. s \in Seq(S) /\ Len(s) = n
  BY CellsSeq
<1>2. SubSeq(s, 1, n - 1) = [m \in 1 .. n - 1 |-> s[m]]
  BY <1>1
<1> QED BY <1>1, <1>2

(* Between two steps of the mutex the abstract stack does not move: a step *)
(* that keeps the cells in use, what was dropped and what was popped.      *)
LEMMA Stutter ==
  ASSUME stack_size' = stack_size, pile' = pile, lost' = lost,
         out' \cup ({c'[k] : k \in Consumers} \ {0})
           = out \cup ({c[k] : k \in Consumers} \ {0})
  PROVE  [Lifo!Next]_Lifo!vars
BY DEF Lifo!vars

LEMMA LifoStep ==
  ASSUME IInv, [Next]_vars
  PROVE  [Lifo!Next]_Lifo!vars
<1> USE ThreadsAssumption, SizeAssumption, InputAssumption DEF Threads, Slots, Chars
<1> DEFINE Cells == [n \in 1 .. stack_size |-> pile[n - 1]]
           Hands == {c[k] : k \in Consumers} \ {0}
<1>0. TypeOK /\ Holding /\ Covered /\ Disjoint /\ OneCopy
  BY DEF IInv, Conservation
<1>a. Cells \in Seq(Chars) /\ Len(Cells) = stack_size /\ stack_size \in Nat
  <2>1. \A n \in 1 .. stack_size : pile[n - 1] \in Stacked
    BY <1>0 DEF Stacked, TypeOK
  <2>2. \A n \in 1 .. stack_size : pile[n - 1] \in Chars
    BY <1>0, <2>1 DEF Covered, TypeOK
  <2>3. stack_size \in Nat BY <1>0 DEF TypeOK
  <2> HIDE DEF Chars
  <2> QED BY <2>2, <2>3, CellsSeq
<1>b. Lifo!Stacked = Stacked /\ Hands \subseteq InHand
  <2>1. DOMAIN Cells = 1 .. stack_size OBVIOUS
  <2>2. {Cells[n] : n \in 1 .. stack_size} = {pile[n - 1] : n \in 1 .. stack_size}
    OBVIOUS
  <2>3. {pile[n - 1] : n \in 1 .. stack_size} = {pile[n] : n \in 0 .. stack_size - 1}
    <3>1. \A n \in 1 .. stack_size : n - 1 \in 0 .. stack_size - 1 BY <1>a
    <3>2. \A n \in 0 .. stack_size - 1 : n + 1 \in 1 .. stack_size /\ n + 1 - 1 = n
      BY <1>a
    <3> QED BY <3>1, <3>2
  <2>4. Hands \subseteq InHand BY DEF InHand
  <2> QED BY <2>1, <2>2, <2>3, <2>4 DEF Lifo!Stacked, Stacked
<1>1. ASSUME NEW p \in Producers, PushStore(p) PROVE Lifo!Push(c[p])
  <2>1. c[p] # 0 /\ c[p] \in Chars /\ c[p] \in InHand
    BY <1>0, <1>1 DEF PushStore, Goto, Holding, TypeOK, InHand
  <2>2. c[p] \notin Hands
    BY <1>0, <2>1 DEF OneCopy
  <2>3. c[p] \notin Lifo!Stacked \cup lost \cup (out \cup Hands)
    BY <1>0, <1>b, <2>1, <2>2 DEF Disjoint
  <2>4. Hands' = Hands /\ out' = out
    BY <1>0, <1>1 DEF PushStore, TypeOK
  <2>5. CASE stack_size < Size
    <3>1. /\ pile' = [pile EXCEPT ![stack_size] = c[p]]
          /\ stack_size' = stack_size + 1 /\ lost' = lost
      BY <1>0, <1>1, <2>5 DEF PushStore, est_pleine, TypeOK
    <3>2. \A n \in 1 .. stack_size :
            pile[n - 1] \in Chars /\ pile'[n - 1] = pile[n - 1]
      BY <1>0, <1>a, <3>1, ElementOfSeq DEF TypeOK
    <3>3. pile'[stack_size] = c[p]
      BY <1>0, <1>a, <2>5, <3>1 DEF TypeOK
    <3>4. Cells' = Append(Cells, c[p])
      <4> HIDE DEF Chars
      <4> QED BY <1>a, <2>1, <3>1, <3>2, <3>3, PushCells
    <3> QED BY <1>a, <2>3, <2>4, <2>5, <3>1, <3>4 DEF Lifo!Push
  <2>6. CASE ~ (stack_size < Size)
    <3>1. Cells' = Cells /\ lost' = lost \cup {c[p]}
      BY <1>0, <1>1, <2>6 DEF PushStore, est_pleine, TypeOK
    <3> QED BY <1>a, <2>3, <2>4, <2>6, <3>1 DEF Lifo!Push
  <2> QED BY <2>5, <2>6
<1>2. ASSUME NEW k \in Consumers, PopTake(k) PROVE Lifo!Pop
  <2>1. /\ stack_size > 0 /\ stack_size' = stack_size - 1 /\ pile' = pile
        /\ c' = [c EXCEPT ![k] = pile[stack_size - 1]] /\ c[k] = 0
        /\ lost' = lost /\ out' = out
    BY <1>0, <1>2 DEF PopTake, est_vide, Goto, Holding, TypeOK
  <2>2. Cells[Len(Cells)] = pile[stack_size - 1] /\ Cells # << >>
    <3>1. Cells[stack_size] = pile[stack_size - 1] BY <1>a, <2>1
    <3> HIDE DEF Cells
    <3> QED BY <1>a, <2>1, <3>1, EmptySeq
  <2>3. Cells' = SubSeq(Cells, 1, Len(Cells) - 1)
    <3>1. \A n \in 1 .. stack_size : pile[n - 1] \in Chars
      BY <1>a, ElementOfSeq
    <3>2. stack_size \in Nat \ {0} BY <1>a, <2>1
    <3> HIDE DEF Chars
    <3> QED BY <1>a, <2>1, <3>1, <3>2, PopCells
  <2>4. pile[stack_size - 1] # 0
    BY <1>0, <1>a, <2>1, <2>2, ElementOfSeq
  <2>5. Hands' = Hands \cup {pile[stack_size - 1]}
    BY <1>0, <2>1, <2>4 DEF TypeOK
  <2> QED BY <2>1, <2>2, <2>3, <2>5 DEF Lifo!Pop
<1>3. ASSUME NEW k \in Consumers, Putchar(k) PROVE [Lifo!Next]_Lifo!vars
  <2>1. /\ c' = [c EXCEPT ![k] = 0] /\ out' = out \cup {c[k]} /\ c[k] # 0
        /\ UNCHANGED <<stack_size, pile, lost>>
    BY <1>0, <1>3 DEF Putchar, Goto, Holding, TypeOK
  <2>2. Hands = Hands' \cup {c[k]}
    BY <1>0, <2>1 DEF TypeOK, OneCopy
  <2> QED BY <2>1, <2>2, Stutter
<1>4. ASSUME NEW p \in Producers, Getchar(p) PROVE [Lifo!Next]_Lifo!vars
  <2>1. \A k \in Consumers : c'[k] = c[k]
    BY <1>0, <1>4 DEF Getchar, TypeOK
  <2>2. Hands' = Hands BY <2>1
  <2> QED BY <1>4, <2>2, Stutter DEF Getchar
<1>5. CASE \/ \E p \in Producers : PushLock(p) \/ PushUnlock(p)
           \/ \E k \in Consumers : PopLock(k) \/ PopWait(k) \/ SpuriousWakeup(k)
           \/ UNCHANGED vars
  BY <1>5, Stutter DEF PushLock, PushUnlock, PopLock, PopWait, SpuriousWakeup, vars
<1>6. \A p \in Producers : pc[p] = "store" => c[p] \in Chars
  BY <1>0 DEF Holding, TypeOK
<1>7. ASSUME NEW p \in Producers, PushStore(p) PROVE Lifo!Next
  <2>1. c[p] \in Chars BY <1>6, <1>7 DEF PushStore, Goto
  <2>2. Lifo!Push(c[p]) BY <1>1, <1>7
  <2> QED BY <2>1, <2>2 DEF Lifo!Next, Lifo!Push
<1>8. ASSUME NEW k \in Consumers, PopTake(k) PROVE Lifo!Next
  BY <1>2, <1>8 DEF Lifo!Next
<1> QED
  BY <1>3, <1>4, <1>5, <1>7, <1>8 DEF Next, Producteur, Consommateur

(* Push and Pop under the mutex are the atomic operations of the abstract  *)
(* bounded stack, whatever the interleaving and the wakeups: every step of *)
(* the threads is a Push, a Pop, or invisible to it.                       *)
THEOREM RefinesLifo == Spec => ImplementsLifo
<1>1. Init => Lifo!Init
  BY ThreadsAssumption DEF Init, Lifo!Init, Threads
<1>2. IInv /\ [Next]_vars => [Lifo!Next]_Lifo!vars
  BY LifoStep
<1> QED BY Invariance, <1>1, <1>2, PTL DEF Spec, ImplementsLifo, Lifo!Spec
=============================================================================
