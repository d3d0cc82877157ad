--------------------------- MODULE SemStack_proofs ---------------------------
(* Proofs about SemStack, for any number of threads and any stack size. *)
EXTENDS SemStack, FiniteSetTheorems, SequenceTheorems, TLAPS

LEMMA InitIInv == Init => IInv
<1> SUFFICES ASSUME Init PROVE IInv
    OBVIOUS
<1> USE ThreadsAssumption, SizeAssumption, InputAssumption DEF Init, Threads, Slots, NUL
<1>1. TypeOK /\ LoopIndex /\ CountedOnlyWhenEmpty /\ Holding
  BY DEF TypeOK, Chars, LoopIndex, CountedOnlyWhenEmpty, Holding
<1>2. InCritical = {} /\ Sleepers = {}
  BY DEF InCritical, Sleepers
<1>3. MutualExclusion
  BY <1>2 DEF MutualExclusion
<1>4. SleepersAccounted
  BY <1>2, FS_EmptySet DEF SleepersAccounted
<1> QED BY <1>1, <1>3, <1>4 DEF IInv

(* A thread that takes the lock is alone inside it, one that releases it   *)
(* leaves nobody inside, and all other steps leave lock and holder alone.  *)
LEMMA LockTaken ==
  ASSUME TypeOK, MutualExclusion, NEW t \in Threads, NEW to \in {"locked", "test"},
         P(1), pc' = [pc EXCEPT ![t] = to]
  PROVE  MutualExclusion' /\ sem' \in [{0, 1} -> Nat] /\ sem'[0] = sem[0]
<1>1. InCritical = {} /\ sem[1] = 1
  BY DEF MutualExclusion, P
<1>2. InCritical' = {t}
  BY <1>1 DEF InCritical, TypeOK
<1>3. sem' \in [{0, 1} -> Nat] /\ sem'[1] = 0 /\ sem'[0] = sem[0]
  BY <1>1 DEF P, TypeOK
<1> QED BY <1>2, <1>3 DEF MutualExclusion

LEMMA LockReleased ==
  ASSUME TypeOK, MutualExclusion, NEW t \in InCritical, NEW to,
         V(1), to \notin {"locked", "test"}, pc' = [pc EXCEPT ![t] = to]
  PROVE  MutualExclusion' /\ sem' \in [{0, 1} -> Nat] /\ sem'[0] = sem[0]
<1>1. InCritical = {t} /\ sem[1] = 0
  BY DEF MutualExclusion
<1>2. InCritical' = {}
  BY <1>1 DEF InCritical, TypeOK
<1>3. sem' \in [{0, 1} -> Nat] /\ sem'[1] = 1 /\ sem'[0] = sem[0]
  BY <1>1 DEF V, TypeOK
<1> QED BY <1>2, <1>3 DEF MutualExclusion

LEMMA LockUntouched ==
  ASSUME MutualExclusion, sem'[1] = sem[1],
         \A t \in Threads : pc'[t] \in {"locked", "test"} <=> pc[t] \in {"locked", "test"}
  PROVE  MutualExclusion'
<1>1. InCritical' = InCritical
  BY DEF InCritical
<1> QED BY <1>1 DEF MutualExclusion

(* Who sleeps. *)
LEMMA SleepersFinite == IsFiniteSet(Sleepers) /\ Cardinality(Sleepers) \in Nat
BY ThreadsAssumption, FS_Subset, FS_CardinalityType DEF Sleepers

LEMMA SameSleepers ==
  ASSUME \A k \in Consumers : pc'[k] = "asleep" <=> pc[k] = "asleep"
  PROVE  Sleepers' = Sleepers
BY DEF Sleepers

LEMMA Step ==
  ASSUME IInv, [Next]_vars
  PROVE  IInv'
<1> USE ThreadsAssumption, SizeAssumption, InputAssumption, SleepersFinite
      DEF Threads, Slots, Chars, NUL, Goto, Forget
<1>0. TypeOK /\ MutualExclusion /\ LoopIndex /\ Holding /\ CountedOnlyWhenEmpty
      /\ SleepersAccounted
  BY DEF IInv
<1>1. ASSUME NEW p \in Producers, Getchar(p) PROVE IInv'
  <2>1. sem' = sem /\ nb_endormis' = nb_endormis /\ i' = i /\ stack_pointer' = stack_pointer
    BY <1>1 DEF Getchar
  <2>2. pc[p] = "read" /\ \E to \in {"push", "done"} : pc' = [pc EXCEPT ![p] = to]
    BY <1>1 DEF Getchar
  <2>3. TypeOK'
    <3>1. c' \in [Threads -> 0 .. Input] /\ rd' \in 0 .. Input
      BY <1>0, <1>1 DEF Getchar, TypeOK
    <3> QED BY <1>0, <1>1, <2>1, <2>2, <3>1 DEF Getchar, TypeOK
  <2>4. MutualExclusion' BY <1>0, <2>1, <2>2, LockUntouched DEF TypeOK
  <2>5. LoopIndex' /\ CountedOnlyWhenEmpty'
    BY <1>0, <2>1, <2>2 DEF LoopIndex, CountedOnlyWhenEmpty, TypeOK
  <2>6. Holding'
    BY <1>0, <1>1 DEF Getchar, Holding, TypeOK
  <2>7. Sleepers' = Sleepers BY <1>0, <2>2, SameSleepers DEF TypeOK
  <2>8. SleepersAccounted' BY <1>0, <2>1, <2>7 DEF SleepersAccounted
  <2> QED BY <2>3, <2>4, <2>5, <2>6, <2>8 DEF IInv
<1>2. ASSUME NEW p \in Producers, PushLock(p) PROVE IInv'
  <2>1. pc[p] = "push" /\ pc' = [pc EXCEPT ![p] = "locked"] /\ i' = 0 /\ P(1)
    BY <1>2 DEF PushLock
  <2>2. MutualExclusion' /\ sem' \in [{0, 1} -> Nat] /\ sem'[0] = sem[0]
    BY <1>0, <2>1, LockTaken
  <2>3. i = 0
    <3>1. InCritical = {} BY <1>0, <2>1 DEF MutualExclusion, P
    <3> QED BY <1>0, <3>1 DEF LoopIndex, InCritical, TypeOK
  <2>4. TypeOK' BY <1>0, <1>2, <2>1, <2>2 DEF PushLock, data, TypeOK
  <2>5. LoopIndex' /\ CountedOnlyWhenEmpty'
    BY <1>0, <1>2, <2>1 DEF PushLock, data, LoopIndex, CountedOnlyWhenEmpty
  <2>6. Holding' BY <1>0, <1>2, <2>1 DEF PushLock, data, Holding, TypeOK
  <2>7. Sleepers' = Sleepers BY <1>0, <2>1, SameSleepers DEF TypeOK
  <2>8. SleepersAccounted'
    BY <1>0, <1>2, <2>1, <2>2, <2>3, <2>7 DEF PushLock, SleepersAccounted
  <2> QED BY <2>2, <2>4, <2>5, <2>6, <2>8 DEF IInv
<1>3. ASSUME NEW p \in Producers, PushFull(p) PROVE IInv'
  <2>1. pc[p] = "locked" /\ pc' = [pc EXCEPT ![p] = "read"] /\ i' = i /\ V(1)
        /\ c' = [c EXCEPT ![p] = 0]
    BY <1>3 DEF PushFull, Full
  <2>2. MutualExclusion' /\ sem' \in [{0, 1} -> Nat] /\ sem'[0] = sem[0]
    BY <1>0, <2>1, LockReleased DEF InCritical
  <2>3. nb_endormis' = nb_endormis /\ nb_endormis = 0 /\ i = 0
        /\ stack_pointer' = stack_pointer
    BY <1>0, <1>3 DEF PushFull, Full, CountedOnlyWhenEmpty, TypeOK
  <2>4. TypeOK'
    <3>1. c[p] \in Chars BY <1>0, <2>1 DEF TypeOK, Holding
    <3>2. lost' \subseteq Chars BY <1>0, <1>3, <3>1 DEF PushFull, Full, TypeOK
    <3>3. c' \in [Threads -> 0 .. Input] BY <1>0, <2>1 DEF TypeOK
    <3> QED BY <1>0, <1>3, <2>1, <2>2, <2>3, <3>2, <3>3 DEF PushFull, Full, TypeOK
  <2>5. LoopIndex' /\ CountedOnlyWhenEmpty'
    BY <2>1, <2>3 DEF LoopIndex, CountedOnlyWhenEmpty
  <2>6. Holding' BY <1>0, <2>1 DEF Holding, TypeOK
  <2>7. Sleepers' = Sleepers BY <1>0, <2>1, SameSleepers DEF TypeOK
  <2>8. SleepersAccounted' BY <1>0, <2>1, <2>2, <2>3, <2>7 DEF SleepersAccounted
  <2> QED BY <2>2, <2>4, <2>5, <2>6, <2>8 DEF IInv
<1>4. ASSUME NEW p \in Producers, PushWake(p) PROVE IInv'
  <2>1. pc' = pc /\ pc[p] = "locked" /\ i < nb_endormis /\ i' = i + 1
        /\ nb_endormis' = nb_endormis
    BY <1>4 DEF PushWake
  <2>2. sem' \in [{0, 1} -> Nat] /\ sem'[0] = sem[0] + 1 /\ sem'[1] = sem[1]
    BY <1>0, <1>4 DEF PushWake, V, TypeOK
  <2>3. TypeOK' BY <1>0, <1>4, <2>1, <2>2 DEF PushWake, data, TypeOK
  <2>4. MutualExclusion' BY <1>0, <2>1, <2>2, LockUntouched
  <2>5. LoopIndex' /\ CountedOnlyWhenEmpty' /\ Holding'
    BY <1>0, <1>4, <2>1 DEF PushWake, data, LoopIndex, CountedOnlyWhenEmpty, Holding
  <2>6. Sleepers' = Sleepers BY <2>1, SameSleepers
  <2>7. SleepersAccounted'
    BY <1>0, <2>1, <2>2, <2>6 DEF SleepersAccounted, TypeOK
  <2> QED BY <2>3, <2>4, <2>5, <2>7 DEF IInv
<1>5. ASSUME NEW p \in Producers, PushStore(p) PROVE IInv'
  <2>1. pc[p] = "locked" /\ pc' = [pc EXCEPT ![p] = "read"] /\ i' = 0 /\ V(1)
        /\ nb_endormis' = 0 /\ c' = [c EXCEPT ![p] = 0]
    BY <1>5 DEF PushStore, Full
  <2>2. MutualExclusion' /\ sem' \in [{0, 1} -> Nat] /\ sem'[0] = sem[0]
    BY <1>0, <2>1, LockReleased DEF InCritical
  <2>3. i = nb_endormis
    BY <1>0, <1>5 DEF PushStore, Full, CountedOnlyWhenEmpty, TypeOK
  <2>4. TypeOK'
    <3>1. stack_pointer \in Slots /\ stack_pointer' = stack_pointer + 1
      BY <1>0, <1>5 DEF PushStore, Full, TypeOK
    <3>2. pile' = [pile EXCEPT ![stack_pointer] = c[p]]
      BY <1>5 DEF PushStore, Full
    <3>3. pile' \in [Slots -> 0 .. Input]
      BY <1>0, <3>1, <3>2 DEF TypeOK
    <3>4. c' \in [Threads -> 0 .. Input] BY <1>0, <2>1 DEF TypeOK
    <3>5. stack_pointer' \in 0 .. Size BY <3>1
    <3> QED BY <1>0, <1>5, <2>1, <2>2, <3>3, <3>4, <3>5 DEF PushStore, Full, TypeOK
  <2>5. LoopIndex' /\ CountedOnlyWhenEmpty'
    BY <2>1 DEF LoopIndex, CountedOnlyWhenEmpty
  <2>6. Holding' BY <1>0, <2>1 DEF Holding, TypeOK
  <2>7. Sleepers' = Sleepers BY <1>0, <2>1, SameSleepers DEF TypeOK
  <2>8. SleepersAccounted'
    BY <1>0, <2>1, <2>2, <2>3, <2>7 DEF SleepersAccounted, TypeOK
  <2> QED BY <2>2, <2>4, <2>5, <2>6, <2>8 DEF IInv
<1>6. ASSUME NEW k \in Consumers, PopLock(k) PROVE IInv'
  <2>1. pc[k] = "pop" /\ pc' = [pc EXCEPT ![k] = "test"] /\ P(1)
    BY <1>6 DEF PopLock
  <2>2. MutualExclusion' /\ sem' \in [{0, 1} -> Nat] /\ sem'[0] = sem[0]
    BY <1>0, <2>1, LockTaken
  <2>3. TypeOK' BY <1>0, <1>6, <2>1, <2>2 DEF PopLock, data, TypeOK
  <2>4. LoopIndex' /\ CountedOnlyWhenEmpty' /\ Holding'
    BY <1>0, <1>6, <2>1
    DEF PopLock, data, LoopIndex, CountedOnlyWhenEmpty, Holding, TypeOK
  <2>5. Sleepers' = Sleepers BY <1>0, <2>1, SameSleepers DEF TypeOK
  <2>6. SleepersAccounted'
    BY <1>0, <1>6, <2>2, <2>5 DEF PopLock, SleepersAccounted
  <2> QED BY <2>2, <2>3, <2>4, <2>6 DEF IInv
<1>7. ASSUME NEW k \in Consumers, PopSleep(k) PROVE IInv'
  <2>1. pc[k] = "test" /\ pc' = [pc EXCEPT ![k] = "asleep"] /\ V(1)
        /\ nb_endormis' = nb_endormis + 1 /\ i' = i
    BY <1>7 DEF PopSleep
  <2>2. MutualExclusion' /\ sem' \in [{0, 1} -> Nat] /\ sem'[0] = sem[0]
    BY <1>0, <2>1, LockReleased DEF InCritical
  <2>3. TypeOK' BY <1>0, <1>7, <2>1, <2>2 DEF PopSleep, data, TypeOK
  <2>4. LoopIndex' /\ CountedOnlyWhenEmpty' /\ Holding'
    BY <1>0, <1>7, <2>1
    DEF PopSleep, data, LoopIndex, CountedOnlyWhenEmpty, Holding, TypeOK
  <2>5. Sleepers' = Sleepers \cup {k} /\ k \notin Sleepers
    BY <1>0, <2>1 DEF Sleepers, TypeOK
  <2>6. Cardinality(Sleepers') = Cardinality(Sleepers) + 1
    BY <2>5, FS_AddElement
  <2>7. SleepersAccounted'
    BY <1>0, <2>1, <2>2, <2>6 DEF SleepersAccounted, TypeOK
  <2> QED BY <2>2, <2>3, <2>4, <2>7 DEF IInv
<1>8. ASSUME NEW k \in Consumers, PopWake(k) PROVE IInv'
  <2>1. pc[k] = "asleep" /\ pc' = [pc EXCEPT ![k] = "put"] /\ P(0)
        /\ c' = [c EXCEPT ![k] = 0]
    BY <1>8 DEF PopWake
  <2>2. sem' \in [{0, 1} -> Nat] /\ sem'[0] = sem[0] - 1 /\ sem'[1] = sem[1]
    BY <1>0, <2>1 DEF P, TypeOK
  <2>3. TypeOK'
    <3>1. c' \in [Threads -> 0 .. Input] BY <1>0, <2>1 DEF TypeOK
    <3> QED BY <1>0, <1>8, <2>1, <2>2, <3>1 DEF PopWake, data, TypeOK
  <2>4. MutualExclusion' BY <1>0, <2>1, <2>2, LockUntouched DEF TypeOK
  <2>5. LoopIndex' /\ CountedOnlyWhenEmpty' /\ Holding'
    BY <1>0, <1>8, <2>1
    DEF PopWake, data, LoopIndex, CountedOnlyWhenEmpty, Holding, TypeOK
  <2>6. Sleepers' = Sleepers \ {k} /\ k \in Sleepers
    BY <1>0, <2>1 DEF Sleepers, TypeOK
  <2>7. Cardinality(Sleepers') = Cardinality(Sleepers) - 1
    BY <2>6, FS_RemoveElement
  <2>8. SleepersAccounted'
    BY <1>0, <1>8, <2>2, <2>7 DEF PopWake, SleepersAccounted, TypeOK
  <2> QED BY <2>3, <2>4, <2>5, <2>8 DEF IInv
<1>9. ASSUME NEW k \in Consumers, PopTake(k) PROVE IInv'
  <2>1. pc[k] = "test" /\ pc' = [pc EXCEPT ![k] = "put"] /\ V(1)
        /\ nb_endormis' = nb_endormis /\ i' = i
        /\ stack_pointer > 0 /\ stack_pointer' = stack_pointer - 1
    BY <1>9 DEF PopTake
  <2>2. MutualExclusion' /\ sem' \in [{0, 1} -> Nat] /\ sem'[0] = sem[0]
    BY <1>0, <2>1, LockReleased DEF InCritical
  <2>3. c' = [c EXCEPT ![k] = pile[stack_pointer - 1]]
    BY <1>9 DEF PopTake
  <2>4. pile[stack_pointer - 1] \in 0 .. Input
    BY <1>0, <2>1 DEF TypeOK
  <2>5. TypeOK'
    <3>1. c' \in [Threads -> 0 .. Input] BY <1>0, <2>3, <2>4 DEF TypeOK
    <3> QED BY <1>0, <1>9, <2>1, <2>2, <3>1 DEF PopTake, TypeOK
  <2>6. LoopIndex' /\ CountedOnlyWhenEmpty' /\ Holding'
    BY <1>0, <2>1, <2>3 DEF LoopIndex, CountedOnlyWhenEmpty, Holding, TypeOK
  <2>7. Sleepers' = Sleepers BY <1>0, <2>1, SameSleepers DEF TypeOK
  <2>8. SleepersAccounted' BY <1>0, <2>1, <2>2, <2>7 DEF SleepersAccounted
  <2> QED BY <2>2, <2>5, <2>6, <2>8 DEF IInv
<1>10. ASSUME NEW k \in Consumers, Putchar(k) PROVE IInv'
  <2>1. pc[k] = "put" /\ pc' = [pc EXCEPT ![k] = "pop"] /\ sem' = sem
        /\ nb_endormis' = nb_endormis /\ i' = i /\ stack_pointer' = stack_pointer
        /\ c' = [c EXCEPT ![k] = 0]
    BY <1>10 DEF Putchar
  <2>2. TypeOK'
    <3>1. out' \subseteq 0 .. Input BY <1>0, <1>10 DEF Putchar, TypeOK
    <3>2. c' \in [Threads -> 0 .. Input] BY <1>0, <2>1 DEF TypeOK
    <3> QED BY <1>0, <1>10, <2>1, <3>1, <3>2 DEF Putchar, TypeOK
  <2>3. MutualExclusion' BY <1>0, <2>1, LockUntouched DEF TypeOK
  <2>4. LoopIndex' /\ CountedOnlyWhenEmpty' /\ Holding'
    BY <1>0, <2>1 DEF LoopIndex, CountedOnlyWhenEmpty, Holding, TypeOK
  <2>5. Sleepers' = Sleepers BY <1>0, <2>1, SameSleepers DEF TypeOK
  <2>6. SleepersAccounted' BY <1>0, <2>1, <2>5 DEF SleepersAccounted
  <2> QED BY <2>2, <2>3, <2>4, <2>6 DEF IInv
<1>11. CASE UNCHANGED vars
  BY <1>0, <1>11 DEF vars, IInv, TypeOK, MutualExclusion, InCritical, LoopIndex,
    Holding, CountedOnlyWhenEmpty, SleepersAccounted, Sleepers
<1> QED
  BY <1>1, <1>2, <1>3, <1>4, <1>5, <1>6, <1>7, <1>8, <1>9, <1>10, <1>11
  DEF Next, Producteur, Consommateur

(* IInv is inductive, so it holds in every reachable state. *)
THEOREM Invariance == Spec => []IInv
<1>1. IInv /\ [Next]_vars => IInv'
  BY Step
<1> QED BY InitIInv, <1>1, PTL DEF Spec

(* Types, and the stack pointer within the array. *)
THEOREM Typing == Spec => []TypeOK
<1>1. IInv => TypeOK BY DEF IInv
<1> QED BY Invariance, <1>1, PTL

(* Semaphore 1 is a lock around every access to the stack and to nb_endormis. *)
THEOREM Exclusion == Spec => []MutualExclusion
<1>1. IInv => MutualExclusion BY DEF IInv
<1> QED BY Invariance, <1>1, PTL

(* Every sleeper is in nb_endormis or has a token of semaphore 0. *)
THEOREM Accounting == Spec => []SleepersAccounted
<1>1. IInv => SleepersAccounted BY DEF IInv
<1> QED BY Invariance, <1>1, PTL

(* The reset nb_endormis=0 of a Push that wakes nobody forgets nobody. *)
THEOREM NobodyForgotten == Spec => []NoSleeperForgotten
<1>1. IInv => NoSleeperForgotten
  BY SleepersFinite
  DEF IInv, NoSleeperForgotten, CountedOnlyWhenEmpty, SleepersAccounted, TypeOK
<1> QED BY Invariance, <1>1, PTL
-----------------------------------------------------------------------------
(* What the hands of the threads hold after one thread is given, or loses, *)
(* a character.                                                            *)
LEMMA HandGains ==
  ASSUME NEW t \in Threads, NEW x \in Chars, TypeOK, OneCopy, c[t] = NUL,
         x \notin InHand, c' = [c EXCEPT ![t] = x]
  PROVE  InHand' = InHand \cup {x} /\ (\A u, v \in Threads :
                                          c'[u] = c'[v] /\ c'[u] # NUL => u = v)
<1>1. \A u \in Threads : c'[u] = IF u = t THEN x ELSE c[u]
  BY DEF TypeOK
<1>2. x # NUL BY InputAssumption DEF Chars, NUL
<1>3. InHand' = InHand \cup {x}
  BY <1>1, <1>2 DEF InHand, Hand
<1>4. \A u \in Threads : c[u] # x
  BY <1>2 DEF InHand, Hand
<1> QED BY <1>1, <1>3, <1>4 DEF OneCopy

LEMMA HandLoses ==
  ASSUME NEW t \in Threads, TypeOK, OneCopy, c' = [c EXCEPT ![t] = NUL]
  PROVE  /\ InHand' = InHand \ {c[t]}
         /\ c[t] # NUL => c[t] \in InHand
         /\ \A u, v \in Threads : c'[u] = c'[v] /\ c'[u] # NUL => u = v
<1>1. \A u \in Threads : c'[u] = IF u = t THEN NUL ELSE c[u]
  BY DEF TypeOK
<1>2. InHand' = InHand \ {c[t]}
  BY <1>1 DEF InHand, Hand, OneCopy
<1> QED BY <1>1, <1>2 DEF OneCopy, InHand, Hand

(* Nothing but these variables says where a character is. *)
LEMMA Unmoved ==
  ASSUME Conservation, UNCHANGED <<stack_pointer, pile, c, rd, lost, out>>,
         \A t \in Threads : pc[t] \in {"push", "locked", "put"}
                               => pc'[t] \in {"push", "locked", "put"}
  PROVE  Conservation'
<1>1. Covered' /\ Disjoint' /\ OneCopy'
  BY DEF Conservation, Covered, Disjoint, OneCopy, Stacked, InHand, Hand
<1>2. EmptyHanded'
  BY DEF Conservation, EmptyHanded
<1> QED BY <1>1, <1>2 DEF Conservation

LEMMA ConservationStep ==
  ASSUME IInv, Conservation, [Next]_vars
  PROVE  Conservation'
<1> USE ThreadsAssumption, SizeAssumption, InputAssumption
<1>0. TypeOK /\ Holding /\ Covered /\ Disjoint /\ OneCopy /\ EmptyHanded
  BY DEF IInv, Conservation
<1>1. ASSUME NEW p \in Producers, Getchar(p) PROVE Conservation'
  <2>1. CASE rd < Input
    <3>1. rd + 1 \in Chars /\ rd' = rd + 1 /\ 1 .. rd' = 1 .. rd \cup {rd + 1}
      BY <1>0, <1>1, <2>1 DEF Getchar, TypeOK, Chars
    <3>2. /\ p \in Threads /\ c[p] = NUL /\ c' = [c EXCEPT ![p] = rd + 1]
          /\ pc[p] = "read" /\ pc' = [pc EXCEPT ![p] = "push"]
      BY <1>0, <1>1, <2>1 DEF Getchar, Goto, EmptyHanded, Threads
    <3>3. rd + 1 \notin Stacked \cup InHand \cup lost \cup out
      <4>1. rd + 1 \notin 1 .. rd /\ rd + 1 # NUL BY <1>0 DEF TypeOK, NUL
      <4> QED BY <4>1, <1>0 DEF Covered
    <3>4. InHand' = InHand \cup {rd + 1}
          /\ (\A u, v \in Threads : c'[u] = c'[v] /\ c'[u] # NUL => u = v)
      BY <1>0, <3>1, <3>2, <3>3, HandGains
    <3>5. Stacked' = Stacked /\ lost' = lost /\ out' = out
          /\ stack_pointer' = stack_pointer /\ pile' = pile
      BY <1>1 DEF Getchar, Stacked
    <3>6. Covered' BY <1>0, <3>1, <3>4, <3>5 DEF Covered
    <3>7. Disjoint' BY <1>0, <3>3, <3>4, <3>5 DEF Disjoint
    <3>8. OneCopy' BY <1>0, <3>4, <3>5 DEF OneCopy
    <3>9. EmptyHanded' BY <1>0, <3>2 DEF EmptyHanded, TypeOK
    <3> QED BY <3>6, <3>7, <3>8, <3>9 DEF Conservation
  <2>2. CASE ~ (rd < Input)
    <3>1. UNCHANGED <<stack_pointer, pile, c, rd, lost, out>>
          /\ pc[p] = "read" /\ pc' = [pc EXCEPT ![p] = "done"]
      BY <1>1, <2>2 DEF Getchar, Goto
    <3>2. \A t \in Threads : pc[t] \in {"push", "locked", "put"}
                                => pc'[t] \in {"push", "locked", "put"}
      BY <1>0, <3>1 DEF TypeOK
    <3>3. Conservation BY <1>0 DEF Conservation
    <3> QED BY <3>1, <3>2, <3>3, Unmoved
  <2> QED BY <2>1, <2>2
<1>2. ASSUME NEW p \in Producers, PushFull(p) PROVE Conservation'
  <2>1. /\ p \in Threads /\ c[p] # NUL /\ c' = [c EXCEPT ![p] = NUL]
        /\ pc[p] = "locked" /\ pc' = [pc EXCEPT ![p] = "read"]
    BY <1>0, <1>2 DEF PushFull, Goto, Forget, Holding, Threads
  <2>2. /\ InHand' = InHand \ {c[p]} /\ c[p] \in InHand
        /\ \A u, v \in Threads : c'[u] = c'[v] /\ c'[u] # NUL => u = v
    BY <1>0, <2>1, HandLoses
  <2>3. Stacked' = Stacked /\ lost' = lost \cup {c[p]} /\ out' = out /\ rd' = rd
        /\ stack_pointer' = stack_pointer /\ pile' = pile
    BY <1>2 DEF PushFull, Stacked
  <2>4. Covered' BY <1>0, <2>2, <2>3 DEF Covered
  <2>5. Disjoint' BY <1>0, <2>2, <2>3 DEF Disjoint
  <2>6. OneCopy' BY <1>0, <2>2, <2>3 DEF OneCopy
  <2>7. EmptyHanded' BY <1>0, <2>1 DEF EmptyHanded, TypeOK
  <2> QED BY <2>4, <2>5, <2>6, <2>7 DEF Conservation
<1>3. ASSUME NEW p \in Producers, PushStore(p) PROVE Conservation'
  <2>1. /\ p \in Threads /\ c[p] # NUL /\ c' = [c EXCEPT ![p] = NUL]
        /\ pc[p] = "locked" /\ pc' = [pc EXCEPT ![p] = "read"]
    BY <1>0, <1>3 DEF PushStore, Goto, Forget, Holding, Threads
  <2>2. /\ InHand' = InHand \ {c[p]} /\ c[p] \in InHand
        /\ \A u, v \in Threads : c'[u] = c'[v] /\ c'[u] # NUL => u = v
    BY <1>0, <2>1, HandLoses
  <2>3. stack_pointer \in Slots /\ stack_pointer' = stack_pointer + 1
        /\ pile' = [pile EXCEPT ![stack_pointer] = c[p]]
    BY <1>0, <1>3 DEF PushStore, Full, TypeOK, Slots
  <2>4. \A s \in 0 .. stack_pointer' - 1 :
          pile'[s] = IF s = stack_pointer THEN c[p] ELSE pile[s]
    BY <1>0, <2>3 DEF TypeOK, Slots
  <2>5. Stacked' = Stacked \cup {c[p]}
    <3>1. 0 .. stack_pointer' - 1 = 0 .. stack_pointer - 1 \cup {stack_pointer}
      BY <2>3 DEF Slots
    <3> QED BY <2>3, <2>4, <3>1 DEF Stacked, Slots
  <2>6. lost' = lost /\ out' = out /\ rd' = rd
    BY <1>3 DEF PushStore
  <2>7. Covered' BY <1>0, <2>2, <2>5, <2>6 DEF Covered
  <2>8. Disjoint' BY <1>0, <2>2, <2>5, <2>6 DEF Disjoint
  <2>9. \A s \in 0 .. stack_pointer - 1 : pile[s] # c[p]
    BY <1>0, <2>2 DEF Disjoint, Stacked
  <2>10. OneCopy' BY <1>0, <2>2, <2>3, <2>4, <2>9 DEF OneCopy, Slots
  <2>11. EmptyHanded' BY <1>0, <2>1 DEF EmptyHanded, TypeOK
  <2> QED BY <2>7, <2>8, <2>10, <2>11 DEF Conservation
<1>4. ASSUME NEW k \in Consumers, PopTake(k) PROVE Conservation'
  <2> DEFINE x == pile[stack_pointer - 1]
  <2>1. stack_pointer - 1 \in Slots /\ stack_pointer' = stack_pointer - 1 /\ pile' = pile
    BY <1>0, <1>4 DEF PopTake, TypeOK, Slots
  <2>2. x \in Stacked
    BY <1>0, <2>1 DEF Stacked, TypeOK, Slots
  <2>3. x \in 1 .. rd /\ x \in Chars
    BY <1>0, <2>2 DEF Covered, TypeOK, Chars
  <2>4. /\ k \in Threads /\ c[k] = NUL /\ c' = [c EXCEPT ![k] = x]
        /\ pc[k] = "test" /\ pc' = [pc EXCEPT ![k] = "put"]
    BY <1>0, <1>4 DEF PopTake, Goto, EmptyHanded, Threads
  <2>5. x \notin InHand BY <1>0, <2>2 DEF Disjoint
  <2>6. InHand' = InHand \cup {x}
        /\ (\A u, v \in Threads : c'[u] = c'[v] /\ c'[u] # NUL => u = v)
    BY <1>0, <2>3, <2>4, <2>5, HandGains
  <2>7. Stacked' = Stacked \ {x}
    <3>1. 0 .. stack_pointer' - 1 = (0 .. stack_pointer - 1) \ {stack_pointer - 1}
      BY <2>1 DEF Slots
    <3>2. \A s \in 0 .. stack_pointer' - 1 : pile[s] # x
      BY <1>0, <2>1, <3>1 DEF OneCopy, Slots
    <3> QED BY <2>1, <3>1, <3>2 DEF Stacked
  <2>8. lost' = lost /\ out' = out /\ rd' = rd
    BY <1>4 DEF PopTake
  <2>9. Covered' BY <1>0, <2>2, <2>6, <2>7, <2>8 DEF Covered
  <2>10. Disjoint' BY <1>0, <2>2, <2>6, <2>7, <2>8 DEF Disjoint
  <2>11. OneCopy' BY <1>0, <2>1, <2>6 DEF OneCopy, Slots
  <2>12. EmptyHanded' BY <1>0, <2>4 DEF EmptyHanded, TypeOK
  <2> QED BY <2>9, <2>10, <2>11, <2>12 DEF Conservation
<1>5. ASSUME NEW k \in Consumers, Putchar(k) PROVE Conservation'
  <2>1. /\ k \in Threads /\ c' = [c EXCEPT ![k] = NUL]
        /\ pc[k] = "put" /\ pc' = [pc EXCEPT ![k] = "pop"]
    BY <1>5 DEF Putchar, Goto, Forget, Threads
  <2>2. /\ InHand' = InHand \ {c[k]} /\ (c[k] # NUL => c[k] \in InHand)
        /\ \A u, v \in Threads : c'[u] = c'[v] /\ c'[u] # NUL => u = v
    BY <1>0, <2>1, HandLoses
  <2>3. Stacked' = Stacked /\ lost' = lost /\ out' = out \cup {c[k]} /\ rd' = rd
        /\ stack_pointer' = stack_pointer /\ pile' = pile
    BY <1>5 DEF Putchar, Stacked
  <2>4. NUL \notin Stacked \cup lost \cup InHand
    <3>1. NUL \notin 1 .. rd BY <1>0 DEF TypeOK, NUL
    <3> QED BY <1>0, <3>1 DEF Covered
  <2>5. Covered' BY <1>0, <2>2, <2>3, <2>4 DEF Covered
  <2>6. Disjoint' BY <1>0, <2>2, <2>3, <2>4 DEF Disjoint
  <2>7. OneCopy' BY <1>0, <2>2, <2>3 DEF OneCopy
  <2>8. EmptyHanded' BY <1>0, <2>1 DEF EmptyHanded, TypeOK
  <2> QED BY <2>5, <2>6, <2>7, <2>8 DEF Conservation
<1>6. ASSUME NEW k \in Consumers, PopWake(k) PROVE Conservation'
  <2>1. /\ c[k] = NUL /\ c' = [c EXCEPT ![k] = NUL]
        /\ pc[k] = "asleep" /\ pc' = [pc EXCEPT ![k] = "put"]
        /\ UNCHANGED <<stack_pointer, pile, rd, lost, out>>
    BY <1>0, <1>6 DEF PopWake, data, Goto, EmptyHanded, Threads
  <2>2. c' = c BY <1>0, <2>1 DEF TypeOK
  <2>3. \A t \in Threads : pc[t] \in {"push", "locked", "put"}
                              => pc'[t] \in {"push", "locked", "put"}
    BY <1>0, <2>1 DEF TypeOK
  <2> QED BY <2>1, <2>2, <2>3, Unmoved
<1>7. ASSUME NEW t \in Threads,
             \/ PushLock(t) \/ PushWake(t) \/ PopLock(t) \/ PopSleep(t)
      PROVE  Conservation'
  <2>1. /\ UNCHANGED <<stack_pointer, pile, c, rd, lost, out>>
        /\ \/ pc' = pc
           \/ pc[t] = "push" /\ pc' = [pc EXCEPT ![t] = "locked"]
           \/ pc[t] \in {"pop", "test"} /\ \E to : pc' = [pc EXCEPT ![t] = to]
    BY <1>7 DEF PushLock, PushWake, PopLock, PopSleep, data, Goto
  <2>2. \A u \in Threads : pc[u] \in {"push", "locked", "put"}
                              => pc'[u] \in {"push", "locked", "put"}
    BY <1>0, <2>1 DEF TypeOK
  <2> QED BY <2>1, <2>2, Unmoved
<1>8. CASE UNCHANGED vars
  BY <1>8, Unmoved DEF vars
<1> QED
  BY <1>1, <1>2, <1>3, <1>4, <1>5, <1>6, <1>7, <1>8
  DEF Next, Producteur, Consommateur, Threads

LEMMA InitConservation == Init => Conservation
<1> SUFFICES ASSUME Init PROVE Conservation
    OBVIOUS
<1>1. Stacked = {} /\ InHand = {}
  BY DEF Init, Stacked, InHand, Hand, NUL
<1> QED BY <1>1
  DEF Init, Conservation, Covered, Disjoint, OneCopy, EmptyHanded, NUL

(* A character that was read is in one place, for any number of threads:   *)
(* the consumers that return NUL after sleeping lose and duplicate none.   *)
THEOREM CharactersConserved == Spec => []Conservation
<1>1. IInv /\ Conservation /\ [Next]_vars => Conservation'
  BY ConservationStep
<1> QED BY Invariance, InitConservation, <1>1, PTL DEF Spec

-----------------------------------------------------------------------------
(* The cells below the stack pointer, read as a sequence: it grows at its  *)
(* end when a cell is filled and loses its end when the pointer goes down. *)
LEMMA CellsSeq ==
  ASSUME NEW S, NEW n \in Nat, NEW f, \A m \in 1 .. n : f[m - 1] \in S
  PROVE  /\ [m \in 1 .. n |-> f[m - 1]] \in Seq(S)
         /\ Len([m \in 1 .. n |-> f[m - 1]]) = n
OBVIOUS

LEMMA PushCells ==
  ASSUME NEW S, NEW n \in Nat, NEW f, NEW g, NEW x \in S,
         \A m \in 1 .. n : f[m - 1] \in S /\ g[m - 1] = f[m - 1],
         g[n] = x
  PROVE  [m \in 1 .. n + 1 |-> g[m - 1]] = Append([m \in 1 .. n |-> f[m - 1]], x)
<1> DEFINE s == [m \in 1 .. n |-> f[m - 1]]
<1>1. s \in Seq(S) /\ Len(s) = n
  BY CellsSeq
<1>2. Append(s, x) = [m \in 1 .. n + 1 |-> IF m <= n THEN s[m] ELSE x]
  BY <1>1
<1> QED BY <1>1, <1>2

LEMMA PopCells ==
  ASSUME NEW S, NEW n \in Nat \ {0}, NEW f, \A m \in 1 .. n : f[m - 1] \in S
  PROVE  [m \in 1 .. n - 1 |-> f[m - 1]]
           = SubSeq([m \in 1 .. n |-> f[m - 1]], 1, n - 1)
<1> DEFINE s == [m \in 1 .. n |-> f[m - 1]]
<1>1. s \in Seq(S) /\ Len(s) = n
  BY CellsSeq
<1>2. SubSeq(s, 1, n - 1) = [m \in 1 .. n - 1 |-> s[m]]
  BY <1>1
<1> QED BY <1>1, <1>2

(* A step that keeps the cells in use, what was dropped and what consumers *)
(* hold or wrote is invisible to the abstract stack.                       *)
LEMMA Stutter ==
  ASSUME stack_pointer' = stack_pointer, pile' = pile, lost' = lost,
         (out' \cup Hand(Consumers)') \ {NUL} = (out \cup Hand(Consumers)) \ {NUL}
  PROVE  [Lifo!Next]_Lifo!vars
BY DEF Lifo!vars

LEMMA LifoStep ==
  ASSUME IInv, Conservation, [Next]_vars
  PROVE  [Lifo!Next]_Lifo!vars
<1> USE ThreadsAssumption, SizeAssumption, InputAssumption
<1> DEFINE Cells == [n \in 1 .. stack_pointer |-> pile[n - 1]]
           Popped == (out \cup Hand(Consumers)) \ {NUL}
<1>0. TypeOK /\ Holding /\ Covered /\ Disjoint /\ OneCopy /\ EmptyHanded
  BY DEF IInv, Conservation
<1>a. Cells \in Seq(Chars) /\ Len(Cells) = stack_pointer /\ stack_pointer \in Nat
      /\ \A n \in 1 .. stack_pointer : pile[n - 1] \in Chars
  <2>1. \A n \in 1 .. stack_pointer : pile[n - 1] \in Stacked
    BY <1>0 DEF Stacked, TypeOK
  <2>2. \A n \in 1 .. stack_pointer : pile[n - 1] \in Chars
    BY <1>0, <2>1 DEF Covered, TypeOK, Chars
  <2>3. stack_pointer \in Nat BY <1>0 DEF TypeOK
  <2> QED BY <2>2, <2>3, CellsSeq
<1>b. Lifo!Stacked = Stacked /\ Hand(Consumers) \subseteq InHand
  <2>1. DOMAIN Cells = 1 .. stack_pointer OBVIOUS
  <2>2. {Cells[n] : n \in 1 .. stack_pointer} = {pile[n - 1] : n \in 1 .. stack_pointer}
    OBVIOUS
  <2>3. {pile[n - 1] : n \in 1 .. stack_pointer}
          = {pile[n] : n \in 0 .. stack_pointer - 1}
    <3>1. \A n \in 1 .. stack_pointer : n - 1 \in 0 .. stack_pointer - 1 BY <1>a
    <3>2. \A n \in 0 .. stack_pointer - 1 : n + 1 \in 1 .. stack_pointer /\ n + 1 - 1 = n
      BY <1>a
    <3> QED BY <3>1, <3>2
  <2>4. Hand(Consumers) \subseteq InHand BY DEF InHand, Hand, Threads
  <2> QED BY <2>1, <2>2, <2>3, <2>4 DEF Lifo!Stacked, Stacked
<1>c. ASSUME NEW p \in Producers, pc[p] = "locked", Forget(p), out' = out
      PROVE  /\ c[p] \in Chars /\ Popped' = Popped
             /\ c[p] \notin Lifo!Stacked \cup lost \cup Popped
  <2>1. c[p] # NUL /\ c[p] \in Chars /\ c[p] \in InHand
    BY <1>0, <1>c DEF Holding, TypeOK, InHand, Hand, Threads, NUL, Chars
  <2>2. c[p] \notin Hand(Consumers)
    BY <1>0, <2>1 DEF OneCopy, Hand, Threads
  <2>3. \A k \in Consumers : c'[k] = c[k]
    BY <1>0, <1>c DEF Forget, TypeOK, Threads
  <2>4. Hand(Consumers)' = Hand(Consumers) BY <2>3 DEF Hand
  <2> QED BY <1>0, <1>b, <1>c, <2>1, <2>2, <2>4 DEF Disjoint
<1>1. ASSUME NEW p \in Producers, PushStore(p) PROVE Lifo!Next
  <2>1. /\ pc[p] = "locked" /\ Forget(p) /\ out' = out /\ stack_pointer < Size
        /\ pile' = [pile EXCEPT ![stack_pointer] = c[p]]
        /\ stack_pointer' = stack_pointer + 1 /\ lost' = lost
    BY <1>0, <1>1 DEF PushStore, Full, Goto, TypeOK
  <2>2. /\ c[p] \in Chars /\ Popped' = Popped
        /\ c[p] \notin Lifo!Stacked \cup lost \cup Popped
    BY <1>c, <2>1
  <2>3. /\ \A n \in 1 .. stack_pointer : pile'[n - 1] = pile[n - 1]
        /\ pile'[stack_pointer] = c[p]
    BY <1>0, <1>a, <2>1 DEF TypeOK, Slots
  <2>4. Cells' = Append(Cells, c[p])
    BY <1>a, <2>1, <2>2, <2>3, PushCells
  <2> QED BY <1>a, <2>1, <2>2, <2>4 DEF Lifo!Next, Lifo!Push
<1>2. ASSUME NEW p \in Producers, PushFull(p) PROVE Lifo!Next
  <2>1. /\ pc[p] = "locked" /\ Forget(p) /\ out' = out /\ ~ (stack_pointer < Size)
        /\ Cells' = Cells /\ lost' = lost \cup {c[p]}
    BY <1>0, <1>2 DEF PushFull, Full, Goto, TypeOK
  <2>2. /\ c[p] \in Chars /\ Popped' = Popped
        /\ c[p] \notin Lifo!Stacked \cup lost \cup Popped
    BY <1>c, <2>1
  <2> QED BY <1>a, <2>1, <2>2 DEF Lifo!Next, Lifo!Push
<1>3. ASSUME NEW k \in Consumers, PopTake(k) PROVE Lifo!Next
  <2>1. /\ stack_pointer > 0 /\ stack_pointer' = stack_pointer - 1 /\ pile' = pile
        /\ c' = [c EXCEPT ![k] = pile[stack_pointer - 1]] /\ c[k] = NUL
        /\ lost' = lost /\ out' = out
    BY <1>0, <1>3 DEF PopTake, Goto, EmptyHanded, Threads
  <2>2. Cells[Len(Cells)] = pile[stack_pointer - 1] /\ Cells # << >>
        /\ pile[stack_pointer - 1] # NUL
    <3>1. stack_pointer \in 1 .. stack_pointer BY <1>a, <2>1
    <3>2. Cells[stack_pointer] = pile[stack_pointer - 1] BY <3>1
    <3>3. pile[stack_pointer - 1] \in Chars BY <1>a, <3>1
    <3> HIDE DEF Cells
    <3> QED BY <1>a, <2>1, <3>2, <3>3, EmptySeq DEF Chars, NUL
  <2>3. Cells' = SubSeq(Cells, 1, Len(Cells) - 1)
    <3>1. stack_pointer \in Nat \ {0} BY <1>a, <2>1
    <3> QED BY <1>a, <2>1, <3>1, PopCells
  <2>4. \A u \in Consumers : c'[u] = IF u = k THEN pile[stack_pointer - 1] ELSE c[u]
    BY <1>0, <2>1 DEF TypeOK, Threads
  <2>5. Hand(Consumers)' = Hand(Consumers) \cup {pile[stack_pointer - 1]}
    BY <2>1, <2>2, <2>4 DEF Hand
  <2>6. Popped' = Popped \cup {pile[stack_pointer - 1]}
    BY <2>1, <2>2, <2>5
  <2> QED BY <2>1, <2>2, <2>3, <2>6 DEF Lifo!Next, Lifo!Pop
<1>4. ASSUME NEW k \in Consumers, Putchar(k) PROVE [Lifo!Next]_Lifo!vars
  <2>1. /\ c' = [c EXCEPT ![k] = NUL] /\ out' = out \cup {c[k]}
        /\ UNCHANGED <<stack_pointer, pile, lost>>
    BY <1>4 DEF Putchar, Forget
  <2>2. \A u \in Consumers : c'[u] = IF u = k THEN NUL ELSE c[u]
    BY <1>0, <2>1 DEF TypeOK, Threads
  <2>3. Popped' = Popped
    BY <2>1, <2>2 DEF Hand
  <2> QED BY <2>1, <2>3, Stutter
<1>5. ASSUME NEW p \in Producers, Getchar(p) PROVE [Lifo!Next]_Lifo!vars
  <2>1. \A k \in Consumers : c'[k] = c[k]
    BY <1>0, <1>5 DEF Getchar, TypeOK, Threads
  <2>2. Hand(Consumers)' = Hand(Consumers) BY <2>1 DEF Hand
  <2> QED BY <1>5, <2>2, Stutter DEF Getchar
<1>6. ASSUME NEW k \in Consumers, PopWake(k) PROVE [Lifo!Next]_Lifo!vars
  <2>1. c' = c
    BY <1>0, <1>6 DEF PopWake, Goto, EmptyHanded, TypeOK, Threads
  <2> QED BY <1>6, <2>1, Stutter DEF PopWake, data, Hand
<1>7. CASE \/ \E p \in Producers : PushLock(p) \/ PushWake(p)
           \/ \E k \in Consumers : PopLock(k) \/ PopSleep(k)
           \/ UNCHANGED vars
  BY <1>7, Stutter DEF PushLock, PushWake, PopLock, PopSleep, vars, data, Hand
<1> QED
  BY <1>1, <1>2, <1>3, <1>4, <1>5, <1>6, <1>7 DEF Next, Producteur, Consommateur

(* The stack on System V semaphores keeps the promise of the stack on a    *)
(* mutex: its steps are the atomic Push and Pop of the abstract bounded    *)
(* stack or invisible to it, the pops that return NUL among the latter.    *)
THEOREM RefinesLifo == Spec => ImplementsLifo
<1>1. Init => Lifo!Init
  BY ThreadsAssumption DEF Init, Lifo!Init, Threads, Hand, NUL
<1>2. IInv /\ Conservation /\ [Next]_vars => [Lifo!Next]_Lifo!vars
  BY LifoStep
<1> QED
  BY Invariance, CharactersConserved, <1>1, <1>2, PTL
  DEF Spec, ImplementsLifo, Lifo!Spec
=============================================================================
