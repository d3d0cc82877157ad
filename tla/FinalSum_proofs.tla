--------------------------- MODULE FinalSum_proofs --------------------------
(* Proofs about FinalSum, for any number of threads. *)
EXTENDS FinalSum, FiniteSetTheorems, TLAPS

LEMMA SubsetCount ==
  ASSUME NEW S \in SUBSET Workers
  PROVE  IsFiniteSet(S) /\ Cardinality(S) \in Nat /\ Cardinality(S) <= Cardinality(Workers)
<1>1. IsFiniteSet(S) /\ Cardinality(S) <= Cardinality(Workers)
  BY WorkersAssumption, FS_Subset
<1> QED BY <1>1, FS_CardinalityType

LEMMA CountType == N \in Nat /\ N = Cardinality(Workers)
BY WorkersAssumption, FS_CardinalityType DEF N

LEMMA RemoveOne ==
  ASSUME NEW S \in SUBSET Workers, NEW w \in S
  PROVE  /\ Cardinality(S \ {w}) = Cardinality(S) - 1
         /\ Cardinality(S) >= 1
         /\ Cardinality(S) <= 1 => S = {w}
<1>1. Cardinality(S \ {w}) = Cardinality(S) - 1
  BY SubsetCount, FS_RemoveElement
<1>2. Cardinality(S \ {w}) \in Nat /\ Cardinality(S) \in Nat /\ IsFiniteSet(S \ {w})
  BY SubsetCount
<1>3. ASSUME Cardinality(S) <= 1 PROVE S = {w}
  <2>1. Cardinality(S \ {w}) = 0 BY <1>1, <1>2, <1>3
  <2>2. S \ {w} = {} BY <1>2, <2>1, FS_EmptySet
  <2> QED BY <2>2
<1> QED BY <1>1, <1>2, <1>3

LEMMA InitIInv == Init => IInv
<1> SUFFICES ASSUME Init PROVE IInv
  OBVIOUS
<1> USE WorkersAssumption, CountType DEF Init
<1>1. Running = Workers
  BY DEF Running
<1>2. TypeOK
  <2>1. printer \in {"off", "start"}
    OBVIOUS
  <2>2. alive_count \in 0 .. Cardinality(Workers) /\ signals \in Nat
    OBVIOUS
  <2>3. pc \in [Workers -> {"none"}] /\ local \in [Workers -> SUBSET Workers]
    OBVIOUS
  <2> QED BY <2>1, <2>2, <2>3 DEF TypeOK
<1>3. Holding /\ Added /\ Signalled /\ Woken /\ SumIsFinal
  BY DEF Holding, Added, Signalled, Woken, SumIsFinal, Protected
<1>4. Counted
  BY <1>1 DEF Counted
<1> QED BY <1>2, <1>3, <1>4 DEF IInv

(* The steps that leave every pc alone: the creator's and the printer's.   *)
LEMMA PrinterStep ==
  ASSUME IInv, Making \/ CreateFailure \/ Printing \/ SpuriousWakeup
  PROVE  IInv'
<1>0. TypeOK /\ Holding /\ Added /\ Counted /\ Signalled /\ Woken /\ SumIsFinal
  BY DEF IInv
<1>1. UNCHANGED <<program, somme, alive_count, mutex_alive_count, local, pc, signals, missed>>
  BY DEF Making, EndCreate, JoinAll, JoinPrinter, CreateFailure, Printing, StartWait,
     CondWait, LockToPrint, PrintSum, SpuriousWakeup
<1>2. Added' /\ Counted' /\ Signalled'
  BY <1>0, <1>1 DEF Added, Counted, Signalled, Protected, Running
<1>3. CASE EndCreate \/ CreateFailure \/ JoinPrinter \/ SpuriousWakeup
  BY <1>0, <1>1, <1>2, <1>3 DEF EndCreate, CreateFailure, JoinPrinter, SpuriousWakeup,
    TypeOK, Holding, Woken, SumIsFinal, Protected, IInv
<1>4. CASE JoinAll
  <2>1. \A w \in Workers : pc[w] = "done"
    BY <1>4 DEF JoinAll
  <2>2. TypeOK' /\ Holding' /\ Woken' /\ SumIsFinal'
    BY <1>0, <1>1, <1>4, <2>1 DEF JoinAll, TypeOK, Holding, Woken, SumIsFinal, Protected
  <2> QED BY <1>2, <2>2 DEF IInv
<1>5. CASE StartWait \/ CondWait \/ LockToPrint
  <2>1. Holding'
    BY <1>0, <1>1, <1>5, WorkersAssumption, FreeAssumption
       DEF StartWait, CondWait, LockToPrint, LockSum, UnlockSum, Holding, Protected, TypeOK
  <2>2. TypeOK' /\ Woken' /\ SumIsFinal'
    BY <1>0, <1>1, <1>5 DEF StartWait, CondWait, LockToPrint, LockSum, UnlockSum,
      TypeOK, Woken, SumIsFinal, Protected
  <2> QED BY <1>2, <2>1, <2>2 DEF IInv
<1>6. CASE PrintSum
  <2>1. Protected /\ ~ spurious => somme = Workers
    BY <1>0, <1>6 DEF PrintSum, Woken, Signalled, Added, Protected, TypeOK
  <2>2. TypeOK' /\ Woken' /\ SumIsFinal'
    BY <1>0, <1>1, <1>6, <2>1 DEF PrintSum, UnlockSum, TypeOK, Woken, SumIsFinal, Protected
  <2>3. Holding'
    BY <1>0, <1>1, <1>6, WorkersAssumption DEF PrintSum, UnlockSum, Holding, Protected, TypeOK
  <2> QED BY <1>2, <2>2, <2>3 DEF IInv
<1> QED BY <1>3, <1>4, <1>5, <1>6 DEF Making, Printing

LEMMA CreateStep ==
  ASSUME IInv, NEW w \in Workers, Create(w)
  PROVE  IInv'
<1>0. TypeOK /\ Holding /\ Added /\ Counted /\ Signalled /\ Woken /\ SumIsFinal
  BY DEF IInv
<1>1. pc[w] = "none" /\ pc' = [pc EXCEPT ![w] = "lock"]
  BY DEF Create, Goto
<1>2. Running' = Running
  BY <1>0, <1>1 DEF Running, TypeOK
<1>3. signals = 0 /\ signals' = signals
  BY <1>0, <1>1 DEF Create, Signalled
<1>4. TypeOK'
  BY <1>0, <1>1 DEF Create, TypeOK
<1>5. Holding' /\ Added'
  BY <1>0, <1>1 DEF Create, Holding, Added, Protected, TypeOK
<1>6. Counted'
  BY <1>0, <1>1, <1>2 DEF Create, Counted, TypeOK
<1>7. Signalled' /\ Woken' /\ SumIsFinal'
  BY <1>0, <1>1, <1>3 DEF Create, Signalled, Woken, SumIsFinal, TypeOK
<1> QED BY <1>4, <1>5, <1>6, <1>7 DEF IInv

(* Lock, Load and Store: the thread adds its value.                        *)
LEMMA AddStep ==
  ASSUME IInv, NEW w \in Workers, Lock(w) \/ Load(w) \/ Store(w)
  PROVE  IInv'
<1>0. TypeOK /\ Holding /\ Added /\ Counted /\ Signalled /\ Woken /\ SumIsFinal
  BY DEF IInv
<1>1. /\ pc[w] \in {"lock", "load", "store"}
      /\ pc' = [pc EXCEPT ![w] = pc'[w]]
      /\ UNCHANGED <<program, alive_count, mutex_alive_count, maker, printer, printed,
                     signals, missed, spurious, exited>>
  BY <1>0 DEF Lock, Load, Store, Goto, TypeOK
<1>2. signals = 0
  BY <1>0, <1>1 DEF Signalled
<1>3. ~ (printer \in {"ready", "print", "done"} /\ ~ spurious)
  BY <1>0, <1>1, <1>2 DEF Woken
<1>4. Signalled' /\ Woken' /\ SumIsFinal'
  BY <1>1, <1>2, <1>3 DEF Signalled, Woken, SumIsFinal
<1>5. CASE Lock(w)
  <2>1. pc' = [pc EXCEPT ![w] = "load"] BY <1>5 DEF Lock, Goto
  <2>2. TypeOK' BY <1>0, <1>5, <2>1 DEF Lock, LockSum, TypeOK
  <2>3. Running' = Running BY <1>0, <1>1, <2>1 DEF Running, TypeOK
  <2>4. Holding'
    BY <1>0, <1>5, <2>1, WorkersAssumption, FreeAssumption
       DEF Lock, LockSum, Holding, Protected, TypeOK
  <2>5. Added' BY <1>0, <1>1, <1>5, <2>1 DEF Lock, Added, Protected, TypeOK
  <2>6. Counted' BY <1>0, <1>1, <2>1, <2>3 DEF Counted, TypeOK
  <2> QED BY <1>4, <2>2, <2>4, <2>5, <2>6 DEF IInv
<1>6. CASE Load(w)
  <2>1. pc[w] = "load" /\ pc' = [pc EXCEPT ![w] = "store"] BY <1>6 DEF Load, Goto
  <2>2. TypeOK' BY <1>0, <1>6, <2>1 DEF Load, TypeOK
  <2>3. Running' = Running BY <1>0, <2>1 DEF Running, TypeOK
  <2>4. Holding' BY <1>0, <1>6, <2>1 DEF Load, Holding, Protected, TypeOK
  <2>5. Added' BY <1>0, <1>6, <2>1 DEF Load, Added, Protected, TypeOK
  <2>6. Counted' BY <1>0, <1>1, <2>1, <2>3 DEF Counted, TypeOK
  <2> QED BY <1>4, <2>2, <2>4, <2>5, <2>6 DEF IInv
<1>7. CASE Store(w)
  <2>1. /\ pc[w] = "store"
        /\ pc' = [pc EXCEPT ![w] = IF program = "daemon" THEN "alive" ELSE "done"]
        /\ somme' = local[w] \cup {w} /\ local' = local /\ mutex_somme' = Free
    BY <1>7 DEF Store, Goto, UnlockSum
  <2>2. TypeOK' BY <1>0, <1>1, <2>1 DEF TypeOK
  <2>3. program = "daemon" => Running' = Running
    BY <1>0, <2>1 DEF Running, TypeOK
  <2>4. Protected => somme' = somme \cup {w}
    BY <1>0, <2>1 DEF Added
  <2>5. Protected => \A v \in Workers \ {w} : pc[v] \notin {"load", "store"}
    BY <1>0, <2>1 DEF Holding
  <2>6. Protected => printer \notin {"locked", "print"}
    BY <1>0, <2>1, WorkersAssumption DEF Holding
  <2>7. Holding' BY <1>0, <1>1, <2>1, <2>5, <2>6 DEF Holding, Protected, TypeOK
  <2>8. Added' BY <1>0, <1>1, <2>1, <2>4, <2>5 DEF Added, Protected, TypeOK
  <2>9. Counted' BY <1>0, <1>1, <2>1, <2>3 DEF Counted, TypeOK
  <2> QED BY <1>4, <2>2, <2>7, <2>8, <2>9 DEF IInv
<1> QED BY <1>5, <1>6, <1>7

(* LockAlive, Check and Decrement: the thread counts itself out.           *)
LEMMA CountStep ==
  ASSUME IInv, NEW w \in Workers, LockAlive(w) \/ Check(w) \/ Decrement(w)
  PROVE  IInv'
<1>0. TypeOK /\ Holding /\ Added /\ Counted /\ Signalled /\ Woken /\ SumIsFinal
  BY DEF IInv
<1>1. /\ pc[w] \in {"alive", "check", "decrement"}
      /\ pc' = [pc EXCEPT ![w] = pc'[w]] /\ pc'[w] \in {"check", "decrement", "done"}
      /\ UNCHANGED <<program, somme, mutex_somme, local, maker, printed, spurious, exited>>
  BY <1>0 DEF LockAlive, Check, Decrement, Goto, TypeOK
<1>2. program = "daemon" /\ alive_count = Cardinality(Running)
  BY <1>0, <1>1 DEF Counted
<1>3. Running \in SUBSET Workers /\ w \in Running
  BY <1>1 DEF Running
<1>4. Added'
  BY <1>0, <1>1 DEF Added, Protected, TypeOK
<1>5. CASE LockAlive(w)
  <2>1. pc[w] = "alive" /\ pc' = [pc EXCEPT ![w] = "check"] BY <1>5 DEF LockAlive, Goto
  <2>2. TypeOK' BY <1>0, <1>5, <2>1 DEF LockAlive, TypeOK
  <2>3. Holding'
    BY <1>0, <1>5, <2>1, WorkersAssumption DEF LockAlive, Holding, Protected, TypeOK
  <2>4. Running' = Running BY <1>0, <2>1 DEF Running, TypeOK
  <2>5. Counted' BY <1>2, <1>5, <2>4 DEF LockAlive, Counted
  <2>6. signals = 0 BY <1>0, <2>1 DEF Signalled
  <2>7. Signalled' /\ Woken' /\ SumIsFinal'
    BY <1>0, <1>5, <2>1, <2>6 DEF LockAlive, Signalled, Woken, SumIsFinal, TypeOK
  <2> QED BY <1>4, <2>2, <2>3, <2>5, <2>7 DEF IInv
<1>6. CASE Check(w)
  <2>1. pc[w] = "check" /\ pc' = [pc EXCEPT ![w] = "decrement"] BY <1>6 DEF Check, Goto
  <2>2. signals = 0 BY <1>0, <2>1 DEF Signalled
  <2>3. /\ signals' = IF LastOne THEN 1 ELSE 0
        /\ printer' = IF LastOne /\ printer = "asleep" THEN "ready" ELSE printer
    BY <1>6, <2>2 DEF Check
  <2>a. missed' \in BOOLEAN
    <3>1. CASE LastOne
      <4>1. missed' = (missed \/ printer # "asleep") BY <1>6, <3>1, Zenon DEF Check
      <4>2. missed' = TRUE \/ missed' = FALSE BY <4>1, Zenon
      <4> QED BY <4>2
    <3>2. CASE ~ LastOne
      BY <1>0, <1>6, <3>2 DEF Check, TypeOK
    <3> QED BY <3>1, <3>2
  <2>4. TypeOK' BY <1>0, <1>1, <1>6, <2>1, <2>2, <2>3, <2>a DEF Check, TypeOK
  <2>5. Running' = Running BY <1>0, <2>1 DEF Running, TypeOK
  <2>6. Counted' BY <1>2, <1>6, <2>5 DEF Check, Counted
  <2>7. Holding' BY <1>0, <1>6, <2>1, <2>3 DEF Check, Holding, Protected, TypeOK
  <2>8. LastOne => Running = {w}
    BY <1>2, <1>3, RemoveOne DEF LastOne
  <2>9. LastOne => \A v \in Workers : pc'[v] \in {"decrement", "done"}
    BY <1>0, <2>1, <2>8 DEF Running, TypeOK
  <2>10. Signalled' BY <1>1, <1>2, <2>2, <2>3, <2>9 DEF Signalled
  <2>11. Woken' /\ SumIsFinal'
    BY <1>0, <1>1, <2>1, <2>2, <2>3 DEF Woken, SumIsFinal
  <2> QED BY <1>4, <2>4, <2>6, <2>7, <2>10, <2>11 DEF IInv
<1>7. CASE Decrement(w)
  <2>1. /\ pc[w] = "decrement" /\ pc' = [pc EXCEPT ![w] = "done"]
        /\ alive_count' = alive_count - 1 /\ mutex_alive_count' = Free
        /\ UNCHANGED <<printer, signals, missed>>
    BY <1>7 DEF Decrement, Goto
  <2>2. Running' = Running \ {w} BY <1>0, <2>1 DEF Running, TypeOK
  <2>3. Cardinality(Running') = Cardinality(Running) - 1 /\ Cardinality(Running) >= 1
    BY <1>3, <2>2, RemoveOne
  <2>4. Counted' BY <1>1, <1>2, <2>1, <2>3 DEF Counted
  <2>5. TypeOK'
    <3>1. alive_count' \in 0 .. Cardinality(Workers)
      BY <1>0, <1>2, <2>1, <2>3, CountType DEF TypeOK
    <3> QED BY <1>0, <1>1, <2>1, <3>1 DEF TypeOK
  <2>6. Holding' BY <1>0, <1>1, <2>1, WorkersAssumption DEF Holding, Protected, TypeOK
  <2>7. Signalled' BY <1>0, <1>1, <2>1 DEF Signalled, TypeOK
  <2>8. Woken' /\ SumIsFinal' BY <1>0, <1>1, <2>1 DEF Woken, SumIsFinal, TypeOK
  <2> QED BY <1>4, <2>4, <2>5, <2>6, <2>7, <2>8 DEF IInv
<1> QED BY <1>5, <1>6, <1>7

LEMMA StepIInv == IInv /\ [Next]_vars => IInv'
<1> SUFFICES ASSUME IInv, [Next]_vars PROVE IInv'
  OBVIOUS
<1>1. CASE UNCHANGED vars
  BY <1>1 DEF vars, IInv, TypeOK, Holding, Added, Counted, Signalled, Woken, SumIsFinal,
     Running, Protected
<1>2. CASE Making \/ CreateFailure \/ Printing \/ SpuriousWakeup
  BY <1>2, PrinterStep
<1>3. CASE \E w \in Workers : Create(w) \/ Thread_rand(w)
  BY <1>3, CreateStep, AddStep, CountStep DEF Thread_rand
<1> QED BY <1>1, <1>2, <1>3 DEF Next

(* The inductive invariant, for any number of threads and any programs.    *)
THEOREM Invariance == Spec => []IInv
BY InitIInv, StepIInv, PTL DEF Spec

(* alive_count never goes below zero (daemon.c line 64).                   *)
THEOREM Typing == Spec => []TypeOK
<1>1. IInv => TypeOK BY DEF IInv
<1> QED BY <1>1, Invariance, PTL

(* The printed sum holds every value, unless the wakeup was spurious.      *)
THEOREM FinalSumPrinted == Spec => []SumIsFinal
<1>1. IInv => SumIsFinal BY DEF IInv
<1> QED BY <1>1, Invariance, PTL

(* The condition is signalled once, after the last addition.               *)
THEOREM SignalIsLast == Spec => []LastOneSignals
<1>1. IInv => LastOneSignals
  <2> SUFFICES ASSUME IInv PROVE LastOneSignals
    OBVIOUS
  <2>1. Signalled /\ Added /\ TypeOK BY DEF IInv
  <2>2. signals = 1 => somme = Workers
    BY <2>1 DEF Signalled, Added, Protected, TypeOK
  <2> QED BY <2>1, <2>2 DEF Signalled, LastOneSignals
<1> QED BY <1>1, Invariance, PTL
=============================================================================
