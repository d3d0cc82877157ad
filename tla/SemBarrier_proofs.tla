-------------------------- MODULE SemBarrier_proofs --------------------------
(* Proofs about SemBarrier, for any number of children. *)
EXTENDS SemBarrier, FiniteSetTheorems, TLAPS

LEMMA CountType == NB_PROCS \in Nat
BY SonsAssumption, FS_CardinalityType DEF NB_PROCS

(* A set of children is finite, has at most NB_PROCS members, and is all   *)
(* of them when it has that many.                                          *)
LEMMA SubsetCount ==
  ASSUME NEW S \in SUBSET Sons
  PROVE  /\ IsFiniteSet(S)
         /\ Cardinality(S) \in 0 .. NB_PROCS
         /\ Cardinality(S) = NB_PROCS => S = Sons
<1>1. IsFiniteSet(S) /\ Cardinality(S) <= NB_PROCS /\ (Cardinality(S) = NB_PROCS => S = Sons)
  BY SonsAssumption, FS_Subset DEF NB_PROCS
<1>2. Cardinality(S) \in Nat
  BY <1>1, FS_CardinalityType
<1> QED BY <1>1, <1>2, CountType

LEMMA AddOne ==
  ASSUME NEW S \in SUBSET Sons, NEW s \in Sons \ S
  PROVE  Cardinality(S \cup {s}) = Cardinality(S) + 1
BY SubsetCount, FS_AddElement

LEMMA Counts ==
  /\ Arrived \subseteq Sons /\ Passed \subseteq Arrived
  /\ Cardinality(Arrived) \in 0 .. NB_PROCS
  /\ Cardinality(Passed) \in 0 .. NB_PROCS
BY SubsetCount DEF Arrived, Passed

LEMMA InitIInv == Init => IInv
<1> SUFFICES ASSUME Init PROVE IInv
    OBVIOUS
<1> USE SonsAssumption, CountType DEF Init
<1>1. TypeOK
  <2>1. n \in 0 .. NB_PROCS BY CountType
  <2>2. pc \in [Sons -> {"none", "before", "blocked", "after", "done"}] OBVIOUS
  <2>3. reaped \subseteq Sons OBVIOUS
  <2> QED BY <2>1, <2>2, <2>3 DEF TypeOK
<1>2. Arrived = {} /\ Passed = {}
  BY DEF Arrived, Passed
<1>3. Accounted
  BY <1>2, FS_EmptySet DEF Accounted, CollectedBy, ReleasedBy
<1>4. Reaped
  BY DEF Reaped
<1> QED BY <1>1, <1>3, <1>4 DEF IInv

LEMMA SonStep ==
  ASSUME IInv, NEW s \in Sons, Fork(s) \/ Son(s) \/ Reap(s)
  PROVE  IInv'
<1> USE SonsAssumption, CountType, Counts
<1>0. TypeOK /\ Accounted /\ Reaped
  BY DEF IInv
<1>1. CASE Fork(s)
  <2>1. pc[s] = "none" /\ pc' = [pc EXCEPT ![s] = "before"]
    BY <1>1 DEF Fork, Goto
  <2>2. TypeOK' BY <1>0, <1>1, <2>1 DEF Fork, TypeOK
  <2>3. Arrived' = Arrived /\ Passed' = Passed
    BY <1>0, <2>1 DEF Arrived, Passed, TypeOK
  <2>4. Accounted' BY <1>0, <1>1, <2>3 DEF Fork, Accounted, CollectedBy, ReleasedBy
  <2>5. Reaped' BY <1>0, <1>1, <2>1 DEF Fork, Reaped, TypeOK
  <2> QED BY <2>2, <2>4, <2>5 DEF IInv
<1>2. CASE Arrive(s)
  <2>1. pc[s] = "before" /\ pc' = [pc EXCEPT ![s] = "blocked"]
    BY <1>2 DEF Arrive, Goto
  <2>2. TypeOK' BY <1>0, <1>2, <2>1 DEF Arrive, TypeOK
  <2>3. Arrived' = Arrived \cup {s} /\ s \notin Arrived /\ Passed' = Passed
    BY <1>0, <2>1 DEF Arrived, Passed, TypeOK
  <2>4. Cardinality(Arrived') = Cardinality(Arrived) + 1
    BY <2>3, AddOne
  <2>5. Accounted'
    BY <1>0, <1>2, <2>3, <2>4 DEF Arrive, Accounted, CollectedBy, ReleasedBy, TypeOK
  <2>6. Reaped' BY <1>0, <1>2, <2>1 DEF Arrive, Reaped, TypeOK
  <2> QED BY <2>2, <2>5, <2>6 DEF IInv
<1>3. CASE Pass(s)
  <2>1. pc[s] = "blocked" /\ pc' = [pc EXCEPT ![s] = "after"]
    BY <1>3 DEF Pass, Goto
  <2>2. TypeOK' BY <1>0, <1>3, <2>1 DEF Pass, TypeOK
  <2>3. Arrived' = Arrived /\ Passed' = Passed \cup {s} /\ s \notin Passed
    BY <1>0, <2>1 DEF Arrived, Passed, TypeOK
  <2>4. Cardinality(Passed') = Cardinality(Passed) + 1
    BY <2>3, AddOne
  <2>5. Accounted'
    BY <1>0, <1>3, <2>3, <2>4 DEF Pass, Accounted, CollectedBy, ReleasedBy, TypeOK
  <2>6. Reaped' BY <1>0, <1>3, <2>1 DEF Pass, Reaped, TypeOK
  <2> QED BY <2>2, <2>5, <2>6 DEF IInv
<1>4. CASE ExitSon(s)
  <2>1. pc[s] = "after" /\ pc' = [pc EXCEPT ![s] = "done"]
    BY <1>4 DEF ExitSon, Goto
  <2>2. TypeOK' BY <1>0, <1>4, <2>1 DEF ExitSon, TypeOK
  <2>3. Arrived' = Arrived /\ Passed' = Passed
    BY <1>0, <2>1 DEF Arrived, Passed, TypeOK
  <2>4. Accounted' BY <1>0, <1>4, <2>3 DEF ExitSon, Accounted, CollectedBy, ReleasedBy
  <2>5. Reaped' BY <1>0, <1>4, <2>1 DEF ExitSon, Reaped, TypeOK
  <2> QED BY <2>2, <2>4, <2>5 DEF IInv
<1>5. CASE Reap(s)
  <2>1. pc' = pc /\ pc[s] = "done" /\ reaped' = reaped \cup {s} /\ s \notin reaped
        /\ fpc = "wait" /\ fpc' = "wait" /\ n' = n + 1 /\ n < NB_PROCS
    BY <1>5 DEF Reap
  <2>2. TypeOK' BY <1>0, <1>5, <2>1 DEF Reap, TypeOK
  <2>3. Arrived' = Arrived /\ Passed' = Passed
    BY <2>1 DEF Arrived, Passed
  <2>4. Accounted'
    BY <1>0, <1>5, <2>1, <2>3 DEF Reap, Accounted, CollectedBy, ReleasedBy
  <2>5. Cardinality(reaped') = Cardinality(reaped) + 1
    BY <1>0, <2>1, AddOne DEF TypeOK
  <2>6. Reaped' BY <1>0, <1>5, <2>1, <2>5 DEF Reap, Reaped, TypeOK
  <2> QED BY <2>2, <2>4, <2>6 DEF IInv
<1> QED BY <1>1, <1>2, <1>3, <1>4, <1>5 DEF Son

LEMMA FatherStep ==
  ASSUME IInv, Main \/ ForkFailure
  PROVE  IInv'
<1> USE SonsAssumption, CountType, Counts
<1>0. TypeOK /\ Accounted /\ Reaped
  BY DEF IInv
<1>1. pc' = pc /\ Arrived' = Arrived /\ Passed' = Passed /\ reaped' = reaped
  BY DEF Main, EndFork, ForkFailure, Collect, EndCollect, ReleaseOne, EndRelease,
     Destroy, Arrived, Passed
<1>2. Accounted'
  <2>1. CASE EndFork \/ ForkFailure \/ EndCollect \/ EndRelease \/ Destroy
    BY <1>0, <1>1, <2>1 DEF EndFork, ForkFailure, EndCollect, EndRelease, Destroy,
      Accounted, CollectedBy, ReleasedBy, TypeOK
  <2>2. CASE Collect
    BY <1>0, <1>1, <2>2 DEF Collect, Accounted, CollectedBy, ReleasedBy, TypeOK
  <2>3. CASE ReleaseOne
    BY <1>0, <1>1, <2>3 DEF ReleaseOne, Accounted, CollectedBy, ReleasedBy, TypeOK
  <2> QED BY <2>1, <2>2, <2>3 DEF Main
<1>3. TypeOK'
  <2>1. n' \in 0 .. NB_PROCS
    BY <1>0 DEF Main, EndFork, ForkFailure, Collect, EndCollect, ReleaseOne,
       EndRelease, Destroy, TypeOK
  <2>2. sem_pere' \in Nat /\ sem_fils' \in Nat
    BY <1>0 DEF Main, EndFork, ForkFailure, Collect, EndCollect, ReleaseOne,
       EndRelease, Destroy, TypeOK
  <2>3. destroyed' \in BOOLEAN
    BY <1>0 DEF Main, EndFork, ForkFailure, Collect, EndCollect, ReleaseOne,
       EndRelease, Destroy, TypeOK
  <2>4. fpc' \in {"fork", "failed", "collect", "release", "wait", "done"}
    BY <1>0 DEF Main, EndFork, ForkFailure, Collect, EndCollect, ReleaseOne,
       EndRelease, Destroy, TypeOK
  <2> QED BY <1>0, <1>1, <2>1, <2>2, <2>3, <2>4 DEF TypeOK
<1>4. Reaped'
  <2>1. Cardinality({}) = 0 BY FS_EmptySet
  <2>2. CASE EndFork \/ ForkFailure \/ Collect \/ EndCollect \/ ReleaseOne
    BY <1>0, <1>1, <2>2 DEF EndFork, ForkFailure, Collect, EndCollect, ReleaseOne,
      Reaped, TypeOK
  <2>3. CASE EndRelease
    BY <1>0, <1>1, <2>1, <2>3 DEF EndRelease, Reaped, TypeOK
  <2>4. CASE Destroy
    BY <1>0, <1>1, <2>4 DEF Destroy, Reaped, TypeOK
  <2> QED BY <2>2, <2>3, <2>4 DEF Main
<1> QED BY <1>2, <1>3, <1>4 DEF IInv

LEMMA Step == IInv /\ [Next]_vars => IInv'
<1>1. IInv /\ UNCHANGED vars => IInv'
  BY DEF IInv, vars, TypeOK, Accounted, Reaped, Arrived, Passed, CollectedBy, ReleasedBy
<1> QED BY <1>1, SonStep, FatherStep DEF Next

(* IInv is inductive, so it holds in every reachable state. *)
THEOREM Invariance == Spec => []IInv
BY InitIInv, Step, PTL DEF Spec

(* Types are preserved. *)
THEOREM Typing == Spec => []TypeOK
<1>1. IInv => TypeOK BY DEF IInv
<1> QED BY Invariance, <1>1, PTL

(* A token of sem_fils exists only once the father has taken NB_PROCS      *)
(* tokens of sem_pere, which every child posts once.                       *)
LEMMA TokenMeansAllArrived == IInv /\ sem_fils > 0 => Arrived = Sons
<1> SUFFICES ASSUME IInv, sem_fils > 0 PROVE Arrived = Sons
    OBVIOUS
<1>1. ReleasedBy > 0
  BY Counts, CountType DEF IInv, Accounted, TypeOK, ReleasedBy
<1>2. CollectedBy = NB_PROCS
  BY <1>1, CountType DEF IInv, TypeOK, ReleasedBy, CollectedBy
<1>3. Cardinality(Arrived) = NB_PROCS
  BY <1>2, Counts, CountType DEF IInv, Accounted, TypeOK
<1> QED BY <1>3, Counts, SubsetCount

(* The two semaphores implement the rendezvous: no child is past the       *)
(* barrier while another has not reached it, whatever their number.        *)
THEOREM Refinement == Spec => ImplementsBarrier
<1>1. Init => Rendezvous!Init
  BY DEF Init, Rendezvous!Init, Arrived, Passed
<1>2. IInv /\ [Next]_vars => [Rendezvous!Next]_Rendezvous!vars
  <2> SUFFICES ASSUME IInv, [Next]_vars
               PROVE  [Rendezvous!Next]_Rendezvous!vars
      OBVIOUS
  <2>0. TypeOK BY DEF IInv
  <2>1. ASSUME NEW s \in Sons, Arrive(s) PROVE Rendezvous!Arrive(s)
    BY <2>0, <2>1 DEF Arrive, Goto, Rendezvous!Arrive, Arrived, Passed, TypeOK
  <2>2. ASSUME NEW s \in Sons, Pass(s) PROVE Rendezvous!Leave(s)
    <3>1. Arrived = Sons BY <2>0, <2>2, TokenMeansAllArrived DEF Pass
    <3> QED BY <2>0, <2>2, <3>1
          DEF Pass, Goto, Rendezvous!Leave, Arrived, Passed, TypeOK
  <2>3. CASE Main \/ ForkFailure \/ UNCHANGED vars
    BY <2>3 DEF Main, EndFork, ForkFailure, Collect, EndCollect, ReleaseOne, EndRelease,
       Destroy, Arrived, Passed, vars, Rendezvous!vars
  <2>4. ASSUME NEW s \in Sons, Fork(s) \/ ExitSon(s) \/ Reap(s)
        PROVE  UNCHANGED Rendezvous!vars
    BY <2>0, <2>4 DEF Fork, ExitSon, Reap, Goto, Arrived, Passed, TypeOK, Rendezvous!vars
  <2> QED BY <2>1, <2>2, <2>3, <2>4 DEF Next, Son, Rendezvous!Next
<1> QED BY Invariance, <1>1, <1>2, PTL DEF Spec, ImplementsBarrier, Rendezvous!Spec

(* Nobody uses the semaphores after the father has destroyed them. *)
THEOREM NoUseAfterDestroy == Spec => []DestroyedUnused
<1>1. IInv => DestroyedUnused
  <2> SUFFICES ASSUME IInv, destroyed PROVE DestroyedUnused
      BY DEF DestroyedUnused
  <2>1. fpc = "done" /\ n = NB_PROCS /\ Cardinality(reaped) = NB_PROCS
    BY DEF IInv, Reaped
  <2>2. reaped = Sons
    BY <2>1, SubsetCount DEF IInv, TypeOK
  <2>3. \A s \in Sons : pc[s] = "done"
    BY <2>2 DEF IInv, Reaped
  <2>4. Arrived = Sons /\ Passed = Sons
    BY <2>3 DEF Arrived, Passed
  <2>5. sem_pere = 0 /\ sem_fils = 0
    BY <2>1, <2>4, CountType DEF IInv, Accounted, CollectedBy, ReleasedBy, NB_PROCS
  <2> QED BY <2>3, <2>5 DEF DestroyedUnused
<1> QED BY Invariance, <1>1, PTL
=============================================================================
