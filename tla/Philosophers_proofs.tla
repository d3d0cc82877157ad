------------------------- MODULE Philosophers_proofs -------------------------
(* Proofs about Philosophers, for any number of philosophers of which any  *)
(* may be killed.                                                          *)
EXTENDS Philosophers, TLAPS

LEMMA MineType == \A i \in Phil : Right(i) \in Phil /\ Mine(i) \subseteq Phil /\ i \in Mine(i)
BY NbAssumption DEF Phil, Right, Mine

LEMMA InitIInv == Init => IInv
<1> SUFFICES ASSUME Init PROVE IInv
    OBVIOUS
<1>1. TypeOK
  BY DEF Init, TypeOK
<1>2. Eating = {} /\ InRegion = {}
  BY DEF Init, Eating, InRegion
<1>3. Region /\ Seen /\ Flagged /\ Neighbours
  BY <1>2 DEF Init, Region, Seen, Flagged, Neighbours
<1> QED BY <1>1, <1>3 DEF IInv

(* A step that enters or leaves no critical region, no meal, and changes   *)
(* no chopstick, keeps the invariant once it keeps the types.              *)
LEMMA Elsewhere ==
  ASSUME IInv, TypeOK', baguettes' = baguettes,
         regulator_terminator' = regulator_terminator,
         InRegion' \subseteq InRegion, Eating' \subseteq Eating,
         \A i \in Phil : pc'[i] = "decide" =>
            pc[i] = "decide" /\ gauche'[i] = gauche[i] /\ droite'[i] = droite[i]
  PROVE  IInv'
<1> QED BY DEF IInv, Region, Seen, Flagged, Neighbours, Mine, Right

LEMMA Step == IInv /\ [Next]_vars => IInv'
<1> SUFFICES ASSUME IInv, [Next]_vars PROVE IInv'
    OBVIOUS
<1>0. TypeOK /\ Region /\ Seen /\ Flagged /\ Neighbours
  BY DEF IInv
<1> USE MineType
<1>1. ASSUME NEW i \in Phil, Enter(i) PROVE IInv'
  <2>1. pc[i] = "hungry" /\ pc' = [pc EXCEPT ![i] = "look"]
        /\ regulator_terminator > 0 /\ regulator_terminator' = regulator_terminator - 1
        /\ UNCHANGED <<baguettes, semtab, gauche, droite>>
    BY <1>1 DEF Enter, Goto, WaitRegulator
  <2>2. TypeOK' BY <1>0, <2>1 DEF TypeOK
  <2>3. regulator_terminator' = 0 /\ InRegion = {}
    BY <1>0, <2>1 DEF Region, TypeOK
  <2>4. InRegion' = {i} /\ Eating' = Eating
    BY <1>0, <2>1, <2>3 DEF InRegion, Eating, TypeOK
  <2>5. Region' BY <2>3, <2>4 DEF Region
  <2>6. Seen' BY <1>0, <2>1 DEF Seen, TypeOK, Mine, Right
  <2>7. Flagged' /\ Neighbours'
    BY <1>0, <2>1, <2>4 DEF Flagged, Neighbours, Mine, Right
  <2> QED BY <2>2, <2>5, <2>6, <2>7 DEF IInv
<1>2. ASSUME NEW i \in Phil, Look(i) PROVE IInv'
  <2>1. pc[i] = "look" /\ pc' = [pc EXCEPT ![i] = "decide"]
        /\ gauche' = [gauche EXCEPT ![i] = @ \/ baguettes[i] = 0]
        /\ droite' = [droite EXCEPT ![i] = @ \/ baguettes[Right(i)] = 0]
        /\ UNCHANGED <<regulator_terminator, baguettes, semtab>>
    BY <1>2 DEF Look, Goto
  <2>2. TypeOK'
    <3>1. gauche' \in [Phil -> BOOLEAN] /\ droite' \in [Phil -> BOOLEAN]
      BY <1>0, <2>1 DEF TypeOK
    <3> QED BY <1>0, <2>1, <3>1 DEF TypeOK
  <2>3. InRegion' = InRegion /\ Eating' = Eating
    BY <1>0, <2>1 DEF InRegion, Eating, TypeOK
  <2>4. Region' BY <1>0, <2>1, <2>3 DEF Region
  <2>5. Seen'
    <3>1. ASSUME NEW j \in Phil, pc'[j] = "decide", ~ gauche'[j], ~ droite'[j]
          PROVE  \A k \in Mine(j) : baguettes[k] = 1
      <4>1. CASE j = i
        <5>1. baguettes[i] # 0 /\ baguettes[Right(i)] # 0
          BY <1>0, <2>1, <3>1, <4>1 DEF TypeOK
        <5> QED BY <1>0, <4>1, <5>1 DEF TypeOK, Mine
      <4>2. CASE j # i
        BY <1>0, <2>1, <3>1, <4>2 DEF TypeOK, Seen
      <4> QED BY <4>1, <4>2
    <3> QED BY <2>1, <3>1 DEF Seen, Mine, Right
  <2>6. Flagged' /\ Neighbours'
    BY <1>0, <2>1, <2>3 DEF Flagged, Neighbours, Mine, Right
  <2> QED BY <2>2, <2>4, <2>5, <2>6 DEF IInv
<1>3. ASSUME NEW i \in Phil, Take(i) PROVE IInv'
  <2>1. pc[i] = "decide" /\ pc' = [pc EXCEPT ![i] = "eat"] /\ ~ gauche[i] /\ ~ droite[i]
        /\ regulator_terminator' = regulator_terminator + 1
        /\ baguettes' = [k \in Phil |-> IF k \in Mine(i) THEN 0 ELSE baguettes[k]]
        /\ UNCHANGED <<semtab, gauche, droite>>
    BY <1>3 DEF Take, Goto, PostRegulator, Set
  <2>2. i \in InRegion BY <2>1 DEF InRegion
  <2>3. InRegion = {i} /\ regulator_terminator = 0
    BY <1>0, <2>2 DEF Region
  <2>4. TypeOK' BY <1>0, <2>1, <2>3 DEF TypeOK
  <2>5. InRegion' = {}
    BY <1>0, <2>1, <2>3 DEF InRegion, TypeOK
  <2>6. Region' BY <2>5 DEF Region
  <2>7. Seen' BY <2>5 DEF Seen, InRegion
  <2>8. Eating' = Eating \cup {i}
    BY <1>0, <2>1 DEF Eating, TypeOK
  <2>9. \A k \in Mine(i) : baguettes[k] = 1
    BY <1>0, <2>1 DEF Seen
  <2>10. \A j \in Eating : Mine(i) \cap Mine(j) = {}
    BY <1>0, <2>9 DEF Flagged
  <2>11. Neighbours'
    BY <1>0, <2>8, <2>10 DEF Neighbours, Mine, Right
  <2>12. Flagged'
    <3>1. \A j \in Eating \cup {i} : \A k \in Mine(j) : baguettes'[k] = 0
      BY <1>0, <2>1 DEF Flagged, Eating
    <3> QED BY <2>8, <3>1 DEF Flagged, Mine, Right
  <2> QED BY <2>4, <2>6, <2>7, <2>11, <2>12 DEF IInv
<1>4. ASSUME NEW i \in Phil, Refuse(i) PROVE IInv'
  <2>1. pc[i] = "decide" /\ pc' = [pc EXCEPT ![i] = "left"]
        /\ regulator_terminator' = regulator_terminator + 1
        /\ UNCHANGED <<baguettes, semtab, gauche, droite>>
    BY <1>4 DEF Refuse, Goto, PostRegulator
  <2>2. i \in InRegion BY <2>1 DEF InRegion
  <2>3. InRegion = {i} /\ regulator_terminator = 0
    BY <1>0, <2>2 DEF Region
  <2>4. TypeOK' BY <1>0, <2>1, <2>3 DEF TypeOK
  <2>5. InRegion' = {} /\ Eating' = Eating
    BY <1>0, <2>1, <2>3 DEF InRegion, Eating, TypeOK
  <2>6. Region' /\ Seen' BY <2>5 DEF Region, Seen, InRegion
  <2>7. Flagged' /\ Neighbours'
    BY <1>0, <2>1, <2>5 DEF Flagged, Neighbours, Mine, Right
  <2> QED BY <2>4, <2>6, <2>7 DEF IInv
<1>5. ASSUME NEW i \in Phil, Leave(i) PROVE IInv'
  <2>1. pc[i] = "eat" /\ pc' = [pc EXCEPT ![i] = "put"]
        /\ regulator_terminator > 0 /\ regulator_terminator' = regulator_terminator - 1
        /\ UNCHANGED <<baguettes, semtab, gauche, droite>>
    BY <1>5 DEF Leave, Goto, WaitRegulator
  <2>2. TypeOK' BY <1>0, <2>1 DEF TypeOK
  <2>3. regulator_terminator' = 0 /\ InRegion = {}
    BY <1>0, <2>1 DEF Region, TypeOK
  <2>4. InRegion' = {i} /\ Eating' = Eating
    BY <1>0, <2>1, <2>3 DEF InRegion, Eating, TypeOK
  <2>5. Region' BY <2>3, <2>4 DEF Region
  <2>6. Seen' BY <1>0, <2>1 DEF Seen, TypeOK, Mine, Right
  <2>7. Flagged' /\ Neighbours'
    BY <1>0, <2>1, <2>4 DEF Flagged, Neighbours, Mine, Right
  <2> QED BY <2>2, <2>5, <2>6, <2>7 DEF IInv
<1>6. ASSUME NEW i \in Phil, PutBack(i) PROVE IInv'
  <2>1. pc[i] = "put" /\ pc' = [pc EXCEPT ![i] = "left"]
        /\ regulator_terminator' = regulator_terminator + 1
        /\ baguettes' = [k \in Phil |-> IF k \in Mine(i) THEN 1 ELSE baguettes[k]]
        /\ UNCHANGED <<semtab, gauche, droite>>
    BY <1>6 DEF PutBack, Goto, PostRegulator, Set
  <2>2. i \in InRegion /\ i \in Eating BY <2>1 DEF InRegion, Eating
  <2>3. InRegion = {i} /\ regulator_terminator = 0
    BY <1>0, <2>2 DEF Region
  <2>4. TypeOK' BY <1>0, <2>1, <2>3 DEF TypeOK
  <2>5. InRegion' = {}
    BY <1>0, <2>1, <2>3 DEF InRegion, TypeOK
  <2>6. Region' /\ Seen' BY <2>5 DEF Region, Seen, InRegion
  <2>7. Eating' = Eating \ {i}
    BY <1>0, <2>1 DEF Eating, TypeOK
  <2>8. Neighbours' BY <1>0, <2>7 DEF Neighbours, Mine, Right
  <2>9. Flagged'
    <3>1. \A j \in Eating \ {i} : \A k \in Mine(j) : k \notin Mine(i) /\ baguettes[k] = 0
      BY <1>0, <2>2 DEF Flagged, Neighbours
    <3>2. \A j \in Eating \ {i} : \A k \in Mine(j) : baguettes'[k] = 0
      BY <2>1, <3>1 DEF Eating
    <3> QED BY <2>7, <3>2 DEF Flagged, Mine, Right
  <2> QED BY <2>4, <2>6, <2>8, <2>9 DEF IInv
<1>7. ASSUME NEW i \in Phil, Wait(i) PROVE IInv'
  <2>1. /\ UNCHANGED <<regulator_terminator, baguettes, gauche, droite>>
        /\ pc[i] \in {"left", "inleft", "right", "inright"}
        /\ \E to \in {"inleft", "right", "inright", "reset"} : pc' = [pc EXCEPT ![i] = to]
    BY <1>7 DEF Wait, Through, Goto
  <2>2. semtab' \in [Phil -> Nat]
    <3>1. ASSUME NEW k \in Phil, NEW flag, NEW here, NEW inside, NEW after,
                 Through(i, k, flag, here, inside, after)
          PROVE  semtab' \in [Phil -> Nat]
      BY <1>0, <3>1 DEF Through, TypeOK
    <3> QED BY <1>7, <3>1 DEF Wait
  <2>3. TypeOK' BY <1>0, <2>1, <2>2 DEF TypeOK
  <2>4. InRegion' \subseteq InRegion /\ Eating' \subseteq Eating
    BY <1>0, <2>1 DEF InRegion, Eating, TypeOK
  <2>5. \A j \in Phil : pc'[j] = "decide" => pc[j] = "decide"
    BY <1>0, <2>1 DEF TypeOK
  <2> QED BY <2>1, <2>3, <2>4, <2>5, Elsewhere
<1>8. ASSUME NEW i \in Phil, Reset(i) PROVE IInv'
  <2>1. pc[i] = "reset" /\ pc' = [pc EXCEPT ![i] = "hungry"]
        /\ gauche' = [gauche EXCEPT ![i] = FALSE] /\ droite' = [droite EXCEPT ![i] = FALSE]
        /\ UNCHANGED <<regulator_terminator, baguettes, semtab>>
    BY <1>8 DEF Reset, Goto
  <2>2. TypeOK' BY <1>0, <2>1 DEF TypeOK
  <2>3. InRegion' \subseteq InRegion /\ Eating' \subseteq Eating
    BY <1>0, <2>1 DEF InRegion, Eating, TypeOK
  <2>4. \A j \in Phil : pc'[j] = "decide" =>
          pc[j] = "decide" /\ gauche'[j] = gauche[j] /\ droite'[j] = droite[j]
    BY <1>0, <2>1 DEF TypeOK
  <2> QED BY <2>1, <2>2, <2>3, <2>4, Elsewhere
<1>9. ASSUME NEW i \in Phil, Handler(i) PROVE IInv'
  <2>1. pc' = [pc EXCEPT ![i] = "gone"]
        /\ UNCHANGED <<regulator_terminator, baguettes, semtab, gauche, droite>>
    BY <1>9 DEF Handler
  <2>2. TypeOK' BY <1>0, <2>1 DEF TypeOK
  <2>3. InRegion' \subseteq InRegion /\ Eating' \subseteq Eating
    BY <1>0, <2>1 DEF InRegion, Eating, TypeOK
  <2>4. \A j \in Phil : pc'[j] = "decide" => pc[j] = "decide"
    BY <1>0, <2>1 DEF TypeOK
  <2> QED BY <2>1, <2>2, <2>3, <2>4, Elsewhere
<1>10. CASE UNCHANGED vars
  <2>1. TypeOK' BY <1>0, <1>10 DEF vars, TypeOK
  <2>2. InRegion' = InRegion /\ Eating' = Eating BY <1>10 DEF vars, InRegion, Eating
  <2> QED BY <1>10, <2>1, <2>2, Elsewhere DEF vars
<1> QED BY <1>1, <1>2, <1>3, <1>4, <1>5, <1>6, <1>7, <1>8, <1>9, <1>10
     DEF Next, Philosopher

(* IInv is inductive, so it holds in every reachable state. *)
THEOREM Invariance == Spec => []IInv
BY InitIInv, Step, PTL DEF Spec

(* Types are preserved. *)
THEOREM Typing == Spec => []TypeOK
<1>1. IInv => TypeOK BY DEF IInv
<1> QED BY Invariance, <1>1, PTL

(* Philosophers that share a chopstick never eat together, whatever their  *)
(* number and whoever is killed.                                           *)
THEOREM NeighboursExclude == Spec => []Neighbours
<1>1. IInv => Neighbours BY DEF IInv
<1> QED BY Invariance, <1>1, PTL

(* The flag of a chopstick in use is down. *)
THEOREM UseIsFlagged == Spec => []Flagged
<1>1. IInv => Flagged BY DEF IInv
<1> QED BY Invariance, <1>1, PTL
-----------------------------------------------------------------------------
(* A step that takes and gives back no chopstick, and ends nobody's meal,  *)
(* leaves no stale flag behind.  Nobody comes back from the dead.          *)
LEMMA NoFlagTouched ==
  ASSUME NoStaleFlag, baguettes' = baguettes, Eating \subseteq Eating',
         Dead \subseteq Dead'
  PROVE  NoStaleFlag'
BY DEF NoStaleFlag, Mine, Right

LEMMA StaleStep == IInv /\ NoStaleFlag /\ [Next]_vars => NoStaleFlag'
<1> SUFFICES ASSUME IInv, NoStaleFlag, [Next]_vars PROVE NoStaleFlag'
    OBVIOUS
<1>0. TypeOK /\ Neighbours /\ Flagged
  BY DEF IInv
<1> USE MineType
<1>1. ASSUME NEW i \in Phil, Take(i) PROVE NoStaleFlag'
  <2>1. /\ pc[i] = "decide" /\ pc' = [pc EXCEPT ![i] = "eat"]
        /\ baguettes' = [k \in Phil |-> IF k \in Mine(i) THEN 0 ELSE baguettes[k]]
    BY <1>1 DEF Take, Goto, Set
  <2>2. Eating' = Eating \cup {i} /\ Dead' = Dead
    BY <1>0, <2>1 DEF Eating, Dead, TypeOK
  <2>3. ASSUME Dead = {}, NEW k \in Phil, baguettes'[k] = 0
        PROVE  \E j \in Eating \cup {i} : k \in Mine(j)
    <3>1. CASE k \in Mine(i) BY <3>1
    <3>2. CASE k \notin Mine(i)
      <4>1. baguettes[k] = 0 BY <2>1, <2>3, <3>2
      <4> QED BY <2>3, <4>1 DEF NoStaleFlag
    <3> QED BY <3>1, <3>2
  <2> QED BY <2>2, <2>3 DEF NoStaleFlag, Mine, Right
<1>2. ASSUME NEW i \in Phil, PutBack(i) PROVE NoStaleFlag'
  <2>1. /\ pc[i] = "put" /\ pc' = [pc EXCEPT ![i] = "left"]
        /\ baguettes' = [k \in Phil |-> IF k \in Mine(i) THEN 1 ELSE baguettes[k]]
    BY <1>2 DEF PutBack, Goto, Set
  <2>2. Eating' = Eating \ {i} /\ Dead' = Dead
    BY <1>0, <2>1 DEF Eating, Dead, TypeOK
  <2>3. ASSUME Dead = {}, NEW k \in Phil, baguettes'[k] = 0
        PROVE  \E j \in Eating \ {i} : k \in Mine(j)
    <3>1. k \notin Mine(i) /\ baguettes[k] = 0 BY <2>1, <2>3
    <3>2. PICK j \in Eating : k \in Mine(j) BY <2>3, <3>1 DEF NoStaleFlag
    <3> QED BY <3>1, <3>2
  <2> QED BY <2>2, <2>3 DEF NoStaleFlag, Mine, Right
<1>3. ASSUME NEW i \in Phil, Handler(i) PROVE NoStaleFlag'
  <2>1. i \in Dead' BY <1>0, <1>3 DEF Handler, Dead, TypeOK
  <2> QED BY <2>1 DEF NoStaleFlag
<1>4. ASSUME NEW i \in Phil,
             \/ Enter(i) \/ Look(i) \/ Refuse(i) \/ Leave(i) \/ Wait(i) \/ Reset(i)
      PROVE  NoStaleFlag'
  <2>1. /\ baguettes' = baguettes
        /\ \/ pc[i] = "eat" /\ pc' = [pc EXCEPT ![i] = "put"]
           \/ /\ pc[i] \notin {"eat", "put", "gone"}
              /\ \E to \in {"look", "decide", "left", "inleft", "right", "inright",
                             "reset", "hungry"} : pc' = [pc EXCEPT ![i] = to]
    BY <1>4 DEF Enter, Look, Refuse, Leave, Wait, Through, Reset, Goto
  <2>2. Eating' = Eating /\ Dead' = Dead
    BY <1>0, <2>1 DEF Eating, Dead, TypeOK
  <2> QED BY <2>1, <2>2, NoFlagTouched
<1>5. CASE UNCHANGED vars
  BY <1>5, NoFlagTouched DEF vars, Eating, Dead
<1> QED BY <1>1, <1>2, <1>3, <1>4, <1>5 DEF Next, Philosopher

(* A philosopher is never refused a chopstick that nobody eats with, until *)
(* SIGINT has killed somebody: every 0 in the shared flags is then in use. *)
THEOREM FlagsAreFresh == Spec => []NoStaleFlag
<1>1. Init => NoStaleFlag BY DEF Init, NoStaleFlag
<1> QED BY Invariance, StaleStep, <1>1, PTL DEF Spec
=============================================================================
