------------------------------ MODULE Barrier ------------------------------
(***************************************************************************)
(* A rendezvous, as the exercises rdvSem (TME04, TME05) announce it: no    *)
(* process prints "apres barriere" before every one of them has printed    *)
(* "avant barriere".                                                       *)
(***************************************************************************)
CONSTANT Procs

VARIABLES arrived, left

vars == <<arrived, left>>

Init == arrived = {} /\ left = {}

Arrive(p) == p \notin arrived /\ arrived' = arrived \cup {p} /\ left' = left

Leave(p) == arrived = Procs /\ p \notin left /\ left' = left \cup {p} /\ arrived' = arrived

Next == \E p \in Procs : Arrive(p) \/ Leave(p)

Spec == Init /\ [][Next]_vars
=============================================================================
