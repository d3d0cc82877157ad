----------------------------- MODULE LifoStack -----------------------------
(***************************************************************************)
(* What the shared stacks of TME03 and TME04 promise their producers and   *)
(* consumers: each element is pushed at most once, a push on a full stack  *)
(* is dropped, and a pop takes the element pushed last, once.              *)
(***************************************************************************)
EXTENDS Integers, Sequences

CONSTANTS Elem,   \* what can be pushed
          Size    \* how many elements fit

VARIABLES stack,  \* the last element is the top
          lost,   \* pushed on a full stack
          taken   \* popped

vars == <<stack, lost, taken>>

Stacked == {stack[i] : i \in DOMAIN stack}

Init == stack = << >> /\ lost = {} /\ taken = {}

Push(x) ==
  /\ x \notin Stacked \cup lost \cup taken
  /\ IF Len(stack) < Size
     THEN stack' = Append(stack, x) /\ lost' = lost
     ELSE stack' = stack /\ lost' = lost \cup {x}
  /\ taken' = taken

Pop ==
  /\ stack # << >>
  /\ stack' = SubSeq(stack, 1, Len(stack) - 1)
  /\ taken' = taken \cup {stack[Len(stack)]}
  /\ lost' = lost

Next == Pop \/ \E x \in Elem : Push(x)

Spec == Init /\ [][Next]_vars
=============================================================================
