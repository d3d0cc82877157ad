------------------------------ MODULE ChatRoom ------------------------------
(***************************************************************************)
(* What the chat of TME05 (skipShare, skipClient) promises its users: one  *)
(* message at a time is broadcast, every member of the room displays it    *)
(* exactly once, and nobody joins, leaves or speaks meanwhile.             *)
(***************************************************************************)
EXTENDS Sequences

CONSTANTS Sessions, Messages, None

VARIABLES members,   \* who is in the room
          current,   \* the message being broadcast, or None
          pending,   \* the members that have not displayed it
          shown      \* what each session has displayed

vars == <<members, current, pending, shown>>

Init ==
  /\ members = {}
  /\ current = None
  /\ pending = {}
  /\ shown = [s \in Sessions |-> << >>]

Join(s) ==
  /\ current = None /\ s \notin members
  /\ members' = members \cup {s}
  /\ UNCHANGED <<current, pending, shown>>

Leave(s) ==
  /\ current = None /\ s \in members
  /\ members' = members \ {s}
  /\ UNCHANGED <<current, pending, shown>>

Speak(m) ==
  /\ current = None
  /\ current' = m /\ pending' = members
  /\ UNCHANGED <<members, shown>>

Display(s) ==
  /\ s \in pending
  /\ pending' = pending \ {s}
  /\ shown' = [shown EXCEPT ![s] = Append(@, current)]
  /\ UNCHANGED <<members, current>>

Delivered ==
  /\ current # None /\ pending = {}
  /\ current' = None
  /\ UNCHANGED <<members, pending, shown>>

Next == \/ \E s \in Sessions : Join(s) \/ Leave(s) \/ Display(s)
        \/ \E m \in Messages : Speak(m)
        \/ Delivered

Spec == Init /\ [][Next]_vars
=============================================================================
