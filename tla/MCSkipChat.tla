----------------------------- MODULE MCSkipChat -----------------------------
(* Small instances of SkipChat for TLC: Alice and Bob, or Alice twice.     *)
EXTENDS SkipChat, TLC
CONSTANTS a, b, c, Alice, Bob
TwoNames == (a :> Alice) @@ (b :> Bob)
SharedName == (a :> Alice) @@ (b :> Alice) @@ (c :> Bob)
=============================================================================
