------------------------------- MODULE MCPunch -------------------------------
(* Instances of Punch for TLC. *)
EXTENDS Punch, TLC

CONSTANTS p1, p2, p3, a1, a2, c1, c2, c3

\* Two punches of the same address and one of another.
Targets == p1 :> a1 @@ p2 :> a1 @@ p3 :> a2

\* Two connections with the first address, one with the second.
Sources == c1 :> a1 @@ c2 :> a1 @@ c3 :> a2
==============================================================================
