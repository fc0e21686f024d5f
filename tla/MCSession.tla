------------------------------ MODULE MCSession ------------------------------
(* Instances of Session for TLC. *)
EXTENDS Session, TLC

CONSTANTS repl, loop, peerRepl

\* One end seals from two goroutines at once and the other from one.
TwoAndOne == Initiator :> {repl, loop} @@ Responder :> {peerRepl}

\* The end with one goroutine seals enough to rotate three times by itself.
ThreeAndSeven == Initiator :> 3 @@ Responder :> 7

\* Nothing tells the two goroutines of one end apart.
MCSymmetry == Permutations({repl, loop})
==============================================================================
