------------------------------- MODULE MCRelay -------------------------------
(***************************************************************************)
(* Instances of Relay.  Handlers are interchangeable when they share an    *)
(* address, and so are codes and circuits.                                 *)
(***************************************************************************)
EXTENDS Relay, TLC

CONSTANTS a1, a2

OneAddress == [h \in Handlers |-> a1]

MCSymmetry == Permutations(Handlers) \cup Permutations(Codes) \cup Permutations(Circuits)
==============================================================================
