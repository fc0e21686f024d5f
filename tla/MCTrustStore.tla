----------------------------- MODULE MCTrustStore -----------------------------
(***************************************************************************)
(* Instances of TrustStore.  Keys and names are interchangeable.           *)
(***************************************************************************)
EXTENDS TrustStore, TLC

MCSymmetry == Permutations(Keys) \cup Permutations(Names)
==============================================================================
