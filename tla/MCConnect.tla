------------------------------ MODULE MCConnect ------------------------------
(* Instances of Connect for TLC. *)
EXTENDS Connect, TLC

CONSTANTS r1, r2, n1, lan, wan, loop, host

Class == lan :> "private" @@ wan :> "public" @@ loop :> "unusable" @@ host :> "name"

\* Both peers may come from the same address.  One offers it, with one that is
\* not dialled; the other was only seen there by the relay.
Offered ==
  r1 :> <<[host |-> loop, port |-> 1], [host |-> wan, port |-> 1]>>
  @@ r2 :> <<[host |-> lan, port |-> 0]>>

Observed == r1 :> nil @@ r2 :> wan

\* Every list of up to four candidates is filtered as SafeAndComplete says.
MaxOffered == 4
ASSUME CandidatesSafe ==
  \A n \in 0 .. MaxOffered :
     \A in \in [1 .. n -> [host : Hosts, port : 0 .. 2]] : SafeAndComplete(in)
==============================================================================
