------------------------------ MODULE MCTwoNodes ------------------------------
(* Instances of TwoNodes for TLC. *)
EXTENDS TwoNodes

CONSTANTS c1, c2, alice, bob, k1, k2

End(n, init, k) == [node |-> n, initiator |-> init, key |-> k]

\* Alice's ends send pings.
SomeProbing == {<<c1, "a">>, <<c2, "a">>}

\* Alice and Bob over both connections, c1 always as the rendezvous arranged it.
Pair(sid1, sid2, a, b) ==
  [c \in Conns |->
     IF c = c1
     THEN [sid |-> sid1, a |-> End(alice, TRUE, k1), b |-> End(bob, FALSE, k1)]
     ELSE [sid |-> sid2, a |-> a, b |-> b]]

SomeSetups ==
  { \* two paths of one rendezvous
    Pair(1, 2, End(alice, TRUE, k1), End(bob, FALSE, k1)),
    \* Bob accepts a path of the rendezvous without an expectation
    Pair(2, 1, End(alice, TRUE, k1), End(bob, FALSE, nil)),
    \* Alice does: both wait for the other to begin
    Pair(2, 1, End(alice, FALSE, nil), End(bob, FALSE, k1)),
    \* Bob accepts it under the expectation of another rendezvous, in either role
    Pair(2, 1, End(alice, TRUE, k1), End(bob, FALSE, k2)),
    Pair(2, 1, End(alice, TRUE, k1), End(bob, TRUE, k2)),
    \* Bob also connects to Alice without an invite code
    Pair(2, 1, End(alice, FALSE, nil), End(bob, TRUE, nil)),
    \* Alice reaches herself
    Pair(2, 1, End(alice, TRUE, nil), End(alice, FALSE, nil)) }
==============================================================================
