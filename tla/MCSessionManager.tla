--------------------------- MODULE MCSessionManager ---------------------------
(***************************************************************************)
(* Instances of SessionManager: connections c1, c2 (and c3) of one or two  *)
(* peers.  Session IDs fall with the number of the connection, so that a   *)
(* later connection is the preferred one when they finish in order; the    *)
(* handshakes may finish in any order, so both outcomes occur.             *)
(***************************************************************************)
EXTENDS SessionManager

CONSTANTS c1, c2, c3, p1, p2, n1, n2

\* Every connection is to the one peer.
OnePeer == [c \in Conns |-> p1]
OneName == [c \in Conns |-> n1]

\* The third connection is to another peer.
TwoPeers == [c \in Conns |-> IF c = c3 THEN p2 ELSE p1]

Descending == [c \in Conns |-> IF c = c1 THEN 3 ELSE IF c = c2 THEN 2 ELSE 1]
==============================================================================
