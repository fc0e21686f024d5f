------------------------------ MODULE ReplaySet ------------------------------
(***************************************************************************)
(* What the replay protection of internal/proto/replay.go promises, told   *)
(* without a bitmap: a sequence number is accepted exactly when it was     *)
(* never accepted before and is not windowSize or more below the highest   *)
(* one accepted.  ReplayWindow implements this specification.              *)
(***************************************************************************)
EXTENDS Integers

CONSTANTS
  windowSize,   \* how far below the highest a late number may still be
  Seqs          \* the sequence numbers that frames may carry

VARIABLES
  accepted,     \* every sequence number accepted so far
  last          \* the latest question and its answer: [seq, ok]

vars == <<accepted, last>>

NoAnswer == [seq |-> -1, ok |-> FALSE]

Fresh(seq) ==
  /\ seq \notin accepted
  /\ \A a \in accepted : a - seq < windowSize

Init ==
  /\ accepted = {}
  /\ last = NoAnswer

check(seq) ==
  /\ last' = [seq |-> seq, ok |-> Fresh(seq)]
  /\ accepted' = IF Fresh(seq) THEN accepted \cup {seq} ELSE accepted

Next == \E seq \in Seqs : check(seq)

Spec == Init /\ [][Next]_vars
==============================================================================
