------------------------------ MODULE Candidates ------------------------------
(***************************************************************************)
(* The candidate lists of internal/rendezvous/candidates.go: which of the  *)
(* addresses that a peer offers are dialled.  A candidate is a record      *)
(* [host, port]; a host is known by its class, "name" being one that       *)
(* net.ParseIP does not take, and port 0 stands for "" and "0".            *)
(***************************************************************************)
EXTENDS Integers, SequencesExt

CONSTANTS
  Hosts, class,                         \* hosts, and the class of each
  MaxCandidates, MaxPrivateCandidates   \* the caps of a list

ASSUME CandidatesAssumption ==
  /\ class \in [Hosts -> {"public", "private", "unusable", "name"}]
  /\ MaxCandidates \in Nat
  /\ MaxPrivateCandidates \in Nat

usableIP(h) == class[h] \notin {"unusable", "name"}

Dialable(c) == usableIP(c.host) /\ c.port # 0

Privates(list) == {i \in DOMAIN list : class[list[i].host] = "private"}

\* Whether the loop appends c to what it has so far: private counts the
\* private ones of out, and seen holds the addresses of out.
Admits(out, c) ==
  /\ Len(out) < MaxCandidates
  /\ Dialable(c)
  /\ ~Contains(out, c)
  /\ class[c.host] = "private" => Cardinality(Privates(out)) < MaxPrivateCandidates

ValidateCandidates(in) ==
  FoldLeft(LAMBDA out, c : IF Admits(out, c) THEN Append(out, c) ELSE out, <<>>, in)

-----------------------------------------------------------------------------
\* What a caller of ValidateCandidates relies on, for one list: only dialable
\* addresses, none twice, at most the caps; and what was left out is no address
\* to dial, or had no room in the list or among its private addresses.
SafeAndComplete(in) ==
  LET out == ValidateCandidates(in)
      full == Len(out) = MaxCandidates
      privatesFull == Cardinality(Privates(out)) = MaxPrivateCandidates
  IN  /\ Len(out) <= MaxCandidates
      /\ Cardinality(Privates(out)) <= MaxPrivateCandidates
      /\ IsInjective(out)
      /\ \A i \in DOMAIN out : Dialable(out[i]) /\ Contains(in, out[i])
      /\ \A i \in DOMAIN in :
            \/ Contains(out, in[i])
            \/ ~Dialable(in[i])
            \/ full
            \/ class[in[i].host] = "private" /\ privatesFull
==============================================================================
