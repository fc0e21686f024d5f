------------------------------ MODULE TrustStore ------------------------------
(***************************************************************************)
(* The trust-on-first-use store of internal/peers/peers.go: the records in *)
(* memory, the file they are saved to by every operation, restarts, and    *)
(* the trust level that a connection keeps from its handshake.             *)
(*                                                                         *)
(* The map is keyed by the fingerprint of the recorded key, so a record is *)
(* found at its key.  Finding by name ranges over a Go map: any record     *)
(* with the name may be met first.                                         *)
(***************************************************************************)
EXTENDS Integers

CONSTANTS Keys, Names, None

Levels == {"unknown", "unverified", "verified", "changed"}

Record == [name : Names, verified : BOOLEAN, pending : Keys \cup {None}]

ASSUME StoreAssumption == None \notin Keys \cup Levels \cup Record

VARIABLES
  peers,      \* Store.peers: the record of a key, or None
  disk,       \* what the file holds
  connTrust,  \* conn.trust of the latest connection with a key, or None
  approved,   \* history: keys that a Verify made verified
  lastOp      \* history: the latest operation, its arguments and its results

trustVars == <<peers, disk, connTrust, approved, lastOp>>

Stores == [Keys -> Record \cup {None}]

Known(store) == {k \in Keys : store[k] # None}
Named(store, n) == {k \in Known(store) : store[k].name = n}

TrustInit ==
  /\ peers = [k \in Keys |-> None]
  /\ disk = peers
  /\ connTrust = [k \in Keys |-> None]
  /\ approved = {}
  /\ lastOp = [op |-> "open", name |-> None, key |-> None, level |-> "unknown", saved |-> TRUE]

\* saveLocked: the file is replaced as a whole or not at all; memory keeps the
\* change either way.
saveLocked(saved) == disk' = IF saved THEN peers' ELSE disk

Did(op, n, k, level, saved) ==
  lastOp' = [op |-> op, name |-> n, key |-> k, level |-> level, saved |-> saved]

-----------------------------------------------------------------------------
(* Observe, called by runHandshake.  An error ends the connection. *)

Connected(k, level, saved) ==
  connTrust' = IF saved THEN [connTrust EXCEPT ![k] = level] ELSE connTrust

\* Mutation: the verification is lost with the other metadata.
ObserveSameKeyForgets(n, k, saved) ==
  /\ k \in Known(peers)
  /\ peers' = [peers EXCEPT ![k] = [name |-> n, verified |-> FALSE, pending |-> None]]
  /\ saveLocked(saved)
  /\ Connected(k, "unverified", saved)
  /\ Did("observe", n, k, "unverified", saved)
  /\ UNCHANGED approved

ObserveSameKey(n, k, saved) ==
  LET level == IF peers[k].verified THEN "verified" ELSE "unverified" IN
  /\ k \in Known(peers)
  /\ peers' = [peers EXCEPT ![k].name = n, ![k].pending = None]
  /\ saveLocked(saved)
  /\ Connected(k, level, saved)
  /\ Did("observe", n, k, level, saved)
  /\ UNCHANGED approved

ObserveChanged(n, k, saved) ==
  /\ k \notin Known(peers)
  /\ \E j \in Named(peers, n) : peers' = [peers EXCEPT ![j].pending = k]
  /\ saveLocked(saved)
  /\ Connected(k, "changed", saved)
  /\ Did("observe", n, k, "changed", saved)
  /\ UNCHANGED approved

\* Mutation: the first key seen under a name is trusted.
ObserveNewTrusted(n, k, saved) ==
  /\ k \notin Known(peers)
  /\ Named(peers, n) = {}
  /\ peers' = [peers EXCEPT ![k] = [name |-> n, verified |-> TRUE, pending |-> None]]
  /\ saveLocked(saved)
  /\ Connected(k, "unknown", saved)
  /\ Did("observe", n, k, "unknown", saved)
  /\ UNCHANGED approved

ObserveNew(n, k, saved) ==
  /\ k \notin Known(peers)
  /\ Named(peers, n) = {}
  /\ peers' = [peers EXCEPT ![k] = [name |-> n, verified |-> FALSE, pending |-> None]]
  /\ saveLocked(saved)
  /\ Connected(k, "unknown", saved)
  /\ Did("observe", n, k, "unknown", saved)
  /\ UNCHANGED approved

Observe(n, k, saved) ==
  ObserveSameKey(n, k, saved) \/ ObserveChanged(n, k, saved) \/ ObserveNew(n, k, saved)

\* Mutation: the name is not looked at.
TrustOfKeyOnly(n, k) ==
  IF k \in Known(peers) THEN IF peers[k].verified THEN "verified" ELSE "unverified"
  ELSE "unknown"

\* TrustOf, which answers for a presented key without changing the store.
TrustOf(n, k) ==
  IF k \in Known(peers) THEN IF peers[k].verified THEN "verified" ELSE "unverified"
  ELSE IF Named(peers, n) # {} THEN "changed" ELSE "unknown"

-----------------------------------------------------------------------------
(* The user. *)

\* Verify of the record found at key j: a pending key replaces the recorded one,
\* and with it whatever record was kept under that key.
Verified(j) ==
  LET k == IF peers[j].pending # None THEN peers[j].pending ELSE j
  IN  [i \in Keys |-> CASE i = k -> [peers[j] EXCEPT !.verified = TRUE, !.pending = None]
                        [] i = j /\ i # k -> None
                        [] OTHER -> peers[i]]

Verify(n, saved) ==
  \E j \in Named(peers, n) :
    LET k == IF peers[j].pending # None THEN peers[j].pending ELSE j IN
    /\ peers' = Verified(j)
    /\ saveLocked(saved)
    /\ approved' = approved \cup {k}
    /\ Did("verify", n, k, "verified", saved)
    /\ UNCHANGED connTrust

\* Mutation: the store is not saved.
RejectUnsaved(n, saved) ==
  /\ \E j \in Named(peers, n) : peers' = [peers EXCEPT ![j].pending = None]
  /\ Did("reject", n, None, "unknown", saved)
  /\ UNCHANGED <<disk, connTrust, approved>>

Reject(n, saved) ==
  /\ \E j \in Named(peers, n) : peers' = [peers EXCEPT ![j].pending = None]
  /\ saveLocked(saved)
  /\ Did("reject", n, None, "unknown", saved)
  /\ UNCHANGED <<connTrust, approved>>

\* The process ends at any point and OpenStore reads the file.
Restart ==
  /\ peers' = disk
  /\ connTrust' = [k \in Keys |-> None]
  /\ Did("open", None, None, "unknown", TRUE)
  /\ UNCHANGED <<disk, approved>>

TrustNext ==
  \/ \E n \in Names, k \in Keys, saved \in BOOLEAN : Observe(n, k, saved)
  \/ \E n \in Names, saved \in BOOLEAN : Verify(n, saved) \/ Reject(n, saved)
  \/ Restart

TrustSpec == TrustInit /\ [][TrustNext]_trustVars

-----------------------------------------------------------------------------
\* The store, the file and the trust kept by connections are well formed.
TrustTypeOK ==
  /\ peers \in Stores
  /\ disk \in Stores
  /\ connTrust \in [Keys -> Levels \cup {None}]
  /\ approved \in SUBSET Keys
  /\ lastOp \in [op : {"open", "observe", "verify", "reject"}, name : Names \cup {None},
               key : Keys \cup {None}, level : Levels, saved : BOOLEAN]

\* A key counts as verified, in memory, in the file and in the level given to a
\* connection, only if a Verify made it so, through renames, changed keys,
\* failed saves and restarts.
VerifiedByUser ==
  /\ \A k \in Known(peers) : peers[k].verified => k \in approved
  /\ \A k \in Known(disk) : disk[k].verified => k \in approved
  /\ \A k \in Keys : connTrust[k] = "verified" => k \in approved

\* An operation that returned no error is durable: a restart at that point finds
\* the store as it was, also after earlier operations failed to save.
SavedIsDurable == lastOp.saved => disk = peers

\* "this is the only way a key is ever replaced" (Verify): while the process
\* runs, a recorded key goes and a key becomes verified by Verify only.
OnlyVerifyReplaces ==
  [][lastOp'.op # "open" =>
       \A k \in Known(peers) :
         (k \notin Known(peers') \/ (peers'[k].verified # peers[k].verified)) => lastOp'.op = "verify"]_trustVars

\* After Observe, TrustOf gives the level that Observe returned, except that a
\* new peer is no longer unknown.
TrustOfAgrees ==
  lastOp.op = "observe" =>
    TrustOf(lastOp.name, lastOp.key) = IF lastOp.level = "unknown" THEN "unverified" ELSE lastOp.level
==============================================================================
