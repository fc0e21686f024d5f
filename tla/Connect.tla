------------------------------- MODULE Connect -------------------------------
(***************************************************************************)
(* Turning an invite code into a session: Invite, Join and Race of         *)
(* internal/connect/connect.go, with the table of expected inbound         *)
(* connections of internal/connect/expect.go.                              *)
(*                                                                         *)
(* A rendezvous is one call of Invite (and of the function it returns) or  *)
(* of Join.  Its connections are the paths that Race dials and those that  *)
(* the listener accepted under its expectation.  The pairing key is one    *)
(* slice that all of them share, and that Zeroise overwrites.  The         *)
(* manager's Adopt is cut where it reads that slice: SealPairConfirm and   *)
(* VerifyPairConfirm.                                                      *)
(***************************************************************************)
EXTENDS Candidates

CONSTANTS
  Rendezvous, Inviting,   \* rendezvous, and those that are an Invite
  offered, observed,      \* the candidates of a rendezvous's peer, and the host the relay saw, or nil
  HasPunch,               \* whether Config.Punch is set
  Inbound,                \* connections that the listener accepts
  nil

ASSUME ConnectAssumption ==
  /\ Inviting \subseteq Rendezvous
  /\ observed \in [Rendezvous -> Hosts \cup {nil}]
  /\ HasPunch \in BOOLEAN
  /\ nil \notin Rendezvous \cup Hosts

VARIABLES
  call,      \* where the call of a rendezvous is
  key,       \* its pairing key: "none", "held" or "wiped"
  won,       \* rendezvous whose won channel is closed
  expired,   \* rendezvous whose context is done
  closer,    \* the goroutine that waits for the paths: "off", "waiting", "lingering", "withdrawn", "gone"
  result,    \* what Race returned, or nil
  byIP,      \* Expectations.byIP: the rendezvous whose options a host is adopted with, or nil
  added,     \* the hosts that expect added for a rendezvous
  stage,     \* where a connection is
  owner,     \* the rendezvous whose options a connection is adopted with, or nil
  spoiled    \* connections that read a wiped key

vars == <<call, key, won, expired, closer, result, byIP, added, stage, owner, spoiled>>
raceVars == <<call, key, closer, result>>
tableVars == <<byIP, added>>

\* The candidates that OpenCandidates leaves for a rendezvous.
candidates == [r \in Rendezvous |-> ValidateCandidates(offered[r])]

\* The paths that Race dials: one for each candidate, the punch, and the relay
\* circuit.
Relayed(r) == <<r, "relay", 0>>

paths ==
  [r \in Rendezvous |->
     {<<r, "direct", i>> : i \in DOMAIN candidates[r]}
     \cup (IF HasPunch /\ observed[r] # nil THEN {<<r, "punch", 0>>} ELSE {})
     \cup {Relayed(r)}]

Dialled == UNION {paths[r] : r \in Rendezvous}
Conns == Dialled \cup Inbound

ASSUME InboundAssumption == Inbound \cap Dialled = {}

peerIPs ==
  [r \in Rendezvous |->
     ({observed[r]} \ {nil}) \cup {c.host : c \in ToSet(candidates[r])}]

Init ==
  /\ call = [r \in Rendezvous |-> "idle"]
  /\ key = [r \in Rendezvous |-> "none"]
  /\ won = {}
  /\ expired = {}
  /\ closer = [r \in Rendezvous |-> "off"]
  /\ result = [r \in Rendezvous |-> nil]
  /\ byIP = [h \in Hosts |-> nil]
  /\ added = [r \in Rendezvous |-> {}]
  /\ stage = [c \in Conns |-> "off"]
  /\ owner = [c \in Conns |-> IF c \in Dialled THEN c[1] ELSE nil]
  /\ spoiled = {}

-----------------------------------------------------------------------------
(* Invite and Join, up to Race. *)

\* Invite publishes; Join claims.  The key exists from here on.
Begin(r) ==
  /\ call[r] = "idle"
  /\ call' = [call EXCEPT ![r] = IF r \in Inviting THEN "publishing" ELSE "claiming"]
  /\ key' = [key EXCEPT ![r] = "held"]
  /\ UNCHANGED <<won, expired, closer, result, tableVars, stage, owner, spoiled>>

\* Invite returns when sealing or publishing fails, with the key as it is.
PublishFails(r) ==
  /\ call[r] = "publishing"
  /\ call' = [call EXCEPT ![r] = "returned"]
  /\ UNCHANGED <<key, won, expired, closer, result, tableVars, stage, owner, spoiled>>

\* Invite returns the code, and the caller runs the function that waits.
Published(r) ==
  /\ call[r] = "publishing"
  /\ call' = [call EXCEPT ![r] = "waiting"]
  /\ UNCHANGED <<key, won, expired, closer, result, tableVars, stage, owner, spoiled>>

\* Wait or Claim ends with an error: the key is wiped.
PairingFails(r) ==
  /\ call[r] \in {"waiting", "claiming"}
  /\ call' = [call EXCEPT ![r] = "returned"]
  /\ key' = [key EXCEPT ![r] = "wiped"]
  /\ UNCHANGED <<won, expired, closer, result, tableVars, stage, owner, spoiled>>

\* Mutation: the latest rendezvous takes a host over.
expectOverwrites(r) ==
  /\ added' = [added EXCEPT ![r] = peerIPs[r]]
  /\ byIP' = [h \in Hosts |-> IF h \in peerIPs[r] THEN r ELSE byIP[h]]

\* expect: a host that is expected already keeps its options.
expect(r) ==
  LET new == {h \in Hosts : h \in peerIPs[r] /\ byIP[h] = nil}
  IN  /\ added' = [added EXCEPT ![r] = new]
      /\ byIP' = [h \in Hosts |-> IF h \in new THEN r ELSE byIP[h]]

\* Race, up to its final select: the expectation is registered and a goroutine
\* is started for each path.  The relay's waits for its grace period.
Race(r) ==
  /\ call[r] \in {"waiting", "claiming"}
  /\ call' = [call EXCEPT ![r] = "racing"]
  /\ expect(r)
  /\ closer' = [closer EXCEPT ![r] = "waiting"]
  /\ stage' = [c \in Conns |-> IF c = Relayed(r) THEN "grace"
                               ELSE IF c \in paths[r] THEN "dialing" ELSE stage[c]]
  /\ UNCHANGED <<key, won, expired, result, owner, spoiled>>

-----------------------------------------------------------------------------
(* The paths of a race. *)

Move(c, to) ==
  /\ stage' = [stage EXCEPT ![c] = to]
  /\ UNCHANGED <<raceVars, expired, tableVars, owner>>

\* RelayGrace has passed: the circuit is opened.
GraceOver(r) ==
  /\ stage[Relayed(r)] = "grace"
  /\ Move(Relayed(r), "dialing")
  /\ UNCHANGED <<won, spoiled>>

\* A path won, or the context is done, before the grace period was over.
GraceCut(r) ==
  /\ stage[Relayed(r)] = "grace"
  /\ r \in won \cup expired
  /\ Move(Relayed(r), "failed")
  /\ UNCHANGED <<won, spoiled>>

\* A dial has a timeout and follows the context: it can always fail.
DialFails(c) ==
  /\ stage[c] = "dialing"
  /\ Move(c, "failed")
  /\ UNCHANGED <<won, spoiled>>

DialSucceeds(c) ==
  /\ stage[c] = "dialing"
  /\ Move(c, "handshake")
  /\ UNCHANGED <<won, spoiled>>

\* A register does not return: it holds mu, and waits for the once of an older
\* connection whose dropConn waits for mu.
Deadlocked == \E d \in Conns : stage[d] = "blocked"

\* HandleInbound: the hook, which is read under mu, looks the source address up.
Arrive(c, h) ==
  /\ stage[c] = "off"
  /\ ~Deadlocked
  /\ stage' = [stage EXCEPT ![c] = "handshake"]
  /\ owner' = [owner EXCEPT ![c] = byIP[h]]
  /\ UNCHANGED <<raceVars, won, expired, tableVars, spoiled>>

\* runHandshake fails, before or during the confirmation.
AdoptFails(c) ==
  /\ stage[c] \in {"handshake", "confirming"}
  /\ Move(c, "failed")
  /\ UNCHANGED <<won, spoiled>>

\* How register ends: the connection is registered, or closed as a duplicate of
\* one that is; or it is blocked, and so is every later one.
Registers == {"blocked"} \cup (IF Deadlocked THEN {} ELSE {"registered"})

\* A connection that nobody expected has no pairing key to confirm.
Unpaired(c) ==
  /\ stage[c] = "handshake"
  /\ owner[c] = nil
  /\ \E to \in Registers : Move(c, to)
  /\ UNCHANGED <<won, spoiled>>

Wiped(c) == key[owner[c]] = "wiped"

\* confirmPairing, up to its receive: SealPairConfirm reads the key.
Seal(c) ==
  /\ stage[c] = "handshake"
  /\ owner[c] # nil
  /\ Move(c, "confirming")
  /\ spoiled' = IF Wiped(c) THEN spoiled \cup {c} ELSE spoiled
  /\ UNCHANGED won

\* The peer's confirmation is compared with one computed from the key: a key
\* that was wiped for either message rejects the peer.
Verify(c) ==
  /\ stage[c] = "confirming"
  /\ \E to \in (IF Wiped(c) \/ c \in spoiled THEN {"failed"} ELSE Registers) : Move(c, to)
  /\ spoiled' = IF Wiped(c) THEN spoiled \cup {c} ELSE spoiled
  /\ UNCHANGED won

\* OnEstablished, and for a dialled path the end of its goroutine.
Established(c) ==
  /\ stage[c] = "registered"
  /\ Move(c, "up")
  /\ won' = won \cup ({owner[c]} \ {nil})
  /\ UNCHANGED spoiled

-----------------------------------------------------------------------------
(* The end of a race. *)

PathsEnded(r) == \A c \in paths[r] : stage[c] \in {"up", "failed"}

\* Mutation: the key is wiped as soon as Race returns.
AllEndedByReturn(r) ==
  /\ closer[r] = "waiting"
  /\ result[r] # nil \/ PathsEnded(r)
  /\ closer' = [closer EXCEPT ![r] = "lingering"]
  /\ UNCHANGED <<call, key, won, expired, result, tableVars, stage, owner, spoiled>>

\* wg.Wait returns, done is closed and the timer is set.
AllEnded(r) ==
  /\ closer[r] = "waiting"
  /\ PathsEnded(r)
  /\ closer' = [closer EXCEPT ![r] = "lingering"]
  /\ UNCHANGED <<call, key, won, expired, result, tableVars, stage, owner, spoiled>>

\* The timer fires after expectLinger: withdraw deletes what expect added.
Withdraw(r) ==
  /\ closer[r] = "lingering"
  /\ closer' = [closer EXCEPT ![r] = "withdrawn"]
  /\ byIP' = [h \in Hosts |-> IF h \in added[r] THEN nil ELSE byIP[h]]
  /\ UNCHANGED <<call, key, won, expired, result, added, stage, owner, spoiled>>

\* Mutation: the timer wipes a key only if its race was lost.
ZeroiseLosers(r) ==
  /\ closer[r] = "withdrawn"
  /\ closer' = [closer EXCEPT ![r] = "gone"]
  /\ key' = [key EXCEPT ![r] = IF r \in won THEN @ ELSE "wiped"]
  /\ UNCHANGED <<call, won, expired, result, tableVars, stage, owner, spoiled>>

\* ... and then wipes the key.
Zeroise(r) ==
  /\ closer[r] = "withdrawn"
  /\ closer' = [closer EXCEPT ![r] = "gone"]
  /\ key' = [key EXCEPT ![r] = "wiped"]
  /\ UNCHANGED <<call, won, expired, result, tableVars, stage, owner, spoiled>>

\* RaceTimeout passes, or the caller gives up.
Expire(r) ==
  /\ call[r] = "racing"
  /\ expired' = expired \cup {r}
  /\ UNCHANGED <<raceVars, won, tableVars, stage, owner, spoiled>>

\* Race returns: its deferred cancel ends the context as well.
Return(r, value) ==
  /\ call[r] = "racing"
  /\ call' = [call EXCEPT ![r] = "returned"]
  /\ result' = [result EXCEPT ![r] = value]
  /\ expired' = expired \cup {r}
  /\ UNCHANGED <<key, won, closer, tableVars, stage, owner, spoiled>>

ReturnWon(r) == r \in won /\ Return(r, "session")

\* Mutation: the select takes done without looking at won again.
ReturnDoneBlindly(r) ==
  /\ closer[r] \in {"lingering", "withdrawn", "gone"}
  /\ Return(r, "every path failed")

\* The select took done: won is looked at once more.
ReturnDone(r) ==
  /\ closer[r] \in {"lingering", "withdrawn", "gone"}
  /\ Return(r, IF r \in won THEN "session" ELSE "every path failed")

ReturnTimedOut(r) == r \in expired /\ Return(r, "timed out")

-----------------------------------------------------------------------------
Path(c) ==
  \/ DialFails(c) \/ DialSucceeds(c)
  \/ AdoptFails(c) \/ Unpaired(c) \/ Seal(c) \/ Verify(c) \/ Established(c)

Closing(r) == AllEnded(r) \/ Withdraw(r) \/ Zeroise(r)

Next ==
  \/ \E r \in Rendezvous :
        \/ Begin(r) \/ PublishFails(r) \/ Published(r) \/ PairingFails(r) \/ Race(r)
        \/ GraceOver(r) \/ GraceCut(r) \/ Closing(r)
        \/ Expire(r) \/ ReturnWon(r) \/ ReturnDone(r) \/ ReturnTimedOut(r)
  \/ \E c \in Conns : Path(c)
  \/ \E c \in Inbound, h \in Hosts : Arrive(c, h)

Spec == Init /\ [][Next]_vars

\* The goroutines and timers of a race.
Work(r) ==
  \/ GraceOver(r) \/ GraceCut(r)
  \/ \E c \in paths[r] : Path(c)
  \/ Closing(r)

\* A race that can take a step takes one: goroutines are scheduled, timers fire,
\* and a dial and a handshake have timeouts of their own, so each ends one way or
\* the other.  Nothing is assumed of the network, of accepted connections, of
\* when Race returns, or of a register that is blocked.
FairSpec == Spec /\ \A r \in Rendezvous : WF_vars(Work(r))

-----------------------------------------------------------------------------
(* Properties. *)

TypeOK ==
  /\ call \in [Rendezvous -> {"idle", "publishing", "claiming", "waiting", "racing", "returned"}]
  /\ key \in [Rendezvous -> {"none", "held", "wiped"}]
  /\ won \subseteq Rendezvous
  /\ expired \subseteq Rendezvous
  /\ closer \in [Rendezvous -> {"off", "waiting", "lingering", "withdrawn", "gone"}]
  /\ result \in [Rendezvous -> {"session", "every path failed", "timed out", nil}]
  /\ byIP \in [Hosts -> Rendezvous \cup {nil}]
  /\ added \in [Rendezvous -> SUBSET Hosts]
  /\ stage \in [Conns -> {"off", "grace", "dialing", "handshake", "confirming",
                          "registered", "blocked", "up", "failed"}]
  /\ owner \in [Conns -> Rendezvous \cup {nil}]
  /\ spoiled \subseteq Conns

\* A path that Race dialled never confirms the pairing with a wiped key, however
\* long its handshake takes and however the race ended: the key outlives every
\* goroutine of attempt.
DialledKeyIntact == spoiled \cap Dialled = {}

\* Between its start and its withdrawal, a race is what every host that it added
\* leads to, and its key is not wiped; and the table holds nothing else.  A race
\* that shares a host with another takes nothing away from it.
ExpectationHolds ==
  /\ \A r \in Rendezvous : closer[r] \in {"waiting", "lingering"} =>
        /\ key[r] = "held"
        /\ \A h \in added[r] : byIP[h] = r
  /\ \A h \in Hosts : byIP[h] # nil =>
        /\ h \in added[byIP[h]]
        /\ closer[byIP[h]] \in {"waiting", "lingering"}

\* Race says that every path failed only if none of the paths it dialled became
\* a session and no accepted connection has signalled one.
FailureIsTrue ==
  [][\A r \in Rendezvous : result'[r] # result[r] /\ result'[r] = "every path failed" =>
        \A c \in Conns : owner[c] = r =>
           IF c \in Dialled THEN stage[c] = "failed" ELSE stage[c] # "up"]_vars

\* Once a race has begun, its expectation is withdrawn and its key is wiped in
\* the end, whichever path wins or fails and whatever Race returned, unless one of
\* its own paths never returns from register: a register that blocks an accepted
\* connection or another race's path does not keep it.
RaceReleases ==
  \A r \in Rendezvous :
     closer[r] = "waiting" ~>
        \/ key[r] = "wiped" /\ \A h \in Hosts : byIP[h] # r
        \/ \E c \in paths[r] : stage[c] = "blocked"
==============================================================================
