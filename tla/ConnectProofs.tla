---------------------------- MODULE ConnectProofs ----------------------------
(***************************************************************************)
(* The safety of a race, for any number of rendezvous, candidates and      *)
(* accepted connections: keys, expectations and reported failures.         *)
(***************************************************************************)
EXTENDS Connect, TLAPS

Types ==
  /\ call \in [Rendezvous -> {"idle", "publishing", "claiming", "waiting", "racing", "returned"}]
  /\ key \in [Rendezvous -> {"none", "held", "wiped"}]
  /\ won \in SUBSET Rendezvous
  /\ closer \in [Rendezvous -> {"off", "waiting", "lingering", "withdrawn", "gone"}]
  /\ byIP \in [Hosts -> Rendezvous \cup {nil}]
  /\ added \in [Rendezvous -> SUBSET Hosts]
  /\ stage \in [Conns -> {"off", "grace", "dialing", "handshake", "confirming",
                          "registered", "blocked", "up", "failed"}]
  /\ owner \in [Conns -> Rendezvous \cup {nil}]
  /\ result \in [Rendezvous -> {"session", "every path failed", "timed out", nil}]

\* Before a race begins its key is held, or does not exist yet.
Before ==
  \A r \in Rendezvous : call[r] \in {"idle", "publishing", "claiming", "waiting"} =>
     closer[r] = "off" /\ (call[r] # "idle" => key[r] = "held")

\* A dialled path belongs to its own rendezvous, is not under way before the
\* race begins, and has ended once the goroutine that waits for it goes on.
PathsOwned ==
  \A r \in Rendezvous : \A c \in paths[r] :
     /\ owner[c] = r
     /\ closer[r] = "off" => stage[c] = "off"
     /\ closer[r] \in {"lingering", "withdrawn", "gone"} => stage[c] \in {"up", "failed"}

\* Whoever is up has signalled it.
UpHasWon ==
  \A c \in Conns : stage[c] = "up" /\ owner[c] # nil => owner[c] \in won

IInv == Types /\ Before /\ PathsOwned /\ UpHasWon /\ ExpectationHolds /\ DialledKeyIntact

-----------------------------------------------------------------------------
(* Paths. *)

\* A path that Race dials is no accepted connection and belongs to the rendezvous
\* it is named after.
LEMMA PathFacts ==
  /\ \A r \in Rendezvous : \A c \in paths[r] : c \in Conns /\ c \in Dialled /\ c \notin Inbound /\ c[1] = r
  /\ \A c \in Dialled : c[1] \in Rendezvous /\ c \in paths[c[1]]
  /\ \A r \in Rendezvous : Relayed(r) \in paths[r]
<1>1. \A r \in Rendezvous : \A c \in paths[r] : c[1] = r
  BY DEF paths, Relayed
<1>2. \A r \in Rendezvous : Relayed(r) \in paths[r]
  BY Zenon DEF paths
<1> QED
  BY <1>1, <1>2, InboundAssumption DEF Dialled, Conns

\* Nothing is under way before the first call.
LEMMA Initially == Init => IInv
<1> SUFFICES ASSUME Init
             PROVE  IInv
  BY Zenon
<1>1. \A c \in Conns : owner[c] \in Rendezvous \cup {nil}
  BY Zenon, PathFacts DEF Init
<1>2. Types
  BY Zenon, <1>1 DEF Types, Init
<1>3. Before
  BY DEF Before, Init
<1>4. PathsOwned
  BY Zenon, PathFacts DEF PathsOwned, Init
<1>5. UpHasWon
  BY Zenon DEF UpHasWon, Init
<1>6. ExpectationHolds
  BY Zenon DEF ExpectationHolds, Init
<1>7. DialledKeyIntact
  BY Zenon DEF DialledKeyIntact, Init
<1> QED
  BY Zenon, <1>2, <1>3, <1>4, <1>5, <1>6, <1>7 DEF IInv

-----------------------------------------------------------------------------
(* Every step keeps the invariant.  The lemmas follow the parts of a race: the *)
(* calls before it, its start, its paths, and its end.                        *)

\* Invite and Join up to the race touch a rendezvous whose goroutine is off, so
\* no expectation and no path depends on its key yet.
LEMMA BeforeRaceStep ==
  ASSUME IInv, NEW r \in Rendezvous,
         Begin(r) \/ PublishFails(r) \/ Published(r) \/ PairingFails(r)
  PROVE  IInv'
<1>1. /\ call[r] \in {"idle", "publishing", "claiming", "waiting"}
      /\ closer[r] = "off"
      /\ UNCHANGED <<won, closer, result, byIP, added, stage, owner, spoiled>>
  BY Zenon DEF IInv, Before, Begin, PublishFails, Published, PairingFails, tableVars
<1>2. /\ key' \in [Rendezvous -> {"none", "held", "wiped"}]
      /\ call' \in [Rendezvous -> {"idle", "publishing", "claiming", "waiting", "racing", "returned"}]
      /\ \A q \in Rendezvous \ {r} : key'[q] = key[q] /\ call'[q] = call[q]
      /\ call'[r] \in {"publishing", "claiming", "waiting"} => key'[r] = "held"
      /\ call'[r] # "idle"
  BY ZenonT(60) DEF IInv, Types, Before, Begin, PublishFails, Published, PairingFails
<1>3. Types'
  BY Zenon, <1>1, <1>2 DEF IInv, Types
<1>4. Before'
  BY Zenon, <1>1, <1>2 DEF IInv, Types, Before
<1>5. PathsOwned' /\ UpHasWon' /\ DialledKeyIntact'
  BY <1>1 DEF IInv, PathsOwned, UpHasWon, DialledKeyIntact
<1>6. ExpectationHolds'
  BY <1>1, <1>2 DEF IInv, ExpectationHolds
<1> QED
  BY <1>3, <1>4, <1>5, <1>6 DEF IInv

\* A race takes only hosts that nobody has, and its own entries are none: its
\* goroutine was off.
LEMMA RaceStep ==
  ASSUME IInv, NEW r \in Rendezvous, Race(r)
  PROVE  IInv'
<1> DEFINE new == {h \in Hosts : h \in peerIPs[r] /\ byIP[h] = nil}
<1>1. /\ call[r] \in {"claiming", "waiting"}
      /\ closer[r] = "off"
      /\ key[r] = "held"
  BY Zenon DEF IInv, Before, Race
<1>2. /\ call' = [call EXCEPT ![r] = "racing"]
      /\ closer' = [closer EXCEPT ![r] = "waiting"]
      /\ added' = [added EXCEPT ![r] = new]
      /\ byIP' = [h \in Hosts |-> IF h \in new THEN r ELSE byIP[h]]
      /\ UNCHANGED <<key, won, result, owner, spoiled>>
  BY Zenon DEF Race, expect
<1>3. new \subseteq Hosts
  BY Zenon
<1>4. \A c \in Conns : stage'[c] = IF c = Relayed(r) THEN "grace"
                                   ELSE IF c \in paths[r] THEN "dialing" ELSE stage[c]
  BY Zenon DEF Race
<1>5. Types'
  <2>1. stage' \in [Conns -> {"off", "grace", "dialing", "handshake", "confirming",
                              "registered", "blocked", "up", "failed"}]
    BY Zenon DEF Race, IInv, Types
  <2> HIDE DEF new
  <2> QED
    BY Zenon, <1>2, <1>3, <2>1 DEF IInv, Types
<1>6. Before'
  BY Zenon, <1>2 DEF IInv, Types, Before
<1>7. PathsOwned'
  <2> SUFFICES ASSUME NEW q \in Rendezvous, NEW c \in paths[q]
               PROVE  /\ owner'[c] = q
                      /\ closer'[q] = "off" => stage'[c] = "off"
                      /\ closer'[q] \in {"lingering", "withdrawn", "gone"} => stage'[c] \in {"up", "failed"}
    BY Zenon DEF PathsOwned
  <2>1. owner'[c] = q
    BY Zenon, <1>2 DEF IInv, PathsOwned
  <2>2. CASE q = r
    BY Zenon, <2>1, <2>2, <1>2 DEF IInv, Types
  <2>3. CASE q # r
    <3>1. stage'[c] = stage[c]
      BY <2>3, <1>4, PathFacts
    <3>2. closer'[q] = closer[q]
      BY Zenon, <2>3, <1>2 DEF IInv, Types
    <3> QED
      BY <2>1, <3>1, <3>2 DEF IInv, PathsOwned
  <2> QED
    BY Zenon, <2>2, <2>3
<1>8. UpHasWon'
  BY Zenon, <1>2, <1>4 DEF IInv, UpHasWon
<1>9. ExpectationHolds'
  <2> HIDE DEF new
  <2>1. \A h \in new : byIP[h] = nil
    BY Zenon DEF new
  <2>2. \A q \in Rendezvous \ {r} : closer'[q] = closer[q] /\ added'[q] = added[q]
    BY Zenon, <1>2 DEF IInv, Types
  <2>3. closer'[r] = "waiting" /\ added'[r] = new
    BY Zenon, <1>2 DEF IInv, Types
  <2>4. \A h \in Hosts : byIP[h] # r
    BY <1>1, ConnectAssumption DEF IInv, ExpectationHolds
  <2>5. \A q \in Rendezvous : closer'[q] \in {"waiting", "lingering"} =>
           key'[q] = "held" /\ \A h \in added'[q] : byIP'[h] = q
    <3> SUFFICES ASSUME NEW q \in Rendezvous, closer'[q] \in {"waiting", "lingering"}
                 PROVE  key'[q] = "held" /\ \A h \in added'[q] : byIP'[h] = q
      BY Zenon
    <3>1. CASE q = r
      BY Zenon, <3>1, <2>3, <1>1, <1>2, <1>3
    <3>2. CASE q # r
      <4>1. key[q] = "held" /\ \A h \in added[q] : byIP[h] = q /\ h \in Hosts
        BY Zenon, <3>2, <2>2 DEF IInv, ExpectationHolds, Types
      <4> QED
        BY <4>1, <3>2, <2>1, <2>2, <1>2, ConnectAssumption
    <3> QED
      BY Zenon, <3>1, <3>2
  <2>6. \A h \in Hosts : byIP'[h] # nil =>
           h \in added'[byIP'[h]] /\ closer'[byIP'[h]] \in {"waiting", "lingering"}
    <3> SUFFICES ASSUME NEW h \in Hosts, byIP'[h] # nil
                 PROVE  h \in added'[byIP'[h]] /\ closer'[byIP'[h]] \in {"waiting", "lingering"}
      BY Zenon
    <3>1. CASE h \in new
      BY Zenon, <3>1, <2>3, <1>2
    <3>2. CASE h \notin new
      <4>1. byIP'[h] = byIP[h] /\ byIP[h] \in Rendezvous \ {r}
        BY Zenon, <3>2, <1>2, <2>4 DEF IInv, Types
      <4> QED
        BY <4>1, <2>2 DEF IInv, ExpectationHolds
    <3> QED
      BY Zenon, <3>1, <3>2
  <2> QED
    BY Zenon, <2>5, <2>6 DEF ExpectationHolds
<1>10. DialledKeyIntact'
  BY Zenon, <1>2 DEF IInv, DialledKeyIntact
<1> QED
  BY Zenon, <1>5, <1>6, <1>7, <1>8, <1>9, <1>10 DEF IInv

\* A step of one connection keeps the invariant if what has ended stays ended,
\* what is off stays off, only an accepted connection changes its owner, only who
\* signalled it is up, and no dialled path reads a wiped key.
LEMMA ConnectionStep ==
  ASSUME IInv, NEW c \in Conns, NEW to, NEW own \in Rendezvous \cup {nil},
         to \in {"dialing", "handshake", "confirming", "registered", "blocked", "up", "failed"},
         stage' = [stage EXCEPT ![c] = to],
         owner' = [owner EXCEPT ![c] = own],
         c \in Dialled => own = owner[c] /\ stage[c] \notin {"off", "up", "failed"},
         won \subseteq won', won' \subseteq Rendezvous,
         to = "up" /\ own # nil => own \in won',
         spoiled' \ spoiled \subseteq {c},
         c \in Dialled => spoiled' = spoiled,
         UNCHANGED <<call, key, closer, result, byIP, added>>
  PROVE  IInv'
<1>1. /\ stage'[c] = to /\ owner'[c] = own
      /\ \A d \in Conns \ {c} : stage'[d] = stage[d] /\ owner'[d] = owner[d]
  BY Zenon DEF IInv, Types
<1>2. Types'
  BY Zenon DEF IInv, Types
<1>3. Before' /\ ExpectationHolds'
  BY Zenon DEF IInv, Before, ExpectationHolds
<1>4. PathsOwned'
  <2> SUFFICES ASSUME NEW r \in Rendezvous, NEW d \in paths[r]
               PROVE  /\ owner'[d] = r
                      /\ closer'[r] = "off" => stage'[d] = "off"
                      /\ closer'[r] \in {"lingering", "withdrawn", "gone"} => stage'[d] \in {"up", "failed"}
    BY Zenon DEF PathsOwned
  <2>1. d \in Conns /\ d \in Dialled
    BY Zenon, PathFacts
  <2>2. /\ owner[d] = r
        /\ closer[r] = "off" => stage[d] = "off"
        /\ closer[r] \in {"lingering", "withdrawn", "gone"} => stage[d] \in {"up", "failed"}
    BY Zenon DEF IInv, PathsOwned
  <2>3. CASE d = c
    <3>1. closer[r] \notin {"off", "lingering", "withdrawn", "gone"}
      BY Zenon, <2>1, <2>2, <2>3
    <3> QED
      BY <1>1, <2>1, <2>2, <2>3, <3>1
  <2>4. CASE d # c
    BY Zenon, <1>1, <2>1, <2>2, <2>4
  <2> QED
    BY Zenon, <2>3, <2>4
<1>5. UpHasWon'
  BY Zenon, <1>1 DEF IInv, UpHasWon
<1>6. DialledKeyIntact'
  BY Zenon DEF IInv, DialledKeyIntact
<1> QED
  BY Zenon, <1>2, <1>3, <1>4, <1>5, <1>6 DEF IInv

\* While the handshake of a dialled path is under way its goroutine is waited
\* for, so its key is held.
LEMMA KeyOutlivesPath ==
  ASSUME IInv, NEW c \in Dialled, stage[c] \in {"handshake", "confirming"}
  PROVE  ~Wiped(c)
<1>1. c[1] \in Rendezvous /\ c \in paths[c[1]]
  BY Zenon, PathFacts
<1>2. owner[c] = c[1] /\ closer[c[1]] = "waiting"
  BY ZenonT(60), <1>1 DEF IInv, PathsOwned, Types
<1>3. key[owner[c]] = "held"
  BY <1>1, <1>2 DEF IInv, ExpectationHolds
<1> QED
  BY Zenon, <1>3 DEF Wiped

\* Every step of a path or of an accepted connection is such a step.
LEMMA PathStep ==
  ASSUME IInv, NEW c \in Conns, Path(c)
  PROVE  IInv'
<1>1. /\ owner[c] \in Rendezvous \cup {nil}
      /\ owner' = [owner EXCEPT ![c] = owner[c]]
      /\ UNCHANGED <<call, key, closer, result, byIP, added>>
      /\ stage[c] \notin {"off", "up", "failed"}
      /\ won \subseteq Rendezvous
  BY Zenon DEF IInv, Types, Path, DialFails, DialSucceeds, AdoptFails, Unpaired, Seal, Verify,
         Established, Move, raceVars, tableVars
<1>2. CASE DialFails(c) \/ DialSucceeds(c) \/ AdoptFails(c) \/ Unpaired(c)
  <2>1. PICK to \in {"handshake", "registered", "blocked", "failed"} : stage' = [stage EXCEPT ![c] = to]
    BY Zenon, <1>2 DEF DialFails, DialSucceeds, AdoptFails, Unpaired, Registers, Move
  <2>2. UNCHANGED <<won, spoiled>>
    BY Zenon, <1>2 DEF DialFails, DialSucceeds, AdoptFails, Unpaired
  <2> QED
    BY Zenon, <1>1, <2>1, <2>2, ConnectionStep
<1>3. CASE Seal(c) \/ Verify(c)
  <2>1. PICK to \in {"confirming", "registered", "blocked", "failed"} : stage' = [stage EXCEPT ![c] = to]
    <3>1. CASE Seal(c)
      BY Zenon, <3>1 DEF Seal, Move
    <3>2. CASE Verify(c)
      BY Zenon, <3>2 DEF Verify, Registers, Move
    <3> QED
      BY Zenon, <1>3, <3>1, <3>2
  <2>2. /\ won' = won
        /\ spoiled' = IF Wiped(c) THEN spoiled \cup {c} ELSE spoiled
        /\ stage[c] \in {"handshake", "confirming"}
    BY Zenon, <1>3 DEF Seal, Verify
  <2>3. c \in Dialled => spoiled' = spoiled
    BY Zenon, <2>2, KeyOutlivesPath
  <2>4. spoiled' \ spoiled \subseteq {c}
    BY Zenon, <2>2
  <2> QED
    BY Zenon, <1>1, <2>1, <2>2, <2>3, <2>4, ConnectionStep
<1>4. CASE Established(c)
  <2>1. stage' = [stage EXCEPT ![c] = "up"] /\ spoiled' = spoiled /\ won' = won \cup ({owner[c]} \ {nil})
    BY Zenon, <1>4 DEF Established, Move
  <2> QED
    BY Zenon, <1>1, <2>1, ConnectionStep
<1> QED
  BY Zenon, <1>2, <1>3, <1>4 DEF Path

\* So are the two ends of the relay's grace period.
LEMMA GraceStep ==
  ASSUME IInv, NEW r \in Rendezvous, GraceOver(r) \/ GraceCut(r)
  PROVE  IInv'
<1> DEFINE c == Relayed(r)
<1>1. c \in Conns /\ c \in Dialled
  BY Zenon, PathFacts
<1>2. PICK to \in {"dialing", "failed"} : stage' = [stage EXCEPT ![c] = to]
  BY Zenon DEF GraceOver, GraceCut, Move
<1>3. /\ stage[c] = "grace"
      /\ UNCHANGED <<call, key, closer, result, byIP, added, won, spoiled, owner>>
  BY Zenon DEF GraceOver, GraceCut, Move, raceVars, tableVars
<1>4. owner[c] \in Rendezvous \cup {nil} /\ owner' = [owner EXCEPT ![c] = owner[c]] /\ won \subseteq Rendezvous
  BY Zenon, <1>1, <1>3 DEF IInv, Types
<1> HIDE DEF c
<1> QED
  BY Zenon, <1>1, <1>2, <1>3, <1>4, ConnectionStep

\* And so is the arrival of a connection, whatever the table says of its host.
LEMMA ArriveStep ==
  ASSUME IInv, NEW c \in Inbound, NEW h \in Hosts, Arrive(c, h)
  PROVE  IInv'
<1>1. c \in Conns /\ c \notin Dialled
  BY Zenon, InboundAssumption DEF Conns
<1>2. byIP[h] \in Rendezvous \cup {nil} /\ won \subseteq Rendezvous
  BY Zenon DEF IInv, Types
<1>3. /\ stage' = [stage EXCEPT ![c] = "handshake"]
      /\ owner' = [owner EXCEPT ![c] = byIP[h]]
      /\ UNCHANGED <<call, key, closer, result, byIP, added, won, spoiled>>
  BY Zenon DEF Arrive, raceVars, tableVars
<1> QED
  BY Zenon, <1>1, <1>2, <1>3, ConnectionStep

\* What the table leads to is a race that added the host and is not withdrawn.
LEMMA TableLeads ==
  ASSUME IInv, NEW h \in Hosts, byIP[h] # nil
  PROVE  /\ byIP[h] \in Rendezvous
         /\ h \in added[byIP[h]]
         /\ closer[byIP[h]] \in {"waiting", "lingering"}
<1>1. byIP[h] \in Rendezvous
  BY Zenon DEF IInv, Types
<1>2. h \in added[byIP[h]] /\ closer[byIP[h]] \in {"waiting", "lingering"}
  BY Zenon DEF IInv, ExpectationHolds
<1> QED
  BY Zenon, <1>1, <1>2

\* The goroutine of a race goes on only when every path has ended, takes back
\* what it added and nothing else, and wipes the key after that.
LEMMA ClosingStep ==
  ASSUME IInv, NEW r \in Rendezvous, Closing(r)
  PROVE  IInv'
<1>1. PICK to \in {"lingering", "withdrawn", "gone"} : closer' = [closer EXCEPT ![r] = to]
  BY Zenon DEF Closing, AllEnded, Withdraw, Zeroise
<1>2. /\ closer[r] # "off"
      /\ UNCHANGED <<call, won, result, added, stage, owner, spoiled>>
      /\ key' \in [Rendezvous -> {"none", "held", "wiped"}]
      /\ \A q \in Rendezvous \ {r} : key'[q] = key[q]
      /\ byIP' \in [Hosts -> Rendezvous \cup {nil}]
  BY ZenonT(60) DEF Closing, AllEnded, Withdraw, Zeroise, IInv, Types, tableVars
<1>3. \A q \in Rendezvous \ {r} : closer'[q] = closer[q]
  BY Zenon, <1>1 DEF IInv, Types
<1>4. Types'
  BY Zenon, <1>1, <1>2 DEF IInv, Types
<1>5. Before'
  BY Zenon, <1>1, <1>2, <1>3 DEF IInv, Before
<1>6. PathsOwned'
  <2> SUFFICES ASSUME NEW q \in Rendezvous, NEW c \in paths[q]
               PROVE  /\ owner'[c] = q
                      /\ closer'[q] = "off" => stage'[c] = "off"
                      /\ closer'[q] \in {"lingering", "withdrawn", "gone"} => stage'[c] \in {"up", "failed"}
    BY Zenon DEF PathsOwned
  <2>1. CASE q # r
    BY <1>2, <1>3, <2>1 DEF IInv, PathsOwned
  <2>2. CASE q = r
    <3>1. stage[c] \in {"up", "failed"}
      BY Zenon, <2>2 DEF Closing, AllEnded, PathsEnded, Withdraw, Zeroise, IInv, PathsOwned
    <3>2. closer'[q] # "off"
      BY Zenon, <1>1, <2>2 DEF IInv, Types
    <3> QED
      BY Zenon, <1>2, <3>1, <3>2 DEF IInv, PathsOwned
  <2> QED
    BY Zenon, <2>1, <2>2
<1>7. UpHasWon' /\ DialledKeyIntact'
  BY Zenon, <1>2 DEF IInv, UpHasWon, DialledKeyIntact
<1>8. ExpectationHolds'
  <2>1. CASE AllEnded(r)
    <3>1. UNCHANGED <<key, byIP>> /\ closer[r] = "waiting" /\ closer'[r] = "lingering"
      BY Zenon, <2>1 DEF AllEnded, tableVars, IInv, Types
    <3>2. \A q \in Rendezvous : closer'[q] \in {"waiting", "lingering"} <=> closer[q] \in {"waiting", "lingering"}
      BY Zenon, <1>3, <3>1
    <3>3. \A q \in Rendezvous : closer'[q] \in {"waiting", "lingering"} =>
             key'[q] = "held" /\ \A h \in added'[q] : byIP'[h] = q
      BY Zenon, <1>2, <3>1, <3>2 DEF IInv, ExpectationHolds
    <3>4. \A h \in Hosts : byIP[h] # nil =>
             byIP[h] \in Rendezvous /\ h \in added[byIP[h]] /\ closer[byIP[h]] \in {"waiting", "lingering"}
      BY Zenon, TableLeads
    <3>5. \A h \in Hosts : byIP'[h] # nil =>
             h \in added'[byIP'[h]] /\ closer'[byIP'[h]] \in {"waiting", "lingering"}
      BY <1>2, <3>1, <3>2, <3>4
    <3> QED
      BY Zenon, <3>3, <3>5 DEF ExpectationHolds
  <2>2. CASE Withdraw(r)
    <3>1. /\ UNCHANGED key /\ closer[r] = "lingering" /\ closer'[r] = "withdrawn"
          /\ \A h \in Hosts : byIP'[h] = IF h \in added[r] THEN nil ELSE byIP[h]
      BY Zenon, <2>2 DEF Withdraw, IInv, Types
    <3>2. \A h \in added[r] : h \in Hosts /\ byIP[h] = r
      BY Zenon, <3>1 DEF IInv, ExpectationHolds, Types
    <3>3. \A q \in Rendezvous : closer'[q] \in {"waiting", "lingering"} =>
             key'[q] = "held" /\ \A h \in added'[q] : byIP'[h] = q
      <4> SUFFICES ASSUME NEW q \in Rendezvous, closer'[q] \in {"waiting", "lingering"}
                   PROVE  key'[q] = "held" /\ \A h \in added'[q] : byIP'[h] = q
        BY Zenon
      <4>1. q # r
        BY Zenon, <3>1
      <4>2. key[q] = "held" /\ \A h \in added[q] : byIP[h] = q /\ h \in Hosts
        BY Zenon, <4>1, <1>3 DEF IInv, ExpectationHolds, Types
      <4> QED
        BY <1>2, <3>1, <3>2, <4>1, <4>2
    <3>4. \A h \in Hosts : byIP'[h] # nil =>
             h \in added'[byIP'[h]] /\ closer'[byIP'[h]] \in {"waiting", "lingering"}
      <4> SUFFICES ASSUME NEW h \in Hosts, byIP'[h] # nil
                   PROVE  h \in added'[byIP'[h]] /\ closer'[byIP'[h]] \in {"waiting", "lingering"}
        BY Zenon
      <4>1. h \notin added[r] /\ byIP'[h] = byIP[h]
        BY Zenon, <3>1
      <4>2. h \in added[byIP[h]] /\ closer[byIP[h]] \in {"waiting", "lingering"} /\ byIP[h] \in Rendezvous
        BY Zenon, <4>1, TableLeads
      <4>3. byIP[h] # r
        BY Zenon, <4>1, <4>2
      <4>4. closer'[byIP[h]] = closer[byIP[h]] /\ added' = added
        BY <1>2, <1>3, <4>2, <4>3
      <4> QED
        BY Zenon, <4>1, <4>2, <4>4
    <3> QED
      BY <3>3, <3>4 DEF ExpectationHolds
  <2>3. CASE Zeroise(r)
    <3>1. UNCHANGED byIP /\ closer[r] = "withdrawn" /\ closer'[r] = "gone"
      BY Zenon, <2>3 DEF Zeroise, tableVars, IInv, Types
    <3>2. \A h \in Hosts : byIP[h] # nil => byIP[h] \in Rendezvous \ {r}
      BY Zenon, <3>1, TableLeads
    <3>3. \A q \in Rendezvous : closer'[q] \in {"waiting", "lingering"} =>
             key'[q] = "held" /\ \A h \in added'[q] : byIP'[h] = q
      <4> SUFFICES ASSUME NEW q \in Rendezvous, closer'[q] \in {"waiting", "lingering"}
                   PROVE  key'[q] = "held" /\ \A h \in added'[q] : byIP'[h] = q
        OBVIOUS
      <4>1. q # r /\ closer[q] = closer'[q] /\ key'[q] = key[q]
        BY Zenon, <1>2, <1>3, <3>1
      <4> QED
        BY Zenon, <1>2, <3>1, <4>1 DEF IInv, ExpectationHolds
    <3>4. \A h \in Hosts : byIP'[h] # nil =>
             h \in added'[byIP'[h]] /\ closer'[byIP'[h]] \in {"waiting", "lingering"}
      <4> SUFFICES ASSUME NEW h \in Hosts, byIP[h] # nil
                   PROVE  h \in added[byIP[h]] /\ closer'[byIP[h]] \in {"waiting", "lingering"}
        BY Zenon, <1>2, <3>1
      <4>1. closer'[byIP[h]] = closer[byIP[h]]
        BY Zenon, <1>3, <3>2
      <4> QED
        BY Zenon, <4>1 DEF IInv, ExpectationHolds
    <3> QED
      BY <3>3, <3>4 DEF ExpectationHolds
  <2> QED
    BY Zenon, <2>1, <2>2, <2>3 DEF Closing
<1> QED
  BY <1>4, <1>5, <1>6, <1>7, <1>8 DEF IInv

\* What Race returns, and when its context ends, moves only the call.
LEMMA ReturnStep ==
  ASSUME IInv, NEW r \in Rendezvous,
         Expire(r) \/ ReturnWon(r) \/ ReturnDone(r) \/ ReturnTimedOut(r)
  PROVE  IInv'
<1>1. /\ UNCHANGED <<key, won, closer, byIP, added, stage, owner, spoiled>>
      /\ call' \in [Rendezvous -> {"idle", "publishing", "claiming", "waiting", "racing", "returned"}]
      /\ \A q \in Rendezvous : call'[q] # call[q] => call'[q] = "returned"
      /\ result' \in [Rendezvous -> {"session", "every path failed", "timed out", nil}]
  BY ZenonT(60) DEF Expire, ReturnWon, ReturnDone, ReturnTimedOut, Return, raceVars, tableVars, IInv, Types
<1>2. Types'
  BY Zenon, <1>1 DEF IInv, Types
<1>3. Before'
  BY Zenon, <1>1 DEF IInv, Before
<1>4. PathsOwned'
  <2>1. UNCHANGED <<owner, closer, stage>>
    BY Zenon, <1>1
  <2> QED
    BY <2>1 DEF IInv, PathsOwned
<1>5. UpHasWon' /\ DialledKeyIntact'
  BY Zenon, <1>1 DEF IInv, UpHasWon, DialledKeyIntact
<1>6. ExpectationHolds'
  BY Zenon, <1>1 DEF IInv, ExpectationHolds
<1> QED
  BY Zenon, <1>2, <1>3, <1>4, <1>5, <1>6 DEF IInv

\* Every step of the program keeps the invariant.
LEMMA Inductive == IInv /\ [Next]_vars => IInv'
<1> SUFFICES ASSUME IInv, [Next]_vars
             PROVE  IInv'
  BY Zenon
<1>1. ASSUME NEW r \in Rendezvous, Begin(r) \/ PublishFails(r) \/ Published(r) \/ PairingFails(r)
      PROVE  IInv'
  BY Zenon, <1>1, BeforeRaceStep
<1>2. ASSUME NEW r \in Rendezvous, Race(r)
      PROVE  IInv'
  BY Zenon, <1>2, RaceStep
<1>3. ASSUME NEW r \in Rendezvous, GraceOver(r) \/ GraceCut(r)
      PROVE  IInv'
  BY <1>3, GraceStep
<1>4. ASSUME NEW r \in Rendezvous, Closing(r)
      PROVE  IInv'
  BY <1>4, ClosingStep
<1>5. ASSUME NEW r \in Rendezvous,
             Expire(r) \/ ReturnWon(r) \/ ReturnDone(r) \/ ReturnTimedOut(r)
      PROVE  IInv'
  BY <1>5, ReturnStep
<1>6. ASSUME NEW c \in Conns, Path(c)
      PROVE  IInv'
  BY Zenon, <1>6, PathStep
<1>7. ASSUME NEW c \in Inbound, NEW h \in Hosts, Arrive(c, h)
      PROVE  IInv'
  BY Zenon, <1>7, ArriveStep
<1>8. CASE UNCHANGED vars
  BY ZenonT(60), <1>8 DEF vars, IInv, Types, Before, PathsOwned, UpHasWon, ExpectationHolds, DialledKeyIntact
<1> QED
  BY Zenon, <1>1, <1>2, <1>3, <1>4, <1>5, <1>6, <1>7, <1>8 DEF Next

-----------------------------------------------------------------------------
(* Theorems. *)

\* For any rendezvous that share hosts in any way, the table of expected inbound
\* connections leads to a race exactly for the hosts it added, as long as the
\* race is not withdrawn, and then its key is held.
THEOREM ExpectationsCorrect == Spec => []ExpectationHolds
<1>1. IInv => ExpectationHolds
  BY Zenon DEF IInv
<1> QED
  BY <1>1, Initially, Inductive, PTL DEF Spec

\* For any number of candidates, no path that Race dialled ever confirms the
\* pairing with a wiped key.
THEOREM KeyIntact == Spec => []DialledKeyIntact
<1>1. IInv => DialledKeyIntact
  BY Zenon DEF IInv
<1> QED
  BY <1>1, Initially, Inductive, PTL DEF Spec

\* Race reports that every path failed only when each path that it dialled has
\* failed and no accepted connection has signalled a session.
THEOREM FailureCorrect == Spec => FailureIsTrue
<1> DEFINE A == \A r \in Rendezvous : result'[r] # result[r] /\ result'[r] = "every path failed" =>
                  \A c \in Conns : owner[c] = r =>
                     IF c \in Dialled THEN stage[c] = "failed" ELSE stage[c] # "up"
<1>1. IInv /\ [Next]_vars => [A]_vars
  <2> SUFFICES ASSUME IInv, Next,
                      NEW r \in Rendezvous, result'[r] # result[r], result'[r] = "every path failed",
                      NEW c \in Conns, owner[c] = r
               PROVE  IF c \in Dialled THEN stage[c] = "failed" ELSE stage[c] # "up"
    BY Zenon
  <2>1. ReturnDone(r)
    <3>1. \E q \in Rendezvous : ReturnWon(q) \/ ReturnDone(q) \/ ReturnTimedOut(q)
      BY Zenon DEF Next, Begin, PublishFails, Published, PairingFails, Race, GraceOver, GraceCut, Closing,
             AllEnded, Withdraw, Zeroise, Expire, Path, DialFails, DialSucceeds, AdoptFails, Unpaired,
             Seal, Verify, Established, Arrive, Move, raceVars
    <3>2. PICK q \in Rendezvous : ReturnWon(q) \/ ReturnDone(q) \/ ReturnTimedOut(q)
      BY Zenon, <3>1
    <3>3. q = r
      BY Zenon, <3>2 DEF ReturnWon, ReturnDone, ReturnTimedOut, Return, IInv, Types
    <3> QED
      BY Zenon, <3>2, <3>3 DEF ReturnWon, ReturnTimedOut, Return, IInv, Types
  <2>2. r \notin won /\ closer[r] \in {"lingering", "withdrawn", "gone"}
    BY Zenon, <2>1 DEF ReturnDone, Return, IInv, Types
  <2>3. stage[c] # "up"
    BY Zenon, <2>2, ConnectAssumption DEF IInv, UpHasWon
  <2>4. c \in Dialled => stage[c] \in {"up", "failed"}
    <3> SUFFICES ASSUME c \in Dialled
                 PROVE  stage[c] \in {"up", "failed"}
      BY Zenon
    <3>1. c[1] \in Rendezvous /\ c \in paths[c[1]]
      BY Zenon, PathFacts
    <3>2. c[1] = r
      BY ZenonT(60), <3>1 DEF IInv, PathsOwned
    <3> QED
      BY Zenon, <2>2, <3>1, <3>2 DEF IInv, PathsOwned
  <2> QED
    BY Zenon, <2>3, <2>4
<1> QED
  BY <1>1, Initially, Inductive, PTL DEF Spec, FailureIsTrue
=============================================================================
