# A TLA+ verification of HMDL (heimdall)

HMDL is a terminal messenger. Two nodes find each other through an invite code and a
rendezvous relay, race several network paths, run an authenticated handshake on each, keep one
connection and exchange encrypted frames over it. This directory holds TLA+ models of the parts
that share state between goroutines, connections or restarts, the TLC configurations that check
them, and TLAPS proofs of the results that hold for every size. Paths below are relative to
`src/`.

## The system and its parts

| Part | Source | Modules | Modelled |
|---|---|---|---|
| Replay window | `internal/proto/replay.go` | `ReplayWindow`, `ReplaySet`, `AdmissionProofs` | yes, and proved |
| Secure session, epochs, send queue | `internal/proto/session.go`, `manager.go` (`Send`, `enqueue`) | `Session`, `SessionProofs` | yes, and proved |
| Handshake, pairing confirmation | `internal/proto/handshake.go`, `pairing.go`, `manager.go` (`runHandshake`, `confirmPairing`) | `Handshake`, `TwoNodes`, `TwoNodesProofs` | both ends, symbolic keys; safety proved |
| Session manager | `internal/session/manager.go` | `SessionManager` (one node), `TwoNodes` (two), `ConnectionProofs` | all but the events for the user; safety proved |
| Keepalive and read deadlines | `manager.go` (`keepaliveLoop`), `internal/transport/transport.go` | `Link`, `LinkProofs` | in discrete time; proved |
| Trust store | `internal/peers/peers.go` | `TrustStore`, `AdmissionProofs` | yes, and proved |
| Relay server and limits | `internal/relay/*.go` | `Relay`, `RelayProofs` | control and slots, no bytes; proved |
| Rendezvous client | `internal/rendezvous/client.go` | `RendezvousClient`, `RendezvousClientProofs` | control connection and calls; safety proved |
| WebSocket connection | `internal/rendezvous/ws.go` | `WSConn`, `ConnectionProofs` | frames, masks, deadlines, Close; the stream proved |
| Dialer ladder, proxy | `internal/rendezvous/dialer.go`, `proxy.go` | `Dialer` | as functions of the network |
| Candidates | `internal/rendezvous/candidates.go` | `Candidates` | `ValidateCandidates` |
| Path race, expectations | `internal/connect/*.go` | `Connect`, `ConnectProofs` | yes; safety proved |
| Hole punching | `internal/transport/punch.go` | `Punch`, `AdmissionProofs` | yes, and proved |
| Codes, messages, encodings | `internal/rendezvous/code.go`, `messages.go`, `internal/proto/frame.go`, `chatframe.go` | - | fields only |
| Identity, crypto | `internal/identity`, `internal/crypto` | - | symbolic keys |
| Commands | `main.go`, `cmd/hmdl-relay/main.go` | - | user actions of the modules |

How they interact: `connect.Race` obtains a `Pairing` from the rendezvous client (which talks to
the relay over a `WSConn` that the dialer ladder found), dials directly, punches and opens a relay
circuit, and hands every connection to `Manager.Adopt`. `runHandshake` authenticates the peer,
confirms the pairing key, records the peer with `Store.Observe`, resolves duplicates in `register`
and starts the loops, which seal and open frames with `Session`, whose `Open` asks the replay
window.

Three modules compose components. `TwoNodes` extends `Handshake`: two nodes, both ends of every
connection, from the first message to the registry. `Session` instantiates `ReplaySet`, which
`ReplayWindow` implements. `Connect` extends `Candidates`, whose result is the paths it races.

## Modules

One module per component. `MC*.tla` instantiates a component for TLC, `*Proofs.tla` holds the
theorems, of one component or of several that decide the same thing: `AdmissionProofs` what is let
in (the replay window, the trust store, the punches), `ConnectionProofs` what is kept of a
connection and read from it (the registry, the WebSocket). The definitions of components that share
a proof module carry a prefix (`TrustInit`, `PunchSpec`, `WSTypeOK`). A critical section of the
component's mutex is one action, and code that unlocks between two sections is two actions, so that
other goroutines come in between. Definitions whose comment begins with "Mutation" are deliberate
errors: replacing the definition that follows by one of them must make a property fail. Variables
marked "history" in their declaration only record what happened, for the properties.

**ReplayWindow** has `highest`, `started` and `bitmap` (a function from word to bit to Boolean)
and one action, `check`, with a case per branch of the switch. `Slide` is the word loop with its
two shifts. `ReplaySet` is what the window promises: the set of accepted numbers and the rule
that a number is accepted iff it is new and not older than the window. `ImplementsReplaySet`
instantiates it with the history variable `accepted`.

**Session** has both ends of a channel. A key is the pair of direction and epoch that HKDF
derives it from. `Seal` (which may rotate) and the offer to `conn.send` (`Enqueue`, `QueueFull`,
`ConnClosed`) are separate steps of a goroutine, as in `Manager.enqueue`; `Open` reads the next
frame of the stream, rolls the epoch as `chainForEpochLocked` does, then checks the tag and the
window, which is `ReplaySet`. The queue and the stream are one sequence `pipe`; because part of
it may already be on the wire, a queue of length `QueueCap` may be full or have room. `Replay`
and `Damage` are the path. The history `turns` counts the epochs an end has installed, and a frame
remembers the count of its sealing, so that "two epochs ahead" does not depend on the modulus.

**SessionManager** is one node's `conns`, `byName`, `mu` and, for each connection, where its
handshake (`phase`), `once`, the keepalive count and the announcement timer are. `once` has
the stages of `dropConn`: closed, unregistered, done. `RegisterWaits` is `register` blocked in
`old.close()` with the mutex held. The events for the user are not part of the state: `emit` never
blocks and nothing reads them back.

**TrustStore** has the records in memory, the file, and the level each connection kept from its
handshake. Every operation saves, and the save may fail after memory changed. `Restart` may come
at any point. A lookup by name ranges over a Go map, so any record with that name may be found.

**Relay** has the maps and counters of `Server` and the state of each handler goroutine. `pair` and
`attachCircuit` are split at every unlock and every send, since a send may block or fail.
Time is the three facts the code asks of it: a code or circuit is older than `CodeTTL`, a half
has waited `CircuitIdle`, the minute of a rate window is over.

**RendezvousClient** has `supervise`, the runs of `resendWaiters` (list, send, mark: three critical
sections), the calls `Publish` and `Claim` with `Invite.Wait` and `Invite.Cancel`, `dispatch` and
`Close`. A send may fail on a connection that is still read, and ends its run. `Cancel` takes the
code out of `waiters` while `Wait` goes on. Connections are numbered. The relay answers only what
was written to the connection being read.

**Punch** has the accept loop, `route` split at its unlock, the calls of `Punch` with their two
channels, and `dialLoop`. A connection in a channel of a punch that will not read it again is not
held by anybody: it is `Stranded`.

**Candidates** is `ValidateCandidates` as a fold over the offered list, with hosts known by their
class. `SafeAndComplete` is what its caller relies on; TLC evaluates it over every list of up to
four candidates as an assumption of `MCConnect`.

**Connect** has a rendezvous per call of `Invite` or `Join`: where the call is, its pairing key,
its context, and the goroutine that waits for the paths, lingers, withdraws the expectation and
then wipes the key. Connections are the dialled paths (one per candidate, the punch, the relay
circuit after its grace) and those the listener accepted. `Adopt` is cut where it reads the shared
key slice (`Seal`, `Verify`); a connection that reads a wiped key is `spoiled`. The `register` that
follows may block for ever (the run MCManagerAdopt), with the manager's mutex held: no other
connection is registered after that, and no accepted one is looked up.

**Handshake** has, for each end, its place in `runHandshake`, the transcript, the authenticated
peer and what is on the wire to it. Identities, roles and pairing keys come from a setup that need
not match between the ends. A shared secret is the set of the two ephemeral keys; what is sealed
opens under the same secret, transcript and purpose. `ConfirmReceived` and `Skipped` are the loop
of `confirmPairing`, which passes over other frames. Both ends of every connection run this code;
there is no third party on the wire.

**TwoNodes** adds `register`, the announcement (lookup and mark), ticks, pings and pongs, and
`dropConn` (closing, then `unregister` under the mutex) at both nodes. `RegisterWaits` is a
`register` that closes a connection which is just being dropped: its node is then `Deadlocked`, and
nothing that needs the mutex happens there any more. The other end sees that an end closed at any
time after it, possibly before it has read what had been sent.

**Link** has the read deadline and the keepalive of both ends in discrete time, with frames that
age. `Pass` lets time pass only as far as the next timer or the delay of the path allows; `GoDark`
silences a direction without telling anybody. A ping or a pong may find the send queue full; the
ping's `keepaliveLoop` then drops the connection, the pong's `readLoop` does not notice. The history
`crowded` records both.

**WSConn** has the goroutines that write on one connection: the frame lock, the write deadline that
is set outside of it, `closeOnce`, and the reading side at the far end with its mask position. A
data byte is its position and the index of the mask byte it was combined with. Frame lengths are
the operators `lengthCode` and `decodedLength`, checked at every boundary of the encoding.

**Dialer** computes when `Dial` returns, on which rung and whether the certificate was verified,
from what the network does on each rung. `LadderSound` states what a caller may rely on; TLC
evaluates it over the networks of `MCRendezvousClient`, in the run MCClient.

## What the runs check

Passing runs:

| Run | Shows |
|---|---|
| MCReplayWindow | the bitmap means "accepted", no number is accepted twice, and the window implements the set, over 12 numbers and three 3-bit words: shifts of no word, one word, two words and past the window all occur |
| MCSession | two sealing goroutines against one that rotates three times by itself, and one fault (a frame lost to a full queue, repeated, or with a damaged epoch): an admitted frame opens under the key that sealed it, is delivered at most once, and a frame that is still within the replay window is accepted, overtaken by later ones or not, unless the receiver lacks `rotationInterval` of the frames before it, is two epochs ahead of it, or the path has repeated or damaged one |
| MCManager | two connections of one peer in all interleavings of registration, drop, keepalive, Disconnect and Shutdown: registry, names and open connections agree; a black-holed connection is dropped; Shutdown ends when nothing is left open |
| MCTwoNodes | two connections between two nodes, in seven setups of matching and mismatched roles, keys and identities, with paths that break: ends that finish agree; no connection stays in use at one end only, unless that node is deadlocked; and, if nothing fails, is announced or is probed during the race, both nodes settle on the smallest session ID or one of them deadlocks |
| MCLink | with the ratios of the code's constants (a tick is 2.5 s), a working path is never dropped unless a ping or a pong found the send queue full; one that goes dark ends at both ends within two read deadlines and a delay |
| MCTrustStore | verification only by Verify, durability, TrustOf against Observe, who replaces a key |
| MCRelay | slots, code ownership, circuit sides and per-address counts with three connections of an address that may have two, two circuits and one slot |
| MCPunch | two punches of one address and one of another: every connection has one holder or was left in a channel of a punch that was done, and is lost nowhere else; a punch returns only its peer's; what `route` finds is a punch of that address that has not returned, and a waiting punch is without its entry only when another of its address has returned |
| MCClient | a publish and a claim of one code: what waits was asked for on the current connection, or a send on it has failed; a code leads to its call while that is under way, and no longer; supervise stops after Close or is left with a connection that was installed after it; and the ladder is sound |
| MCConnect | two rendezvous whose peers share a host, and one accepted connection: a dialled path never reads a wiped key, expectations do not disturb each other, a reported failure is one, and expectation and key are released in the end, unless the `register` of one of the paths blocks; and candidate lists are filtered as stated |
| MCWSConn | sends, pings, pongs, the echo of a close and Close over a path that fills, stalls and tears frames: the data stream comes back byte for byte, and calls whose deadlines do not overlap return |

One run ends in a violation: it checks a sentence of the repository that the code does not keep
(`findings` in `PROJECT.json` quotes it), and its counterexample is the finding.

| Run | The code against the sentence |
|---|---|
| MCManagerAdopt | **deadlock**: `register` holds `mu` and waits in `old.close()` for a `dropConn` that waits for `mu`. Nothing needs to fail for it: in MCTwoNodes two paths of one race settling at both nodes can reach it |

### Other differences between comments and code

Met while modelling, and kept in the models as the code has them; no run is devoted to them.

- `internal/proto/session.go:102-104` says rotation "stays in sync without any extra messages";
  `rotationInterval` frames in a row lost to a full send queue leave the receiver two epochs
  behind, which `chainForEpochLocked` refuses. For the same reason a receiver that rotated twice
  by its own sending, or by following frames that overtook it, refuses a frame still in flight.
  `NextFrameAccepted` excludes these cases.
- `internal/proto/session.go:188-189` says nothing in a frame is trusted before the tag verifies;
  the epoch in its header is followed first (265), so a damaged header can move the receiver to the
  next epoch. `AdmittedMeansSameKey` holds all the same; `NextFrameAccepted` has the condition that
  no frame was damaged.
- `internal/proto/replay.go:8` and `session.go:41-42` speak of numbers increasing per direction
  and of serialised access; `manager.go:609` seals and enqueues without a lock across both.
- `internal/session/manager.go:408-411`: a connection is announced "only if it is still the
  one in use"; the lookup is over when it is marked (421).
- `manager.go:118-120`: an announced connection is never swapped; with one ping in flight it is (476).
- `manager.go:738`: Shutdown closes all connections; one whose handshake ends after the
  snapshot stays open. `ShutdownEnds` therefore has the condition that nothing is left open.
- `manager.go:728`: `TrustOf` returns the current level; it returns that of the handshake.
- `internal/relay/server.go:241-242`: re-publishing replaces the old entry; with the table full it
  is refused (238).
- `internal/peers/peers_test.go:143-144`: a second key under a name is a change; a known key that
  takes another record's name is not reported as one (`peers.go:154`).
- `internal/peers/peers.go:191-194`: Verify follows a comparison; it adopts whatever key is
  pending when it runs.
- `internal/transport/punch.go:173`: the drain comes before the end of the dial loop and of the
  registration and takes one connection, "rather than leaking it"; a connection that lands later, or a
  second one, stays in the channel, open. `OneHolder` shows that this is the only way to lose one.
  `punch.go:40-43`: the waiting punch can claim a connection; another punch of the same address removes
  its entry (134), as `RouteFindsLive` allows.
- `internal/rendezvous/client.go:130`: Close closes the connection; one whose dial is under way
  is installed afterwards (167-170) and read without a deadline (212-219) until the relay ends it,
  which is the alternative in `SuperviseStops`.
- `internal/relay/server.go:432`: "releaseOnce returns a circuit's slot exactly once, however it
  ended"; a circuit that nobody attaches to is reaped without its slot (495), and so is one whose
  ticket was redeemed when the answer could not be sent (345-347). `AttachedIsReleased` covers the
  circuits that somebody attached to.
- `internal/relay/limits.go:18`: "CircuitIdle closes a circuit that has carried nothing for this
  long"; the first half's timer (`server.go:369`) runs from the moment it attached, also while the
  circuit carries data. In the model `WaitTimesOut` is possible during a splice.
- `internal/rendezvous/client.go:184-185` says requests are sent again after a drop; one that is
  marked as sent (298) just after the drop's reset is not, and after a send that fails while the
  connection is still read (295-297) what is unsent waits for the next call or the next connection.
  `OutstandingIsAsked` shows that a request goes unasked in these two cases only.
- `client.go:440-441`: Cancel deletes the entry while `Wait` goes on and deletes by code again when it
  returns (429), by then perhaps the waiter of a later call: `CodesLeadToCalls` excludes codes with a
  cancelled Invite. It withdraws the invite at the client only; the relay keeps the code until
  the connection ends or `CodeTTL` passes.
- `internal/session/manager.go:502-503` says keeping the smaller ID "converges on both sides with no
  negotiation, for any number of competing paths"; when a connection is announced, or a ping of it is
  outstanding, during the race, the two ends may decide differently and both connections be
  lost. `SettlesOnSmallest` has the condition `Calm`. Even then the choice of the other node may close
  a connection here just as `register` replaces it, and the node deadlocks (485, 626); the property
  names that outcome.
- `manager.go:566-568`, `transport.go:97-98`, `docs/rendezvous.md:97-98`: a black-holed connection is
  dropped after `keepaliveMisses` probes; the read deadline of 30 s ends it before (`DarkEnds`).
- `manager.go:584-587`: liveness is measured by unanswered pings "rather than by I/O failure" (566-567);
  a ping that finds the send queue full ends a connection whose path works. `HealthyStays` has the
  condition that no queue refused one.
- `transport.go:28`: `HandshakeTimeout` "bounds the full handshake exchange"; every `Recv` and `Send`
  sets its own deadline of 30 s.
- `internal/connect/connect.go:161`: "Paths are not cancelled the moment one wins"; `Race`'s deferred
  `cancel` (170) does so when it returns. `connect.go:255-256`: the won channel is checked on every
  exit; the exit on `ctx.Done` (281-282) does not. `connect.go:154`: the key is wiped "once nothing
  can still need it"; an accepted connection may still be confirming, so `DialledKeyIntact` speaks of
  dialled paths.
- `connect.go`: `Invite` returns on an error of `SealCandidates` or `Publish`, and `Race` without a
  manager, with the key not wiped.
- `internal/connect/expect.go`: of two rendezvous that share a host the first keeps the entry, and
  the second has none after the first withdraws.
- `internal/rendezvous/ws.go:46-48`: the write timeout bounds a send; the deadline belongs to the
  connection, so overlapping `SendMessage` and `Close` calls clear it for each other and one can
  block on a stalled path (the condition of `CallsReturn`). Without TLS, a frame cut short by a
  deadline makes the reader take what follows for its payload (the exception of `StreamIntact`).
- `internal/rendezvous/dialer.go:58`: "RungTimeout bounds one rung"; the upgrade has a timeout of its
  own, so a rung may take twice as long, and two slow TLS rungs leave little or no time for the last one
  within the context of `client.go:153`.
- `internal/proto/pairing.go:13-24` and `docs/rendezvous.md` §4 take the peer's confirmation as proof
  that it has the pairing key. The value is the same in both directions, and each end sends its own
  before it checks the other's (`manager.go:437-465`), so receiving it does not by itself show that
  the other end computed it. In the models both ends run this code, where the question does not arise;
  no property here says what a confirmation proves of an end that does not.
- `main.go`: `done` is closed by the signal goroutine and again after the REPL returns. Not modelled.

## Bounds

Bounds are constants named in the modules. Two connections of a peer are what duplicate resolution
is about; a third only repeats the choice, and peers that share a name are covered by the proof.
`keepaliveMisses` of 1 keeps the difference between "one outstanding" and "too many" in MCManager
(MCLink has the code's 3). `rotationInterval` of 2 makes rotations of both ends overlap frames in
flight; a window of 3 is smaller than the number of frames, so frames do fall out of it. There are 6
epochs, more than an instance installs, so that TLC does not cross the wrap; the proof of
`AdmittedMeansSameKey` does, for every modulus of at least 3. Three handlers are a publisher, a
claimer and a third that re-publishes or brings a second half; two circuits with one slot make the
ceiling bind and a double release visible. Two control connections are what one drop needs. Two keys
and two names give renames, shared names and changed keys. In MCConnect one rendezvous is an Invite
and one a Join, each with the relay path, one with a direct path too, and one accepted connection
from the shared host; a punch behaves as a direct path does, and is in the proofs. In MCWSConn data
frames are two bytes under a mask of two and are read one byte at a time, so a frame is read in
several calls; the path holds one frame before a write blocks. In MCLink one chat message per
direction may be in flight; a delay is at most one unit and the ends register up to two apart, as
the initiator is done a delay before its peer. In MCTwoNodes both paths may break, and Alice's ends
send pings (`Breakable`, `Probing`); the instance in which all four ends do has four times the
states and was checked once with the same result.

Deadlock checking is off wherever the modelled actors may really be finished (every connection
gone, all calls answered, bounds used up) and on for TrustStore and ReplayWindow, which never stop.
Symmetry is used only where constants are interchangeable and no liveness is checked.

## Fairness

Only what the code schedules by itself is fair: goroutines that can run do run, tickers fire, and
reads, dials and waits are bounded by deadlines. It is weak fairness of the work of a race
(`Connect`), of an end (`TwoNodes`), of each goroutine (`SessionManager`), of supervise and its own
resending (`RendezvousClient`) and of a deadline that is armed (`Expire` in `WSConn`). A goroutine
of `WSConn` is strongly fair, because it waits for a `sync.Mutex`, which does not starve a waiter
while others take it in turn. Peers, users, the path and the relay owe nothing; in particular nobody
ends a control connection that the client no longer closes. A `register` that is blocked stays
blocked.

## Proofs

`tlapm` checks these for every value of the constants, from the named assumption of each module.

- **AdmissionProofs**, replay window (`SizeAssumption`): `BitmapCorrect`, `WindowImplementsSet`,
  `AcceptedAtMostOnce`. The inductive invariant adds that `highest` is the greatest accepted
  number; without it nothing relates the numbers that have left the window to those in it. The
  core is `SlideSpec`: after a slide by s, age a is seen iff age a - s was. It rests on
  lemmas on division (`DivMod`, `DivUnique`, `Position`) because a bit is addressed by quotient
  and remainder.
- **AdmissionProofs**, trust store (`StoreAssumption`): `OnlyTheUserVerifies`, `Durable`,
  `ReplacedByVerify`, `TrustLevelsAgree`. `VerifiedByUser` is inductive with the types because it
  speaks of memory, file and connections together; `TrustOfAgrees` compares the
  answer of `Observe` with the store that the same step leaves, so it needs only the types, and has
  one case per branch of `Observe`.
- **AdmissionProofs**, punches (`PunchAssumption`): `PunchTypeCorrect`, `HeldOnceOrLeftBehind`,
  `PunchedTheRightPeer`, `RouteFindsARunningPunch`. A connection is in the accept loop, in `route`'s
  hands, in a channel (read or left behind), with a dial loop, a result, or closed, and every step
  moves at most one connection from its place to another (`MovesByPlace`, `OneMoves`) or moves none
  (`StaysByPlace`). The strengthening says that a punch's dial loop, offer and result come once
  (`Once`), and that the address is right wherever a connection waits, not only in a result
  (`FromTarget`).
- **SessionProofs** (`SessionAssumption`): `AdmittedKeyIsTheSame`, `DeliveredOnce`,
  `NextFrameIsAccepted`. The first property speaks of frames underway, the invariant of the chains
  too: an open end has the chains of its epoch and, if any, of the one before; and an intact frame,
  copies kept by the path included, carries the epoch of its key. That the previous chain belongs to
  the frame's epoch is the injectivity of the successor modulo `EpochMod`. For the third, `Sync`
  counts: the number of frames an end has sealed fixes how often it rotated by itself (`Turns`), an
  end is ahead of its peer only by rotations of its own, and what it sealed in an epoch begins where
  that count says (`Start`). `Onward` adds that no number is under way twice, or under way and
  already seen (`Once`): a frame that was overtaken is still new to the window. The theorem assumes
  `FewFrames`: both ends together seal at most half of `EpochMod` times `rotationInterval` frames,
  which is 1000 * 2^31 with the code's constants. Up to there epochs compare as numbers and an old
  epoch is not taken for a new one; past it, a goroutine may hold a frame while the epoch goes all
  the way around.
- **ConnectionProofs**, session manager (`ManagerAssumption`): `RegistryCorrect`, `NamesCorrect`. The
  strengthening `Reachable` says that only kept connections are ever closed through `once` or
  reachable from a map, Disconnect or Shutdown, and that loops end after `once` is done.
- **ConnectionProofs**, WebSocket (`WSAssumption`): `ReadReturnsTheStream`. The invariant follows the
  data bytes that were written and not yet read: those left in the frame under the reader carry the
  mask index at which it stands (`Left`), those on the wire follow them in order, each frame masked
  from its beginning (`Laid`), and no frame is torn under TLS. `LaidAppend`,
  `LaidTail` and `LaidTorn` are what writing, reading and tearing a frame do to that order.
- **RelayProofs** (`RelayAssumption`): `SlotsCorrect`, `PendingOwned`, `ConnsCorrect`,
  `TicketsSingleUse`, `AttachedReleased`, `DropsByOwner`. A counter is the cardinality of a set, so
  each step is an element added, removed or neither. What makes the rest inductive is who
  knows a circuit: until its tickets are issued only the handler that pairs (`PairingIsPrivate`), a
  half has spent its ticket and holds its place (`HalvesSpent`), an unspent ticket leads to a free
  place (`TicketsFree`), and until the slot is returned whoever attached is still there
  (`AttachedStays`).
- **RendezvousClientProofs** (`ClientAssumption`): `ClientTypeCorrect`, `AskedOnThisConnection`,
  `CodesAreOfCallsUnderWay`. A request is either asked for on the connection in use or some run of
  `resendWaiters` still has it to do, or a write failed on that connection (`Covered`); a run
  belongs to a connection that was dialled, and what it marks after that connection was replaced
  counts as late (`Supervised`, `ConnState`).
- **LinkProofs** (`LinkAssumption`): `HealthyConnectionStays`, `DarkPathEnds`. The first invariant
  follows the ping, while no queue was full: the time an end has heard nothing and the peer's ticker
  add up to at most an interval and the skew, or the ping of that tick is on its way with just that
  age; likewise the one open ping or its pong. The second follows the silence: the end that hears
  nothing has been idle for as long as the path is dark, and once it has given up, its close is on
  the way to the other end or that one hears nothing either (`Fading`); each open ping after the
  first took an interval of the dark (`Counted`). The assumptions are the slack of the constants: an
  interval, a delay and the skew fit into the read deadline, a round trip fits into an interval, and
  the read deadline is over before `keepaliveMisses - 1` intervals are.
- **ConnectProofs** (`ConnectAssumption`, `InboundAssumption`, `CandidatesAssumption`):
  `ExpectationsCorrect`, `KeyIntact`, `FailureCorrect`. The strengthening says that a dialled path
  has ended before the goroutine that waits for it goes on (`PathsOwned`), that a key is held from
  the beginning of a call to its race (`Before`), and that whoever is up has signalled it (`UpHasWon`).
- **TwoNodesProofs** (`HandshakeAssumption`, `ProbingAssumption`): `HandshakeAgrees`, for ends that
  run this code. The invariant says what can be on the wire to an end (only what its other end can
  have sent from its own role, identity and key: `WireLegal`) and what an end knows at each step
  (`Roles`).

Only model-checked: the liveness properties, since fairness is beyond the prover
(`BlackHoledIsDropped`, `ShutdownEnds`, `HalfOpenEnds`, `SettlesOnSmallest`, `RaceReleases`,
`SuperviseStops`, `CallsReturn`). Everything else that a passing run
checks has a theorem. The assumptions `CandidatesSafe`, `LaddersSound` and `LengthsComeBack` are
evaluated by TLC over their bounded inputs: the first is about a fold over a list, which takes an
induction over data.

## Not modelled

- Bytes, encodings, cryptographic strength, wording and logging. `internal/proto/frame.go` and
  `chatframe.go`, `code.go` and `messages.go` convert single values without shared state. `identity.go`
  reads and writes key files once, at start; `crypto.go` wraps library primitives.
- Sequence numbers are unbounded naturals: 2^64 frames are out of reach of a session.
- Timestamps and addresses in trust records. The events for the user: `emit` never blocks and nothing
  reads them back.
- The data of a splice and its idle timeout, which are one step, `SpliceEnds`; the rate counter's
  clock, which is `MinutePasses`. The liveness of the relay's handlers: every wait has a timer,
  but a fair run with two circuits is beyond the bounds that are practical here.
- `OpenCircuit` and the `ready` channel of the client; the text of the HTTP upgrade, `ParseEndpoint`
  and the certificate pin. Listeners, length prefixes and socket options of the transport.
- Client and relay composed. Each is modelled with every behaviour of the other; what lies between
  them (a Paired message that is lost, so that the claim sent again finds its code taken and a
  publisher publishes a code that was claimed; two ends given different circuits) needs the product,
  whose states are beyond TLC's reach at a size where it happens.
- The commands: terminal input and output, flags, TLS set-up and signals. What they call is in the
  models (Disconnect, Shutdown, Verify, Reject, Close).
