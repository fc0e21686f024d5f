-------------------------------- MODULE Relay --------------------------------
(***************************************************************************)
(* The rendezvous and relay server of internal/relay.  Every WebSocket     *)
(* connection has a handler goroutine; handlers share the maps and         *)
(* counters of Server under Server.mu, and each critical section is one    *)
(* step.  A handler serves control messages until it redeems a circuit     *)
(* ticket, and is then one half of a byte pipe.                            *)
(*                                                                         *)
(* Clients are the environment: they send any message at any time, but     *)
(* redeem only tickets that a Paired message carried.  A send by the relay *)
(* may fail at any time.  Time is abstracted to "older than CodeTTL",      *)
(* "waited CircuitIdle" and "the minute of this rate window is over".      *)
(***************************************************************************)
EXTENDS Integers, FiniteSets

CONSTANTS
  Handlers,        \* connections the relay comes to serve
  Codes,           \* rendezvous IDs
  Circuits,        \* circuits that pair may create
  IPs, ip,         \* source addresses, and the one of each connection
  MaxPendingCodes, MaxCircuits, MaxConnsPerIP, PublishesPerIPPerMin,   \* Limits
  nil

ASSUME RelayAssumption ==
  /\ IsFiniteSet(Handlers) /\ IsFiniteSet(Codes) /\ IsFiniteSet(Circuits)
  /\ ip \in [Handlers -> IPs]
  /\ {MaxPendingCodes, MaxCircuits, MaxConnsPerIP, PublishesPerIPPerMin} \subseteq Nat
  /\ nil \notin Handlers \cup Circuits

VARIABLES
  state,      \* where the handler of a connection is
  published,  \* serveConn's list of codes to drop on return
  job,        \* what a handler that pairs or attaches is working on
  pending,    \* Server.pending: the connection that published a code, or nil
  oldCodes,   \* codes in pending that are older than CodeTTL
  tickets,    \* Server.tickets, as pairs <<circuit, side>>
  given,      \* tickets that a Paired message carried to a client
  circuits,   \* Server.circuits
  made,       \* circuits that pair has created
  oldTickets, \* circuits created longer than CodeTTL ago
  half,       \* circuit.conns
  released,   \* circuits whose released (a sync.Once) was used
  done,       \* circuits whose done channel is closed
  ipConns,    \* Server.ipConns
  windows,    \* rateCounter: events in the window of an address, 0 without one
  closed      \* Server.closed

server == <<pending, oldCodes, tickets, given, circuits, made, oldTickets, half, released, done>>
limits == <<ipConns, windows>>
vars == <<state, published, job, pending, oldCodes, tickets, given, circuits, made,
          oldTickets, half, released, done, ipConns, windows, closed>>

Sides == {0, 1}
Idle == [circuit |-> nil, side |-> 0, conn |-> nil, ok |-> TRUE]
States == {"new", "control", "pairing", "toPublisher", "toClaimer", "attaching",
           "waiting", "splicing", "leaving", "gone"}

Init ==
  /\ state = [h \in Handlers |-> "new"]
  /\ published = [h \in Handlers |-> {}]
  /\ job = [h \in Handlers |-> Idle]
  /\ pending = [c \in Codes |-> nil]
  /\ oldCodes = {}
  /\ tickets = {}
  /\ given = {}
  /\ circuits = 0
  /\ made = {}
  /\ oldTickets = {}
  /\ half = [k \in Circuits |-> [s \in Sides |-> nil]]
  /\ released = {}
  /\ done = {}
  /\ ipConns = [a \in IPs |-> 0]
  /\ windows = [a \in IPs |-> 0]
  /\ closed = FALSE

Goes(h, s) == state' = [state EXCEPT ![h] = s]
Pending == {c \in Codes : pending[c] # nil}

-----------------------------------------------------------------------------
(* serveHTTP and the control loop of serveConn. *)

\* Mutation: the limit is exceeded by one.
AcceptOneMore(h) ==
  /\ state[h] = "new"
  /\ ipConns[ip[h]] <= MaxConnsPerIP
  /\ ipConns' = [ipConns EXCEPT ![ip[h]] = @ + 1]
  /\ Goes(h, "control") \/ Goes(h, "leaving")
  /\ UNCHANGED <<published, job, server, windows, closed>>

\* acquireIP and the upgrade.  A connection over the limit is answered and
\* never becomes a handler; one that fails the upgrade goes straight on to
\* the deferred releaseIP.
Accept(h) ==
  /\ state[h] = "new"
  /\ ipConns[ip[h]] < MaxConnsPerIP
  /\ ipConns' = [ipConns EXCEPT ![ip[h]] = @ + 1]
  /\ Goes(h, "control") \/ Goes(h, "leaving")
  /\ UNCHANGED <<published, job, server, windows, closed>>

\* Bye, a read error or deadline, a malformed or unexpected message, an unknown
\* or spent ticket, or an answer that could not be sent.
Hangup(h) ==
  /\ state[h] = "control"
  /\ Goes(h, "leaving")
  /\ UNCHANGED <<published, job, server, limits, closed>>

\* rateCounter.allow: a fixed window that the first event opens.
allow(a) == windows[a] = 0 \/ windows[a] < PublishesPerIPPerMin

\* The ceiling that addPending tests, for any code.
HasRoom(c) == Cardinality(Pending) < MaxPendingCodes

\* Mutation: the code is put on the handler's list after the answer was sent.
PublishLateList(h, c) ==
  /\ state[h] = "control"
  /\ allow(ip[h])
  /\ windows' = [windows EXCEPT ![ip[h]] = @ + 1]
  /\ HasRoom(c)
  /\ pending' = [pending EXCEPT ![c] = h]
  /\ oldCodes' = oldCodes \ {c}
  /\ \/ UNCHANGED state /\ published' = [published EXCEPT ![h] = @ \cup {c}]
     \/ Goes(h, "leaving") /\ UNCHANGED published
  /\ UNCHANGED <<job, tickets, given, circuits, made, oldTickets, half, released, done, ipConns, closed>>

\* MsgPublish that is accepted.  The code is on the handler's list before the
\* answer is sent, so a failed send leaves it to the deferred cleanup.
Publish(h, c) ==
  /\ state[h] = "control"
  /\ allow(ip[h])
  /\ windows' = [windows EXCEPT ![ip[h]] = @ + 1]
  /\ HasRoom(c)
  /\ pending' = [pending EXCEPT ![c] = h]
  /\ oldCodes' = oldCodes \ {c}
  /\ published' = [published EXCEPT ![h] = @ \cup {c}]
  /\ UNCHANGED state \/ Goes(h, "leaving")
  /\ UNCHANGED <<job, tickets, given, circuits, made, oldTickets, half, released, done, ipConns, closed>>

\* MsgPublish over a limit: refused, and the connection ends.
PublishRefused(h, c) ==
  /\ state[h] = "control"
  /\ ~(allow(ip[h]) /\ HasRoom(c))
  /\ windows' = IF allow(ip[h]) THEN [windows EXCEPT ![ip[h]] = @ + 1] ELSE windows
  /\ Goes(h, "leaving")
  /\ UNCHANGED <<published, job, server, ipConns, closed>>

\* pair, up to the end of its first critical section.  Its three refusals leave
\* everything as it was, the connection included.
Claim(h, c, k) ==
  /\ state[h] = "control"
  /\ pending[c] \notin {nil, h}
  /\ circuits < MaxCircuits
  /\ k \in Circuits \ made
  /\ pending' = [pending EXCEPT ![c] = nil]
  /\ oldCodes' = oldCodes \ {c}
  /\ circuits' = circuits + 1
  /\ made' = made \cup {k}
  /\ job' = [job EXCEPT ![h] = [Idle EXCEPT !.circuit = k, !.conn = pending[c]]]
  /\ Goes(h, "pairing")
  /\ UNCHANGED <<published, tickets, given, oldTickets, half, released, done, limits, closed>>

\* NewTicket failed: releaseCircuit, without the once of a circuit that does not
\* exist yet.  The claimer is refused and its handler goes on.
TicketFails(h) ==
  /\ state[h] = "pairing"
  /\ circuits' = IF circuits > 0 THEN circuits - 1 ELSE circuits
  /\ released' = released \cup {job[h].circuit}
  /\ job' = [job EXCEPT ![h] = Idle]
  /\ Goes(h, "control")
  /\ UNCHANGED <<published, pending, oldCodes, tickets, given, made, oldTickets, half, done, limits, closed>>

\* The second critical section of pair.
IssueTickets(h) ==
  /\ state[h] = "pairing"
  /\ tickets' = tickets \cup ({job[h].circuit} \X Sides)
  /\ Goes(h, "toPublisher")
  /\ UNCHANGED <<published, job, pending, oldCodes, given, circuits, made, oldTickets, half, released, done,
                 limits, closed>>

\* Paired to the publisher, whose connection may have gone since.
PairedToPublisher(h) ==
  /\ state[h] = "toPublisher"
  /\ \/ /\ state[job[h].conn] # "gone"
        /\ given' = given \cup {<<job[h].circuit, 0>>}
        /\ UNCHANGED job
     \/ job' = [job EXCEPT ![h].ok = FALSE] /\ UNCHANGED given
  /\ Goes(h, "toClaimer")
  /\ UNCHANGED <<published, pending, oldCodes, tickets, circuits, made, oldTickets, half, released, done,
                 limits, closed>>

\* Mutation: without the once.
releaseAlways(k) ==
  /\ circuits' = IF circuits > 0 THEN circuits - 1 ELSE circuits
  /\ released' = released \cup {k}

\* releaseOnce and releaseCircuit.
releaseOnce(k) ==
  /\ circuits' = IF k \notin released /\ circuits > 0 THEN circuits - 1 ELSE circuits
  /\ released' = released \cup {k}

\* Paired to the claimer; when either send failed, dropCircuit.  The publisher
\* may have redeemed its ticket by then.
PairedToClaimer(h) ==
  LET k == job[h].circuit IN
  /\ state[h] = "toClaimer"
  /\ \E sent \in BOOLEAN :
       /\ given' = IF sent THEN given \cup {<<k, 1>>} ELSE given
       /\ IF sent /\ job[h].ok
            THEN UNCHANGED <<tickets, circuits, released>>
            ELSE tickets' = tickets \ ({k} \X Sides) /\ releaseOnce(k)
  /\ job' = [job EXCEPT ![h] = Idle]
  /\ Goes(h, "control")
  /\ UNCHANGED <<published, pending, oldCodes, made, oldTickets, half, done, limits, closed>>

-----------------------------------------------------------------------------
(* attachCircuit and splice. *)

\* Mutation: the ticket is not spent.
RedeemKeeps(h, t) ==
  /\ state[h] = "control"
  /\ t \in tickets \cap given
  /\ job' = [job EXCEPT ![h] = [Idle EXCEPT !.circuit = t[1], !.side = t[2]]]
  /\ Goes(h, "attaching")
  /\ UNCHANGED <<published, pending, oldCodes, tickets, given, circuits, made, oldTickets, half, released, done,
                 limits, closed>>

\* MsgCircuit with a valid ticket, which is spent.
Redeem(h, t) ==
  /\ state[h] = "control"
  /\ t \in tickets \cap given
  /\ tickets' = tickets \ {t}
  /\ job' = [job EXCEPT ![h] = [Idle EXCEPT !.circuit = t[1], !.side = t[2]]]
  /\ Goes(h, "attaching")
  /\ UNCHANGED <<published, pending, oldCodes, given, circuits, made, oldTickets, half, released, done,
                 limits, closed>>

\* CircuitOK could not be sent: attachCircuit returns.
AttachFails(h) ==
  /\ state[h] = "attaching"
  /\ Goes(h, "leaving")
  /\ UNCHANGED <<published, job, server, limits, closed>>

\* The second half to arrive runs the splice, the first waits for it.  Each
\* circuit has two tickets, so started is never found set.
Attach(h) ==
  LET k == job[h].circuit
      side == job[h].side IN
  /\ state[h] = "attaching"
  /\ half' = [half EXCEPT ![k][side] = h]
  /\ Goes(h, IF half[k][1 - side] # nil THEN "splicing" ELSE "waiting")
  /\ UNCHANGED <<published, job, pending, oldCodes, tickets, given, circuits, made, oldTickets, released,
                 done, limits, closed>>

\* splice returns: a pump stopped, the lifetime is over or the relay closes.
\* Both connections are closed and the first half's handler is let go.
SpliceEnds(h) ==
  /\ state[h] = "splicing"
  /\ releaseOnce(job[h].circuit)
  /\ done' = done \cup {job[h].circuit}
  /\ Goes(h, "leaving")
  /\ UNCHANGED <<published, job, pending, oldCodes, tickets, given, made, oldTickets, half, limits, closed>>

WaitDone(h) ==
  /\ state[h] = "waiting"
  /\ job[h].circuit \in done
  /\ Goes(h, "leaving")
  /\ UNCHANGED <<published, job, server, limits, closed>>

\* Mutation: the half that gives up forgets the slot.
WaitTimesOutKeepsSlot(h) ==
  /\ state[h] = "waiting"
  /\ Goes(h, "leaving")
  /\ UNCHANGED <<published, job, server, limits, closed>>

\* CircuitIdle after it attached.  The timer runs on while a splice runs.
WaitTimesOut(h) ==
  /\ state[h] = "waiting"
  /\ releaseOnce(job[h].circuit)
  /\ Goes(h, "leaving")
  /\ UNCHANGED <<published, job, pending, oldCodes, tickets, given, made, oldTickets, half, done, limits, closed>>

WaitCancelled(h) ==
  /\ state[h] = "waiting"
  /\ closed
  /\ Goes(h, "leaving")
  /\ UNCHANGED <<published, job, server, limits, closed>>

-----------------------------------------------------------------------------
(* What is deferred until a handler returns. *)

\* Mutation: the code is dropped whoever published it last.
dropPendingAnyone(h, c) ==
  /\ state[h] = "leaving"
  /\ c \in published[h]
  /\ published' = [published EXCEPT ![h] = @ \ {c}]
  /\ pending' = [pending EXCEPT ![c] = nil]
  /\ oldCodes' = oldCodes \ {c}
  /\ UNCHANGED <<state, job, tickets, given, circuits, made, oldTickets, half, released, done, limits, closed>>

dropPending(h, c) ==
  /\ state[h] = "leaving"
  /\ c \in published[h]
  /\ published' = [published EXCEPT ![h] = @ \ {c}]
  /\ IF pending[c] = h
     THEN pending' = [pending EXCEPT ![c] = nil] /\ oldCodes' = oldCodes \ {c}
     ELSE UNCHANGED <<pending, oldCodes>>
  /\ UNCHANGED <<state, job, tickets, given, circuits, made, oldTickets, half, released, done, limits, closed>>

releaseIP(h) ==
  /\ state[h] = "leaving"
  /\ published[h] = {}
  /\ ipConns' = [ipConns EXCEPT ![ip[h]] = IF @ <= 1 THEN 0 ELSE @ - 1]
  /\ job' = [job EXCEPT ![h] = Idle]
  /\ Goes(h, "gone")
  /\ UNCHANGED <<published, server, windows, closed>>

-----------------------------------------------------------------------------
(* Time, the reaper and Close. *)

CodeAges(c) ==
  /\ c \in Pending \ oldCodes
  /\ oldCodes' = oldCodes \cup {c}
  /\ UNCHANGED <<state, published, job, pending, tickets, given, circuits, made, oldTickets, half, released,
                 done, limits, closed>>

CircuitAges(k) ==
  /\ \E s \in Sides : <<k, s>> \in tickets
  /\ k \notin oldTickets
  /\ oldTickets' = oldTickets \cup {k}
  /\ UNCHANGED <<state, published, job, pending, oldCodes, tickets, given, circuits, made, half, released,
                 done, limits, closed>>

MinutePasses(a) ==
  /\ windows[a] > 0
  /\ windows' = [windows EXCEPT ![a] = 0]
  /\ UNCHANGED <<state, published, job, server, ipConns, closed>>

\* One sweep: expired codes and the tickets of expired circuits.
reap ==
  /\ ~closed
  /\ pending' = [c \in Codes |-> IF c \in oldCodes THEN nil ELSE pending[c]]
  /\ oldCodes' = {}
  /\ tickets' = {t \in tickets : t[1] \notin oldTickets}
  /\ UNCHANGED <<state, published, job, given, circuits, made, oldTickets, half, released, done, limits, closed>>

Close ==
  /\ ~closed
  /\ closed' = TRUE
  /\ UNCHANGED <<state, published, job, server, limits>>

-----------------------------------------------------------------------------
serveConn(h) ==
  \/ Hangup(h)
  \/ \E c \in Codes : Publish(h, c) \/ PublishRefused(h, c)
  \/ \E c \in Codes, k \in Circuits : Claim(h, c, k)
  \/ \E t \in tickets : Redeem(h, t)

pair(h) == TicketFails(h) \/ IssueTickets(h) \/ PairedToPublisher(h) \/ PairedToClaimer(h)

attachCircuit(h) ==
  AttachFails(h) \/ Attach(h) \/ SpliceEnds(h) \/ WaitDone(h) \/ WaitTimesOut(h) \/ WaitCancelled(h)

deferred(h) == releaseIP(h) \/ \E c \in Codes : dropPending(h, c)

Next ==
  \/ \E h \in Handlers : Accept(h) \/ serveConn(h) \/ pair(h) \/ attachCircuit(h) \/ deferred(h)
  \/ \E c \in Codes : CodeAges(c)
  \/ \E k \in Circuits : CircuitAges(k)
  \/ \E a \in IPs : MinutePasses(a)
  \/ reap
  \/ Close

Spec == Init /\ [][Next]_vars

-----------------------------------------------------------------------------
\* Server.circuits counts exactly the circuits that pair made and that have not
\* given their slot back: no path releases a slot twice, however timeouts, failed
\* sends and splices of the two halves interleave, and the ceiling holds.
SlotsAccounted ==
  /\ circuits = Cardinality(made \ released)
  /\ circuits <= MaxCircuits

\* A code in pending belongs to a connection whose handler will still drop it: no
\* claim can be paired with a connection whose handler has finished, whatever
\* the order of re-publishing, cleaning up, claiming and reaping.
PendingHasOwner ==
  \A c \in Codes : pending[c] # nil =>
    c \in published[pending[c]] /\ state[pending[c]] # "gone"

\* ipConns counts the handlers of each address, within the limit.
ConnsAccounted ==
  \A a \in IPs :
    /\ ipConns[a] = Cardinality({h \in Handlers : ip[h] = a /\ state[h] \notin {"new", "gone"}})
    /\ ipConns[a] <= MaxConnsPerIP

\* The two halves of a circuit are two connections, a side is taken by one only,
\* and a circuit is spliced at most once: "A ticket is single-use".
OneConnPerSide ==
  \A g, h \in Handlers :
    (g # h /\ {state[g], state[h]} \subseteq {"attaching", "waiting", "splicing"}
           /\ job[g].circuit = job[h].circuit) =>
      job[g].side # job[h].side /\ {state[g], state[h]} # {"splicing"}

\* Re-publishing survives the old connection: a code leaves pending only by a
\* claim, by the reaper, or by the cleanup of the connection that owns it.
OnlyOwnerDrops ==
  [][\A c \in Codes : (pending[c] # nil /\ pending'[c] = nil) =>
       \/ state[pending[c]] = "leaving"
       \/ c \in oldCodes
       \/ \E h \in Handlers : h # pending[c] /\ state[h] = "control" /\ state'[h] = "pairing"]_vars

\* A circuit that is over: its tickets were issued, none is left, and no handler
\* is working on it.
Over(k) ==
  /\ k \in made
  /\ ~\E s \in Sides : <<k, s>> \in tickets
  /\ ~\E h \in Handlers : job[h].circuit = k

\* "releaseOnce returns a circuit's slot exactly once, however it ended": so it
\* is for every circuit that a half has attached to, whichever half came first,
\* timed out, or found the other gone, until the relay itself is closed.  The
\* slot of a circuit that nobody attached to is not given back.
AttachedIsReleased ==
  \A k \in Circuits :
    (Over(k) /\ ~closed /\ \E s \in Sides : half[k][s] # nil) => k \in released
==============================================================================
