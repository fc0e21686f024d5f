-------------------------------- MODULE Punch --------------------------------
(***************************************************************************)
(* The hole-punching listener of internal/transport/punch.go: one accept   *)
(* loop that routes inbound connections by source address, the punches     *)
(* that wait for one, and the dial loop of each punch.                     *)
(*                                                                         *)
(* A channel of capacity one is its content or nil.  Which connections     *)
(* come in and which dials succeed is up to the network.                   *)
(***************************************************************************)
EXTENDS Integers

CONSTANTS
  Punches, Addrs, target,   \* calls of Punch, and the address each is after
  Conns, source,            \* connections, and the remote address of each
  HasFallback,              \* whether NewPunchListener was given a fallback
  nil

ASSUME PunchAssumption ==
  /\ target \in [Punches -> Addrs]
  /\ source \in [Conns -> Addrs]
  /\ HasFallback \in BOOLEAN
  /\ {nil, "on", "off", "failed"} \cap Conns = {}
  /\ nil \notin Punches
  /\ nil \notin [conn : Conns, to : Punches \cup {nil}]

VARIABLES
  waiters,    \* PunchListener.waiters: the punch whose channel is registered, or nil
  inbound,    \* the channel that register made for a punch
  dialed,     \* the channel that dialLoop sends to
  pc,         \* where the call of Punch is
  result,     \* the connection that Punch returns, "failed" for ErrPunchFailed, or nil
  dialing,    \* "on" while dialLoop dials, the connection it then holds, else "off"
  routing,    \* what acceptLoop is routing: [conn, to], or nil
  fallback,   \* connections given to the fallback
  closed,     \* connections closed by this code
  fresh,      \* connections that the network has not made yet
  open        \* whether the listener accepts

punchVars == <<waiters, inbound, dialed, pc, result, dialing, routing, fallback, closed, fresh, open>>

Running == {"delay", "racing"}

PunchInit ==
  /\ waiters = [a \in Addrs |-> nil]
  /\ inbound = [p \in Punches |-> nil]
  /\ dialed = [p \in Punches |-> nil]
  /\ pc = [p \in Punches |-> "idle"]
  /\ result = [p \in Punches |-> nil]
  /\ dialing = [p \in Punches |-> "off"]
  /\ routing = nil
  /\ fallback = {}
  /\ closed = {}
  /\ fresh = Conns
  /\ open = TRUE

-----------------------------------------------------------------------------
(* acceptLoop and route. *)

\* Mutation: the connection goes to any punch that waits.
AcceptAny(c) ==
  /\ open
  /\ routing = nil
  /\ c \in fresh
  /\ fresh' = fresh \ {c}
  /\ \E a \in Addrs : routing' = [conn |-> c, to |-> waiters[a]]
  /\ UNCHANGED <<waiters, inbound, dialed, pc, result, dialing, fallback, closed, open>>

\* route, up to the end of its critical section.
Accept(c) ==
  /\ open
  /\ routing = nil
  /\ c \in fresh
  /\ fresh' = fresh \ {c}
  /\ routing' = [conn |-> c, to |-> waiters[source[c]]]
  /\ UNCHANGED <<waiters, inbound, dialed, pc, result, dialing, fallback, closed, open>>

\* Mutation: a connection given to a punch goes to the fallback as well.
RoutedBoth ==
  /\ routing # nil
  /\ routing.to # nil
  /\ inbound[routing.to] = nil
  /\ inbound' = [inbound EXCEPT ![routing.to] = routing.conn]
  /\ fallback' = fallback \cup {routing.conn}
  /\ routing' = nil
  /\ UNCHANGED <<waiters, dialed, pc, result, dialing, closed, fresh, open>>

\* The rest of route: the channel of the waiting punch has room ...
RoutedToPunch ==
  /\ routing # nil
  /\ routing.to # nil
  /\ inbound[routing.to] = nil
  /\ inbound' = [inbound EXCEPT ![routing.to] = routing.conn]
  /\ routing' = nil
  /\ UNCHANGED <<waiters, dialed, pc, result, dialing, fallback, closed, fresh, open>>

\* ... or the connection is the fallback's, or is closed for want of one.
RoutedAside ==
  /\ routing # nil
  /\ routing.to # nil => inbound[routing.to] # nil
  /\ fallback' = IF HasFallback THEN fallback \cup {routing.conn} ELSE fallback
  /\ closed' = IF HasFallback THEN closed ELSE closed \cup {routing.conn}
  /\ routing' = nil
  /\ UNCHANGED <<waiters, inbound, dialed, pc, result, dialing, fresh, open>>

Close ==
  /\ open
  /\ open' = FALSE
  /\ UNCHANGED <<waiters, inbound, dialed, pc, result, dialing, routing, fallback, closed, fresh>>

-----------------------------------------------------------------------------
(* Punch. *)

register(p) ==
  /\ pc[p] = "idle"
  /\ waiters' = [waiters EXCEPT ![target[p]] = p]
  /\ pc' = [pc EXCEPT ![p] = "delay"]
  /\ UNCHANGED <<inbound, dialed, result, dialing, routing, fallback, closed, fresh, open>>

\* The delay is over, or there was none: dialLoop is started.
DelayOver(p) ==
  /\ pc[p] = "delay"
  /\ pc' = [pc EXCEPT ![p] = "racing"]
  /\ dialing' = [dialing EXCEPT ![p] = "on"]
  /\ UNCHANGED <<waiters, inbound, dialed, result, routing, fallback, closed, fresh, open>>

\* <-inbound, during the delay, in the race and while draining.
TakesInbound(p) ==
  /\ pc[p] \in Running \cup {"draining"}
  /\ inbound[p] # nil
  /\ result' = [result EXCEPT ![p] = inbound[p]]
  /\ inbound' = [inbound EXCEPT ![p] = nil]
  /\ pc' = [pc EXCEPT ![p] = "leaving"]
  /\ UNCHANGED <<waiters, dialed, dialing, routing, fallback, closed, fresh, open>>

\* <-dialed, in the race and while draining.
TakesDialed(p) ==
  /\ pc[p] \in {"racing", "draining"}
  /\ dialed[p] # nil
  /\ result' = [result EXCEPT ![p] = dialed[p]]
  /\ dialed' = [dialed EXCEPT ![p] = nil]
  /\ pc' = [pc EXCEPT ![p] = "leaving"]
  /\ UNCHANGED <<waiters, inbound, dialing, routing, fallback, closed, fresh, open>>

\* <-ctx.Done(), which in the race also is PunchDuration.  During the delay it
\* returns at once; after it, what landed meanwhile is drained.
ContextDone(p) ==
  /\ pc[p] \in Running
  /\ pc' = [pc EXCEPT ![p] = IF pc[p] = "delay" THEN "leaving" ELSE "draining"]
  /\ UNCHANGED <<waiters, inbound, dialed, result, dialing, routing, fallback, closed, fresh, open>>

\* Both channels are empty: ErrPunchFailed.
GivesUp(p) ==
  /\ pc[p] = "draining"
  /\ inbound[p] = nil
  /\ dialed[p] = nil
  /\ result' = [result EXCEPT ![p] = "failed"]
  /\ pc' = [pc EXCEPT ![p] = "leaving"]
  /\ UNCHANGED <<waiters, inbound, dialed, dialing, routing, fallback, closed, fresh, open>>

\* Mutation: nothing is removed.
unregisterForgets(p) ==
  /\ pc[p] = "leaving"
  /\ pc' = [pc EXCEPT ![p] = "returned"]
  /\ UNCHANGED <<waiters, inbound, dialed, result, dialing, routing, fallback, closed, fresh, open>>

\* The deferred unregister: whatever is registered for the address goes.
unregister(p) ==
  /\ pc[p] = "leaving"
  /\ waiters' = [waiters EXCEPT ![target[p]] = nil]
  /\ pc' = [pc EXCEPT ![p] = "returned"]
  /\ UNCHANGED <<inbound, dialed, result, dialing, routing, fallback, closed, fresh, open>>

-----------------------------------------------------------------------------
(* dialLoop. *)

\* A dial succeeds, possibly just as the context ends.
DialSucceeds(p, c) ==
  /\ dialing[p] = "on"
  /\ c \in fresh
  /\ source[c] = target[p]
  /\ fresh' = fresh \ {c}
  /\ dialing' = [dialing EXCEPT ![p] = c]
  /\ UNCHANGED <<waiters, inbound, dialed, pc, result, routing, fallback, closed, open>>

\* out <- conn, whose channel is empty because dialLoop sends only once.
DialOffers(p) ==
  /\ dialing[p] \in Conns
  /\ dialed' = [dialed EXCEPT ![p] = dialing[p]]
  /\ dialing' = [dialing EXCEPT ![p] = "off"]
  /\ UNCHANGED <<waiters, inbound, pc, result, routing, fallback, closed, fresh, open>>

\* Mutation: the nil connection of a failed dial is kept for the offer.
DialStopsWithNil(p) ==
  /\ dialing[p] = "on"
  /\ pc[p] \notin Running
  /\ dialing' = [dialing EXCEPT ![p] = nil]
  /\ UNCHANGED <<waiters, inbound, dialed, pc, result, routing, fallback, closed, fresh, open>>

\* A dial failed and the context is done; until then it is retried.
DialStops(p) ==
  /\ dialing[p] = "on"
  /\ pc[p] \notin Running
  /\ dialing' = [dialing EXCEPT ![p] = "off"]
  /\ UNCHANGED <<waiters, inbound, dialed, pc, result, routing, fallback, closed, fresh, open>>

-----------------------------------------------------------------------------
PunchCall(p) ==
  DelayOver(p) \/ TakesInbound(p) \/ TakesDialed(p) \/ ContextDone(p) \/ GivesUp(p) \/ unregister(p)

dialLoop(p) == DialOffers(p) \/ DialStops(p) \/ \E c \in Conns : DialSucceeds(p, c)

PunchNext ==
  \/ \E c \in Conns : Accept(c)
  \/ RoutedToPunch \/ RoutedAside \/ Close
  \/ \E p \in Punches : register(p) \/ PunchCall(p) \/ dialLoop(p)

PunchSpec == PunchInit /\ [][PunchNext]_punchVars

-----------------------------------------------------------------------------
\* Registrations, channels and the places a connection can be are well formed.
PunchTypeOK ==
  /\ waiters \in [Addrs -> Punches \cup {nil}]
  /\ inbound \in [Punches -> Conns \cup {nil}]
  /\ dialed \in [Punches -> Conns \cup {nil}]
  /\ pc \in [Punches -> Running \cup {"idle", "draining", "leaving", "returned"}]
  /\ result \in [Punches -> Conns \cup {nil, "failed"}]
  /\ dialing \in [Punches -> Conns \cup {"on", "off"}]
  /\ routing \in [conn : Conns, to : Punches \cup {nil}] \cup {nil}
  /\ {fallback, closed, fresh} \subseteq SUBSET Conns
  /\ open \in BOOLEAN

\* The channels of the punches P that hold a connection.
Channels(c, P) ==
  {<<"inbound", p>> : p \in {q \in P : inbound[q] = c}} \cup {<<"dialed", p>> : p \in {q \in P : dialed[q] = c}}

\* Punches that will not read their channels again.
Done == {p \in Punches : pc[p] \in {"leaving", "returned"}}

\* Who uses a connection, passes it on or has closed it.
Holders(c) ==
  Channels(c, Punches \ Done)
  \cup {<<"result", p>> : p \in {q \in Punches : result[q] = c}}
  \cup {<<"dialing", p>> : p \in {q \in Punches : dialing[q] = c}}
  \cup {<<s, nil>> : s \in (IF c \in fallback THEN {"fallback"} ELSE {}) \cup (IF c \in closed THEN {"closed"} ELSE {})}
  \cup (IF routing # nil /\ routing.conn = c THEN {<<"routing", nil>>} ELSE {})

\* Where a connection is left behind: nobody reads that channel, or closes it.
Stranded(c) == Channels(c, Done)

\* A connection that was made has one holder, however the accept loop, the punches
\* and their dial loops interleave, or has none because it landed in a channel of
\* a punch that was done: no punch returns what another punch or the fallback was
\* given, and a connection is lost in no other place.  (It is lost there: the drain
\* that is to avoid "leaking it" comes before the end of the dial loop and of the
\* registration, and takes one connection where two may have landed.)
OneHolder ==
  \A c \in Conns : LET places == Holders(c) \cup Stranded(c) IN
    IF c \in fresh THEN places = {} ELSE \E h \in places : places = {h}

\* What Punch returns comes from the address that it is after, also when it was
\* routed by a registration that has been replaced since.
ResultIsFromTarget ==
  \A p \in Punches : result[p] \in Conns => source[result[p]] = target[p]

\* Punches of one address share one entry, and each deletes whatever is there when
\* it leaves.  What route finds is still a punch of that address that has not
\* returned, and while one is running route finds none only if another punch of
\* its address has returned meanwhile.
RouteFindsLive ==
  /\ \A a \in Addrs : waiters[a] # nil =>
       target[waiters[a]] = a /\ pc[waiters[a]] \notin {"idle", "returned"}
  /\ \A p \in Punches : pc[p] \in Running /\ waiters[target[p]] = nil =>
       \E q \in Punches : target[q] = target[p] /\ pc[q] = "returned"
==============================================================================
