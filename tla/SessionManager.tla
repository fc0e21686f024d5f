---------------------------- MODULE SessionManager ----------------------------
(***************************************************************************)
(* The registry of internal/session/manager.go: handshakes that finish in  *)
(* any order, duplicate resolution, the three loops of a connection, the   *)
(* delayed announcement, keepalives, Disconnect and Shutdown of one node.  *)
(*                                                                         *)
(* A connection is one transport that runHandshake was called on.  What    *)
(* the handshake authenticates (fingerprint, display name, session ID) is  *)
(* fixed per connection by constants.  Frames, keys and the trust decision *)
(* are other modules' business; the events for the user are left out.      *)
(*                                                                         *)
(* Each critical section of Manager.mu is one step.  The exception is the  *)
(* section of register that calls old.close() while another goroutine is   *)
(* inside old.once: sync.Once makes the caller wait, with mu held.         *)
(***************************************************************************)
EXTENDS Integers

CONSTANTS
  Conns,            \* connections that the node may come to have
  Fingerprints,     \* peer identities
  Names,            \* display names
  fp, name,         \* conn.fp and conn.name of a connection
  SessionID,        \* sess.SessionID of a connection
  Adopted,          \* connections handed over by Adopt, not counted in wg
  keepaliveMisses,  \* 3
  Darkable,         \* bound: connections whose path may go dark
  nil

ASSUME ManagerAssumption ==
  /\ fp \in [Conns -> Fingerprints]
  /\ name \in [Conns -> Names]
  /\ SessionID \in [Conns -> Nat]
  /\ \A c, d \in Conns : c # d => SessionID[c] # SessionID[d]
  /\ Adopted \subseteq Conns
  /\ keepaliveMisses \in Nat \ {0}
  /\ Darkable \subseteq Conns
  /\ nil \notin Conns

VARIABLES
  conns,       \* Manager.conns: the connection in use for a fingerprint, or nil
  byName,      \* Manager.byName
  mu,          \* nil, or the connection whose register waits with mu held
  phase,       \* where runHandshake is for a connection
  once,        \* conn.once; "unused" also says that conn.done is open
  unanswered,  \* conn.unanswered
  announced,   \* conn.announced
  timer,       \* where the settleDelay timer's announce is
  leaving,     \* what Disconnect has looked up and not yet dropped, or nil
  shut,        \* where Shutdown is
  list,        \* Shutdown's snapshot, as far as it is not yet dropped
  dark         \* environment: the path of the connection carries nothing any more

registry == <<conns, byName, mu>>
perConn == <<phase, once, unanswered, announced, timer>>
others == <<leaving, shut, list, dark>>
vars == <<conns, byName, mu, phase, once, unanswered, announced, timer,
          leaving, shut, list, dark>>

\* The values of the fields; in particular keepaliveLoop returns at the tick
\* that exceeds keepaliveMisses, so unanswered goes no further.
TypeOK ==
  /\ conns \in [Fingerprints -> Conns \cup {nil}]
  /\ byName \in [Names -> Conns \cup {nil}]
  /\ mu \in Conns \cup {nil}
  /\ phase \in [Conns -> {"idle", "handshake", "failed", "waiting", "refused", "kept", "up", "over"}]
  /\ once \in [Conns -> {"unused", "closed", "unregistered", "done"}]
  /\ unanswered \in [Conns -> 0 .. keepaliveMisses + 1]
  /\ announced \in [Conns -> BOOLEAN]
  /\ timer \in [Conns -> {"unset", "armed", "open", "current", "done"}]
  /\ leaving \in Conns \cup {nil}
  /\ shut \in {"no", "dropping", "waiting", "returned"}
  /\ list \in SUBSET Conns
  /\ dark \in SUBSET Conns

Init ==
  /\ conns = [p \in Fingerprints |-> nil]
  /\ byName = [n \in Names |-> nil]
  /\ mu = nil
  /\ phase = [c \in Conns |-> "idle"]
  /\ once = [c \in Conns |-> "unused"]
  /\ unanswered = [c \in Conns |-> 0]
  /\ announced = [c \in Conns |-> FALSE]
  /\ timer = [c \in Conns |-> "unset"]
  /\ leaving = nil
  /\ shut = "no"
  /\ list = {}
  /\ dark = {}

-----------------------------------------------------------------------------
(* runHandshake, from the first message to the start of the loops. *)

\* HandleInbound, Connect and Adopt.  Nothing consults Manager.closing, and the
\* punch listener accepts until the process ends.
Start(c) ==
  /\ phase[c] = "idle"
  /\ shut # "returned"
  /\ phase' = [phase EXCEPT ![c] = "handshake"]
  /\ UNCHANGED <<registry, once, unanswered, announced, timer, others>>

\* Any error return up to and including Observe: the transport is closed and
\* nothing was registered.
HandshakeFails(c) ==
  /\ phase[c] = "handshake"
  /\ phase' = [phase EXCEPT ![c] = "failed"]
  /\ UNCHANGED <<registry, once, unanswered, announced, timer, others>>

preferNew(old, new) ==
  unanswered[old] > 0 \/ SessionID[new] < SessionID[old]

\* The two early returns of register.
Refuses(c) ==
  LET old == conns[fp[c]] IN
  /\ old # nil
  /\ \/ announced[old] /\ unanswered[old] = 0
     \/ ~preferNew(old, c)

RegisterRefuses(c) ==
  /\ phase[c] = "handshake"
  /\ mu = nil
  /\ Refuses(c)
  /\ phase' = [phase EXCEPT ![c] = "refused"]
  /\ UNCHANGED <<registry, once, unanswered, announced, timer, others>>

\* Mutation: the connection that is replaced stays open.
RegisterKeepsBoth(c) ==
  /\ phase[c] = "handshake"
  /\ mu = nil
  /\ ~Refuses(c)
  /\ conns' = [conns EXCEPT ![fp[c]] = c]
  /\ byName' = [byName EXCEPT ![name[c]] = c]
  /\ phase' = [phase EXCEPT ![c] = "kept"]
  /\ UNCHANGED <<mu, once, unanswered, announced, timer, others>>

\* register keeps c.  A connection it replaces is closed: once is spent by
\* close, so its loops will end without unregister and without an event.
RegisterKeeps(c) ==
  LET old == conns[fp[c]] IN
  /\ phase[c] = "handshake"
  /\ mu = nil
  /\ ~Refuses(c)
  /\ IF old = nil THEN UNCHANGED once
     ELSE once[old] = "unused" /\ once' = [once EXCEPT ![old] = "done"]
  /\ conns' = [conns EXCEPT ![fp[c]] = c]
  /\ byName' = [byName EXCEPT ![name[c]] = c]
  /\ phase' = [phase EXCEPT ![c] = "kept"]
  /\ UNCHANGED <<mu, unanswered, announced, timer, others>>

\* old.close() while a dropConn is inside old.once: Do returns only when that
\* dropConn has returned, and it still has to lock mu in unregister.
RegisterWaits(c) ==
  LET old == conns[fp[c]] IN
  /\ phase[c] = "handshake"
  /\ mu = nil
  /\ ~Refuses(c)
  /\ old # nil
  /\ once[old] # "unused"
  /\ mu' = c
  /\ phase' = [phase EXCEPT ![c] = "waiting"]
  /\ UNCHANGED <<conns, byName, once, unanswered, announced, timer, others>>

\* The rest of runHandshake for a connection that was kept: readLoop, writeLoop
\* and keepaliveLoop run while its phase is "up".
StartLoops(c) ==
  /\ phase[c] = "kept"
  /\ phase' = [phase EXCEPT ![c] = "up"]
  /\ timer' = [timer EXCEPT ![c] = "armed"]
  /\ UNCHANGED <<registry, once, unanswered, announced, others>>

-----------------------------------------------------------------------------
(* announce, settleDelay after StartLoops. *)

AnnounceFires(c) ==
  /\ timer[c] = "armed"
  /\ timer' = [timer EXCEPT ![c] = IF once[c] = "unused" THEN "open" ELSE "done"]
  /\ UNCHANGED <<registry, phase, once, unanswered, announced, others>>

AnnounceLooksUp(c) ==
  /\ timer[c] = "open"
  /\ mu = nil
  /\ timer' = [timer EXCEPT ![c] = IF conns[fp[c]] = c THEN "current" ELSE "done"]
  /\ UNCHANGED <<registry, phase, once, unanswered, announced, others>>

\* The lookup's result is used after mu was released.
AnnounceMarks(c) ==
  /\ timer[c] = "current"
  /\ timer' = [timer EXCEPT ![c] = "done"]
  /\ announced' = [announced EXCEPT ![c] = TRUE]
  /\ UNCHANGED <<registry, phase, once, unanswered, others>>

-----------------------------------------------------------------------------
(* dropConn. *)

\* What a caller of dropConn does when nobody else has used conn.once.
Dropping(c) ==
  once' = IF once[c] = "unused" THEN [once EXCEPT ![c] = "closed"] ELSE once

\* readLoop or writeLoop meets an I/O error, ErrBadSession or TypeClose.
LoopFails(c) ==
  /\ once[c] = "unused"
  /\ phase[c] = "up"
  /\ Dropping(c)
  /\ UNCHANGED <<registry, phase, unanswered, announced, timer, others>>

\* Mutation: only one of the two maps is cleaned.
unregisterKeepsName(c) ==
  /\ conns' = IF conns[fp[c]] = c THEN [conns EXCEPT ![fp[c]] = nil] ELSE conns
  /\ UNCHANGED byName

unregister(c) ==
  IF conns[fp[c]] = c
  THEN /\ conns' = [conns EXCEPT ![fp[c]] = nil]
       /\ byName' = IF byName[name[c]] = c THEN [byName EXCEPT ![name[c]] = nil] ELSE byName
  ELSE UNCHANGED <<conns, byName>>

Unregister(c) ==
  /\ once[c] = "closed"
  /\ mu = nil
  /\ unregister(c)
  /\ once' = [once EXCEPT ![c] = "unregistered"]
  /\ UNCHANGED <<mu, phase, unanswered, announced, timer, others>>

DropReturns(c) ==
  /\ once[c] = "unregistered"
  /\ once' = [once EXCEPT ![c] = "done"]
  /\ UNCHANGED <<registry, phase, unanswered, announced, timer, others>>

\* The loops end: writeLoop and keepaliveLoop on conn.done, readLoop, the last,
\* after the dropConn that it defers.
LoopsEnd(c) ==
  /\ phase[c] = "up"
  /\ once[c] = "done"
  /\ phase' = [phase EXCEPT ![c] = "over"]
  /\ UNCHANGED <<registry, once, unanswered, announced, timer, others>>

-----------------------------------------------------------------------------
(* Keepalives. *)

\* Mutation: the loop returns without dropConn.
TickNoDrop(c) ==
  /\ phase[c] = "up"
  /\ unanswered[c] <= keepaliveMisses
  /\ unanswered' = [unanswered EXCEPT ![c] = @ + 1]
  /\ UNCHANGED <<registry, once, phase, announced, timer, others>>

\* One tick of keepaliveLoop.  The ping fails when the session is closed or the
\* send queue is full, and then the connection is dropped as well.
Tick(c) ==
  /\ phase[c] = "up"
  /\ unanswered[c] <= keepaliveMisses
  /\ unanswered' = [unanswered EXCEPT ![c] = @ + 1]
  /\ \/ Dropping(c)
     \/ unanswered[c] + 1 <= keepaliveMisses /\ UNCHANGED once
  /\ UNCHANGED <<registry, phase, announced, timer, others>>

\* readLoop receives the answer.
Pong(c) ==
  /\ phase[c] = "up"
  /\ once[c] = "unused"
  /\ c \notin dark
  /\ unanswered[c] > 0
  /\ unanswered' = [unanswered EXCEPT ![c] = 0]
  /\ UNCHANGED <<registry, phase, once, announced, timer, others>>

BlackHole(c) ==
  /\ c \in Darkable \ dark
  /\ phase[c] = "up"
  /\ dark' = dark \cup {c}
  /\ UNCHANGED <<registry, perConn, leaving, shut, list>>

-----------------------------------------------------------------------------
(* The user. *)

Disconnect(n) ==
  /\ mu = nil
  /\ leaving = nil
  /\ byName[n] # nil
  /\ leaving' = byName[n]
  /\ UNCHANGED <<registry, perConn, shut, list, dark>>

\* 20 ms later, after TypeClose was queued.
DisconnectDrops(c) ==
  /\ leaving = c
  /\ leaving' = nil
  /\ Dropping(c)
  /\ UNCHANGED <<registry, phase, unanswered, announced, timer, shut, list, dark>>

\* Shutdown takes its snapshot and closes the listener ...
Shutdown ==
  /\ shut = "no"
  /\ mu = nil
  /\ shut' = "dropping"
  /\ list' = {conns[p] : p \in Fingerprints} \ {nil}
  /\ UNCHANGED <<registry, perConn, leaving, dark>>

\* ... drops every connection of the snapshot ...
ShutdownDrops(c) ==
  /\ shut = "dropping"
  /\ c \in list
  /\ list' = IF once[c] = "done" THEN list \ {c} ELSE list
  /\ Dropping(c)
  /\ UNCHANGED <<registry, phase, unanswered, announced, timer, leaving, shut, dark>>

ShutdownWaits ==
  /\ shut = "dropping"
  /\ list = {}
  /\ shut' = "waiting"
  /\ UNCHANGED <<registry, perConn, leaving, list, dark>>

\* Mutation: a failed handshake does not call wg.Done.
wgIsZeroNoDone ==
  \A c \in Conns :
    /\ phase[c] # "up"
    /\ c \notin Adopted => phase[c] \notin {"handshake", "waiting", "kept", "failed"}

\* ... and waits for the loops and for the handshakes that wg counts.
wgIsZero ==
  \A c \in Conns :
    /\ phase[c] # "up"
    /\ c \notin Adopted => phase[c] \notin {"handshake", "waiting", "kept"}

ShutdownReturns ==
  /\ shut = "waiting"
  /\ wgIsZero
  /\ shut' = "returned"
  /\ UNCHANGED <<registry, perConn, leaving, list, dark>>

-----------------------------------------------------------------------------
\* One disjunct per goroutine that works on a connection.
runHandshake(c) ==
  HandshakeFails(c) \/ RegisterRefuses(c) \/ RegisterKeeps(c) \/ RegisterWaits(c) \/ StartLoops(c)

announce(c) ==
  AnnounceFires(c) \/ AnnounceLooksUp(c) \/ AnnounceMarks(c)

dropConn(c) == Unregister(c) \/ DropReturns(c) \/ LoopsEnd(c)

Next ==
  \/ \E c \in Conns :
       \/ Start(c) \/ runHandshake(c) \/ announce(c) \/ dropConn(c)
       \/ LoopFails(c) \/ Tick(c) \/ Pong(c) \/ BlackHole(c)
       \/ DisconnectDrops(c) \/ ShutdownDrops(c)
  \/ \E n \in Names : Disconnect(n)
  \/ Shutdown \/ ShutdownWaits \/ ShutdownReturns

Spec == Init /\ [][Next]_vars

\* Runnable goroutines run, tickers fire, and a handshake is bounded by its read
\* deadlines.  The peer, the path, the user and the settle timer owe nothing.
Fairness ==
  /\ \A c \in Conns :
       /\ WF_vars(runHandshake(c))
       /\ WF_vars(dropConn(c))
       /\ WF_vars(Tick(c))
       /\ WF_vars(ShutdownDrops(c))
  /\ WF_vars(ShutdownWaits \/ ShutdownReturns)

FairSpec == Spec /\ Fairness

-----------------------------------------------------------------------------
\* What register kept and nobody has closed since.
Open(c) == phase[c] \in {"kept", "up"} /\ once[c] = "unused"

\* The registry and the open connections agree, however registrations,
\* replacements and drops interleave: an open connection is the one conns has
\* for its peer, so a peer has at most one, and what conns has was kept for
\* that peer and its dropConn has not passed unregister.
RegistryMatchesOpen ==
  /\ \A c \in Conns : Open(c) => conns[fp[c]] = c
  /\ \A p \in Fingerprints : conns[p] # nil =>
       /\ fp[conns[p]] = p
       /\ phase[conns[p]] \in {"kept", "up"}
       /\ once[conns[p]] \in {"unused", "closed"}

\* As long as a peer keeps its display name, byName never leads Send or
\* Disconnect to a connection that the registry no longer has, even when two
\* peers use the same name.
ByNameNeverStale ==
  (\A c, d \in Conns : fp[c] = fp[d] => name[c] = name[d]) =>
    \A n \in Names : byName[n] # nil =>
      name[byName[n]] = n /\ conns[fp[byName[n]]] = byName[n]

\* "a black-holed connection is dropped after keepaliveMisses probes instead of
\* hanging indefinitely" (keepaliveLoop), whatever else the manager is doing.
BlackHoledIsDropped ==
  \A c \in Conns : (c \in dark /\ phase[c] = "up") ~> (once[c] # "unused")

\* Shutdown returns when every connection is closed and no handshake is still
\* on its way to the registry.
ShutdownEnds ==
  (shut = "waiting" /\ \A c \in Conns : ~Open(c) /\ once[c] # "closed")
    ~> (shut = "returned" \/ \E c \in Conns : phase[c] \in {"handshake", "waiting", "kept"} \/ Open(c))

-----------------------------------------------------------------------------
(* What a comment says and the code does not keep. *)

\* "It blocks until the handshake either completes or fails" (Adopt).
AdoptReturns ==
  \A c \in Adopted : (phase[c] = "handshake") ~> (phase[c] \in {"failed", "refused", "up"})
==============================================================================
