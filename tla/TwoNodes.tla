------------------------------- MODULE TwoNodes -------------------------------
(***************************************************************************)
(* Two nodes with several connections between them: what register,         *)
(* announce, readLoop, keepaliveLoop and dropConn of                       *)
(* internal/session/manager.go do at both ends of each connection, on top  *)
(* of the handshake.  Each node decides by itself which of its connections *)
(* to keep.  As in SessionManager, a critical section of Manager.mu is one *)
(* step, dropConn closes before it locks mu, announce marks after it has   *)
(* unlocked it, and a register that closes a connection which is being     *)
(* dropped waits for ever, with mu held.                                   *)
(*                                                                         *)
(* A path that works answers a ping before the next tick, so unanswered is *)
(* whether a ping is outstanding.                                          *)
(***************************************************************************)
EXTENDS Handshake

CONSTANT Probing   \* bound: ends whose keepalive ticks

ASSUME ProbingAssumption == Probing \subseteq Ends

VARIABLES
  conns,       \* Manager.conns of each node: the end in use for a fingerprint, or nil
  found,       \* ends that announce has found in use and not yet marked
  announced,   \* ends with conn.announced set
  unanswered   \* ends with a ping outstanding

nodeVars == <<conns, found, announced, unanswered>>
vars == <<setup, pc, transcript, peer, wire, broken, conns, found, announced, unanswered>>

Init ==
  /\ HandshakeInit
  /\ conns = [n \in Nodes |-> [p \in Nodes |-> nil]]
  /\ found = {}
  /\ announced = {}
  /\ unanswered = {}

SessionID(e) == setup[e[1]].sid

Current(e) == conns[Node(e)][peer[e]]

\* A register of n waits for the once of a connection that is being dropped, and
\* mu stays locked.
Deadlocked(n) == \E e \in Ends : Node(e) = n /\ pc[e] = "waits"

-----------------------------------------------------------------------------
(* register. *)

\* Mutation: the role decides, which is the same on every path.
preferNewByRole(old, new) ==
  \/ old \in unanswered
  \/ IF Opts(new).initiator THEN SessionID(new) < SessionID(old)
     ELSE SessionID(new) > SessionID(old)

preferNew(old, new) == old \in unanswered \/ SessionID(new) < SessionID(old)

Refuses(e) ==
  LET old == Current(e) IN
  /\ old # nil
  /\ old \in announced \ unanswered \/ ~preferNew(old, e)

\* Mutation: the transport of a refused connection stays open.
RegisterRefusesOpen(e) ==
  /\ pc[e] = "checked"
  /\ ~Deadlocked(Node(e))
  /\ Refuses(e)
  /\ pc' = [pc EXCEPT ![e] = "idle"]
  /\ UNCHANGED <<setup, transcript, peer, wire, broken, nodeVars>>

RegisterRefuses(e) ==
  /\ pc[e] = "checked"
  /\ ~Deadlocked(Node(e))
  /\ Refuses(e)
  /\ CloseAt(e, "refused")
  /\ UNCHANGED nodeVars

\* register keeps e and closes the connection it replaces.
RegisterKeeps(e) ==
  LET old == Current(e) IN
  /\ pc[e] = "checked"
  /\ ~Deadlocked(Node(e))
  /\ ~Refuses(e)
  /\ old # nil => pc[old] = "up"
  /\ conns' = [conns EXCEPT ![Node(e)][peer[e]] = e]
  /\ pc' = [f \in Ends |-> IF f = e THEN "up" ELSE IF f = old THEN "dropped" ELSE pc[f]]
  /\ wire' = [f \in Ends |-> IF f = old THEN <<>> ELSE wire[f]]
  /\ UNCHANGED <<setup, transcript, peer, broken, found, announced, unanswered>>

\* register calls old.close() while dropConn is inside old.once and still has to
\* lock mu.
RegisterWaits(e) ==
  LET old == Current(e) IN
  /\ pc[e] = "checked"
  /\ ~Deadlocked(Node(e))
  /\ ~Refuses(e)
  /\ old # nil
  /\ pc[old] = "closing"
  /\ pc' = [pc EXCEPT ![e] = "waits"]
  /\ UNCHANGED <<setup, transcript, peer, wire, broken, nodeVars>>

-----------------------------------------------------------------------------
(* The loops of a connection. *)

\* The settleDelay timer fires before the connection is closed, and announce
\* finds it in use.
AnnounceLooksUp(e) ==
  /\ pc[e] \in {"up", "closing"}
  /\ e \notin found \cup announced
  /\ ~Deadlocked(Node(e))
  /\ Current(e) = e
  /\ found' = found \cup {e}
  /\ UNCHANGED <<handshakeVars, conns, announced, unanswered>>

\* It is marked after mu was released, whatever has become of it since.
AnnounceMarks(e) ==
  /\ e \in found
  /\ found' = found \ {e}
  /\ announced' = announced \cup {e}
  /\ UNCHANGED <<handshakeVars, conns, unanswered>>

\* keepaliveLoop sends a ping.
Tick(e) ==
  /\ pc[e] = "up"
  /\ e \in Probing \ unanswered
  /\ unanswered' = unanswered \cup {e}
  /\ wire' = [wire EXCEPT ![Other(e)] =
                IF pc[Other(e)] \in Closed THEN @
                ELSE Append(@, Frame("ping", transcript[e], nil))]
  /\ UNCHANGED <<setup, pc, transcript, peer, broken, conns, found, announced>>

\* readLoop: a ping is answered, a pong counts, a confirmation that this end did
\* not ask for is ignored.
ReadFrame(e) ==
  LET m == Head(wire[e]) IN
  /\ pc[e] = "up"
  /\ Got(e)
  /\ Exchange(e, IF m.kind = "ping" THEN <<Frame("pong", transcript[e], nil)>> ELSE <<>>)
  /\ unanswered' = IF m.kind = "pong" THEN unanswered \ {e} ELSE unanswered
  /\ UNCHANGED <<setup, pc, transcript, peer, broken, conns, found, announced>>

\* Nobody reads at e any more, or yet: its register waits for mu.
Mute(e) == pc[e] \in {"checked", "waits"} /\ Deadlocked(Node(e))

\* A loop fails, or the other end stays silent for too long, and dropConn enters
\* once and closes the connection ...
Drop(e) ==
  /\ pc[e] = "up"
  /\ Lost(e) \/ Mute(Other(e))
  /\ CloseAt(e, "closing")
  /\ UNCHANGED nodeVars

\* ... and unregisters it if it is still the one in use.
Unregister(e) ==
  /\ pc[e] = "closing"
  /\ ~Deadlocked(Node(e))
  /\ pc' = [pc EXCEPT ![e] = "dropped"]
  /\ conns' = [conns EXCEPT ![Node(e)][peer[e]] = IF @ = e THEN nil ELSE @]
  /\ UNCHANGED <<setup, transcript, peer, wire, broken, found, announced, unanswered>>

-----------------------------------------------------------------------------
\* What the code at an end does when it can.
EndStep(e) ==
  \/ HandshakeStep(e) /\ UNCHANGED nodeVars
  \/ RegisterRefuses(e) \/ RegisterKeeps(e) \/ RegisterWaits(e)
  \/ ReadFrame(e) \/ Drop(e) \/ Unregister(e)

Next ==
  \/ \E e \in Ends : EndStep(e) \/ AnnounceLooksUp(e) \/ AnnounceMarks(e) \/ Tick(e)
  \/ \E c \in Conns : Break(c) /\ UNCHANGED nodeVars

Spec == Init /\ [][Next]_vars

\* The goroutine of an end runs when it has something to do, and a read deadline
\* ends a wait for nothing.  Announcements and pings may come at any time.
FairSpec == Spec /\ \A e \in Ends : WF_vars(EndStep(e))

-----------------------------------------------------------------------------
(* Properties. *)

InUse(e) == Complete(e) /\ Current(e) = e

\* No connection stays in use at one end only: whichever end refuses, replaces or
\* loses a connection, the other end gives it up too, in the end.  A node whose
\* register waits for ever gives up nothing, but the other node still does.
HalfOpenEnds ==
  <>[](\A e \in Ends : InUse(e) /\ ~Deadlocked(Node(e)) => InUse(Other(e)))

\* The connections of a setup whose ends were told matching things.
Matching(c) ==
  /\ setup[c].a.node # setup[c].b.node
  /\ setup[c].a.initiator # setup[c].b.initiator
  /\ setup[c].a.key = setup[c].b.key

\* No path fails, and while a handshake is under way no connection has been
\* announced or has a ping outstanding.
Calm ==
  /\ broken = {}
  /\ (\E e \in Ends : pc[e] \in Undecided) => announced \cup unanswered = {}

\* Duplicate resolution converges without negotiation: when every connection
\* gets through its handshake before the first is announced or probed, both
\* nodes end up with the connection of the smallest session ID, in use at both
\* ends, whatever the order in which the handshakes end on either side; or a
\* register meets a connection that the other node's choice has just closed, and
\* waits for ever.
SettlesOnSmallest ==
  ((\A c \in Conns : Matching(c)) /\ []Calm) =>
     <>[](\/ \E n \in Nodes : Deadlocked(n)
          \/ \E c \in Conns :
                /\ \A d \in Conns : setup[c].sid <= setup[d].sid
                /\ InUse(<<c, "a">>) /\ InUse(<<c, "b">>))
==============================================================================
