------------------------------ MODULE Handshake ------------------------------
(***************************************************************************)
(* The handshake and the pairing confirmation, at the two ends of each     *)
(* connection: internal/proto/handshake.go, internal/proto/pairing.go, and *)
(* runHandshake and confirmPairing of internal/session/manager.go up to    *)
(* the trust decision.                                                     *)
(*                                                                         *)
(* An end is <<connection, side>>.  What each end was told by its caller   *)
(* (identity, role, pairing key) is the setup of the connection, and the   *)
(* two ends need not have been told matching things.  Cryptography is      *)
(* symbolic: an end is its own ephemeral key, a shared secret is the set   *)
(* of the two, a transcript is the pair in the order of the roles, and     *)
(* what is sealed opens with the same secret, transcript and purpose.      *)
(* Both ends run this code: there is no third party, so the module says    *)
(* nothing of what a peer that does not follow it can achieve.             *)
(***************************************************************************)
EXTENDS Integers, Sequences, FiniteSets

CONSTANTS
  Conns,      \* connections
  Nodes,      \* identities
  Keys,       \* pairing keys
  Setups,     \* the setups from which one is taken
  Breakable,  \* bound: connections whose path may break
  nil

Sides == {"a", "b"}
Ends == Conns \X Sides
EndOptions == [node : Nodes, initiator : BOOLEAN, key : Keys \cup {nil}]

ASSUME HandshakeAssumption ==
  /\ Setups \subseteq [Conns -> [sid : Nat, a : EndOptions, b : EndOptions]]
  /\ Breakable \subseteq Conns
  /\ nil \notin Keys \cup Nodes \cup Ends

VARIABLES
  setup,       \* sid orders the session IDs that the connections will have
  pc,          \* where runHandshake is at an end
  transcript,  \* Handshaker.transcript of an end, or nil
  peer,        \* HandshakeResult.PeerKey at an end, or nil
  wire,        \* what has been sent to an end and not yet received
  broken       \* connections whose path failed, was slower than a deadline, or filled a send queue

handshakeVars == <<setup, pc, transcript, peer, wire, broken>>

Opts(e) == setup[e[1]][e[2]]
Node(e) == Opts(e).node
Other(e) == <<e[1], IF e[2] = "a" THEN "b" ELSE "a">>

Receiving == {"msg1", "msg2", "msg3", "confirm"}
Closed == {"failed", "refused", "closing", "dropped"}
Undecided == {"new", "checked"} \cup Receiving

HandshakeInit ==
  /\ setup \in Setups
  /\ pc = [e \in Ends |-> "new"]
  /\ transcript = [e \in Ends |-> nil]
  /\ peer = [e \in Ends |-> nil]
  /\ wire = [e \in Ends |-> <<>>]
  /\ broken = {}

-----------------------------------------------------------------------------
(* Messages. *)

InitMessage(e) == [type |-> "init", eph |-> e]

\* sealAuth: identity and signature under a key of the shared secret.
Auth(e, peerEph, tr, info) ==
  [type |-> "auth", eph |-> e, secret |-> {e, peerEph}, transcript |-> tr,
   info |-> info, id |-> Node(e)]

\* openAuth and VerifyWith succeed.
Opens(e, m, peerEph, tr, info) ==
  /\ m.type = "auth"
  /\ m.secret = {e, peerEph}
  /\ m.transcript = tr
  /\ m.info = info

Frame(kind, tr, value) ==
  [type |-> "frame", kind |-> kind, session |-> tr, value |-> value]

PairConfirm(key, tr) == <<key, tr>>

\* The frame of SealPairConfirm, when a pairing key makes it mandatory.
Confirmation(e, tr) ==
  IF Opts(e).key = nil THEN <<>>
  ELSE <<Frame("confirm", tr, PairConfirm(Opts(e).key, tr))>>

Got(e) == wire[e] # <<>>

\* e takes a message off its wire and sends out; what is sent to an end that
\* has closed its transport is lost.
Exchange(e, out) ==
  wire' = [wire EXCEPT ![e] = IF Got(e) THEN Tail(@) ELSE @,
                       ![Other(e)] = IF pc[Other(e)] \in Closed THEN @ ELSE @ \o out]

\* fio.Close: nobody reads what is still on its way to e.
CloseAt(e, how) ==
  /\ pc' = [pc EXCEPT ![e] = how]
  /\ wire' = [wire EXCEPT ![e] = <<>>]
  /\ UNCHANGED <<setup, transcript, peer, broken>>

-----------------------------------------------------------------------------
(* runHandshake. *)

\* The initiator sends msg1 and waits for msg2; the responder waits for msg1.
Begin(e) ==
  /\ pc[e] = "new"
  /\ pc' = [pc EXCEPT ![e] = IF Opts(e).initiator THEN "msg2" ELSE "msg1"]
  /\ wire' = [wire EXCEPT ![Other(e)] =
                IF Opts(e).initiator /\ pc[Other(e)] \notin Closed
                THEN Append(@, InitMessage(e)) ELSE @]
  /\ UNCHANGED <<setup, transcript, peer, broken>>

\* handleInit: msg2 answers msg1.
handleInit(e) ==
  LET m == Head(wire[e])
      tr == <<m.eph, e>>
  IN  /\ pc[e] = "msg1"
      /\ Got(e)
      /\ m.type = "init"
      /\ transcript' = [transcript EXCEPT ![e] = tr]
      /\ Exchange(e, <<Auth(e, m.eph, tr, "hs2")>>)
      /\ pc' = [pc EXCEPT ![e] = "msg3"]
      /\ UNCHANGED <<setup, peer, broken>>

\* The handshake is complete at e: the confirmation, if any, comes next.
Finish(e, id) ==
  /\ peer' = [peer EXCEPT ![e] = id]
  /\ pc' = [pc EXCEPT ![e] = IF Opts(e).key = nil THEN "checked" ELSE "confirm"]
  /\ UNCHANGED <<setup, broken>>

\* Mutation: the initiator does not compare the peer's identity with its own.
AcceptsOwnMsg2(e, m) == Opens(e, m, m.eph, <<e, m.eph>>, "hs2")

\* What handleAuthInitiator accepts of msg2: its own transcript, and a peer that
\* is somebody else.
AcceptsMsg2(e, m) == Opens(e, m, m.eph, <<e, m.eph>>, "hs2") /\ m.id # Node(e)

handleAuthInitiator(e) ==
  LET m == Head(wire[e])
      tr == <<e, m.eph>>
  IN  /\ pc[e] = "msg2"
      /\ Got(e)
      /\ AcceptsMsg2(e, m)
      /\ transcript' = [transcript EXCEPT ![e] = tr]
      /\ Exchange(e, <<Auth(e, m.eph, tr, "hs3")>> \o Confirmation(e, tr))
      /\ Finish(e, m.id)

\* What handleAuthResponder accepts of msg3.
AcceptsMsg3(e, m) ==
  Opens(e, m, transcript[e][1], transcript[e], "hs3") /\ m.id # Node(e)

handleAuthResponder(e) ==
  LET m == Head(wire[e])
  IN  /\ pc[e] = "msg3"
      /\ Got(e)
      /\ AcceptsMsg3(e, m)
      /\ Exchange(e, Confirmation(e, transcript[e]))
      /\ Finish(e, m.id)
      /\ UNCHANGED transcript

\* HandleMessage refuses what it received.
HandshakeRefused(e) ==
  LET m == Head(wire[e])
  IN  /\ Got(e)
      /\ \/ pc[e] = "msg1" /\ m.type # "init"
         \/ pc[e] = "msg2" /\ ~AcceptsMsg2(e, m)
         \/ pc[e] = "msg3" /\ ~AcceptsMsg3(e, m)
      /\ CloseAt(e, "failed")

-----------------------------------------------------------------------------
(* confirmPairing. *)

\* VerifyPairConfirm.  The value is the same in both directions, and each end has
\* sent its own before it checks the other's.
Confirmed(e, m) ==
  /\ m.type = "frame"
  /\ m.session = transcript[e]
  /\ m.kind = "confirm"
  /\ m.value = PairConfirm(Opts(e).key, transcript[e])

\* A frame of another type, which the loop skips.
Skipped(e, m) == m.type = "frame" /\ m.session = transcript[e] /\ m.kind # "confirm"

ConfirmReceived(e) ==
  LET m == Head(wire[e])
  IN  /\ pc[e] = "confirm"
      /\ Got(e)
      /\ Confirmed(e, m) \/ Skipped(e, m)
      /\ pc' = [pc EXCEPT ![e] = IF Confirmed(e, m) THEN "checked" ELSE @]
      /\ Exchange(e, <<>>)
      /\ UNCHANGED <<setup, transcript, peer, broken>>

\* ErrPairConfirm: the frame does not open, or has another value.
ConfirmRefused(e) ==
  /\ pc[e] = "confirm"
  /\ Got(e)
  /\ ~Confirmed(e, Head(wire[e]))
  /\ ~Skipped(e, Head(wire[e]))
  /\ CloseAt(e, "failed")

-----------------------------------------------------------------------------
(* Failures. *)

\* The path of c fails, or keeps a message longer than a deadline.
Break(c) ==
  /\ c \in Breakable \ broken
  /\ broken' = broken \cup {c}
  /\ UNCHANGED <<setup, pc, transcript, peer, wire>>

Lost(e) == e[1] \in broken \/ pc[Other(e)] \in Closed

\* Nothing is on its way to e, and the other end will send it nothing either.
Starved(e) ==
  /\ ~Got(e)
  /\ pc[Other(e)] # "new"
  /\ pc[Other(e)] \in Receiving => ~Got(Other(e))

\* Send or Recv returns an error: the path failed, the other end closed its
\* transport, which may overtake what it had sent, or the read deadline passed.
HandshakeFails(e) ==
  /\ pc[e] \in {"new"} \cup Receiving
  /\ Lost(e) \/ (pc[e] \in Receiving /\ Starved(e))
  /\ CloseAt(e, "failed")

HandshakeStep(e) ==
  \/ Begin(e) \/ handleInit(e) \/ handleAuthInitiator(e) \/ handleAuthResponder(e)
  \/ HandshakeRefused(e) \/ ConfirmReceived(e) \/ ConfirmRefused(e) \/ HandshakeFails(e)

-----------------------------------------------------------------------------
(* Properties. *)

Complete(e) == peer[e] # nil

\* Two ends of a connection that both completed the handshake agree on it: they
\* took opposite roles, computed the same transcript, and each knows the other's
\* identity, which is never its own.
Agreement ==
  \A e \in Ends : Complete(e) =>
     /\ peer[e] = Node(Other(e))
     /\ peer[e] # Node(e)
     /\ Complete(Other(e)) =>
           /\ transcript[e] = transcript[Other(e)]
           /\ Opts(e).initiator # Opts(Other(e)).initiator
==============================================================================
