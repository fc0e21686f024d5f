------------------------------- MODULE Session -------------------------------
(***************************************************************************)
(* The established channel of internal/proto/session.go, at both ends, and *)
(* the path between them that internal/session/manager.go gives it:        *)
(* several goroutines of an end seal frames, each then offers its frame to *)
(* the connection's send queue without holding any lock across the two     *)
(* steps, and one writer drains the queue in order onto the stream.        *)
(*                                                                         *)
(* A chain key is the pair of what HKDF derives it from: the direction and *)
(* the epoch.  A tag verifies iff the frame was sealed under the key the   *)
(* receiver picks and nothing in it changed on the way.  The replay window *)
(* is the set-based one of ReplaySet, which ReplayWindow implements.       *)
(***************************************************************************)
EXTENDS Integers, Sequences, FiniteSets, Functions

CONSTANTS
  Initiator, Responder,   \* the two ends
  Senders,                \* goroutines of each end that seal (REPL, ping, pong)
  rotationInterval,       \* frames sealed between rotations (1000)
  windowSize,             \* of the replay window (1024)
  EpochMod,               \* the epoch is a uint32: 2^32
  QueueCap,               \* capacity of conn.send (64)
  PipeCap,                \* bound: frames in conn.send and on the stream together
  MaxSeq,                 \* bound: MaxSeq[e] frames are sealed by end e
  MaxFaults,              \* bound: frames lost to a full queue, repeated or damaged, in all
  None                    \* nil

Ends == {Initiator, Responder}
Peer(e) == IF e = Initiator THEN Responder ELSE Initiator

ASSUME SessionAssumption ==
  /\ Initiator # Responder
  /\ DOMAIN Senders = Ends
  /\ rotationInterval \in Nat \ {0}
  /\ windowSize \in Nat \ {0}
  /\ EpochMod \in Nat /\ EpochMod >= 3
  /\ QueueCap \in Nat \ {0}
  /\ PipeCap \in Nat /\ QueueCap <= PipeCap
  /\ MaxSeq \in [Ends -> Nat]
  /\ MaxFaults \in Nat
  /\ None \notin [from : Ends, epoch : Nat]

VARIABLES
  epoch,      \* Session.epoch of each end
  sendSeq,    \* Session.sendSeq
  send,       \* key of Session.send
  recv,       \* key of Session.recv
  recvOld,    \* key of Session.recvOld, or None
  closed,     \* Session.closed
  sealed,     \* sealed[e][g]: the frame g has sealed and not yet offered
  pipe,       \* pipe[e]: frames of e in its send queue or on the stream
  sent,       \* history: frames of e that entered the pipe
  delivered,  \* history: how often Open returned each number's frame
  drops,      \* frames of e lost to a full queue so far
  turns,      \* history: how often an end has installed an epoch, which does not wrap
  meddled     \* frames [replayed, damaged] on the path so far

vars == <<epoch, sendSeq, send, recv, recvOld, closed,
          sealed, pipe, sent, delivered, drops, turns, meddled>>

Seqs == UNION {0 .. MaxSeq[e] - 1 : e \in Ends}
Epochs == 0 .. EpochMod - 1
Key(from, n) == [from |-> from, epoch |-> n]
Faults == drops[Initiator] + drops[Responder] + meddled.replayed + meddled.damaged

-----------------------------------------------------------------------------
(* The session's own operations. *)

\* newSession: both ends install epoch 0.
Init ==
  /\ epoch = [e \in Ends |-> 0]
  /\ sendSeq = [e \in Ends |-> 0]
  /\ send = [e \in Ends |-> Key(e, 0)]
  /\ recv = [e \in Ends |-> Key(Peer(e), 0)]
  /\ recvOld = [e \in Ends |-> None]
  /\ closed = [e \in Ends |-> FALSE]
  /\ sealed = [e \in Ends |-> [g \in Senders[e] |-> None]]
  /\ pipe = [e \in Ends |-> <<>>]
  /\ sent = [e \in Ends |-> {}]
  /\ delivered = [e \in Ends |-> [s \in Seqs |-> 0]]
  /\ drops = [e \in Ends |-> 0]
  /\ turns = [e \in Ends |-> 0]
  /\ meddled = [replayed |-> 0, damaged |-> 0]

Succ(n) == (n + 1) % EpochMod

\* Mutation: the previous receive chain is saved after it was replaced.
installEpochSavesNew(e, n) ==
  /\ epoch' = [epoch EXCEPT ![e] = n]
  /\ turns' = [turns EXCEPT ![e] = @ + 1]
  /\ send' = [send EXCEPT ![e] = Key(e, n)]
  /\ recv' = [recv EXCEPT ![e] = Key(Peer(e), n)]
  /\ recvOld' = [recvOld EXCEPT ![e] = Key(Peer(e), n)]

installEpochLocked(e, n) ==
  /\ epoch' = [epoch EXCEPT ![e] = n]
  /\ turns' = [turns EXCEPT ![e] = @ + 1]
  /\ send' = [send EXCEPT ![e] = Key(e, n)]
  /\ recv' = [recv EXCEPT ![e] = Key(Peer(e), n)]
  /\ recvOld' = [recvOld EXCEPT ![e] = recv[e]]

MustRotate(e) == sendSeq[e] > 0 /\ sendSeq[e] % rotationInterval = 0

\* Seal, called by goroutine g of end e.  The frame is in g's hands only.
Seal(e, g) ==
  /\ ~closed[e]
  /\ sealed[e][g] = None
  /\ sendSeq[e] < MaxSeq[e]
  /\ IF MustRotate(e) THEN installEpochLocked(e, Succ(epoch[e]))
                      ELSE UNCHANGED <<epoch, send, recv, recvOld, turns>>
  /\ sealed' = [sealed EXCEPT ![e][g] =
       [seq |-> sendSeq[e], epoch |-> epoch'[e], turn |-> turns'[e], key |-> send'[e], intact |-> TRUE]]
  /\ sendSeq' = [sendSeq EXCEPT ![e] = @ + 1]
  /\ UNCHANGED <<closed, pipe, sent, delivered, drops, meddled>>

\* Mutation: the previous epoch is no longer kept.
ChainForNoPrevious(e, n) ==
  CASE n = epoch[e] -> recv[e]
    [] n = Succ(epoch[e]) -> Key(Peer(e), n)
    [] OTHER -> None

\* chainForEpochLocked: the epoch to install before opening, if any, and the
\* key to open with; None when the epoch is refused (ErrBadEpoch).
ChainFor(e, n) ==
  CASE n = epoch[e] -> recv[e]
    [] n = Succ(epoch[e]) -> Key(Peer(e), n)
    [] Succ(n) = epoch[e] -> recvOld[e]
    [] OTHER -> None

SeenBy(e) == {s \in Seqs : delivered[e][s] > 0}

\* replayWindow.check, as specified by ReplaySet.
Window(e) == INSTANCE ReplaySet WITH accepted <- SeenBy(e), last <- None

Authentic(e, f) == f.intact /\ ChainFor(e, f.epoch) = f.key

\* Mutations: no replay window; a peer's rotation is opened but not followed.
OpenNoWindow(e) ==
  /\ ~closed[e]
  /\ pipe[Peer(e)] # <<>>
  /\ LET f == Head(pipe[Peer(e)]) IN
     /\ pipe' = [pipe EXCEPT ![Peer(e)] = Tail(@)]
     /\ IF f.epoch = Succ(epoch[e]) THEN installEpochLocked(e, f.epoch)
                                    ELSE UNCHANGED <<epoch, send, recv, recvOld, turns>>
     /\ delivered' = IF Authentic(e, f) THEN [delivered EXCEPT ![e][f.seq] = @ + 1]
                                        ELSE delivered
  /\ UNCHANGED <<sendSeq, closed, sealed, sent, drops, meddled>>

\* Open, called by the read loop of end e on the next frame of the stream.
\* The epoch rolls forward before the tag is looked at.
Open(e) ==
  /\ ~closed[e]
  /\ pipe[Peer(e)] # <<>>
  /\ LET f == Head(pipe[Peer(e)]) IN
     /\ pipe' = [pipe EXCEPT ![Peer(e)] = Tail(@)]
     /\ IF f.epoch = Succ(epoch[e]) THEN installEpochLocked(e, f.epoch)
                                    ELSE UNCHANGED <<epoch, send, recv, recvOld, turns>>
     /\ delivered' = IF Authentic(e, f) /\ Window(e)!Fresh(f.seq)
                       THEN [delivered EXCEPT ![e][f.seq] = @ + 1]
                       ELSE delivered
  /\ UNCHANGED <<sendSeq, closed, sealed, sent, drops, meddled>>

\* Close destroys the keys; Seal and Open fail from then on.
Close(e) ==
  /\ ~closed[e]
  /\ closed' = [closed EXCEPT ![e] = TRUE]
  /\ send' = [send EXCEPT ![e] = None]
  /\ recv' = [recv EXCEPT ![e] = None]
  /\ recvOld' = [recvOld EXCEPT ![e] = None]
  /\ UNCHANGED <<epoch, sendSeq, sealed, pipe, sent, delivered, drops, turns, meddled>>

-----------------------------------------------------------------------------
(* The path between the ends. *)

\* The non-blocking send on conn.send that follows Seal in enqueue, Send and
\* Broadcast.  Nothing orders it after the Seal of an earlier number.
Enqueue(e, g) ==
  /\ sealed[e][g] # None
  /\ Len(pipe[e]) < PipeCap
  /\ pipe' = [pipe EXCEPT ![e] = Append(@, sealed[e][g])]
  /\ sent' = [sent EXCEPT ![e] = @ \cup {sealed[e][g]}]
  /\ sealed' = [sealed EXCEPT ![e][g] = None]
  /\ UNCHANGED <<epoch, sendSeq, send, recv, recvOld, closed, delivered, drops, turns, meddled>>

\* The default branch of that select: "send queue full".  The frame is lost
\* and its sequence number, and the rotation it may have made, are spent.
QueueFull(e, g) ==
  /\ sealed[e][g] # None
  /\ Len(pipe[e]) >= QueueCap
  /\ Faults < MaxFaults
  /\ drops' = [drops EXCEPT ![e] = @ + 1]
  /\ sealed' = [sealed EXCEPT ![e][g] = None]
  /\ UNCHANGED <<epoch, sendSeq, send, recv, recvOld, closed, pipe, sent, delivered, turns, meddled>>

\* The <-c.done branch: the connection was closed after the frame was sealed.
ConnClosed(e, g) ==
  /\ closed[e]
  /\ sealed[e][g] # None
  /\ sealed' = [sealed EXCEPT ![e][g] = None]
  /\ UNCHANGED <<epoch, sendSeq, send, recv, recvOld, closed, pipe, sent, delivered, drops, turns, meddled>>

\* The path repeats a frame that it carried before.
Replay(e) ==
  /\ Faults < MaxFaults
  /\ Len(pipe[e]) < PipeCap
  /\ \E f \in sent[e] : pipe' = [pipe EXCEPT ![e] = Append(@, f)]
  /\ meddled' = [meddled EXCEPT !.replayed = @ + 1]
  /\ UNCHANGED <<epoch, sendSeq, send, recv, recvOld, closed, sealed, sent, delivered, drops, turns>>

\* The path damages the epoch field of the next frame; its tag will not verify.
Damage(e) ==
  /\ Faults < MaxFaults
  /\ pipe[e] # <<>>
  /\ \E n \in Epochs :
       pipe' = [pipe EXCEPT ![e][1].epoch = n, ![e][1].intact = FALSE]
  /\ meddled' = [meddled EXCEPT !.damaged = @ + 1]
  /\ UNCHANGED <<epoch, sendSeq, send, recv, recvOld, closed, sealed, sent, delivered, drops, turns>>

Next ==
  \E e \in Ends :
    \/ \E g \in Senders[e] : Seal(e, g) \/ Enqueue(e, g) \/ QueueFull(e, g) \/ ConnClosed(e, g)
    \/ Open(e)
    \/ Close(e)
    \/ Replay(e)
    \/ Damage(e)

Spec == Init /\ [][Next]_vars

-----------------------------------------------------------------------------
\* Every frame that e has sealed and its peer has not yet opened.
Underway(e) ==
  ({sealed[e][g] : g \in Senders[e]} \ {None}) \cup Range(pipe[e])

\* The key by which a receiver opens a frame it admits is the key the sender
\* sealed it with: no undamaged frame is ever rejected by its tag (ErrAuth),
\* whichever end rotated, whatever order the goroutines offered frames in.
AdmittedMeansSameKey ==
  \A e \in Ends : \A f \in Underway(e) :
    (f.intact /\ ~closed[Peer(e)]) => ChainFor(Peer(e), f.epoch) \in {f.key, None}

\* A frame is handed to the application at most once, even when the path
\* repeats frames and even when a repeat arrives after a rotation.
DeliveredAtMostOnce ==
  \A e \in Ends : \A s \in Seqs : delivered[e][s] <= 1

\* "rotation stays in sync without any extra messages" (epochSeed), as far as
\* the code can keep it: a frame that is still within the replay window, also one
\* that later frames overtook, is accepted; unless its receiver is without
\* rotationInterval of the frames before it, or is two epochs ahead of it (by its
\* own sending, or because it followed frames that overtook this one), or the
\* path has meddled.
NextFrameAccepted ==
  \A e \in Ends :
    (pipe[e] # <<>> /\ ~closed[Peer(e)] /\ meddled.replayed + meddled.damaged = 0) =>
      LET f == Head(pipe[e])
          seen == SeenBy(Peer(e)) IN
      ( /\ \A s \in seen : s < f.seq + windowSize
        /\ Cardinality((0 .. f.seq - 1) \ seen) < rotationInterval
        /\ turns[Peer(e)] < f.turn + 2 ) =>
        Authentic(Peer(e), f) /\ Window(Peer(e))!Fresh(f.seq)
==============================================================================
