--------------------------- MODULE SessionProofs ---------------------------
(***************************************************************************)
(* The keys of the two ends, for every rotation interval, window, number   *)
(* of goroutines and modulus of the epoch.                                 *)
(*                                                                         *)
(* AdmittedMeansSameKey is not inductive: it speaks of the frames that are *)
(* underway and not of the chains.  The invariant says what the chains are *)
(* (the current epoch's, and that of the one before or none), and that a   *)
(* frame whose tag is intact carries the epoch of the key it was sealed    *)
(* with, also in the copies the path keeps.                                *)
(***************************************************************************)
EXTENDS Session, SequenceTheorems, FiniteSetTheorems, TLAPS

Frames(e) ==
  {f \in [seq : Nat, epoch : Epochs, turn : Nat, key : [from : Ends, epoch : Epochs], intact : BOOLEAN] :
     f.intact => f.key = Key(e, f.epoch)}

\* Frames, wherever they are, carry the epoch of their key.
Types ==
  /\ epoch \in [Ends -> Epochs]
  /\ sendSeq \in [Ends -> Nat] /\ turns \in [Ends -> Nat]
  /\ closed \in [Ends -> BOOLEAN]
  /\ send = [e \in Ends |-> send[e]] /\ recv = [e \in Ends |-> recv[e]] /\ recvOld = [e \in Ends |-> recvOld[e]]
  /\ sealed = [e \in Ends |-> sealed[e]]
  /\ pipe = [e \in Ends |-> pipe[e]]
  /\ sent = [e \in Ends |-> sent[e]]
  /\ delivered \in [Ends -> [Seqs -> Nat]]

FramesMatch ==
  \A e \in Ends : /\ sealed[e] \in [Senders[e] -> Frames(e) \cup {None}]
                  /\ pipe[e] \in Seq(Frames(e))
                  /\ sent[e] \in SUBSET Frames(e)

\* An open session's chains are those of its epoch, and of the one before it.
KeysMatch ==
  \A e \in Ends : ~closed[e] =>
     /\ send[e] = Key(e, epoch[e])
     /\ recv[e] = Key(Peer(e), epoch[e])
     /\ recvOld[e] # None => \E n \in Epochs : Succ(n) = epoch[e] /\ recvOld[e] = Key(Peer(e), n)

IInv == Types /\ FramesMatch /\ KeysMatch /\ DeliveredAtMostOnce

\* The epoch is counted modulo EpochMod, so it has one predecessor.
LEMMA Successor ==
  /\ \A n \in Epochs : Succ(n) \in Epochs
  /\ \A m, n \in Epochs : Succ(m) = Succ(n) => m = n
<1>1. \A n \in Epochs : Succ(n) = IF n + 1 = EpochMod THEN 0 ELSE n + 1
  <2> SUFFICES ASSUME NEW n \in Epochs
               PROVE  (n + 1) % EpochMod = IF n + 1 = EpochMod THEN 0 ELSE n + 1
    BY Zenon DEF Succ
  <2>1. EpochMod \in Nat /\ EpochMod > 0 /\ n \in Nat /\ n + 1 <= EpochMod
    BY SessionAssumption DEF Epochs
  <2> QED
    BY <2>1
<1> QED
  BY <1>1, SessionAssumption DEF Epochs

\* The peer of the peer.
LEMMA Peers ==
  \A e \in Ends : Peer(e) \in Ends /\ Peer(e) # e /\ Peer(Peer(e)) = e
BY SessionAssumption DEF Ends, Peer

\* Installing the next epoch keeps the chains right.
LEMMA InstallKeeps ==
  ASSUME Types, KeysMatch, NEW e \in Ends, ~closed[e], UNCHANGED closed,
         \/ installEpochLocked(e, Succ(epoch[e]))
         \/ UNCHANGED <<epoch, send, recv, recvOld, turns>>
  PROVE  /\ KeysMatch'
         /\ epoch' \in [Ends -> Epochs] /\ turns' \in [Ends -> Nat]
         /\ send' = [x \in Ends |-> send'[x]] /\ recv' = [x \in Ends |-> recv'[x]]
         /\ recvOld' = [x \in Ends |-> recvOld'[x]]
         /\ send'[e] = Key(e, epoch'[e])
<1>1. CASE UNCHANGED <<epoch, send, recv, recvOld, turns>>
  BY Zenon, <1>1 DEF Types, KeysMatch
<1>2. CASE installEpochLocked(e, Succ(epoch[e]))
  <2> DEFINE n == Succ(epoch[e])
  <2>1. epoch[e] \in Epochs /\ n \in Epochs
    BY Zenon, Successor DEF Types
  <2>2. /\ epoch'[e] = n /\ send'[e] = Key(e, n) /\ recv'[e] = Key(Peer(e), n)
        /\ recvOld'[e] = recv[e] /\ recv[e] = Key(Peer(e), epoch[e])
    BY Zenon, <1>2 DEF installEpochLocked, Types, KeysMatch
  <2>3. \A x \in Ends \ {e} : /\ epoch'[x] = epoch[x] /\ send'[x] = send[x]
                              /\ recv'[x] = recv[x] /\ recvOld'[x] = recvOld[x]
    BY Zenon, <1>2 DEF installEpochLocked, Types
  <2>4. /\ epoch' \in [Ends -> Epochs]
        /\ send' = [x \in Ends |-> send'[x]] /\ recv' = [x \in Ends |-> recv'[x]]
        /\ recvOld' = [x \in Ends |-> recvOld'[x]]
    BY Zenon, <1>2, <2>1 DEF installEpochLocked, Types
  <2>t. turns' \in [Ends -> Nat]
    BY <1>2 DEF installEpochLocked, Types
  <2>5. ASSUME NEW x \in Ends, ~closed[x]
        PROVE  /\ send'[x] = Key(x, epoch'[x])
               /\ recv'[x] = Key(Peer(x), epoch'[x])
               /\ recvOld'[x] # None => \E m \in Epochs : Succ(m) = epoch'[x] /\ recvOld'[x] = Key(Peer(x), m)
    <3>1. CASE x = e
      BY Zenon, <2>1, <2>2, <3>1
    <3>2. CASE x # e
      BY Zenon, <2>3, <2>5, <3>2 DEF KeysMatch
    <3> QED
      BY Zenon, <3>1, <3>2
  <2>6. KeysMatch'
    BY Zenon, <2>5 DEF KeysMatch
  <2> QED
    BY Zenon, <2>2, <2>4, <2>6, <2>t
<1> QED
  BY Zenon, <1>1, <1>2

\* The initial state.
LEMMA Initially == Init => IInv
<1> SUFFICES ASSUME Init PROVE IInv
  BY Zenon
<1>1. 0 \in Epochs
  BY SessionAssumption DEF Epochs
<1>2. Types
  BY Zenon, <1>1 DEF Init, Types
<1>3. FramesMatch
  <2>1. \A e \in Ends : sealed[e] = [g \in Senders[e] |-> None] /\ pipe[e] = <<>> /\ sent[e] = {}
    BY Zenon DEF Init
  <2>2. \A e \in Ends : <<>> \in Seq(Frames(e))
    OBVIOUS
  <2>3. \A e \in Ends : [g \in Senders[e] |-> None] \in [Senders[e] -> Frames(e) \cup {None}]
    BY Zenon
  <2> QED
    BY <2>1, <2>2, <2>3, Zenon DEF FramesMatch
<1>4. KeysMatch
  BY Zenon DEF Init, KeysMatch
<1>5. DeliveredAtMostOnce
  BY DEF Init, DeliveredAtMostOnce
<1> QED
  BY Zenon, <1>2, <1>3, <1>4, <1>5 DEF IInv

\* Seal: the frame gets the key and the number of the epoch it leaves installed.
LEMMA SealStep ==
  ASSUME IInv, NEW e \in Ends, NEW g \in Senders[e], Seal(e, g)
  PROVE  IInv'
<1>0. Types /\ FramesMatch /\ KeysMatch /\ DeliveredAtMostOnce
  BY Zenon DEF IInv
<1>1. /\ KeysMatch'
      /\ epoch' \in [Ends -> Epochs] /\ turns' \in [Ends -> Nat]
      /\ send' = [x \in Ends |-> send'[x]] /\ recv' = [x \in Ends |-> recv'[x]]
      /\ recvOld' = [x \in Ends |-> recvOld'[x]]
      /\ send'[e] = Key(e, epoch'[e])
  <2>1. ~closed[e] /\ UNCHANGED closed
        /\ (installEpochLocked(e, Succ(epoch[e])) \/ UNCHANGED <<epoch, send, recv, recvOld, turns>>)
    BY Zenon DEF Seal
  <2> QED
    BY Zenon, <1>0, <2>1, InstallKeeps
<1> DEFINE f == [seq |-> sendSeq[e], epoch |-> epoch'[e], turn |-> turns'[e], key |-> send'[e], intact |-> TRUE]
<1>2. f \in Frames(e)
  BY <1>0, <1>1 DEF Frames, Types, Key
<1>3. sealed' = [sealed EXCEPT ![e][g] = f] /\ UNCHANGED <<closed, pipe, sent, delivered>>
      /\ sendSeq' = [sendSeq EXCEPT ![e] = @ + 1]
  BY Zenon DEF Seal
<1> HIDE DEF f
<1>4. sealed' = [x \in Ends |-> sealed'[x]] /\ sendSeq' \in [Ends -> Nat]
  <2>1. sealed' = [x \in Ends |-> sealed'[x]]
    BY Zenon, <1>0, <1>3 DEF Types
  <2>2. sendSeq \in [Ends -> Nat] /\ sendSeq' = [sendSeq EXCEPT ![e] = @ + 1]
    BY Zenon, <1>0, <1>3 DEF Types
  <2>3. sendSeq' \in [Ends -> Nat]
    BY <2>2
  <2> QED
    BY Zenon, <2>1, <2>3
<1>5. Types'
  BY Zenon, <1>0, <1>1, <1>3, <1>4 DEF Types
<1>6. \A x \in Ends : sealed'[x] \in [Senders[x] -> Frames(x) \cup {None}]
  BY Zenon, <1>0, <1>2, <1>3 DEF Types, FramesMatch
<1>7. FramesMatch'
  BY Zenon, <1>0, <1>3, <1>6 DEF FramesMatch
<1>8. DeliveredAtMostOnce'
  BY Zenon, <1>0, <1>3 DEF DeliveredAtMostOnce
<1> QED
  BY Zenon, <1>1, <1>5, <1>7, <1>8 DEF IInv

\* Open: the stream loses its head, and a fresh number is counted for the first time.
LEMMA OpenStep ==
  ASSUME IInv, NEW e \in Ends, Open(e)
  PROVE  IInv'
<1>0. Types /\ FramesMatch /\ KeysMatch /\ DeliveredAtMostOnce
  BY Zenon DEF IInv
<1> DEFINE p == Peer(e)
           f == Head(pipe[p])
<1>1. p \in Ends /\ pipe[p] \in Seq(Frames(p)) /\ pipe[p] # <<>>
  BY Zenon, <1>0, Peers DEF FramesMatch, Open
<1>2. f \in Frames(p) /\ Tail(pipe[p]) \in Seq(Frames(p))
  BY Zenon, <1>1, HeadTailProperties
<1>3. /\ ~closed[e] /\ UNCHANGED <<sendSeq, closed, sealed, sent>>
      /\ pipe' = [pipe EXCEPT ![p] = Tail(@)]
      /\ installEpochLocked(e, Succ(epoch[e])) \/ UNCHANGED <<epoch, send, recv, recvOld, turns>>
      /\ delivered' = delivered
         \/ (delivered' = [delivered EXCEPT ![e][f.seq] = @ + 1] /\ Window(e)!Fresh(f.seq))
  BY Zenon DEF Open
<1>4. /\ KeysMatch'
      /\ epoch' \in [Ends -> Epochs] /\ turns' \in [Ends -> Nat]
      /\ send' = [x \in Ends |-> send'[x]] /\ recv' = [x \in Ends |-> recv'[x]]
      /\ recvOld' = [x \in Ends |-> recvOld'[x]]
  BY Zenon, <1>0, <1>3, InstallKeeps
<1>5. pipe' = [x \in Ends |-> pipe'[x]] /\ \A x \in Ends : pipe'[x] \in Seq(Frames(x))
  BY Zenon, <1>0, <1>1, <1>2, <1>3 DEF Types, FramesMatch
<1>6. delivered' \in [Ends -> [Seqs -> Nat]] /\ DeliveredAtMostOnce'
  <2>1. CASE delivered' = delivered
    BY Zenon, <1>0, <2>1 DEF Types, DeliveredAtMostOnce
  <2>2. CASE delivered' = [delivered EXCEPT ![e][f.seq] = @ + 1] /\ Window(e)!Fresh(f.seq)
    <3>1. f.seq \notin SeenBy(e)
      BY Zenon, <2>2 DEF Window!Fresh
    <3> HIDE DEF f
    <3>2. f.seq \in Seqs => delivered[e][f.seq] = 0
      BY <1>0, <3>1 DEF Types, SeenBy
    <3>3. delivered' \in [Ends -> [Seqs -> Nat]]
      <4>1. delivered \in [Ends -> [Seqs -> Nat]] /\ delivered[e] \in [Seqs -> Nat]
        BY Zenon, <1>0 DEF Types
      <4> DEFINE d == [delivered[e] EXCEPT ![f.seq] = @ + 1]
      <4>2. d \in [Seqs -> Nat]
        <5>1. d = [s \in Seqs |-> IF s = f.seq THEN delivered[e][s] + 1 ELSE delivered[e][s]]
          BY Zenon, <4>1
        <5>2. \A s \in Seqs : delivered[e][s] \in Nat /\ delivered[e][s] + 1 \in Nat
          BY <4>1
        <5> QED
          BY Zenon, <5>1, <5>2
      <4> QED
        BY Zenon, <2>2, <4>1, <4>2
    <3>4. ASSUME NEW x \in Ends, NEW s \in Seqs
          PROVE  delivered'[x][s] <= 1
      <4>1. CASE x = e /\ s = f.seq
        <5>1. delivered[e][s] = 0 /\ delivered'[x][s] = delivered[e][s] + 1
          BY Zenon, <1>0, <2>2, <3>2, <4>1 DEF Types
        <5> QED
          BY <5>1
      <4>2. CASE ~(x = e /\ s = f.seq)
        <5>1. delivered'[x][s] = delivered[x][s]
          BY Zenon, <1>0, <2>2, <4>2 DEF Types
        <5> QED
          BY Zenon, <1>0, <5>1 DEF DeliveredAtMostOnce
      <4> QED
        BY Zenon, <4>1, <4>2
    <3> QED
      BY Zenon, <3>3, <3>4 DEF DeliveredAtMostOnce
  <2> QED
    BY Zenon, <1>3, <2>1, <2>2
<1>7. Types'
  BY Zenon, <1>0, <1>3, <1>4, <1>5, <1>6 DEF Types
<1>8. FramesMatch'
  BY Zenon, <1>0, <1>3, <1>5 DEF FramesMatch
<1> QED
  BY Zenon, <1>4, <1>6, <1>7, <1>8 DEF IInv

\* A step of the path or of a goroutine with its frame: no chain changes.
LEMMA PathKeeps ==
  ASSUME IInv, UNCHANGED <<epoch, sendSeq, send, recv, recvOld, closed, delivered, turns>>,
         sealed' = [x \in Ends |-> sealed'[x]], pipe' = [x \in Ends |-> pipe'[x]],
         sent' = [x \in Ends |-> sent'[x]], FramesMatch'
  PROVE  IInv'
<1>1. Types' /\ KeysMatch' /\ DeliveredAtMostOnce'
  BY Zenon DEF IInv, Types, KeysMatch, DeliveredAtMostOnce
<1> QED
  BY Zenon, <1>1 DEF IInv

\* Enqueue, a full queue or a closed connection: the goroutine's frame moves on.
LEMMA OfferStep ==
  ASSUME IInv, NEW e \in Ends, NEW g \in Senders[e], Enqueue(e, g) \/ QueueFull(e, g) \/ ConnClosed(e, g)
  PROVE  IInv'
<1>0. Types /\ FramesMatch
  BY Zenon DEF IInv
<1>1. /\ UNCHANGED <<epoch, sendSeq, send, recv, recvOld, closed, delivered, turns>>
      /\ sealed[e][g] # None /\ sealed' = [sealed EXCEPT ![e][g] = None]
      /\ \/ UNCHANGED <<pipe, sent>>
         \/ /\ pipe' = [pipe EXCEPT ![e] = Append(@, sealed[e][g])]
            /\ sent' = [sent EXCEPT ![e] = @ \cup {sealed[e][g]}]
  BY Zenon DEF Enqueue, QueueFull, ConnClosed
<1> DEFINE f == sealed[e][g]
<1>2. f \in Frames(e) /\ Append(pipe[e], f) \in Seq(Frames(e))
  <2>1. f \in Frames(e) /\ pipe[e] \in Seq(Frames(e))
    BY Zenon, <1>0, <1>1 DEF FramesMatch
  <2> QED
    BY Zenon, <2>1, AppendProperties
<1>3. sealed' = [x \in Ends |-> sealed'[x]] /\ pipe' = [x \in Ends |-> pipe'[x]]
      /\ sent' = [x \in Ends |-> sent'[x]]
  BY Zenon, <1>0, <1>1 DEF Types
<1>4. \A x \in Ends : sealed'[x] \in [Senders[x] -> Frames(x) \cup {None}]
  BY Zenon, <1>0, <1>1 DEF Types, FramesMatch
<1>5. \A x \in Ends : pipe'[x] \in Seq(Frames(x)) /\ sent'[x] \in SUBSET Frames(x)
  <2>1. CASE UNCHANGED <<pipe, sent>>
    BY Zenon, <1>0, <2>1 DEF FramesMatch
  <2>2. CASE /\ pipe' = [pipe EXCEPT ![e] = Append(@, f)]
             /\ sent' = [sent EXCEPT ![e] = @ \cup {f}]
    <3> HIDE DEF f
    <3> QED
      BY Zenon, <1>0, <1>2, <2>2 DEF Types, FramesMatch
  <2> QED
    BY Zenon, <1>1, <2>1, <2>2
<1>6. FramesMatch'
  BY Zenon, <1>4, <1>5 DEF FramesMatch
<1> QED
  BY Zenon, <1>1, <1>3, <1>6, PathKeeps

\* The path repeats a frame it has carried.
LEMMA ReplayStep ==
  ASSUME IInv, NEW e \in Ends, Replay(e)
  PROVE  IInv'
<1>0. Types /\ FramesMatch
  BY Zenon DEF IInv
<1>1. PICK f \in sent[e] : pipe' = [pipe EXCEPT ![e] = Append(@, f)]
  BY Zenon DEF Replay
<1>2. UNCHANGED <<epoch, sendSeq, send, recv, recvOld, closed, sealed, sent, delivered, turns>>
  BY Zenon DEF Replay
<1>3. f \in Frames(e) /\ pipe[e] \in Seq(Frames(e))
  BY Zenon, <1>0 DEF FramesMatch
<1>4. Append(pipe[e], f) \in Seq(Frames(e))
  BY Zenon, <1>3, AppendProperties
<1>5. pipe' = [x \in Ends |-> pipe'[x]] /\ \A x \in Ends : pipe'[x] \in Seq(Frames(x))
  BY Zenon, <1>0, <1>1, <1>4 DEF Types, FramesMatch
<1>6. FramesMatch'
  BY Zenon, <1>0, <1>2, <1>5 DEF FramesMatch
<1>7. sealed' = [x \in Ends |-> sealed'[x]] /\ sent' = [x \in Ends |-> sent'[x]]
  BY Zenon, <1>0, <1>2 DEF Types
<1> QED
  BY Zenon, <1>2, <1>5, <1>6, <1>7, PathKeeps

\* The path changes a frame, whose tag is then no longer intact.
LEMMA DamageStep ==
  ASSUME IInv, NEW e \in Ends, Damage(e)
  PROVE  IInv'
<1>0. Types /\ FramesMatch
  BY DEF IInv
<1>1. PICK n \in Epochs : pipe' = [pipe EXCEPT ![e][1].epoch = n, ![e][1].intact = FALSE]
  BY Zenon DEF Damage
<1>2. UNCHANGED <<epoch, sendSeq, send, recv, recvOld, closed, sealed, sent, delivered, turns>>
      /\ pipe[e] # <<>>
  BY Zenon DEF Damage
<1> DEFINE q == pipe[e]
           f == [q[1] EXCEPT !.epoch = n, !.intact = FALSE]
<1>3. q \in Seq(Frames(e)) /\ 1 \in 1 .. Len(q) /\ q[1] \in Frames(e)
  <2>1. q \in Seq(Frames(e)) /\ q # <<>>
    BY Zenon, <1>0, <1>2 DEF FramesMatch
  <2>2. Len(q) \in Nat /\ Len(q) # 0
    BY Zenon, <2>1, EmptySeq, LenProperties
  <2> QED
    BY <2>1, <2>2, ElementOfSeq
<1>4. f \in Frames(e)
  BY Zenon, <1>3 DEF Frames
<1>5. [q EXCEPT ![1] = f] \in Seq(Frames(e))
  BY <1>3, <1>4, ExceptSeq
<1>6. pipe' = [pipe EXCEPT ![e] = [q EXCEPT ![1] = f]]
  BY ZenonT(60), <1>0, <1>1, <1>3 DEF Types
<1>7. pipe' = [x \in Ends |-> pipe'[x]] /\ \A x \in Ends : pipe'[x] \in Seq(Frames(x))
  <2> HIDE DEF f
  <2> QED
    BY Zenon, <1>0, <1>5, <1>6 DEF Types, FramesMatch
<1>8. FramesMatch'
  BY Zenon, <1>0, <1>2, <1>7 DEF FramesMatch
<1>9. sealed' = [x \in Ends |-> sealed'[x]] /\ sent' = [x \in Ends |-> sent'[x]]
  BY Zenon, <1>0, <1>2 DEF Types
<1> QED
  BY Zenon, <1>2, <1>7, <1>8, <1>9, PathKeeps

\* Close: nothing is said of the chains of a closed session.
LEMMA CloseStep ==
  ASSUME IInv, NEW e \in Ends, Close(e)
  PROVE  IInv'
<1>0. Types /\ FramesMatch /\ KeysMatch /\ DeliveredAtMostOnce
  BY DEF IInv
<1>1. /\ closed' \in [Ends -> BOOLEAN] /\ closed'[e]
      /\ \A x \in Ends \ {e} : closed'[x] = closed[x] /\ send'[x] = send[x] /\ recv'[x] = recv[x]
                               /\ recvOld'[x] = recvOld[x]
      /\ send' = [x \in Ends |-> send'[x]] /\ recv' = [x \in Ends |-> recv'[x]]
      /\ recvOld' = [x \in Ends |-> recvOld'[x]]
      /\ UNCHANGED <<epoch, sendSeq, sealed, pipe, sent, delivered, turns>>
  BY Zenon, <1>0 DEF Close, Types
<1>2. Types' /\ FramesMatch' /\ DeliveredAtMostOnce'
  BY Zenon, <1>0, <1>1 DEF Types, FramesMatch, DeliveredAtMostOnce
<1>3. KeysMatch'
  BY <1>0, <1>1 DEF KeysMatch
<1> QED
  BY Zenon, <1>2, <1>3 DEF IInv

\* The invariant holds always.
LEMMA Invariance == Spec => []IInv
<1>1. IInv /\ [Next]_vars => IInv'
  <2> SUFFICES ASSUME IInv, [Next]_vars PROVE IInv'
    BY Zenon
  <2>1. CASE UNCHANGED vars
    BY Zenon, <2>1 DEF vars, IInv, Types, FramesMatch, KeysMatch, DeliveredAtMostOnce
  <2>2. CASE Next
    BY Zenon, <2>2, SealStep, OpenStep, OfferStep, ReplayStep, DamageStep, CloseStep DEF Next
  <2> QED
    BY Zenon, <2>1, <2>2
<1> QED
  BY <1>1, Initially, PTL DEF Spec

\* chainForEpochLocked never answers with a chain other than the one the frame
\* was sealed with: whichever end rotated and in whatever order the goroutines
\* offered their frames, an undamaged frame is opened with its own key or refused
\* for its epoch.
THEOREM AdmittedKeyIsTheSame == Spec => []AdmittedMeansSameKey
<1>1. IInv => AdmittedMeansSameKey
  <2> SUFFICES ASSUME IInv, NEW e \in Ends, NEW f \in Underway(e), f.intact, ~closed[Peer(e)]
               PROVE  ChainFor(Peer(e), f.epoch) \in {f.key, None}
    BY Zenon DEF AdmittedMeansSameKey
  <2>0. Types /\ FramesMatch /\ KeysMatch
    BY Zenon DEF IInv
  <2> DEFINE r == Peer(e)
  <2>1. f \in Frames(e)
    <3>1. CASE f \in {sealed[e][g] : g \in Senders[e]} \ {None}
      BY Zenon, <2>0, <3>1 DEF FramesMatch
    <3>2. CASE f \in Range(pipe[e])
      <4>1. pipe[e] \in Seq(Frames(e))
        BY Zenon, <2>0 DEF FramesMatch
      <4>2. PICK i \in DOMAIN pipe[e] : f = pipe[e][i]
        BY Zenon, <3>2 DEF Range
      <4> QED
        BY Zenon, <4>1, <4>2, ElementOfSeq, LenProperties
    <3> QED
      BY Zenon, <3>1, <3>2 DEF Underway
  <2>2. f.key = Key(e, f.epoch) /\ f.epoch \in Epochs
    BY Zenon, <2>1 DEF Frames
  <2>3. r \in Ends /\ Peer(r) = e /\ epoch[r] \in Epochs /\ recv[r] = Key(e, epoch[r])
        /\ (recvOld[r] # None => \E n \in Epochs : Succ(n) = epoch[r] /\ recvOld[r] = Key(e, n))
    BY Zenon, <2>0, Peers DEF KeysMatch, Types
  <2>4. Succ(f.epoch) = epoch[r] => recvOld[r] \in {f.key, None}
    BY Zenon, <2>2, <2>3, Successor
  <2> HIDE DEF r
  <2> QED
    BY Zenon, <2>2, <2>3, <2>4 DEF ChainFor, r
<1> QED
  BY <1>1, Invariance, PTL

\* Open hands every number to the application at most once, for any window and
\* whatever the path repeats.
THEOREM DeliveredOnce == Spec => []DeliveredAtMostOnce
<1>1. IInv => DeliveredAtMostOnce
  BY Zenon DEF IInv
<1> QED
  BY <1>1, Invariance, PTL

-----------------------------------------------------------------------------
(* Rotation stays in sync. *)

\* Fewer frames than would take the epoch half way around its modulus: with the
\* code's constants, 1000 * 2^31.
FewFrames ==
  MaxSeq[Initiator] + MaxSeq[Responder] <= (EpochMod \div 2) * rotationInterval

Calm == meddled.replayed + meddled.damaged = 0

\* How often an end rotates by itself while it seals its first n frames.
Turns(n) == IF n = 0 THEN 0 ELSE (n - 1) \div rotationInterval

\* The number of the first frame that e sealed in epoch n, provided that every
\* rotation of e from n on was its own.
Start(e, n) == (Turns(sendSeq[e]) - (epoch[e] - n)) * rotationInterval

\* The frames of e and what its peer has seen of them are of its past; the epoch
\* is not beyond the rotations of both, and has not wrapped.
Past(e) ==
  /\ sendSeq[e] <= MaxSeq[e] /\ turns[e] = epoch[e]
  /\ \A f \in Underway(e) : f.intact /\ f.seq < sendSeq[e] /\ f.epoch <= epoch[e] /\ f.turn = f.epoch
  /\ \A s \in SeenBy(Peer(e)) : s < sendSeq[e]
  /\ epoch[e] <= Turns(sendSeq[Initiator]) + Turns(sendSeq[Responder])

\* An end that is ahead of its peer got there by its own rotations, a whole
\* interval apart, and the peer has seen nothing from after the first of them.
Ahead(e) ==
  \A n \in epoch[Peer(e)] + 1 .. epoch[e] :
    /\ Start(e, n) >= 0
    /\ \A f \in Underway(e) : f.epoch >= n <=> f.seq >= Start(e, n)
    /\ \A s \in SeenBy(Peer(e)) : s < Start(e, n)

Sync ==
  /\ meddled \in [replayed : Nat, damaged : Nat]
  /\ \A e \in Ends : ~closed[e] /\ epoch[e] # 0 => recvOld[e] # None
  /\ Calm => \A e \in Ends : Past(e) /\ Ahead(e)

\* Division of numbers.
LEMMA DivMod ==
  ASSUME NEW r \in Nat \ {0}, NEW n \in Nat
  PROVE  n \div r \in Nat /\ n % r \in 0 .. r - 1 /\ n = ((n \div r) * r) + (n % r)
OBVIOUS

\* Multiples of r that are close to each other.
LEMMA CloseMultiples ==
  ASSUME NEW r \in Nat \ {0}, NEW k \in Int
  PROVE  /\ 1 <= k * r /\ k * r <= r => k = 1
         /\ -r < k * r /\ k * r < r => k = 0
<1>1. CASE k <= -1
  <2>1. (-1) - k \in Nat /\ ((-1) - k) * r \in Nat /\ k * r = -r - (((-1) - k) * r)
    BY <1>1
  <2> QED
    BY <2>1
<1>2. CASE k = 0 \/ k = 1
  <2>1. 0 * r = 0 /\ 1 * r = r
    OBVIOUS
  <2> QED
    BY <1>2, <2>1
<1>3. CASE k >= 2
  <2>1. k - 2 \in Nat /\ (k - 2) * r \in Nat /\ k * r = ((k - 2) * r) + (r + r)
    BY <1>3
  <2> QED
    BY <2>1
<1> QED
  BY <1>1, <1>2, <1>3

\* A product of numbers is a number, and grows with its first factor.
LEMMA Multiples ==
  ASSUME NEW r \in Nat \ {0}, NEW a \in Int, NEW b \in Int
  PROVE  /\ a * r \in Int /\ (a + b) * r = (a * r) + (b * r) /\ (a - b) * r = (a * r) - (b * r)
         /\ a <= b => a * r <= b * r
         /\ a * r <= b * r => a <= b
<1>1. a * r \in Int /\ (a + b) * r = (a * r) + (b * r) /\ (a - b) * r = (a * r) - (b * r)
  OBVIOUS
<1>2. \A c, d \in Int : c <= d => c * r <= d * r
  <2> SUFFICES ASSUME NEW c \in Int, NEW d \in Int, c <= d PROVE c * r <= d * r
    BY Zenon
  <2>1. d - c \in Nat /\ (d - c) * r \in Nat /\ d * r = (c * r) + ((d - c) * r) /\ c * r \in Int
    OBVIOUS
  <2> QED
    BY <2>1
<1>3. ASSUME b + 1 <= a PROVE ~(a * r <= b * r)
  <2>1. (b + 1) * r <= a * r /\ (b + 1) * r = (b * r) + r /\ a * r \in Int /\ b * r \in Int
    BY <1>2, <1>3
  <2> QED
    BY <2>1
<1> QED
  BY <1>1, <1>2, <1>3

\* MustRotate is where the number of rotations grows.
LEMMA TurnsGrow ==
  ASSUME NEW n \in Nat
  PROVE  /\ Turns(n) \in Nat /\ Turns(n) * rotationInterval <= n
         /\ n > 0 /\ n % rotationInterval = 0 =>
              Turns(n + 1) = Turns(n) + 1 /\ Turns(n + 1) * rotationInterval = n
         /\ ~(n > 0 /\ n % rotationInterval = 0) => Turns(n + 1) = Turns(n)
<1> DEFINE R == rotationInterval
<1>0. R \in Nat \ {0}
  BY Zenon, SessionAssumption
<1>1. CASE n = 0
  <2>1. 0 \div R = 0 /\ 0 * R = 0
    BY <1>0
  <2> QED
    BY <1>1, <2>1 DEF Turns
<1>2. CASE n > 0
  <2> DEFINE q1 == (n - 1) \div R
             m1 == (n - 1) % R
             q2 == n \div R
             m2 == n % R
  <2>1. /\ q1 \in Nat /\ m1 \in 0 .. R - 1 /\ n - 1 = (q1 * R) + m1
        /\ q2 \in Nat /\ m2 \in 0 .. R - 1 /\ n = (q2 * R) + m2
    <3>1. n - 1 \in Nat
      BY <1>2
    <3> QED
      BY Zenon, <1>0, <3>1, DivMod
  <2>2. Turns(n) = q1 /\ Turns(n + 1) = q2
    BY <1>2 DEF Turns
  <2> HIDE DEF q1, q2, m1, m2, R
  <2>3. q1 * R \in Int /\ q2 * R \in Int /\ (q2 - q1) * R = (q2 * R) - (q1 * R)
    BY <1>0, <2>1, Multiples
  <2>4. (q2 - q1) * R = 1 + m1 - m2
    BY <2>1, <2>3
  <2>5. CASE m2 = 0
    <3>1. q2 - q1 = 1
      BY <1>0, <2>1, <2>4, <2>5, CloseMultiples
    <3> QED
      BY <1>0, <1>2, <2>1, <2>2, <2>3, <2>5, <3>1 DEF m2, R
  <2>6. CASE m2 # 0
    <3>1. q2 - q1 = 0
      BY <1>0, <2>1, <2>4, <2>6, CloseMultiples
    <3> QED
      BY <1>0, <1>2, <2>1, <2>2, <2>3, <2>6, <3>1 DEF m2, R
  <2> QED
    BY Zenon, <2>5, <2>6
<1> QED
  BY <1>1, <1>2

\* A frame that is underway is a frame.
LEMMA UnderwayFrames ==
  ASSUME FramesMatch, NEW e \in Ends, NEW f \in Underway(e)
  PROVE  f \in Frames(e) /\ f.seq \in Nat /\ f.epoch \in Epochs
<1>1. f \in Frames(e)
  <2>1. CASE f \in {sealed[e][g] : g \in Senders[e]} \ {None}
    BY Zenon, <2>1 DEF FramesMatch
  <2>2. CASE f \in Range(pipe[e])
    <3>1. pipe[e] \in Seq(Frames(e))
      BY Zenon DEF FramesMatch
    <3>2. PICK i \in DOMAIN pipe[e] : f = pipe[e][i]
      BY Zenon, <2>2 DEF Range
    <3> QED
      BY Zenon, <3>1, <3>2, ElementOfSeq, LenProperties
  <2> QED
    BY Zenon, <2>1, <2>2 DEF Underway
<1> QED
  BY Zenon, <1>1 DEF Frames

\* With few frames the epochs are far from their wrap.
LEMMA NoWrap ==
  ASSUME FewFrames, Types, \A e \in Ends : Past(e), NEW e \in Ends
  PROVE  /\ epoch[e] \in Nat /\ epoch[e] <= EpochMod \div 2
         /\ \A n \in Nat : n <= EpochMod \div 2 => Succ(n) = n + 1
<1> DEFINE R == rotationInterval
           H == EpochMod \div 2
           a == sendSeq[Initiator]
           b == sendSeq[Responder]
<1>0. R \in Nat \ {0} /\ EpochMod \in Nat /\ EpochMod >= 3 /\ Initiator \in Ends /\ Responder \in Ends
  BY Zenon, SessionAssumption DEF Ends
<1>1. H \in Nat /\ H + 1 < EpochMod
  BY <1>0
<1>2. a \in Nat /\ b \in Nat /\ a <= MaxSeq[Initiator] /\ b <= MaxSeq[Responder]
      /\ MaxSeq[Initiator] \in Nat /\ MaxSeq[Responder] \in Nat
  BY Zenon, <1>0, SessionAssumption DEF Types, Past
<1>3. /\ Turns(a) \in Nat /\ Turns(a) * R <= a
      /\ Turns(b) \in Nat /\ Turns(b) * R <= b
  BY Zenon, <1>2, TurnsGrow
<1>4. epoch[e] \in Nat /\ epoch[e] <= Turns(a) + Turns(b)
  BY <1>0 DEF Types, Past, Epochs
<1>5. \A n \in Nat : n <= H => Succ(n) = n + 1
  BY <1>0, <1>1 DEF Succ
<1>6. MaxSeq[Initiator] + MaxSeq[Responder] <= H * R
  BY Zenon DEF FewFrames
<1> HIDE DEF R, H, a, b
<1>7. (Turns(a) + Turns(b)) * R <= H * R
  <2>1. (Turns(a) + Turns(b)) * R = (Turns(a) * R) + (Turns(b) * R)
        /\ Turns(a) * R \in Int /\ Turns(b) * R \in Int /\ H * R \in Int
    BY <1>0, <1>1, <1>3, Multiples
  <2> QED
    BY <1>2, <1>3, <1>6, <2>1
<1>8. Turns(a) + Turns(b) <= H
  BY <1>0, <1>1, <1>3, <1>7, Multiples
<1>9. epoch[e] <= H
  BY <1>1, <1>3, <1>4, <1>8
<1> QED
  BY Zenon, <1>4, <1>5, <1>9 DEF H

\* What was seen are numbers.
LEMMA SeenNumbers ==
  ASSUME NEW e \in Ends
  PROVE  SeenBy(e) \subseteq Nat
<1>1. Seqs \subseteq Nat
  BY DEF Seqs
<1>2. SeenBy(e) \subseteq Seqs
  BY Zenon DEF SeenBy
<1> QED
  BY Zenon, <1>1, <1>2

\* Seal keeps the ends in sync: a rotation of its own starts with the number that
\* the count of rotations says.
LEMMA SealSync ==
  ASSUME FewFrames, IInv, IInv', Sync, NEW e \in Ends, NEW g \in Senders[e], Seal(e, g)
  PROVE  Sync'
<1> DEFINE p == Peer(e)
           a == sendSeq[e]
           R == rotationInterval
           f == [seq |-> a, epoch |-> epoch'[e], turn |-> turns'[e], key |-> send'[e], intact |-> TRUE]
<1>0. /\ Types /\ FramesMatch /\ KeysMatch
      /\ p \in Ends /\ p # e /\ Peer(p) = e /\ Ends = {e, p} /\ Ends = {Initiator, Responder}
      /\ a \in Nat /\ sendSeq[p] \in Nat /\ R \in Nat \ {0}
  BY Peers, SessionAssumption DEF IInv, Types, Ends, Peer
<1>1. /\ ~closed[e] /\ a < MaxSeq[e] /\ MaxSeq[e] \in Nat
      /\ sealed' = [sealed EXCEPT ![e][g] = f]
      /\ sendSeq' = [sendSeq EXCEPT ![e] = @ + 1]
      /\ UNCHANGED <<closed, pipe, delivered, meddled>>
      /\ IF MustRotate(e) THEN installEpochLocked(e, Succ(epoch[e]))
                          ELSE UNCHANGED <<epoch, send, recv, recvOld, turns>>
  BY Zenon, SessionAssumption DEF Seal
<1>2. sendSeq'[e] = a + 1 /\ sendSeq'[p] = sendSeq[p]
  BY Zenon, <1>0, <1>1 DEF Types
<1>3. f.seq = a /\ f.epoch = epoch'[e] /\ f.turn = turns'[e] /\ f.intact
  BY Zenon
<1> HIDE DEF f
<1>4. Underway(e)' \subseteq Underway(e) \cup {f} /\ Underway(p)' = Underway(p)
  <2>1. \A x \in Senders[e] : sealed'[e][x] \in {sealed[e][x], f}
    BY Zenon, <1>0, <1>1 DEF Types, FramesMatch
  <2>2. sealed'[p] = sealed[p] /\ pipe' = pipe
    BY Zenon, <1>0, <1>1 DEF Types
  <2> QED
    BY <2>1, <2>2, Zenon DEF Underway
<1>5. \A x \in Ends : SeenBy(x)' = SeenBy(x)
  BY Zenon, <1>1 DEF SeenBy
<1>6. \A x \in Ends : ~closed'[x] /\ epoch'[x] # 0 => recvOld'[x] # None
  <2>1. CASE UNCHANGED <<epoch, send, recv, recvOld, turns>>
    BY Zenon, <1>1, <2>1 DEF Sync
  <2>2. CASE installEpochLocked(e, Succ(epoch[e]))
    <3>1. recvOld'[e] = Key(p, epoch[e]) /\ epoch[e] \in Nat
      BY <1>0, <1>1, <2>2 DEF installEpochLocked, Types, KeysMatch, Epochs
    <3>2. recvOld'[e] # None
      BY <1>0, <3>1, SessionAssumption DEF Key
    <3>3. recvOld'[p] = recvOld[p] /\ epoch'[p] = epoch[p]
      BY Zenon, <1>0, <2>2 DEF installEpochLocked, Types
    <3> QED
      BY Zenon, <1>0, <1>1, <3>2, <3>3 DEF Sync
  <2> QED
    BY Zenon, <1>1, <2>1, <2>2
<1>7. ASSUME Calm'
      PROVE  \A x \in Ends : Past(x)' /\ Ahead(x)'
  <2>1. Past(e) /\ Past(p) /\ Ahead(e) /\ Ahead(p) /\ \A x \in Ends : Past(x)
    BY Zenon, <1>0, <1>1, <1>7 DEF Sync, Calm
  <2>2. epoch[e] \in Nat /\ epoch[p] \in Nat /\ Succ(epoch[e]) = epoch[e] + 1
    <3>1. /\ epoch[e] \in Nat /\ epoch[p] \in Nat /\ epoch[e] <= EpochMod \div 2
          /\ \A n \in Nat : n <= EpochMod \div 2 => Succ(n) = n + 1
      BY Zenon, <1>0, <2>1, NoWrap
    <3>2. EpochMod \div 2 \in Nat
      BY SessionAssumption
    <3> QED
      BY Zenon, <3>1, <3>2
  <2>3. /\ Turns(a) \in Nat /\ Turns(a) * R <= a /\ Turns(sendSeq[p]) \in Nat
        /\ MustRotate(e) => Turns(a + 1) = Turns(a) + 1 /\ Turns(a + 1) * R = a
        /\ ~MustRotate(e) => Turns(a + 1) = Turns(a)
    BY Zenon, <1>0, TurnsGrow DEF MustRotate
  <2>4. /\ epoch'[p] = epoch[p]
        /\ epoch'[e] = IF MustRotate(e) THEN epoch[e] + 1 ELSE epoch[e]
    BY Zenon, <1>0, <1>1, <2>2 DEF installEpochLocked, Types
  <2>t. turns'[e] = epoch'[e] /\ turns'[p] = epoch'[p]
    <3>1. turns[e] = epoch[e] /\ turns[p] = epoch[p]
      BY Zenon, <2>1 DEF Past
    <3>2. turns'[p] = turns[p] /\ turns'[e] = IF MustRotate(e) THEN turns[e] + 1 ELSE turns[e]
      BY Zenon, <1>0, <1>1 DEF installEpochLocked, Types
    <3> QED
      BY Zenon, <2>4, <3>1, <3>2
  <2>5. /\ \A n \in Int : Start(e, n)' = Start(e, n)
        /\ \A n \in Int : Start(p, n)' = Start(p, n)
    <3>1. ASSUME NEW n \in Int
          PROVE  Turns(a + 1) - (epoch'[e] - n) = Turns(a) - (epoch[e] - n)
      BY <2>2, <2>3, <2>4
    <3>2. ASSUME NEW n \in Int PROVE Start(e, n)' = Start(e, n)
      BY Zenon, <1>2, <3>1 DEF Start, Turns
    <3>3. ASSUME NEW n \in Int PROVE Start(p, n)' = Start(p, n)
      BY Zenon, <1>2, <2>4 DEF Start, Turns
    <3> QED
      BY Zenon, <3>2, <3>3
  <2>6. Turns(sendSeq[Initiator])' + Turns(sendSeq[Responder])' = Turns(a + 1) + Turns(sendSeq[p])
        /\ Turns(sendSeq[Initiator]) + Turns(sendSeq[Responder]) = Turns(a) + Turns(sendSeq[p])
    <3>1. Turns(a + 1) \in Nat
      BY <2>3
    <3>2. Turns(sendSeq[e])' = Turns(a + 1) /\ Turns(sendSeq[p])' = Turns(sendSeq[p])
      BY Zenon, <1>2 DEF Turns
    <3>3. (e = Initiator /\ p = Responder) \/ (e = Responder /\ p = Initiator)
      BY Zenon, <1>0
    <3> QED
      BY <2>3, <3>1, <3>2, <3>3
  <2>7. \A h \in Underway(e) : h.epoch \in Nat /\ h.seq \in Nat
    BY <1>0, UnderwayFrames DEF Epochs
  <2>8. \A x \in Ends : SeenBy(x) \subseteq Nat
    BY Zenon, SeenNumbers
  <2>9. Past(e)'
    <3>1. \A h \in Underway(e)' : h.intact /\ h.seq < a + 1 /\ h.epoch <= epoch'[e] /\ h.turn = h.epoch
      BY SMTT(30), <1>0, <1>3, <1>4, <2>1, <2>2, <2>4, <2>7, <2>t DEF Past
    <3>2. \A s \in SeenBy(p) : s < a + 1
      BY SMTT(30), <1>0, <2>1, <2>8 DEF Past
    <3>3. epoch'[e] <= Turns(a + 1) + Turns(sendSeq[p])
      BY <2>1, <2>2, <2>3, <2>4, <2>6 DEF Past
    <3> QED
      BY <1>0, <1>1, <1>2, <1>5, <2>6, <2>t, <3>1, <3>2, <3>3 DEF Past
  <2>10. Past(p)'
    <3>1. epoch[p] <= Turns(a + 1) + Turns(sendSeq[p])
      BY <2>1, <2>2, <2>3, <2>6 DEF Past
    <3> QED
      BY Zenon, <1>0, <1>2, <1>4, <1>5, <2>1, <2>4, <2>6, <2>t, <3>1 DEF Past
  <2>11. Ahead(e)'
    <3> SUFFICES ASSUME NEW n \in epoch'[p] + 1 .. epoch'[e]
                 PROVE  /\ Start(e, n)' >= 0
                        /\ \A h \in Underway(e)' : h.epoch >= n <=> h.seq >= Start(e, n)'
                        /\ \A s \in SeenBy(p)' : s < Start(e, n)'
      BY Zenon DEF Ahead
    <3>1. n \in Int /\ Start(e, n)' = Start(e, n) /\ epoch'[e] \in Nat /\ n <= epoch'[e]
      BY <2>2, <2>4, <2>5
    <3>2. CASE n <= epoch[e]
      <4>1. n \in epoch[p] + 1 .. epoch[e]
        BY <2>2, <2>4, <3>1, <3>2
      <4>2. /\ Start(e, n) >= 0
            /\ \A h \in Underway(e) : h.epoch >= n <=> h.seq >= Start(e, n)
            /\ \A s \in SeenBy(p) : s < Start(e, n)
        BY Zenon, <2>1, <4>1 DEF Ahead
      <4>3. a >= Start(e, n)
        <5>1. Turns(a) - (epoch[e] - n) \in Int /\ Turns(a) - (epoch[e] - n) <= Turns(a)
          BY <2>2, <2>3, <3>1, <3>2
        <5>2. (Turns(a) - (epoch[e] - n)) * R <= Turns(a) * R
              /\ (Turns(a) - (epoch[e] - n)) * R \in Int /\ Turns(a) * R \in Int
          BY <1>0, <2>3, <5>1, Multiples
        <5> QED
          BY <1>0, <2>3, <5>2 DEF Start
      <4>4. f.epoch >= n /\ f.seq >= Start(e, n)
        BY Zenon, <1>3, <3>1, <4>3
      <4> QED
        BY Zenon, <1>0, <1>4, <1>5, <3>1, <4>2, <4>4
    <3>3. CASE n > epoch[e]
      <4>1. MustRotate(e) /\ n = epoch[e] + 1 /\ epoch'[e] = epoch[e] + 1
        BY <2>2, <2>4, <3>1, <3>3
      <4>2. Start(e, n)' = a
        <5>1. Start(e, n)' = (Turns(a + 1) - (epoch'[e] - n)) * R
          BY Zenon, <1>2 DEF Start, Turns
        <5>2. Turns(a + 1) - (epoch'[e] - n) = Turns(a + 1)
          BY <2>2, <2>3, <4>1
        <5> QED
          BY Zenon, <2>3, <4>1, <5>1, <5>2
      <4>3. \A h \in Underway(e) : ~(h.epoch >= n) /\ ~(h.seq >= a)
        BY <1>0, <2>1, <2>2, <2>7, <4>1 DEF Past
      <4>4. f.epoch >= n /\ f.seq >= a
        BY <1>0, <1>3, <2>2, <4>1
      <4>5. \A s \in SeenBy(p) : s < a
        BY Zenon, <1>0, <2>1 DEF Past
      <4> QED
        BY <1>0, <1>4, <1>5, <4>2, <4>3, <4>4, <4>5
    <3> QED
      BY <2>2, <3>1, <3>2, <3>3
  <2>12. Ahead(p)'
    <3> SUFFICES ASSUME NEW n \in epoch'[e] + 1 .. epoch'[p]
                 PROVE  /\ Start(p, n)' >= 0
                        /\ \A h \in Underway(p)' : h.epoch >= n <=> h.seq >= Start(p, n)'
                        /\ \A s \in SeenBy(e)' : s < Start(p, n)'
      BY Zenon, <1>0 DEF Ahead
    <3>1. n \in epoch[e] + 1 .. epoch[p] /\ n \in Int
      BY <2>2, <2>4
    <3>2. /\ Start(p, n) >= 0
          /\ \A h \in Underway(p) : h.epoch >= n <=> h.seq >= Start(p, n)
          /\ \A s \in SeenBy(e) : s < Start(p, n)
      BY Zenon, <1>0, <2>1, <3>1 DEF Ahead
    <3> QED
      BY Zenon, <1>0, <1>4, <1>5, <2>5, <3>1, <3>2
  <2> QED
    BY Zenon, <1>0, <2>9, <2>10, <2>11, <2>12
<1>8. meddled' \in [replayed : Nat, damaged : Nat]
  BY Zenon, <1>1 DEF Sync
<1> QED
  BY Zenon, <1>6, <1>7, <1>8 DEF Sync

\* Open keeps the ends in sync: what it accepts is of its own epoch or of an
\* earlier one, and it follows its peer by one epoch only.
LEMMA OpenSync ==
  ASSUME FewFrames, IInv, IInv', Sync, NEW e \in Ends, Open(e)
  PROVE  Sync'
<1> DEFINE p == Peer(e)
           f == Head(pipe[p])
<1>0. /\ Types /\ FramesMatch /\ KeysMatch
      /\ p \in Ends /\ p # e /\ Peer(p) = e /\ Ends = {e, p}
      /\ pipe[p] \in Seq(Frames(p)) /\ pipe[p] # <<>>
  BY Zenon, Peers, SessionAssumption DEF IInv, Ends, Peer, FramesMatch, Open
<1>1. /\ ~closed[e] /\ UNCHANGED <<sendSeq, closed, sealed, meddled>>
      /\ pipe' = [pipe EXCEPT ![p] = Tail(@)]
      /\ \/ f.epoch = Succ(epoch[e]) /\ installEpochLocked(e, f.epoch)
         \/ f.epoch # Succ(epoch[e]) /\ UNCHANGED <<epoch, send, recv, recvOld, turns>>
      /\ \/ delivered' = delivered
         \/ delivered' = [delivered EXCEPT ![e][f.seq] = @ + 1] /\ Authentic(e, f)
  BY Zenon DEF Open
<1>2. f \in Range(pipe[p]) /\ Range(Tail(pipe[p])) \subseteq Range(pipe[p])
  <2>1. /\ Len(pipe[p]) \in Nat \ {0} /\ DOMAIN pipe[p] = 1 .. Len(pipe[p]) /\ f = pipe[p][1]
        /\ Tail(pipe[p]) \in Seq(Frames(p)) /\ Len(Tail(pipe[p])) = Len(pipe[p]) - 1
        /\ \A i \in 1 .. Len(Tail(pipe[p])) : Tail(pipe[p])[i] = pipe[p][i + 1]
    BY <1>0, EmptySeq, LenProperties, HeadTailProperties
  <2>2. DOMAIN Tail(pipe[p]) = 1 .. Len(pipe[p]) - 1
    BY Zenon, <2>1, LenProperties
  <2>3. \A i \in DOMAIN Tail(pipe[p]) : Tail(pipe[p])[i] = pipe[p][i + 1] /\ i + 1 \in DOMAIN pipe[p]
    BY <2>1, <2>2
  <2>4. 1 \in DOMAIN pipe[p]
    BY <2>1
  <2>5. f \in Range(pipe[p])
    BY Zenon, <2>1, <2>4 DEF Range
  <2>6. Range(Tail(pipe[p])) \subseteq Range(pipe[p])
    BY Zenon, <2>3 DEF Range
  <2> QED
    BY Zenon, <2>5, <2>6
<1>3. Underway(p)' \subseteq Underway(p) /\ Underway(e)' = Underway(e) /\ f \in Underway(p)
  <2>1. pipe'[p] = Tail(pipe[p]) /\ pipe'[e] = pipe[e] /\ sealed' = sealed
    BY Zenon, <1>0, <1>1 DEF Types
  <2> QED
    BY <1>2, <2>1, Zenon DEF Underway
<1>4. f.seq \in Nat /\ f.epoch \in Nat /\ f \in Frames(p)
  BY <1>0, <1>3, UnderwayFrames DEF Epochs
<1> HIDE DEF f
<1>5. \A x \in Ends : ~closed'[x] /\ epoch'[x] # 0 => recvOld'[x] # None
  <2>1. CASE UNCHANGED <<epoch, send, recv, recvOld, turns>>
    BY Zenon, <1>1, <2>1 DEF Sync
  <2>2. CASE installEpochLocked(e, f.epoch)
    <3>1. recvOld'[e] = Key(p, epoch[e]) /\ epoch[e] \in Nat
      BY <1>0, <1>1, <2>2 DEF installEpochLocked, Types, KeysMatch, Epochs
    <3>2. recvOld'[e] # None
      BY <1>0, <3>1, SessionAssumption DEF Key
    <3>3. recvOld'[p] = recvOld[p] /\ epoch'[p] = epoch[p]
      BY Zenon, <1>0, <2>2 DEF installEpochLocked, Types
    <3> QED
      BY Zenon, <1>0, <1>1, <3>2, <3>3 DEF Sync
  <2> QED
    BY Zenon, <1>1, <2>1, <2>2
<1>6. ASSUME Calm'
      PROVE  \A x \in Ends : Past(x)' /\ Ahead(x)'
  <2>1. Past(e) /\ Past(p) /\ Ahead(e) /\ Ahead(p) /\ \A x \in Ends : Past(x)
    BY Zenon, <1>0, <1>1, <1>6 DEF Sync, Calm
  <2>2. /\ epoch[e] \in Nat /\ epoch[p] \in Nat /\ EpochMod \div 2 \in Nat
        /\ epoch[e] <= EpochMod \div 2 /\ epoch[p] <= EpochMod \div 2
        /\ \A n \in Nat : n <= EpochMod \div 2 => Succ(n) = n + 1
    <3>1. EpochMod \div 2 \in Nat
      BY SessionAssumption
    <3> QED
      BY Zenon, <1>0, <2>1, <3>1, NoWrap
  <2>3. f.intact /\ f.seq < sendSeq[p] /\ f.epoch <= epoch[p] /\ f.epoch <= EpochMod \div 2
        /\ sendSeq[p] \in Nat
    BY <1>0, <1>3, <1>4, <2>1, <2>2 DEF Past, Types
  <2>4. Succ(f.epoch) = f.epoch + 1 /\ Succ(epoch[e]) = epoch[e] + 1
    BY Zenon, <1>4, <2>2, <2>3
  <2>5. /\ epoch'[p] = epoch[p]
        /\ epoch'[e] = IF f.epoch = epoch[e] + 1 THEN epoch[e] + 1 ELSE epoch[e]
    BY Zenon, <1>0, <1>1, <2>4 DEF installEpochLocked, Types
  <2>t. turns'[e] = epoch'[e] /\ turns'[p] = epoch'[p]
    <3>1. turns[e] = epoch[e] /\ turns[p] = epoch[p]
      BY Zenon, <2>1 DEF Past
    <3>2. turns'[p] = turns[p] /\ turns'[e] = IF f.epoch = epoch[e] + 1 THEN turns[e] + 1 ELSE turns[e]
      BY Zenon, <1>0, <1>1, <2>4 DEF installEpochLocked, Types
    <3> QED
      BY Zenon, <2>5, <3>1, <3>2
  <2>6. Authentic(e, f) => f.epoch <= epoch'[e]
    <3>1. f.key = Key(p, f.epoch) /\ f.key # None
      BY <1>0, <1>4, <2>3, SessionAssumption DEF Frames, Key
    <3>2. ChainFor(e, f.epoch) = f.key =>
            f.epoch = epoch[e] \/ f.epoch = epoch[e] + 1 \/ f.epoch + 1 = epoch[e]
      BY Zenon, <2>4, <3>1 DEF ChainFor
    <3> QED
      BY SMTT(30), <1>4, <2>2, <2>5, <3>2 DEF Authentic
  <2>7. /\ SeenBy(p)' = SeenBy(p)
        /\ \A s \in SeenBy(e)' : s \in SeenBy(e) \/ (s = f.seq /\ f.epoch <= epoch'[e])
    <3>1. CASE delivered' = delivered
      BY <3>1, Zenon DEF SeenBy
    <3>2. CASE delivered' = [delivered EXCEPT ![e][f.seq] = @ + 1] /\ Authentic(e, f)
      <4>1. delivered'[p] = delivered[p] /\ \A s \in Seqs : s # f.seq => delivered'[e][s] = delivered[e][s]
        BY Zenon, <1>0, <3>2 DEF Types
      <4> QED
        BY <2>6, <3>2, <4>1, Zenon DEF SeenBy
    <3> QED
      BY Zenon, <1>1, <3>1, <3>2
  <2>8. \A n \in Int : Start(p, n)' = Start(p, n)
    BY Zenon, <1>1, <2>5 DEF Start, Turns
  <2>9. \A h \in Underway(e) : h.epoch \in Nat
    BY <1>0, UnderwayFrames DEF Epochs
  <2>10. UNCHANGED <<Turns(sendSeq[Initiator]), Turns(sendSeq[Responder])>>
         /\ Turns(sendSeq[Initiator]) \in Nat /\ Turns(sendSeq[Responder]) \in Nat
    <3>1. sendSeq[Initiator] \in Nat /\ sendSeq[Responder] \in Nat
      BY Zenon, <1>0 DEF Types, Ends
    <3> QED
      BY Zenon, <1>1, <3>1, TurnsGrow DEF Turns
  <2>11. Past(p)'
    BY Zenon, <1>0, <1>1, <1>3, <2>1, <2>3, <2>5, <2>7, <2>10, <2>t DEF Past
  <2>12. Past(e)'
    <3>1. \A h \in Underway(e) : h.epoch <= epoch'[e]
      BY <2>1, <2>2, <2>5, <2>9 DEF Past
    <3>2. epoch'[e] <= Turns(sendSeq[Initiator]) + Turns(sendSeq[Responder])
      BY <2>1, <2>2, <2>3, <2>5, <2>10 DEF Past
    <3> QED
      BY Zenon, <1>0, <1>1, <1>3, <2>1, <2>7, <2>10, <2>t, <3>1, <3>2 DEF Past
  <2>13. Ahead(p)'
    <3> SUFFICES ASSUME NEW n \in epoch'[e] + 1 .. epoch'[p]
                 PROVE  /\ Start(p, n)' >= 0
                        /\ \A h \in Underway(p)' : h.epoch >= n <=> h.seq >= Start(p, n)'
                        /\ \A s \in SeenBy(e)' : s < Start(p, n)'
      BY Zenon, <1>0 DEF Ahead
    <3>1. n \in epoch[e] + 1 .. epoch[p] /\ n \in Int /\ epoch'[e] < n /\ epoch'[e] \in Nat
      BY <2>2, <2>5
    <3>2. /\ Start(p, n) >= 0
          /\ \A h \in Underway(p) : h.epoch >= n <=> h.seq >= Start(p, n)
          /\ \A s \in SeenBy(e) : s < Start(p, n)
      BY Zenon, <1>0, <2>1, <3>1 DEF Ahead
    <3>3. Start(p, n) \in Int
      <4>1. Turns(sendSeq[p]) \in Nat
        BY Zenon, <1>0, <2>3, TurnsGrow
      <4>2. Turns(sendSeq[p]) - (epoch[p] - n) \in Int
        BY <2>2, <3>1, <4>1
      <4> QED
        BY Zenon, <4>2, Multiples, SessionAssumption DEF Start
    <3>4. f.epoch <= epoch'[e] => f.seq < Start(p, n)
      BY <1>3, <1>4, <3>1, <3>2, <3>3
    <3> QED
      BY Zenon, <1>3, <2>7, <2>8, <3>1, <3>2, <3>4
  <2>14. Ahead(e)'
    <3>1. CASE epoch'[e] = epoch[e] + 1
      <4>1. epoch'[e] <= epoch'[p]
        BY <1>4, <2>2, <2>3, <2>5, <3>1
      <4>2. epoch'[p] + 1 .. epoch'[e] = {}
        BY <2>2, <2>5, <3>1, <4>1
      <4> QED
        BY Zenon, <4>2 DEF Ahead
    <3>2. CASE epoch'[e] = epoch[e]
      <4>1. \A n \in Int : Start(e, n)' = Start(e, n)
        BY Zenon, <1>1, <3>2 DEF Start, Turns
      <4>2. \A n \in epoch[p] + 1 .. epoch[e] : n \in Int
        OBVIOUS
      <4> QED
        BY Zenon, <1>3, <2>1, <2>5, <2>7, <3>2, <4>1, <4>2 DEF Ahead
    <3> QED
      BY Zenon, <2>5, <3>1, <3>2
  <2> QED
    BY Zenon, <1>0, <2>11, <2>12, <2>13, <2>14
<1>7. meddled' \in [replayed : Nat, damaged : Nat]
  BY Zenon, <1>1 DEF Sync
<1> QED
  BY Zenon, <1>5, <1>6, <1>7 DEF Sync

\* Steps that only take frames from under way, or close an end.
LEMMA QuietSync ==
  ASSUME Sync, UNCHANGED <<epoch, sendSeq, delivered, turns, meddled>>,
         \A x \in Ends : Underway(x)' \subseteq Underway(x),
         \A x \in Ends : ~closed'[x] => ~closed[x] /\ recvOld'[x] = recvOld[x]
  PROVE  Sync'
<1>1. \A x \in Ends : ~closed'[x] /\ epoch'[x] # 0 => recvOld'[x] # None
  BY Zenon DEF Sync
<1>2. \A x : SeenBy(x)' = SeenBy(x)
  BY Zenon DEF SeenBy
<1>3. \A x, n : Start(x, n)' = Start(x, n)
  BY Zenon DEF Start, Turns
<1>4. UNCHANGED <<Turns(sendSeq[Initiator]), Turns(sendSeq[Responder])>>
  BY Zenon DEF Turns
<1>5. ASSUME Calm', NEW x \in Ends
      PROVE  Past(x)' /\ Ahead(x)'
  <2>1. Past(x) /\ Ahead(x)
    BY Zenon, <1>5 DEF Sync, Calm
  <2>2. Past(x)'
    BY Zenon, <1>2, <1>4, <2>1 DEF Past
  <2>3. Ahead(x)'
    BY Zenon, <1>2, <1>3, <2>1 DEF Ahead
  <2> QED
    BY Zenon, <2>2, <2>3
<1> QED
  BY Zenon, <1>1, <1>5 DEF Sync

\* Handing a sealed frame over, losing it, and closing.
LEMMA OfferSync ==
  ASSUME IInv, Sync, NEW e \in Ends, NEW g \in Senders[e],
         Enqueue(e, g) \/ QueueFull(e, g) \/ ConnClosed(e, g)
  PROVE  Sync'
<1>0. Types /\ FramesMatch
  BY Zenon DEF IInv
<1>1. /\ UNCHANGED <<epoch, sendSeq, recvOld, closed, delivered, turns, meddled>>
      /\ sealed' = [sealed EXCEPT ![e][g] = None] /\ sealed[e][g] # None
      /\ pipe' = pipe \/ pipe' = [pipe EXCEPT ![e] = Append(@, sealed[e][g])]
  BY Zenon DEF Enqueue, QueueFull, ConnClosed
<1>2. ASSUME NEW x \in Ends
      PROVE  Underway(x)' \subseteq Underway(x)
  <2>1. \A y \in Senders[x] : sealed'[x][y] \in {sealed[x][y], None}
    BY <1>0, <1>1 DEF FramesMatch
  <2>2. Range(pipe'[x]) \subseteq Underway(x)
    <3>1. CASE pipe'[x] = pipe[x]
      BY Zenon, <3>1 DEF Underway
    <3>2. CASE x = e /\ pipe'[x] = Append(pipe[x], sealed[e][g])
      <4>1. /\ Len(pipe[e]) \in Nat /\ DOMAIN pipe[e] = 1 .. Len(pipe[e])
            /\ DOMAIN Append(pipe[e], sealed[e][g]) = 1 .. Len(pipe[e]) + 1
            /\ \A i \in 1 .. Len(pipe[e]) : Append(pipe[e], sealed[e][g])[i] = pipe[e][i]
            /\ Append(pipe[e], sealed[e][g])[Len(pipe[e]) + 1] = sealed[e][g]
        <5>1. pipe[e] \in Seq(Frames(e)) /\ sealed[e][g] \in Frames(e)
          BY Zenon, <1>0, <1>1 DEF FramesMatch
        <5> DEFINE u == Append(pipe[e], sealed[e][g])
        <5>2. /\ u \in Seq(Frames(e)) /\ Len(u) = Len(pipe[e]) + 1
              /\ \A i \in 1 .. Len(pipe[e]) : u[i] = pipe[e][i]
              /\ u[Len(pipe[e]) + 1] = sealed[e][g]
          BY <5>1, AppendProperties
        <5>3. \A q \in Seq(Frames(e)) : Len(q) \in Nat /\ DOMAIN q = 1 .. Len(q)
          BY Zenon, LenProperties
        <5> QED
          BY Zenon, <5>1, <5>2, <5>3
      <4>2. \A i \in DOMAIN pipe'[x] : \/ i \in DOMAIN pipe[e] /\ pipe'[x][i] = pipe[e][i]
                                       \/ pipe'[x][i] = sealed[e][g]
        BY <3>2, <4>1
      <4> QED
        BY Zenon, <1>1, <3>2, <4>2 DEF Underway, Range
    <3>3. pipe'[x] = pipe[x] \/ (x = e /\ pipe'[x] = Append(pipe[x], sealed[e][g]))
      BY Zenon, <1>0, <1>1 DEF Types
    <3> QED
      BY Zenon, <3>1, <3>2, <3>3
  <2> QED
    BY Zenon, <2>1, <2>2 DEF Underway
<1>3. \A x \in Ends : ~closed'[x] => ~closed[x] /\ recvOld'[x] = recvOld[x]
  BY Zenon, <1>1
<1> QED
  BY Zenon, <1>1, <1>2, <1>3, QuietSync

\* Close empties the chains of its end, of which Sync then says nothing.
LEMMA CloseSync ==
  ASSUME IInv, Sync, NEW e \in Ends, Close(e)
  PROVE  Sync'
<1>1. UNCHANGED <<epoch, sendSeq, delivered, turns, meddled, sealed, pipe>>
  BY Zenon DEF Close
<1>2. \A x \in Ends : Underway(x)' \subseteq Underway(x)
  BY Zenon, <1>1 DEF Underway
<1>3. \A x \in Ends : ~closed'[x] => ~closed[x] /\ recvOld'[x] = recvOld[x]
  BY Zenon DEF Close, IInv, Types
<1> QED
  BY Zenon, <1>1, <1>2, <1>3, QuietSync

\* Once the path has meddled, it stays so.
LEMMA MeddledSync ==
  ASSUME Sync, NEW e \in Ends, Replay(e) \/ Damage(e)
  PROVE  Sync'
<1>1. UNCHANGED <<epoch, recvOld, closed>>
      /\ \/ meddled' = [meddled EXCEPT !.replayed = @ + 1]
         \/ meddled' = [meddled EXCEPT !.damaged = @ + 1]
  BY Zenon DEF Replay, Damage
<1>2. meddled' \in [replayed : Nat, damaged : Nat] /\ ~Calm'
  BY <1>1 DEF Sync, Calm
<1> QED
  BY Zenon, <1>1, <1>2 DEF Sync

\* Nothing is under way at first, and both ends are in epoch 0.
LEMMA SyncInitially == Init => Sync
<1> SUFFICES ASSUME Init PROVE Sync
  OBVIOUS
<1>1. \A e \in Ends : Underway(e) = {} /\ SeenBy(e) = {} /\ epoch[e] = 0 /\ turns[e] = 0 /\ sendSeq[e] = 0 /\ Peer(e) \in Ends
  <2> SUFFICES ASSUME NEW e \in Ends
               PROVE  Underway(e) = {} /\ SeenBy(e) = {} /\ epoch[e] = 0 /\ turns[e] = 0 /\ sendSeq[e] = 0 /\ Peer(e) \in Ends
    BY Zenon
  <2>1. \A g \in Senders[e] : sealed[e][g] = None
    BY Zenon DEF Init
  <2>2. Range(pipe[e]) = {}
    <3>1. pipe[e] = <<>> /\ DOMAIN <<>> = {}
      BY DEF Init
    <3> QED
      BY Zenon, <3>1 DEF Range
  <2>3. Underway(e) = {}
    BY Zenon, <2>1, <2>2 DEF Underway
  <2> QED
    BY <2>3, Peers DEF Init, SeenBy
<1>2. Turns(sendSeq[Initiator]) = 0 /\ Turns(sendSeq[Responder]) = 0
  BY Zenon, <1>1 DEF Turns, Ends
<1>3. \A e \in Ends : MaxSeq[e] \in Nat
  BY Zenon, SessionAssumption
<1>4. \A e \in Ends : Past(e) /\ Ahead(e)
  BY <1>1, <1>2, <1>3 DEF Past, Ahead
<1> QED
  BY Zenon, <1>1, <1>4 DEF Sync, Init

\* While the epoch has not gone half way around, the ends stay in sync.
LEMMA SyncInvariance ==
  ASSUME FewFrames
  PROVE  Spec => []Sync
<1>1. ASSUME IInv, IInv', Sync, Next
      PROVE  Sync'
  <2>1. PICK e \in Ends :
          \/ \E g \in Senders[e] : Seal(e, g) \/ Enqueue(e, g) \/ QueueFull(e, g) \/ ConnClosed(e, g)
          \/ Open(e)
          \/ Close(e)
          \/ Replay(e)
          \/ Damage(e)
    BY Zenon, <1>1 DEF Next
  <2> QED
    BY Zenon, <1>1, <2>1, SealSync, OpenSync, OfferSync, CloseSync, MeddledSync
<1>2. ASSUME Sync, UNCHANGED vars
      PROVE  Sync'
  <2>1. \A x \in Ends : Underway(x)' \subseteq Underway(x)
    BY Zenon, <1>2 DEF Underway, vars
  <2> QED
    BY Zenon, <1>2, <2>1, QuietSync DEF vars
<1>3. IInv /\ IInv' /\ Sync /\ [Next]_vars => Sync'
  BY Zenon, <1>1, <1>2
<1> QED
  BY <1>3, SyncInitially, Invariance, PTL DEF Spec

\* No number of e is under way twice, or under way and seen.
Once(e) ==
  /\ sendSeq[e] \in Nat /\ pipe[e] \in Seq(Frames(e)) /\ SeenBy(Peer(e)) \subseteq Nat
  /\ \A f \in Underway(e) : f.seq < sendSeq[e] /\ f.seq \notin SeenBy(Peer(e))
  /\ \A s \in SeenBy(Peer(e)) : s < sendSeq[e]
  /\ \A i, j \in DOMAIN pipe[e] : pipe[e][i].seq = pipe[e][j].seq => i = j
  /\ \A g \in Senders[e] : sealed[e][g] # None =>
       /\ \A h \in Senders[e] : sealed[e][h] # None /\ sealed[e][h].seq = sealed[e][g].seq => h = g
       /\ \A i \in DOMAIN pipe[e] : pipe[e][i].seq # sealed[e][g].seq

Onward ==
  /\ meddled \in [replayed : Nat, damaged : Nat]
  /\ Calm => \A e \in Ends : Once(e)

\* What is left alone of an end keeps its numbers apart.
LEMMA OnceSame ==
  ASSUME NEW e \in Ends, Once(e), UNCHANGED <<sendSeq[e], pipe[e], sealed[e]>>,
         SeenBy(Peer(e))' = SeenBy(Peer(e))
  PROVE  Once(e)'
<1>1. Underway(e)' = Underway(e)
  BY Zenon DEF Underway
<1> QED
  BY Zenon, <1>1 DEF Once

\* A new frame has a new number.
LEMMA SealOnward ==
  ASSUME IInv, Onward, NEW e \in Ends, NEW g \in Senders[e], Seal(e, g)
  PROVE  Onward'
<1> DEFINE f == [seq |-> sendSeq[e], epoch |-> epoch'[e], turn |-> turns'[e], key |-> send'[e], intact |-> TRUE]
<1>1. /\ Types /\ FramesMatch
      /\ sealed' = [sealed EXCEPT ![e][g] = f] /\ sealed[e][g] = None
      /\ sendSeq' = [sendSeq EXCEPT ![e] = @ + 1] /\ UNCHANGED <<pipe, delivered, meddled>>
  BY Zenon DEF Seal, IInv
<1>2. f.seq = sendSeq[e]
  BY Zenon
<1> HIDE DEF f
<1>3. \A x \in Ends : SeenBy(Peer(x))' = SeenBy(Peer(x))
  BY Zenon, <1>1 DEF SeenBy
<1>4. /\ sendSeq'[e] = sendSeq[e] + 1 /\ sendSeq[e] \in Nat
      /\ \A h \in Senders[e] : sealed'[e][h] = IF h = g THEN f ELSE sealed[e][h]
      /\ \A x \in Ends : x # e => sealed'[x] = sealed[x] /\ sendSeq'[x] = sendSeq[x]
  BY Zenon, <1>1 DEF Types, FramesMatch
<1>5. ASSUME Calm', NEW x \in Ends
      PROVE  Once(x)'
  <2>1. Once(x)
    BY Zenon, <1>1, <1>5 DEF Onward, Calm
  <2>2. CASE x # e
    BY Zenon, <1>1, <1>3, <1>4, <2>1, <2>2, OnceSame
  <2>3. CASE x = e
    <3>0. Once(e) /\ pipe'[e] = pipe[e] /\ SeenBy(Peer(e))' = SeenBy(Peer(e))
      BY Zenon, <1>1, <1>3, <2>1, <2>3
    <3>1. \A h \in Underway(e)' : h = f \/ h \in Underway(e)
      BY ZenonT(40), <1>4, <3>0 DEF Underway
    <3>2. \A h \in Underway(e) : h.seq \in Nat
      BY Zenon, <1>1, UnderwayFrames
    <3>3. sendSeq[e] \notin SeenBy(Peer(e)) /\ sendSeq[e] < sendSeq[e] + 1 /\ sendSeq[e] + 1 \in Nat
      BY SMTT(30), <1>4, <3>0 DEF Once
    <3>4. \A h \in Underway(e) : h.seq < sendSeq[e] + 1 /\ h.seq # sendSeq[e] /\ h.seq \notin SeenBy(Peer(e))
      BY <1>4, <3>0, <3>2 DEF Once
    <3>5. \A s \in SeenBy(Peer(e)) : s < sendSeq[e] + 1
      BY <1>4, <3>0 DEF Once
    <3>6. /\ \A i \in DOMAIN pipe[e] : pipe[e][i] \in Underway(e)
          /\ \A h \in Senders[e] : sealed[e][h] # None => sealed[e][h] \in Underway(e)
      BY Zenon DEF Underway, Range
    <3>7. \A h \in Underway(e)' : h.seq < sendSeq'[e] /\ h.seq \notin SeenBy(Peer(e))'
      BY Zenon, <1>2, <1>4, <3>0, <3>1, <3>3, <3>4
    <3>8. ASSUME NEW h \in Senders[e], sealed'[e][h] # None
          PROVE  /\ \A k \in Senders[e] : sealed'[e][k] # None /\ sealed'[e][k].seq = sealed'[e][h].seq => k = h
                 /\ \A i \in DOMAIN pipe[e] : pipe[e][i].seq # sealed'[e][h].seq
      <4>1. CASE h = g
        BY Zenon, <1>2, <1>4, <3>4, <3>6, <4>1
      <4>2. CASE h # g
        <5>1. sealed'[e][h] = sealed[e][h] /\ sealed[e][h] # None
          BY Zenon, <1>4, <3>8, <4>2
        <5>2. sealed[e][h].seq # f.seq
          BY Zenon, <1>2, <3>4, <3>6, <5>1
        <5>3. /\ \A k \in Senders[e] : sealed[e][k] # None /\ sealed[e][k].seq = sealed[e][h].seq => k = h
              /\ \A i \in DOMAIN pipe[e] : pipe[e][i].seq # sealed[e][h].seq
          BY Zenon, <3>0, <5>1 DEF Once
        <5>4. ASSUME NEW k \in Senders[e], sealed'[e][k] # None, sealed'[e][k].seq = sealed'[e][h].seq
              PROVE  k = h
          <6>1. CASE k = g
            BY Zenon, <1>4, <5>1, <5>2, <5>4, <6>1
          <6>2. CASE k # g
            BY Zenon, <1>4, <5>1, <5>3, <5>4, <6>2
          <6> QED
            BY Zenon, <6>1, <6>2
        <5> QED
          BY Zenon, <5>1, <5>3, <5>4
      <4> QED
        BY Zenon, <4>1, <4>2
    <3>9. /\ \A i, j \in DOMAIN pipe[e] : pipe[e][i].seq = pipe[e][j].seq => i = j
          /\ pipe[e] \in Seq(Frames(e)) /\ SeenBy(Peer(e)) \subseteq Nat
      BY Zenon, <3>0 DEF Once
    <3>10. /\ sendSeq'[e] \in Nat /\ pipe'[e] \in Seq(Frames(e)) /\ SeenBy(Peer(e))' \subseteq Nat
           /\ \A s \in SeenBy(Peer(e))' : s < sendSeq'[e]
           /\ \A i, j \in DOMAIN pipe'[e] : pipe'[e][i].seq = pipe'[e][j].seq => i = j
      BY Zenon, <1>4, <3>0, <3>3, <3>5, <3>9
    <3>11. Once(e)'
      BY Zenon, <3>0, <3>7, <3>8, <3>10 DEF Once
    <3> QED
      BY Zenon, <2>3, <3>11
  <2> QED
    BY Zenon, <2>2, <2>3
<1> QED
  BY Zenon, <1>1, <1>5 DEF Onward

\* A frame that is opened is under way no more.
LEMMA OpenOnward ==
  ASSUME IInv, Onward, NEW e \in Ends, Open(e)
  PROVE  Onward'
<1> DEFINE p == Peer(e)
           f == Head(pipe[p])
<1>0. /\ Types /\ FramesMatch
      /\ p \in Ends /\ p # e /\ Peer(p) = e /\ Ends = {e, p}
      /\ pipe[p] \in Seq(Frames(p)) /\ pipe[p] # <<>>
  BY Zenon, Peers, SessionAssumption DEF IInv, Ends, Peer, FramesMatch, Open
<1>1. /\ UNCHANGED <<sendSeq, sealed, meddled>>
      /\ pipe' = [pipe EXCEPT ![p] = Tail(@)]
      /\ delivered' = delivered \/ delivered' = [delivered EXCEPT ![e][f.seq] = @ + 1]
  BY Zenon DEF Open
<1>2. /\ Len(pipe[p]) \in Nat \ {0} /\ DOMAIN pipe[p] = 1 .. Len(pipe[p]) /\ f = pipe[p][1]
      /\ Tail(pipe[p]) \in Seq(Frames(p)) /\ Len(Tail(pipe[p])) = Len(pipe[p]) - 1
      /\ \A i \in 1 .. Len(Tail(pipe[p])) : Tail(pipe[p])[i] = pipe[p][i + 1]
  BY <1>0, EmptySeq, LenProperties, HeadTailProperties
<1>3. DOMAIN Tail(pipe[p]) = 1 .. Len(pipe[p]) - 1
  BY Zenon, <1>2, LenProperties
<1>4. /\ \A i \in DOMAIN Tail(pipe[p]) : Tail(pipe[p])[i] = pipe[p][i + 1] /\ i + 1 \in DOMAIN pipe[p] /\ i + 1 # 1
      /\ \A i, j \in DOMAIN Tail(pipe[p]) : i + 1 = j + 1 => i = j
      /\ 1 \in DOMAIN pipe[p]
  BY <1>2, <1>3
<1>5. pipe'[p] = Tail(pipe[p]) /\ pipe'[e] = pipe[e] /\ sealed' = sealed
  BY Zenon, <1>0, <1>1 DEF Types
<1> HIDE DEF f
<1>6. SeenBy(p)' = SeenBy(p) /\ \A s \in SeenBy(e)' : s \in SeenBy(e) \/ s = f.seq
  <2>1. CASE delivered' = delivered
    BY <2>1, Zenon DEF SeenBy
  <2>2. CASE delivered' = [delivered EXCEPT ![e][f.seq] = @ + 1]
    <3>1. delivered'[p] = delivered[p] /\ \A s \in Seqs : s # f.seq => delivered'[e][s] = delivered[e][s]
      BY Zenon, <1>0, <2>2 DEF Types
    <3> QED
      BY <3>1, Zenon DEF SeenBy
  <2> QED
    BY Zenon, <1>1, <2>1, <2>2
<1>7. ASSUME Calm'
      PROVE  Once(e)' /\ Once(p)'
  <2>1. Once(e) /\ Once(p)
    BY Zenon, <1>0, <1>1, <1>7 DEF Onward, Calm
  <2>2. Once(e)'
    BY Zenon, <1>1, <1>5, <1>6, <2>1, OnceSame DEF p
  <2>3. f \in Underway(p) /\ f.seq < sendSeq[p]
    <3>1. f \in Underway(p)
      BY Zenon, <1>2, <1>4 DEF Underway, Range
    <3> QED
      BY Zenon, <2>1, <3>1 DEF Once
  <2>o. /\ \A i, j \in DOMAIN pipe[p] : pipe[p][i].seq = pipe[p][j].seq => i = j
        /\ \A g \in Senders[p] : sealed[p][g] # None =>
             /\ \A h \in Senders[p] : sealed[p][h] # None /\ sealed[p][h].seq = sealed[p][g].seq => h = g
             /\ \A i \in DOMAIN pipe[p] : pipe[p][i].seq # sealed[p][g].seq
    BY Zenon, <2>1 DEF Once
  <2>4. ASSUME NEW i \in DOMAIN pipe'[p]
        PROVE  i + 1 \in DOMAIN pipe[p] /\ pipe'[p][i] = pipe[p][i + 1] /\ pipe[p][i + 1].seq # f.seq
    <3>1. i + 1 \in DOMAIN pipe[p] /\ pipe'[p][i] = pipe[p][i + 1] /\ i + 1 # 1 /\ 1 \in DOMAIN pipe[p]
      BY Zenon, <1>4, <1>5
    <3> HIDE DEF p
    <3>2. pipe[p][i + 1].seq # pipe[p][1].seq
      BY Zenon, <2>o, <3>1
    <3> QED
      BY Zenon, <1>2, <3>1, <3>2
  <2>5. \A h \in Underway(p)' : h \in Underway(p) /\ h.seq # f.seq
    <3>1. \A g \in Senders[p] : sealed[p][g] # None => sealed[p][g].seq # f.seq
      BY Zenon, <1>2, <1>4, <2>1 DEF Once
    <3> QED
      BY Zenon, <1>5, <2>4, <3>1 DEF Underway, Range
  <2>6. \A h \in Underway(p)' : h.seq < sendSeq'[p] /\ h.seq \notin SeenBy(Peer(p))'
    BY Zenon, <1>0, <1>1, <1>6, <2>1, <2>5 DEF Once
  <2>7. \A s \in SeenBy(Peer(p))' : s < sendSeq'[p] /\ s \in Nat
    <3>1. f.seq \in Nat
      BY Zenon, <1>0, <2>3, UnderwayFrames
    <3> QED
      BY Zenon, <1>0, <1>1, <1>6, <2>1, <2>3, <3>1 DEF Once
  <2>8. \A i, j \in DOMAIN pipe'[p] : pipe'[p][i].seq = pipe'[p][j].seq => i = j
    <3> SUFFICES ASSUME NEW i \in DOMAIN pipe'[p], NEW j \in DOMAIN pipe'[p], pipe'[p][i].seq = pipe'[p][j].seq
                 PROVE  i = j
      BY Zenon
    <3>1. i + 1 = j + 1
      BY Zenon, <2>o, <2>4
    <3> QED
      BY Zenon, <1>4, <1>5, <3>1
  <2>9. \A g \in Senders[p] : sealed'[p][g] # None =>
          /\ \A h \in Senders[p] : sealed'[p][h] # None /\ sealed'[p][h].seq = sealed'[p][g].seq => h = g
          /\ \A i \in DOMAIN pipe'[p] : pipe'[p][i].seq # sealed'[p][g].seq
    <3> SUFFICES ASSUME NEW g \in Senders[p], sealed[p][g] # None
                 PROVE  /\ \A h \in Senders[p] : sealed[p][h] # None /\ sealed[p][h].seq = sealed[p][g].seq => h = g
                        /\ \A i \in DOMAIN pipe'[p] : pipe'[p][i].seq # sealed[p][g].seq
      BY Zenon, <1>5
    <3>1. \A i \in DOMAIN pipe[p] : pipe[p][i].seq # sealed[p][g].seq
      BY Zenon, <2>o
    <3>2. ASSUME NEW i \in DOMAIN pipe'[p] PROVE pipe'[p][i].seq # sealed[p][g].seq
      BY Zenon, <2>4, <3>1
    <3> QED
      BY Zenon, <2>o, <3>2
  <2>10. sendSeq'[p] \in Nat /\ pipe'[p] \in Seq(Frames(p))
    BY Zenon, <1>1, <1>2, <1>5, <2>1 DEF Once
  <2>11. Once(p)'
    BY Zenon, <2>6, <2>7, <2>8, <2>9, <2>10 DEF Once
  <2> QED
    BY Zenon, <2>2, <2>11
<1> QED
  BY Zenon, <1>0, <1>1, <1>7 DEF Onward

\* A sealed frame joins the stream, or is lost.
LEMMA OfferOnward ==
  ASSUME IInv, Onward, NEW e \in Ends, NEW g \in Senders[e],
         Enqueue(e, g) \/ QueueFull(e, g) \/ ConnClosed(e, g)
  PROVE  Onward'
<1> DEFINE f == sealed[e][g]
           q == pipe[e]
<1>1. /\ Types /\ FramesMatch /\ UNCHANGED <<sendSeq, delivered, meddled>>
      /\ sealed' = [sealed EXCEPT ![e][g] = None] /\ f # None
      /\ pipe' = pipe \/ pipe' = [pipe EXCEPT ![e] = Append(@, f)]
  BY Zenon DEF Enqueue, QueueFull, ConnClosed, IInv
<1>2. /\ \A h \in Senders[e] : sealed'[e][h] = IF h = g THEN None ELSE sealed[e][h]
      /\ \A x \in Ends : x # e => sealed'[x] = sealed[x] /\ pipe'[x] = pipe[x]
      /\ pipe'[e] = q \/ pipe'[e] = Append(q, f)
      /\ \A x : SeenBy(x)' = SeenBy(x)
  <2>1. \A x : SeenBy(x)' = SeenBy(x)
    BY Zenon, <1>1 DEF SeenBy
  <2> QED
    BY Zenon, <1>1, <2>1 DEF Types, FramesMatch
<1>3. /\ Len(q) \in Nat /\ DOMAIN q = 1 .. Len(q) /\ q \in Seq(Frames(e)) /\ f \in Frames(e)
      /\ Append(q, f) \in Seq(Frames(e)) /\ DOMAIN Append(q, f) = 1 .. Len(q) + 1
      /\ \A i \in 1 .. Len(q) : Append(q, f)[i] = q[i]
      /\ Append(q, f)[Len(q) + 1] = f
  <2>1. q \in Seq(Frames(e)) /\ f \in Frames(e)
    BY Zenon, <1>1 DEF FramesMatch
  <2>2. /\ Append(q, f) \in Seq(Frames(e)) /\ Len(Append(q, f)) = Len(q) + 1
        /\ \A i \in 1 .. Len(q) : Append(q, f)[i] = q[i]
        /\ Append(q, f)[Len(q) + 1] = f
    BY <2>1, AppendProperties
  <2>3. \A u \in Seq(Frames(e)) : Len(u) \in Nat /\ DOMAIN u = 1 .. Len(u)
    BY Zenon, LenProperties
  <2> QED
    BY Zenon, <2>1, <2>2, <2>3
<1>4. \A i \in 1 .. Len(q) + 1 : i \in 1 .. Len(q) \/ i = Len(q) + 1
  BY <1>3
<1> HIDE DEF f, q
<1>5. ASSUME NEW i \in DOMAIN pipe'[e]
      PROVE  \/ i \in DOMAIN q /\ pipe'[e][i] = q[i]
             \/ i = Len(q) + 1 /\ pipe'[e] = Append(q, f) /\ pipe'[e][i] = f
  <2>1. CASE pipe'[e] = q
    <3>1. i \in DOMAIN q /\ pipe'[e][i] = q[i]
      BY ONLY <2>1, i \in DOMAIN pipe'[e], Zenon
    <3> QED
      BY Zenon, <3>1
  <2>2. CASE pipe'[e] = Append(q, f)
    <3> DEFINE u == Append(q, f)
    <3>1. pipe'[e] = u /\ pipe'[e][i] = u[i] /\ i \in 1 .. Len(q) + 1
      BY Zenon, <1>3, <2>2
    <3>2. CASE i \in 1 .. Len(q)
      <4>1. u[i] = q[i] /\ i \in DOMAIN q
        BY Zenon, <1>3, <3>2
      <4> QED
        BY Zenon, <3>1, <4>1
    <3>3. CASE i = Len(q) + 1
      <4>1. u[i] = f
        BY Zenon, <1>3, <3>3
      <4> QED
        BY Zenon, <3>1, <3>3, <4>1
    <3> QED
      BY Zenon, <1>4, <3>1, <3>2, <3>3
  <2> QED
    BY Zenon, <1>2, <2>1, <2>2 DEF q
<1>6. ASSUME Calm', NEW x \in Ends
      PROVE  Once(x)'
  <2>1. Once(x)
    BY Zenon, <1>1, <1>6 DEF Onward, Calm
  <2>2. CASE x # e
    BY Zenon, <1>1, <1>2, <2>1, <2>2, OnceSame
  <2>3. CASE x = e
    <3>0. Once(e)
      BY Zenon, <2>1, <2>3
    <3>1. \A h \in Senders[e] : sealed'[e][h] # None => h # g /\ sealed'[e][h] = sealed[e][h] /\ sealed[e][h].seq # f.seq
      <4>1. \A h \in Senders[e] : sealed[e][h] # None /\ sealed[e][h].seq = f.seq => h = g
        BY Zenon, <1>1, <3>0 DEF Once, f
      <4> QED
        BY Zenon, <1>2, <4>1
    <3>2. \A i \in DOMAIN q : q[i].seq # f.seq
      BY Zenon, <1>1, <3>0 DEF Once, f, q
    <3>3. Underway(e)' \subseteq Underway(e)
      <4>1. f \in Underway(e)
        BY Zenon, <1>1 DEF Underway, f
      <4> QED
        BY Zenon, <1>5, <3>1, <4>1 DEF Underway, Range, q
    <3>4. \A i, j \in DOMAIN pipe'[e] : pipe'[e][i].seq = pipe'[e][j].seq => i = j
      BY Zenon, <1>5, <3>0, <3>2 DEF Once, q
    <3>5. \A h \in Senders[e] : sealed'[e][h] # None =>
            /\ \A k \in Senders[e] : sealed'[e][k] # None /\ sealed'[e][k].seq = sealed'[e][h].seq => k = h
            /\ \A i \in DOMAIN pipe'[e] : pipe'[e][i].seq # sealed'[e][h].seq
      <4> SUFFICES ASSUME NEW h \in Senders[e], sealed'[e][h] # None
                   PROVE  /\ \A k \in Senders[e] : sealed'[e][k] # None /\ sealed'[e][k].seq = sealed'[e][h].seq => k = h
                          /\ \A i \in DOMAIN pipe'[e] : pipe'[e][i].seq # sealed'[e][h].seq
        BY Zenon
      <4>1. sealed'[e][h] = sealed[e][h] /\ sealed[e][h] # None /\ sealed[e][h].seq # f.seq
        BY Zenon, <3>1
      <4>2. /\ \A k \in Senders[e] : sealed[e][k] # None /\ sealed[e][k].seq = sealed[e][h].seq => k = h
            /\ \A i \in DOMAIN q : q[i].seq # sealed[e][h].seq
        BY Zenon, <3>0, <4>1 DEF Once, q
      <4>3. ASSUME NEW i \in DOMAIN pipe'[e] PROVE pipe'[e][i].seq # sealed'[e][h].seq
        BY Zenon, <1>5, <4>1, <4>2
      <4>4. ASSUME NEW k \in Senders[e], sealed'[e][k] # None, sealed'[e][k].seq = sealed'[e][h].seq PROVE k = h
        BY Zenon, <3>1, <4>1, <4>2, <4>4
      <4> QED
        BY Zenon, <4>3, <4>4
    <3>6. pipe'[e] \in Seq(Frames(e)) /\ sendSeq'[e] = sendSeq[e]
      BY Zenon, <1>1, <1>2, <1>3
    <3> QED
      BY Zenon, <1>2, <2>3, <3>0, <3>3, <3>4, <3>5, <3>6 DEF Once
  <2> QED
    BY Zenon, <2>2, <2>3
<1> QED
  BY Zenon, <1>1, <1>6 DEF Onward

\* Close leaves the frames alone, and a path that has meddled stays so.
LEMMA RestOnward ==
  ASSUME Onward, NEW e \in Ends, Close(e) \/ Replay(e) \/ Damage(e)
  PROVE  Onward'
<1>1. CASE Close(e)
  <2>1. UNCHANGED <<sendSeq, sealed, pipe, delivered, meddled>>
    BY Zenon, <1>1 DEF Close
  <2>2. \A x : SeenBy(x)' = SeenBy(x)
    BY Zenon, <2>1 DEF SeenBy
  <2> QED
    BY Zenon, <2>1, <2>2, OnceSame DEF Onward, Calm
<1>2. CASE Replay(e) \/ Damage(e)
  <2>1. \/ meddled' = [meddled EXCEPT !.replayed = @ + 1]
        \/ meddled' = [meddled EXCEPT !.damaged = @ + 1]
    BY Zenon, <1>2 DEF Replay, Damage
  <2>2. meddled' \in [replayed : Nat, damaged : Nat] /\ ~Calm'
    BY <2>1 DEF Onward, Calm
  <2> QED
    BY Zenon, <2>2 DEF Onward
<1> QED
  BY Zenon, <1>1, <1>2

\* No number is under way twice, for any number of frames.
LEMMA OnwardInvariance == Spec => []Onward
<1>1. Init => Onward
  <2> SUFFICES ASSUME Init PROVE Onward
    OBVIOUS
  <2>1. \A e \in Ends : Underway(e) = {} /\ SeenBy(Peer(e)) = {} /\ sendSeq[e] \in Nat
                      /\ pipe[e] \in Seq(Frames(e)) /\ DOMAIN pipe[e] = {}
                      /\ \A g \in Senders[e] : sealed[e][g] = None
    <3> SUFFICES ASSUME NEW e \in Ends
                 PROVE  Underway(e) = {} /\ SeenBy(Peer(e)) = {} /\ sendSeq[e] \in Nat
                        /\ pipe[e] \in Seq(Frames(e)) /\ DOMAIN pipe[e] = {}
                        /\ \A g \in Senders[e] : sealed[e][g] = None
      BY Zenon
    <3>1. \A g \in Senders[e] : sealed[e][g] = None
      BY Zenon DEF Init
    <3>2. pipe[e] = <<>> /\ DOMAIN <<>> = {} /\ <<>> \in Seq(Frames(e)) /\ sendSeq[e] \in Nat
      BY DEF Init
    <3>3. Underway(e) = {}
      BY Zenon, <3>1, <3>2 DEF Underway, Range
    <3>4. SeenBy(Peer(e)) = {}
      BY Peers DEF Init, SeenBy
    <3> QED
      BY Zenon, <3>1, <3>2, <3>3, <3>4
  <2>2. \A e \in Ends : Once(e)
    BY Zenon, <2>1 DEF Once
  <2> QED
    BY Zenon, <2>2 DEF Onward, Init
<1>2. IInv /\ Onward /\ [Next]_vars => Onward'
  <2> SUFFICES ASSUME IInv, Onward, [Next]_vars PROVE Onward'
    BY Zenon
  <2>1. CASE UNCHANGED vars
    <3>1. \A x : SeenBy(x)' = SeenBy(x)
      BY Zenon, <2>1 DEF SeenBy, vars
    <3> QED
      BY Zenon, <2>1, <3>1, OnceSame DEF Onward, Calm, vars
  <2>2. CASE Next
    BY Zenon, <2>2, SealOnward, OpenOnward, OfferOnward, RestOnward DEF Next
  <2> QED
    BY Zenon, <2>1, <2>2
<1> QED
  BY <1>1, <1>2, Invariance, PTL DEF Spec

\* An interval of r numbers has r members.
LEMMA IntervalSize ==
  ASSUME NEW a \in Int, NEW r \in Nat \ {0}
  PROVE  IsFiniteSet(a .. a + r - 1) /\ Cardinality(a .. a + r - 1) = r
<1>1. a + r - 1 \in Int /\ a <= a + r - 1
  OBVIOUS
<1>2. IsFiniteSet(a .. a + r - 1) /\ Cardinality(a .. a + r - 1) = (a + r - 1) - a + 1
  BY <1>1, FS_Interval
<1> QED
  BY <1>2

\* Fewer frames than half the epochs' worth: the next frame of the stream is
\* accepted, as NextFrameAccepted says, whether or not later ones overtook it.  A
\* receiver two epochs behind the frame would be without a whole interval of the
\* frames before it; one that is two epochs ahead is excluded; and as no number is
\* under way twice, the replay window has not seen it.
THEOREM NextFrameIsAccepted ==
  ASSUME FewFrames
  PROVE  Spec => []NextFrameAccepted
<1>1. ASSUME IInv, Sync, Onward
      PROVE  NextFrameAccepted
  <2> DEFINE Hyp(e, f) ==
               /\ pipe[e] # <<>> /\ ~closed[Peer(e)] /\ Calm
               /\ \A s \in SeenBy(Peer(e)) : s < f.seq + windowSize
               /\ Cardinality((0 .. f.seq - 1) \ SeenBy(Peer(e))) < rotationInterval
               /\ turns[Peer(e)] < f.turn + 2
  <2> SUFFICES ASSUME NEW e \in Ends, Hyp(e, Head(pipe[e]))
               PROVE  Authentic(Peer(e), Head(pipe[e])) /\ Window(Peer(e))!Fresh(Head(pipe[e]).seq)
    BY Zenon DEF NextFrameAccepted, Calm
  <2> DEFINE p == Peer(e)
             f == Head(pipe[e])
             R == rotationInterval
             H == EpochMod \div 2
  <2>0. /\ Types /\ FramesMatch /\ KeysMatch
        /\ p \in Ends /\ Peer(p) = e /\ pipe[e] # <<>> /\ ~closed[p]
        /\ R \in Nat \ {0} /\ EpochMod \in Nat /\ EpochMod >= 3
        /\ H \in Nat /\ 2 * H <= EpochMod
    BY <1>1, Peers, SessionAssumption DEF IInv
  <2>1. f \in Underway(e)
    <3>1. pipe[e] \in Seq(Frames(e))
      BY Zenon, <2>0 DEF FramesMatch
    <3>2. 1 \in DOMAIN pipe[e] /\ f = pipe[e][1]
      BY <2>0, <3>1, EmptySeq, LenProperties, HeadTailProperties
    <3> QED
      BY Zenon, <3>2 DEF Underway, Range
  <2>2. f \in Frames(e) /\ f.seq \in Nat /\ f.epoch \in Nat
    BY <2>0, <2>1, UnderwayFrames DEF Epochs
  <2>3. Hyp(e, f)
    BY Zenon
  <2>4. \A x \in Ends : Past(x) /\ Ahead(x)
    BY Zenon, <1>1, <2>3 DEF Sync, Hyp
  <2>5. epoch[e] \in Nat /\ epoch[p] \in Nat /\ epoch[e] <= H /\ epoch[p] <= H
    BY Zenon, <2>0, <2>4, NoWrap
  <2>s. \A n \in Nat : n <= H => Succ(n) = n + 1
    BY Zenon, <2>0, <2>4, NoWrap
  <2>h. H \in Nat /\ H + H <= EpochMod /\ EpochMod \in Nat /\ EpochMod >= 3
    BY <2>0
  <2> HIDE DEF f, p, H, Hyp
  <2>6. f.intact /\ f.epoch <= epoch[e]
    BY Zenon, <2>1, <2>4 DEF Past
  <2>7. ~(epoch[p] >= f.epoch + 2)
    <3>1. turns[p] = epoch[p] /\ f.turn = f.epoch
      BY Zenon, <2>0, <2>1, <2>4 DEF Past
    <3>2. turns[p] < f.turn + 2
      BY Zenon, <2>3 DEF Hyp, p
    <3> QED
      BY <2>2, <2>5, <3>1, <3>2
  <2>8. ~(f.epoch >= epoch[p] + 2)
    <3> SUFFICES ASSUME f.epoch >= epoch[p] + 2 PROVE FALSE
      BY Zenon
    <3> DEFINE n1 == epoch[p] + 1
               n2 == epoch[p] + 2
               S == SeenBy(p)
    <3>1. n1 \in epoch[p] + 1 .. epoch[e] /\ n2 \in epoch[p] + 1 .. epoch[e]
      BY <2>2, <2>5, <2>6
    <3>2. /\ Start(e, n1) >= 0 /\ \A s \in S : s < Start(e, n1)
          /\ f.seq >= Start(e, n2)
      <4>1. f.epoch >= n2 /\ n1 \in epoch[Peer(e)] + 1 .. epoch[e] /\ n2 \in epoch[Peer(e)] + 1 .. epoch[e]
        BY Zenon, <3>1 DEF p
      <4> HIDE DEF n1, n2
      <4> QED
        BY Zenon, <2>1, <2>4, <4>1 DEF Ahead, p
    <3>3. /\ Start(e, n1) \in Int /\ Start(e, n2) = Start(e, n1) + R
      <4>1. sendSeq[e] \in Nat /\ Turns(sendSeq[e]) \in Nat
        BY Zenon, <2>0, TurnsGrow DEF Types
      <4> DEFINE k == Turns(sendSeq[e]) - (epoch[e] - n1)
      <4>2. k \in Int /\ Turns(sendSeq[e]) - (epoch[e] - n2) = k + 1
        <5> DEFINE t == Turns(sendSeq[e])
                   i == epoch[e]
                   j == epoch[p]
        <5>1. t \in Int /\ i \in Int /\ j \in Int
          BY <2>5, <4>1
        <5> HIDE DEF t, i, j
        <5>2. t - (i - (j + 1)) \in Int /\ t - (i - (j + 2)) = (t - (i - (j + 1))) + 1
          BY <5>1
        <5> QED
          BY Zenon, <5>2 DEF t, i, j
      <4>3. k * R \in Int /\ (k + 1) * R = k * R + R
        <5>1. k \in Int /\ R \in Int
          BY <2>0, <4>2
        <5> HIDE DEF k, R
        <5> QED
          BY <5>1
      <4> QED
        BY Zenon, <4>2, <4>3 DEF Start
    <3> DEFINE a == Start(e, n1)
    <3> HIDE DEF n1, n2, a
    <3>4. a .. a + R - 1 \subseteq (0 .. f.seq - 1) \ S
      <4>1. a \in Int /\ a >= 0 /\ f.seq >= a + R /\ \A s \in S : s < a
        BY Zenon, <3>2, <3>3 DEF a
      <4>2. S \subseteq Nat
        BY Zenon, <2>0, SeenNumbers
      <4> QED
        BY <2>0, <2>2, <4>1, <4>2
    <3>5. IsFiniteSet(0 .. f.seq - 1) /\ IsFiniteSet((0 .. f.seq - 1) \ S)
      <4>1. 0 \in Int /\ f.seq - 1 \in Int
        BY <2>2
      <4>2. IsFiniteSet(0 .. f.seq - 1)
        BY Zenon, <4>1, FS_Interval
      <4> QED
        BY Zenon, <4>2, FS_Difference
    <3>6. Cardinality(a .. a + R - 1) = R
      BY Zenon, <2>0, <3>3, IntervalSize DEF a
    <3>7. Cardinality(a .. a + R - 1) <= Cardinality((0 .. f.seq - 1) \ S)
      BY Zenon, <3>4, <3>5, FS_Subset
    <3>8. Cardinality((0 .. f.seq - 1) \ S) \in Nat
      BY Zenon, <3>5, FS_CardinalityType
    <3>9. Cardinality((0 .. f.seq - 1) \ S) < R
      BY Zenon, <2>3 DEF Hyp, p
    <3> QED
      BY <2>0, <3>6, <3>7, <3>8, <3>9
  <2>9. Authentic(p, f)
    <3>1. f.key = Key(e, f.epoch)
      BY Zenon, <2>2, <2>6 DEF Frames
    <3>2. recv[p] = Key(e, epoch[p])
      BY Zenon, <2>0 DEF KeysMatch
    <3>3. Succ(epoch[p]) = epoch[p] + 1
      BY Zenon, <2>5, <2>s, <2>h
    <3>4. CASE f.epoch = epoch[p]
      <4>1. f.epoch # Succ(epoch[p]) /\ Succ(f.epoch) # epoch[p]
        BY <2>5, <3>3, <3>4
      <4> QED
        BY Zenon, <2>6, <3>1, <3>2, <3>4, <4>1 DEF Authentic, ChainFor
    <3>5. CASE f.epoch = epoch[p] + 1
      <4>1. f.epoch # epoch[p] /\ f.epoch = Succ(epoch[p])
        BY <2>5, <3>3, <3>5
      <4>2. Succ(f.epoch) # epoch[p]
        <5>1. (epoch[p] + 2) % EpochMod # epoch[p]
          BY <2>5, <2>h
        <5> QED
          BY <2>5, <3>5, <5>1 DEF Succ
      <4> QED
        BY Zenon, <2>0, <2>6, <3>1, <4>1, <4>2 DEF Authentic, ChainFor
    <3>6. CASE f.epoch + 1 = epoch[p]
      <4>1. f.epoch <= H
        BY <2>2, <2>5, <2>h, <3>6
      <4>2. Succ(f.epoch) = epoch[p]
        BY Zenon, <2>2, <2>s, <2>h, <3>6, <4>1
      <4>3. epoch[p] # 0 /\ f.epoch # epoch[p] /\ f.epoch # epoch[p] + 1
        BY <2>2, <2>5, <3>6
      <4>4. recvOld[p] # None
        BY Zenon, <1>1, <2>0, <4>3 DEF Sync
      <4>5. PICK m \in Epochs : Succ(m) = epoch[p] /\ recvOld[p] = Key(e, m)
        BY Zenon, <2>0, <4>4 DEF KeysMatch
      <4>6. m = f.epoch
        <5>1. f.epoch \in Epochs
          BY Zenon, <2>2 DEF Frames
        <5> QED
          BY Zenon, <4>2, <4>5, <5>1, Successor
      <4> QED
        BY Zenon, <2>6, <3>1, <3>3, <4>2, <4>3, <4>5, <4>6 DEF Authentic, ChainFor
    <3> QED
      BY <2>2, <2>5, <2>7, <2>8, <3>4, <3>5, <3>6
  <2>10. Window(p)!Fresh(f.seq)
    <3>1. \A s \in SeenBy(p) : s < f.seq + windowSize /\ s \in Nat
      BY Zenon, <2>0, <2>3, SeenNumbers DEF Hyp, p
    <3>2. f.seq \notin SeenBy(p)
      BY Zenon, <1>1, <2>1, <2>3 DEF Hyp, Onward, Once, p
    <3> QED
      BY <2>2, <3>1, <3>2, SessionAssumption DEF Window!Fresh
  <2> QED
    BY Zenon, <2>9, <2>10 DEF f, p
<1> QED
  BY <1>1, Invariance, SyncInvariance, OnwardInvariance, PTL
=============================================================================
