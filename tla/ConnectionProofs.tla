--------------------------- MODULE ConnectionProofs ---------------------------
(***************************************************************************)
(* The connections of a node: those of its session manager and the one to  *)
(* the relay.                                                              *)
(*                                                                         *)
(* The registry of SessionManager agrees with the open connections for any *)
(* number of connections, peers and names.                                 *)
(*                                                                         *)
(* Read of a WebSocket connection returns the data stream as it was        *)
(* written, for any number of writers, frames and bytes.  The invariant    *)
(* lays the frames on the wire one after the other on the stream (Laid),   *)
(* after the bytes that are left of the frame being read (Left).           *)
(***************************************************************************)
EXTENDS SessionManager, WSConn, TLAPS

-----------------------------------------------------------------------------
(* The registry of the session manager.                                    *)

\* What register has kept, whether or not its loops still run.
Kept == {c \in Conns : phase[c] \in {"kept", "up", "over"}}

\* Only connections that were kept are ever closed through conn.once or
\* reachable from a map, from Disconnect or from Shutdown; the loops of one end
\* after its once is done.
Reachable ==
  /\ \A c \in Conns \ Kept : once[c] = "unused"
  /\ \A c \in Conns : phase[c] = "over" => once[c] = "done"
  /\ \A n \in Names : byName[n] # nil => byName[n] \in Kept
  /\ leaving # nil => leaving \in Kept
  /\ list \subseteq Kept

\* The inductive invariant.
IInv == TypeOK /\ Reachable /\ RegistryMatchesOpen /\ ByNameNeverStale

\* The empty registry of NewManager satisfies the invariant.
LEMMA InitIInv == Init => IInv
  BY ManagerAssumption
  DEF Init, IInv, TypeOK, Reachable, Kept, RegistryMatchesOpen, Open, ByNameNeverStale

\* Every step keeps the fields of Manager and conn well typed.
LEMMA NextTypeOK == IInv /\ [Next]_vars => TypeOK'
<1> SUFFICES ASSUME IInv, [Next]_vars PROVE TypeOK'
  BY Zenon
<1> USE ManagerAssumption DEF IInv, TypeOK, registry, perConn, others
<1>1. ASSUME NEW c \in Conns, Start(c) PROVE TypeOK'
  BY Zenon, <1>1 DEF Start
<1>2. ASSUME NEW c \in Conns, runHandshake(c) PROVE TypeOK'
  <2>1. CASE HandshakeFails(c) BY Zenon, <2>1 DEF HandshakeFails
  <2>2. CASE RegisterRefuses(c) BY Zenon, <2>2 DEF RegisterRefuses
  <2>3. CASE RegisterKeeps(c) BY Zenon, <2>3 DEF RegisterKeeps
  <2>4. CASE RegisterWaits(c) BY Zenon, <2>4 DEF RegisterWaits
  <2>5. CASE StartLoops(c) BY Zenon, <2>5 DEF StartLoops
  <2> QED BY Zenon, <1>2, <2>1, <2>2, <2>3, <2>4, <2>5 DEF runHandshake
<1>3. ASSUME NEW c \in Conns, announce(c) PROVE TypeOK'
  <2>1. CASE AnnounceFires(c) BY Zenon, <2>1 DEF AnnounceFires
  <2>2. CASE AnnounceLooksUp(c) BY Zenon, <2>2 DEF AnnounceLooksUp
  <2>3. CASE AnnounceMarks(c) BY Zenon, <2>3 DEF AnnounceMarks
  <2> QED BY Zenon, <1>3, <2>1, <2>2, <2>3 DEF announce
<1>4. ASSUME NEW c \in Conns, dropConn(c) PROVE TypeOK'
  <2>1. CASE Unregister(c) BY Zenon, <2>1 DEF Unregister, unregister
  <2>2. CASE DropReturns(c) BY Zenon, <2>2 DEF DropReturns
  <2>3. CASE LoopsEnd(c) BY Zenon, <2>3 DEF LoopsEnd
  <2> QED BY <1>4, <2>1, <2>2, <2>3 DEF dropConn
<1>5. ASSUME NEW c \in Conns, LoopFails(c) PROVE TypeOK'
  BY Zenon, <1>5 DEF LoopFails, Dropping
<1>6. ASSUME NEW c \in Conns, Tick(c) PROVE TypeOK'
  BY <1>6 DEF Tick, Dropping
<1>7. ASSUME NEW c \in Conns, Pong(c) PROVE TypeOK'
  BY <1>7 DEF Pong
<1>8. ASSUME NEW c \in Conns, BlackHole(c) PROVE TypeOK'
  BY Zenon, <1>8 DEF BlackHole
<1>9. ASSUME NEW c \in Conns, DisconnectDrops(c) PROVE TypeOK'
  BY Zenon, <1>9 DEF DisconnectDrops, Dropping
<1>10. ASSUME NEW c \in Conns, ShutdownDrops(c) PROVE TypeOK'
  BY Zenon, <1>10 DEF ShutdownDrops, Dropping
<1>11. ASSUME NEW n \in Names, Disconnect(n) PROVE TypeOK'
  BY Zenon, <1>11 DEF Disconnect
<1>12. CASE Shutdown
  BY <1>12 DEF Shutdown
<1>13. CASE ShutdownWaits \/ ShutdownReturns
  BY Zenon, <1>13 DEF ShutdownWaits, ShutdownReturns
<1>14. CASE UNCHANGED vars
  BY Zenon, <1>14 DEF vars
<1> HIDE ManagerAssumption DEF IInv, TypeOK, registry, perConn, others
<1> QED
  BY Zenon, <1>1, <1>2, <1>3, <1>4, <1>5, <1>6, <1>7, <1>8, <1>9, <1>10, <1>11, <1>12, <1>13, <1>14
  DEF Next

\* A step that leaves the maps and the phases alone, and closes at most one
\* connection that was kept, keeps the registry invariant: the connection stays
\* in the map until its unregister.
LEMMA DroppingKeeps ==
  ASSUME IInv, TypeOK', NEW c \in Kept, Dropping(c),
         UNCHANGED <<registry, phase>>,
         leaving' \in {leaving, nil}, list' \subseteq list
  PROVE  IInv'
  BY ManagerAssumption
  DEF IInv, TypeOK, Reachable, Kept, RegistryMatchesOpen, Open, ByNameNeverStale, Dropping, registry

\* A step that touches neither the maps nor the phases nor any conn.once keeps
\* the registry invariant.
LEMMA QuietKeeps ==
  ASSUME IInv, TypeOK', UNCHANGED <<registry, phase, once>>,
         leaving' # nil => leaving' \in Kept, list' \subseteq Kept
  PROVE  IInv'
  BY DEF IInv, Reachable, Kept, RegistryMatchesOpen, Open, ByNameNeverStale, registry

\* register: the connection it replaces is the only open one of that peer.
LEMMA RegisterKeepsIInv ==
  ASSUME IInv, TypeOK', NEW c \in Conns, RegisterKeeps(c)
  PROVE  IInv'
<1> USE ManagerAssumption DEF IInv, TypeOK, registry, others
<1> DEFINE old == conns[fp[c]]
<1>1. /\ phase[c] = "handshake" /\ c \notin Kept /\ once[c] = "unused"
      /\ old # c
      /\ Kept' = Kept \cup {c}
  BY DEF RegisterKeeps, Kept, Reachable, RegistryMatchesOpen
<1>2. once'[c] = "unused" /\ \A d \in Conns : d # old => once'[d] = once[d]
  BY <1>1 DEF RegisterKeeps
<1>3. old # nil => once'[old] = "done" /\ old \in Kept
  BY <1>1 DEF RegisterKeeps, RegistryMatchesOpen, Kept
<1>4. Reachable'
  BY <1>1, <1>2, <1>3 DEF RegisterKeeps, Reachable, Kept
<1>5. RegistryMatchesOpen'
  <2>1. ASSUME NEW d \in Conns, Open(d)' PROVE conns'[fp[d]] = d
    <3>1. CASE d = c BY <3>1 DEF RegisterKeeps
    <3>2. CASE d # c
      <4>1. Open(d) /\ d # old
        BY <1>2, <1>3, <2>1, <3>2 DEF Open, RegisterKeeps
      <4>2. conns[fp[d]] = d /\ fp[d] # fp[c]
        BY Zenon, <4>1 DEF RegistryMatchesOpen
      <4> QED BY <4>2 DEF RegisterKeeps
    <3> QED BY Zenon, <3>1, <3>2
  <2>2. ASSUME NEW p \in Fingerprints, conns'[p] # nil
        PROVE  /\ fp[conns'[p]] = p
               /\ phase'[conns'[p]] \in {"kept", "up"}
               /\ once'[conns'[p]] \in {"unused", "closed"}
    <3>1. CASE p = fp[c] BY <1>2, <3>1 DEF RegisterKeeps
    <3>2. CASE p # fp[c]
      <4>1. conns'[p] = conns[p] /\ conns[p] \in Conns /\ fp[conns[p]] = p
        BY <2>2, <3>2 DEF RegisterKeeps, RegistryMatchesOpen
      <4>2. conns[p] # c /\ conns[p] # old
        BY <1>3, <3>2, <4>1 DEF RegistryMatchesOpen
      <4> QED BY <1>2, <2>2, <4>1, <4>2 DEF RegisterKeeps, RegistryMatchesOpen
    <3> QED BY Zenon, <3>1, <3>2
  <2> QED BY Zenon, <2>1, <2>2 DEF RegistryMatchesOpen
<1>6. ByNameNeverStale'
  <2> SUFFICES ASSUME \A d, e \in Conns : fp[d] = fp[e] => name[d] = name[e],
                      NEW n \in Names, byName'[n] # nil
               PROVE  name[byName'[n]] = n /\ conns'[fp[byName'[n]]] = byName'[n]
    BY Zenon DEF ByNameNeverStale
  <2>1. CASE n = name[c] BY <2>1 DEF RegisterKeeps
  <2>2. CASE n # name[c]
    <3>1. byName'[n] = byName[n] /\ byName[n] \in Conns BY <2>2 DEF RegisterKeeps
    <3>2. name[byName[n]] = n /\ conns[fp[byName[n]]] = byName[n]
      BY Zenon, <3>1 DEF ByNameNeverStale
    <3>3. fp[byName[n]] # fp[c] BY Zenon, <2>2, <3>1, <3>2
    <3> QED BY <3>1, <3>2, <3>3 DEF RegisterKeeps
  <2> QED BY Zenon, <2>1, <2>2
<1> QED BY Zenon, <1>4, <1>5, <1>6

\* unregister takes a connection out of both maps.
LEMMA UnregisterKeepsIInv ==
  ASSUME IInv, TypeOK', NEW c \in Conns, Unregister(c)
  PROVE  IInv'
<1> USE ManagerAssumption DEF IInv, TypeOK, registry, others
<1>1. c \in Kept /\ Kept' = Kept /\ once[c] = "closed"
  BY DEF Unregister, Reachable, Kept
<1>2. once' = [once EXCEPT ![c] = "unregistered"] /\ phase' = phase
  BY Zenon DEF Unregister
<1>3. /\ \A p \in Fingerprints : conns'[p] = IF conns[p] = c THEN nil ELSE conns[p]
      /\ \A n \in Names : byName'[n] \in {nil, byName[n]}
  BY DEF Unregister, unregister, RegistryMatchesOpen
<1>4. Reachable'
  BY <1>1, <1>2, <1>3 DEF Unregister, Reachable
<1>5. RegistryMatchesOpen'
  BY <1>1, <1>2, <1>3 DEF RegistryMatchesOpen, Open
<1>6. ByNameNeverStale'
  <2> SUFFICES ASSUME \A d, e \in Conns : fp[d] = fp[e] => name[d] = name[e],
                      NEW n \in Names, byName'[n] # nil
               PROVE  name[byName'[n]] = n /\ conns'[fp[byName'[n]]] = byName'[n]
    BY DEF ByNameNeverStale
  <2>1. byName'[n] = byName[n] /\ byName[n] \in Conns BY <1>3
  <2>2. name[byName[n]] = n /\ conns[fp[byName[n]]] = byName[n]
    BY <2>1 DEF ByNameNeverStale
  <2>3. byName[n] # c
    BY <2>1, <2>2 DEF Unregister, unregister
  <2> QED BY <1>3, <2>1, <2>2, <2>3
<1> QED BY <1>4, <1>5, <1>6

\* Every step of every goroutine keeps the invariant.
LEMMA NextIInv == IInv /\ [Next]_vars => IInv'
<1> SUFFICES ASSUME IInv, [Next]_vars PROVE IInv'
  BY Zenon
<1>0. TypeOK'
  BY Zenon, NextTypeOK
<1> USE <1>0
<1>a. /\ leaving # nil => leaving \in Kept
      /\ list \subseteq Kept
  BY Zenon DEF IInv, Reachable
<1>1. ASSUME NEW c \in Conns, Start(c) \/ HandshakeFails(c) \/ RegisterRefuses(c) \/ RegisterWaits(c)
      PROVE IInv'
  <2>1. /\ UNCHANGED <<conns, byName, once, leaving, list>>
        /\ c \notin Kept /\ phase[c] # "over"
        /\ \E q \in {"handshake", "failed", "refused", "waiting"} : phase' = [phase EXCEPT ![c] = q]
    BY Zenon, <1>1 DEF Start, HandshakeFails, RegisterRefuses, RegisterWaits, Kept, registry, others
  <2>2. Kept' = Kept /\ \A d \in Kept : phase'[d] = phase[d]
    BY <2>1 DEF Kept, IInv, TypeOK
  <2>3. c # nil /\ \A p \in Fingerprints : conns[p] # c
    BY <2>1, ManagerAssumption DEF Kept, IInv, RegistryMatchesOpen
  <2>4. Reachable' BY Zenon, <2>1, <2>2 DEF IInv, Reachable, TypeOK, Kept
  <2>5. RegistryMatchesOpen'
    BY <2>1, <2>2, <2>3, ManagerAssumption DEF IInv, TypeOK, RegistryMatchesOpen, Open, Kept
  <2> QED BY Zenon, <2>1, <2>4, <2>5 DEF IInv, ByNameNeverStale
<1>2. ASSUME NEW c \in Conns, StartLoops(c) PROVE IInv'
  BY <1>2, ManagerAssumption
  DEF StartLoops, IInv, TypeOK, Reachable, Kept, RegistryMatchesOpen, Open, ByNameNeverStale, registry, others
<1>3. ASSUME NEW c \in Conns, RegisterKeeps(c) PROVE IInv'
  BY Zenon, <1>3, RegisterKeepsIInv
<1>4. ASSUME NEW c \in Conns, announce(c) \/ Pong(c) \/ BlackHole(c) PROVE IInv'
  <2>1. UNCHANGED <<registry, phase, once, leaving, list>>
    BY Zenon, <1>4 DEF announce, AnnounceFires, AnnounceLooksUp, AnnounceMarks, Pong,
       BlackHole, registry, perConn, others
  <2> QED BY Zenon, <2>1, <1>a, QuietKeeps
<1>5. ASSUME NEW c \in Conns, Unregister(c) PROVE IInv'
  BY <1>5, UnregisterKeepsIInv
<1>6. ASSUME NEW c \in Conns, DropReturns(c) PROVE IInv'
  BY <1>6, ManagerAssumption
  DEF DropReturns, IInv, TypeOK, Reachable, Kept, RegistryMatchesOpen, Open, ByNameNeverStale, registry, others
<1>7. ASSUME NEW c \in Conns, LoopsEnd(c) PROVE IInv'
  BY SMTT(30), <1>7, ManagerAssumption
  DEF LoopsEnd, IInv, TypeOK, Reachable, Kept, RegistryMatchesOpen, Open, ByNameNeverStale, registry, others
<1>8. ASSUME NEW c \in Conns, LoopFails(c) \/ DisconnectDrops(c) \/ ShutdownDrops(c) PROVE IInv'
  <2>1. c \in Kept
    BY Zenon, <1>8, <1>a, ManagerAssumption DEF LoopFails, DisconnectDrops, ShutdownDrops, Kept
  <2>2. /\ Dropping(c) /\ UNCHANGED <<registry, phase>>
        /\ leaving' \in {leaving, nil} /\ list' \subseteq list
    BY Zenon, <1>8 DEF LoopFails, DisconnectDrops, ShutdownDrops, others
  <2> QED BY Zenon, <2>1, <2>2, DroppingKeeps
<1>9. ASSUME NEW c \in Conns, Tick(c) PROVE IInv'
  <2>1. c \in Kept /\ UNCHANGED <<registry, phase, leaving, list>>
    BY Zenon, <1>9 DEF Tick, Kept, others
  <2>2. CASE Dropping(c) BY Zenon, <2>1, <2>2, DroppingKeeps
  <2>3. CASE UNCHANGED once BY Zenon, <1>a, <2>1, <2>3, QuietKeeps
  <2> QED BY Zenon, <1>9, <2>2, <2>3 DEF Tick
<1>10. ASSUME NEW n \in Names, Disconnect(n) PROVE IInv'
  <2>1. UNCHANGED <<registry, phase, once>> /\ leaving' \in Kept /\ list' = list
    BY Zenon, <1>10 DEF Disconnect, registry, perConn, IInv, Reachable
  <2> QED BY Zenon, <1>a, <2>1, QuietKeeps
<1>11. CASE Shutdown
  <2>1. UNCHANGED <<registry, phase, once, leaving>> /\ list' \subseteq Kept
    BY <1>11 DEF Shutdown, registry, perConn, IInv, TypeOK, RegistryMatchesOpen, Kept
  <2> QED BY Zenon, <1>a, <2>1, QuietKeeps
<1>12. CASE ShutdownWaits \/ ShutdownReturns \/ UNCHANGED vars
  <2>1. UNCHANGED <<registry, phase, once, leaving, list>>
    BY Zenon, <1>12 DEF ShutdownWaits, ShutdownReturns, vars, registry, perConn
  <2> QED BY Zenon, <1>a, <2>1, QuietKeeps
<1> QED
  BY Zenon, <1>1, <1>2, <1>3, <1>4, <1>5, <1>6, <1>7, <1>8, <1>9, <1>10, <1>11, <1>12
  DEF Next, runHandshake, dropConn

\* The registry and the open connections agree (RegistryMatchesOpen): register
\* and dropConn keep at most one open connection to a peer, the one in conns.
THEOREM RegistryCorrect == Spec => []RegistryMatchesOpen
<1>1. IInv => RegistryMatchesOpen
  BY Zenon DEF IInv
<1> QED
  BY InitIInv, NextIInv, <1>1, PTL DEF Spec

\* byName never leads to a connection that the registry has dropped or replaced
\* (ByNameNeverStale), as long as peers keep their names.
THEOREM NamesCorrect == Spec => []ByNameNeverStale
<1>1. IInv => ByNameNeverStale
  BY Zenon DEF IInv
<1> QED
  BY InitIInv, NextIInv, <1>1, PTL DEF Spec

-----------------------------------------------------------------------------
(* The data stream of a WebSocket connection.                              *)

\* The kinds of frames, the bytes of a payload, and frames.
Ops == {None, "binary", "control", "close"}
Bytes == [pos : Nat, key : Nat]
Frames == [op : Ops, torn : BOOLEAN, bytes : Seq(Bytes)]

\* The bytes of f are those of the stream from the m-th on.
Placed(f, m) ==
  \A i \in 1 .. Len(f.bytes) :
    f.bytes[i].pos = m + i /\ f.bytes[i].key = (i - 1) % MaskSize

\* The frames of w are the stream from its n-th byte to its m-th: base[k] bytes
\* of it come before the k-th frame.
Laid(w, n, m, base) ==
  /\ base \in [1 .. Len(w) + 1 -> Nat]
  /\ base[1] = n
  /\ base[Len(w) + 1] = m
  /\ \A k \in 1 .. Len(w) : base[k + 1] = base[k] + Len(w[k].bytes) /\ Placed(w[k], base[k])

\* The bytes that are left of the frame being read are the next ones of the
\* stream, and rmaskPos is where the mask stands at the first of them.
Left ==
  \A i \in 1 .. Len(rem) :
    rem[i].pos = Len(got) + i /\ rem[i].key = (rmaskPos + (i - 1)) % MaskSize

\* What the variables that the stream depends on hold.
WTypes ==
  /\ tls \in BOOLEAN
  /\ op \in [Procs -> Ops]
  /\ wire \in Seq(Frames) /\ rem \in Seq(Bytes) /\ got \in Seq(Nat \cup {None})
  /\ rmaskPos \in Nat /\ written \in Nat

\* What was read is the stream so far; what is left of the frame and the wire
\* hold the rest of it.
Reads ==
  /\ \A i \in 1 .. Len(got) : got[i] = i
  /\ Left
  /\ \E base : Laid(wire, Len(got) + Len(rem), written, base)

\* The inductive invariant of the connection: until the reader fails, the
\* stream is laid out between writers and reader.
WInv ==
  /\ WTypes
  /\ \A k \in 1 .. Len(wire) : wire[k].torn => ~tls
  /\ StreamIntact
  /\ ended = "no" => Reads

\* Sequences of frames and of bytes.
LEMMA FrameSequences ==
  /\ \A w \in Seq(Frames) : Len(w) \in Nat /\ \A k \in 1 .. Len(w) : w[k] \in Frames
  /\ \A f \in Frames : f.bytes \in Seq(Bytes) /\ f.torn \in BOOLEAN
  /\ \A s \in Seq(Bytes) : Len(s) \in Nat /\ \A i \in 1 .. Len(s) : s[i] \in Bytes
<1>1. \A w \in Seq(Frames) : Len(w) \in Nat /\ \A k \in 1 .. Len(w) : w[k] \in Frames
  OBVIOUS
<1>2. \A f \in Frames : f.bytes \in Seq(Bytes) /\ f.torn \in BOOLEAN
  BY Zenon DEF Frames
<1>3. \A s \in Seq(Bytes) : Len(s) \in Nat /\ \A i \in 1 .. Len(s) : s[i] \in Bytes
  OBVIOUS
<1> QED
  BY Zenon, <1>1, <1>2, <1>3

\* A frame put on the wire comes after all the others.
LEMMA LaidAppend ==
  ASSUME NEW w \in Seq(Frames), NEW n \in Nat, NEW m \in Nat, NEW base, Laid(w, n, m, base),
         NEW f \in Frames, Placed(f, m)
  PROVE  \E b : Laid(Append(w, f), n, m + Len(f.bytes), b)
<1> DEFINE L == Len(w)
           s == Len(f.bytes)
           v == Append(w, f)
           b == [k \in 1 .. L + 2 |-> IF k = L + 2 THEN m + s ELSE base[k]]
<1>1. L \in Nat /\ s \in Nat
  BY Zenon, FrameSequences
<1>2. Len(v) = L + 1 /\ v[L + 1] = f /\ \A k \in 1 .. L : v[k] = w[k]
  OBVIOUS
<1> HIDE DEF L, s, v
<1>3. /\ base \in [1 .. L + 1 -> Nat] /\ base[1] = n /\ base[L + 1] = m
      /\ \A k \in 1 .. L : base[k + 1] = base[k] + Len(w[k].bytes) /\ Placed(w[k], base[k])
  BY Zenon DEF Laid, L
<1>4. /\ b \in [1 .. L + 2 -> Nat]
      /\ \A k \in 1 .. L + 1 : b[k] = base[k]
      /\ b[L + 2] = m + s
  BY <1>1, <1>3
<1> HIDE DEF b
<1>5. b[1] = n /\ L + 1 + 1 = L + 2
  BY <1>1, <1>3, <1>4
<1>6. ASSUME NEW k \in 1 .. L + 1
      PROVE  b[k + 1] = b[k] + Len(v[k].bytes) /\ Placed(v[k], b[k])
  <2>1. CASE k = L + 1
    BY Zenon, <1>1, <1>2, <1>3, <1>4, <1>5, <2>1 DEF s
  <2>2. CASE k \in 1 .. L
    <3>1. k + 1 \in 1 .. L + 1
      BY <1>1, <2>2
    <3> QED
      BY Zenon, <1>2, <1>3, <1>4, <2>2, <3>1
  <2> QED
    BY <1>1, <2>1, <2>2
<1>7. Laid(v, n, m + s, b)
  BY Zenon, <1>1, <1>2, <1>4, <1>5, <1>6 DEF Laid
<1> QED
  BY Zenon, <1>7 DEF v, s

\* The first frame holds the next bytes; the others follow it.
LEMMA LaidTail ==
  ASSUME NEW w \in Seq(Frames), NEW n \in Nat, NEW m \in Nat, NEW base, Laid(w, n, m, base), w # <<>>
  PROVE  /\ Placed(Head(w), n)
         /\ \E b : Laid(Tail(w), n + Len(Head(w).bytes), m, b)
<1> DEFINE L == Len(w)
           v == Tail(w)
           b == [k \in 1 .. L |-> base[k + 1]]
<1>1. L \in Nat \ {0} /\ Head(w) = w[1] /\ Len(v) = L - 1 /\ \A k \in 1 .. L - 1 : v[k] = w[k + 1]
  OBVIOUS
<1>2. /\ base \in [1 .. L + 1 -> Nat] /\ base[1] = n /\ base[L + 1] = m
      /\ \A k \in 1 .. L : base[k + 1] = base[k] + Len(w[k].bytes) /\ Placed(w[k], base[k])
  BY Zenon DEF Laid
<1> HIDE DEF L, v
<1>3. 1 \in 1 .. L /\ L - 1 + 1 = L
  BY <1>1
<1>4. Placed(Head(w), n) /\ base[2] = n + Len(Head(w).bytes)
  BY <1>1, <1>2, <1>3
<1>5. b \in [1 .. L -> Nat] /\ \A k \in 1 .. L : b[k] = base[k + 1]
  BY <1>1, <1>2
<1> HIDE DEF b
<1>6. b[1] = n + Len(Head(w).bytes) /\ b[L] = m
  BY <1>1, <1>2, <1>3, <1>4, <1>5
<1>7. ASSUME NEW k \in 1 .. L - 1
      PROVE  b[k + 1] = b[k] + Len(v[k].bytes) /\ Placed(v[k], b[k])
  <2>1. k \in 1 .. L /\ k + 1 \in 1 .. L
    BY <1>1
  <2> QED
    BY Zenon, <1>1, <1>2, <1>5, <2>1
<1>8. Laid(v, n + Len(Head(w).bytes), m, b)
  BY Zenon, <1>1, <1>3, <1>5, <1>6, <1>7 DEF Laid
<1> QED
  BY Zenon, <1>4, <1>8 DEF v

\* The same when the first frame stays, without the bytes that were taken.
LEMMA LaidTorn ==
  ASSUME NEW w \in Seq(Frames), NEW n \in Nat, NEW m \in Nat, NEW base, Laid(w, n, m, base), w # <<>>,
         NEW f \in Frames, f.bytes = <<>>
  PROVE  \E b : Laid(<<f>> \o Tail(w), n + Len(Head(w).bytes), m, b)
<1> DEFINE L == Len(w)
           v == <<f>> \o Tail(w)
           s == Len(Head(w).bytes)
           b == [k \in 1 .. L + 1 |-> IF k = 1 THEN n + s ELSE base[k]]
<1>1. L \in Nat \ {0} /\ Len(v) = L /\ v[1] = f /\ \A k \in 2 .. L : v[k] = w[k]
  OBVIOUS
<1>2. Head(w) = w[1] /\ Head(w) \in Frames /\ s \in Nat
  BY FrameSequences
<1>3. /\ base \in [1 .. L + 1 -> Nat] /\ base[1] = n /\ base[L + 1] = m
      /\ \A k \in 1 .. L : base[k + 1] = base[k] + Len(w[k].bytes) /\ Placed(w[k], base[k])
  BY Zenon DEF Laid
<1>4. base[2] = n + s
  BY <1>1, <1>2, <1>3
<1> HIDE DEF L, v, s
<1>5. b \in [1 .. L + 1 -> Nat] /\ b[1] = n + s /\ \A k \in 2 .. L + 1 : b[k] = base[k]
  BY <1>1, <1>2, <1>3
<1> HIDE DEF b
<1>6. ASSUME NEW k \in 1 .. L
      PROVE  b[k + 1] = b[k] + Len(v[k].bytes) /\ Placed(v[k], b[k])
  <2>1. CASE k = 1
    <3>1. Len(<<>>) = 0
      BY Zenon
    <3>2. Placed(v[k], b[k])
      BY <1>1, <2>1, <3>1 DEF Placed
    <3> QED
      BY <1>1, <1>2, <1>4, <1>5, <2>1, <3>1, <3>2
  <2>2. CASE k \in 2 .. L
    <3>1. k \in 2 .. L + 1 /\ k + 1 \in 2 .. L + 1
      BY <1>1, <2>2
    <3> QED
      BY Zenon, <1>1, <1>3, <1>5, <2>2, <3>1
  <2> QED
    BY <1>1, <2>1, <2>2
<1>7. Laid(v, n + s, m, b)
  BY SMTT(30), <1>1, <1>3, <1>5, <1>6 DEF Laid
<1> QED
  BY Zenon, <1>7 DEF v, s

\* What a step of a writer, or of the reader's other half, leaves alone.
Still == UNCHANGED <<tls, wire, written, rem, rmaskPos, ended, got>>

\* Such a step keeps the invariant if it keeps the type of op.
LEMMA StillKeeps ==
  ASSUME WInv, Still, op' \in [Procs -> Ops]
  PROVE  WInv'
<1>1. WTypes'
  BY Zenon DEF WInv, WTypes, Still
<1>2. StreamIntact' /\ \A k \in 1 .. Len(wire') : wire'[k].torn => ~tls'
  BY Zenon DEF WInv, StreamIntact, Still
<1>3. Reads => Reads'
  <2>1. wire' = wire /\ got' = got /\ rem' = rem /\ written' = written /\ rmaskPos' = rmaskPos
    BY Zenon DEF Still
  <2> QED
    BY Zenon, <2>1 DEF Reads, Left
<1> QED
  BY Zenon, <1>1, <1>2, <1>3 DEF WInv, Still

\* Whoever prepares a frame, or is done with one.
LEMMA OpKept ==
  ASSUME WTypes, NEW p \in Procs
  PROVE  /\ \A o \in Ops : [op EXCEPT ![p] = o] \in [Procs -> Ops]
         /\ None \in Ops /\ "binary" \in Ops /\ "control" \in Ops /\ "close" \in Ops
         /\ op[p] \in Ops
BY Zenon DEF WTypes, Ops

\* A writer that puts nothing on the wire leaves the stream as it was.
LEMMA WriterStep ==
  ASSUME WInv,
         \/ \E p \in Senders : SendMessage(p)
         \/ Ping \/ AnswerPing \/ Echo
         \/ \E p \in Closers : CallClose(p)
         \/ \E p \in Procs : EnterOnce(p) \/ Lock(p) \/ Clear(p) \/ Shut(p)
         \/ Expire
  PROVE  WInv'
<1>0. WTypes /\ pinger \in Procs /\ reader \in Procs /\ Senders \subseteq Procs
  BY Zenon DEF WInv, Procs, Closers
<1>1. Still
  BY Zenon DEF Still, SendMessage, Ping, AnswerPing, Echo, CallClose, EnterOnce, Lock, Clear, Shut, Expire, reading
<1>2. op' = op \/ \E p \in Procs : \E o \in Ops : op' = [op EXCEPT ![p] = o]
  <2>1. ASSUME NEW p \in Senders, SendMessage(p) PROVE op' = [op EXCEPT ![p] = "binary"]
    BY Zenon, <2>1 DEF SendMessage, Prepare
  <2>2. ASSUME Ping PROVE op' = [op EXCEPT ![pinger] = "control"]
    BY Zenon, <2>2 DEF Ping, Prepare
  <2>3. ASSUME AnswerPing \/ Echo PROVE \E o \in {"control", "close"} : op' = [op EXCEPT ![reader] = o]
    BY Zenon, <2>3 DEF AnswerPing, Echo, Prepare
  <2>4. ASSUME NEW p \in Procs, EnterOnce(p) PROVE op' = op \/ op' = [op EXCEPT ![p] = "close"]
    BY Zenon, <2>4 DEF EnterOnce, Prepare
  <2>5. ASSUME NEW p \in Procs, Lock(p) PROVE op' = op \/ op' = [op EXCEPT ![p] = None]
    BY Zenon, <2>5 DEF Lock, Returns
  <2>6. ASSUME NEW p \in Procs, CallClose(p) \/ Clear(p) \/ Shut(p) \/ Expire PROVE op' = op
    BY Zenon, <2>6 DEF CallClose, Clear, Shut, Expire
  <2>7. {None, "binary", "control", "close"} = Ops /\ Closers \subseteq Procs
    BY Zenon DEF Ops, Procs
  <2> QED
    BY Zenon, <1>0, <2>1, <2>2, <2>3, <2>4, <2>5, <2>6, <2>7
<1>3. op' \in [Procs -> Ops]
  BY Zenon, <1>0, <1>2 DEF WTypes
<1> QED
  BY Zenon, <1>1, <1>3, StillKeeps

\* A frame as writeFrame masks it.
LEMMA FrameOnWire ==
  ASSUME written \in Nat, NEW o \in Ops, NEW n \in Nat
  PROVE  /\ Frame(o, n) \in Frames /\ Len(Frame(o, n).bytes) = n /\ ~Frame(o, n).torn
         /\ Placed(Frame(o, n), written)
         /\ LET f == [Frame(o, n) EXCEPT !.torn = TRUE] IN
              f \in Frames /\ Len(f.bytes) = n /\ f.torn /\ Placed(f, written)
<1> DEFINE s == [i \in 1 .. n |-> [pos |-> written + i, key |-> (i - 1) % MaskSize]]
<1>1. \A i \in 1 .. n : written + i \in Nat /\ (i - 1) % MaskSize \in Nat
  <2>1. MaskSize \in Nat \ {0}
    BY Zenon, WSAssumption
  <2> QED
    BY <2>1
<1>2. s \in [1 .. n -> Bytes]
  BY Zenon, <1>1 DEF Bytes
<1>3. s \in Seq(Bytes) /\ Len(s) = n /\ \A i \in 1 .. n : s[i] = [pos |-> written + i, key |-> (i - 1) % MaskSize]
  BY <1>2
<1> DEFINE whole == [op |-> o, torn |-> FALSE, bytes |-> s]
<1>4. Frame(o, n) = whole
  BY Zenon DEF Frame
<1> HIDE DEF s
<1>5. whole \in Frames /\ whole.bytes = s /\ ~whole.torn
  BY Zenon, <1>3 DEF Frames
<1> HIDE DEF whole
<1> DEFINE part == [whole EXCEPT !.torn = TRUE]
<1>6. part \in Frames /\ part.bytes = s /\ part.torn
  BY Zenon, <1>5 DEF Frames
<1> HIDE DEF part
<1>7. Placed(whole, written) /\ Placed(part, written)
  BY <1>3, <1>5, <1>6 DEF Placed
<1> QED
  BY Zenon, <1>3, <1>4, <1>5, <1>6, <1>7 DEF part

\* writeFrame puts a frame, or the part of one, after all the others.
LEMMA PutOnWire ==
  ASSUME WInv, NEW f \in Frames, Placed(f, written), wire' = Append(wire, f),
         written' = written + Len(f.bytes), f.torn => ~tls,
         UNCHANGED <<tls, rem, rmaskPos, ended, got>>, op' \in [Procs -> Ops]
  PROVE  WInv'
<1>0. WTypes /\ Len(f.bytes) \in Nat
  BY Zenon, FrameSequences DEF WInv
<1>1. WTypes'
  BY <1>0 DEF WTypes
<1>2. \A k \in 1 .. Len(wire') : wire'[k].torn => ~tls'
  <2>1. Len(wire) \in Nat /\ Len(wire') = Len(wire) + 1 /\ wire'[Len(wire) + 1] = f
        /\ \A k \in 1 .. Len(wire) : wire'[k] = wire[k]
    BY <1>0 DEF WTypes
  <2>2. \A k \in 1 .. Len(wire') : k \in 1 .. Len(wire) \/ k = Len(wire) + 1
    BY <2>1
  <2> QED
    BY Zenon, <2>1, <2>2 DEF WInv
<1>3. StreamIntact'
  BY Zenon DEF WInv, StreamIntact
<1>4. ASSUME Reads PROVE Reads'
  <2>1. Len(got) \in Nat /\ Len(rem) \in Nat /\ Len(got) + Len(rem) \in Nat
    BY <1>0 DEF WTypes
  <2>2. PICK base : Laid(wire, Len(got) + Len(rem), written, base)
    BY Zenon, <1>4 DEF Reads
  <2>3. \E b : Laid(Append(wire, f), Len(got) + Len(rem), written + Len(f.bytes), b)
    BY Zenon, <1>0, <2>1, <2>2, LaidAppend DEF WTypes
  <2>4. PICK b : Laid(Append(wire, f), Len(got) + Len(rem), written + Len(f.bytes), b)
    BY Zenon, <2>3
  <2>5. Laid(wire', Len(got') + Len(rem'), written', b)
    BY Zenon, <2>4
  <2>6. Left' /\ \A i \in 1 .. Len(got') : got'[i] = i
    BY Zenon, <1>4 DEF Reads, Left
  <2>7. \E bb : Laid(wire', Len(got') + Len(rem'), written', bb)
    BY Zenon, <2>5
  <2> QED
    BY Zenon, <2>6, <2>7 DEF Reads
<1> QED
  BY Zenon, <1>1, <1>2, <1>3, <1>4 DEF WInv

\* A write that succeeds, or that tears its frame, keeps the stream in order.
LEMMA WriteStep ==
  ASSUME WInv, NEW p \in Procs, WriteSucceeds(p) \/ WriteFails(p)
  PROVE  WInv'
<1>0. WTypes /\ written \in Nat /\ op[p] \in Ops
  BY Zenon, OpKept DEF WInv, WTypes
<1>1. op' \in [Procs -> Ops] /\ UNCHANGED <<tls, rem, rmaskPos, ended, got>>
  <2>1. op' = [op EXCEPT ![p] = None] /\ UNCHANGED <<tls, rem, rmaskPos, ended, got>>
    BY Zenon DEF WriteSucceeds, WriteFails, Returns, reading
  <2> QED
    BY Zenon, <1>0, <2>1, OpKept
<1>2. \A n \in Payloads(p) : n \in Nat
  BY WSAssumption DEF Payloads
<1>3. CASE wire' = wire /\ written' = written
  BY Zenon, <1>1, <1>3, StillKeeps DEF Still
<1>4. CASE \E n \in Payloads(p) : wire' = Append(wire, Frame(op[p], n)) /\ written' = written + n
  <2>1. PICK n \in Nat : wire' = Append(wire, Frame(op[p], n)) /\ written' = written + n
    BY Zenon, <1>2, <1>4
  <2> DEFINE f == Frame(op[p], n)
  <2>2. f \in Frames /\ Len(f.bytes) = n /\ ~f.torn /\ Placed(f, written)
    BY Zenon, <1>0, FrameOnWire
  <2>3. wire' = Append(wire, f) /\ written' = written + Len(f.bytes)
    BY Zenon, <2>1, <2>2
  <2> HIDE DEF f
  <2> QED
    BY Zenon, <1>1, <2>2, <2>3, PutOnWire
<1>5. CASE ~tls /\ \E n \in Payloads(p) : \E cut \in {0} \cup 0 .. n - 1 :
             /\ wire' = Append(wire, [Frame(op[p], cut) EXCEPT !.torn = TRUE])
             /\ written' = written + cut
  <2>1. PICK n \in Nat : wire' = Append(wire, [Frame(op[p], n) EXCEPT !.torn = TRUE]) /\ written' = written + n
    <3>1. PICK n \in Payloads(p) : \E cut \in {0} \cup 0 .. n - 1 :
             /\ wire' = Append(wire, [Frame(op[p], cut) EXCEPT !.torn = TRUE])
             /\ written' = written + cut
      BY Zenon, <1>5
    <3>2. \A cut \in {0} \cup 0 .. n - 1 : cut \in Nat
      BY <1>2, <3>1
    <3> QED
      BY Zenon, <3>1, <3>2
  <2> DEFINE f == [Frame(op[p], n) EXCEPT !.torn = TRUE]
  <2>2. f \in Frames /\ Len(f.bytes) = n /\ Placed(f, written)
    BY Zenon, <1>0, FrameOnWire
  <2>3. wire' = Append(wire, f) /\ written' = written + Len(f.bytes)
    BY Zenon, <2>1, <2>2
  <2> HIDE DEF f
  <2> QED
    BY Zenon, <1>1, <1>5, <2>2, <2>3, PutOnWire
<1> QED
  BY Zenon, <1>3, <1>4, <1>5 DEF WriteSucceeds, WriteFails

\* nextFrame takes the bytes of the first frame, or skips it.
LEMMA NextFrameStep ==
  ASSUME WInv, nextFrame
  PROVE  WInv'
<1> DEFINE f == Head(wire)
           g == [f EXCEPT !.bytes = <<>>]
<1>0. WTypes /\ ended = "no" /\ Reads /\ rem = <<>> /\ wire # <<>> /\ UNCHANGED <<tls, op, written>>
  BY Zenon DEF WInv, nextFrame, writing
<1>1. /\ f = wire[1] /\ f \in Frames /\ Len(f.bytes) \in Nat /\ f.bytes \in Seq(Bytes) /\ f.torn \in BOOLEAN
      /\ g \in Frames /\ g.bytes = <<>> /\ g.torn = f.torn
      /\ f.torn => ~tls
  <2>1. f = wire[1] /\ f \in Frames /\ 1 \in 1 .. Len(wire)
    BY <1>0 DEF WTypes
  <2>2. f.bytes \in Seq(Bytes) /\ Len(f.bytes) \in Nat /\ f.torn \in BOOLEAN
    BY Zenon, <2>1, FrameSequences
  <2>3. g \in Frames /\ g.bytes = <<>> /\ g.torn = f.torn
    <3>1. <<>> \in Seq(Bytes)
      OBVIOUS
    <3> HIDE DEF f
    <3> QED
      BY Zenon, <2>1, <3>1 DEF Frames
  <2>4. f.torn => ~tls
    BY Zenon, <2>1 DEF WInv
  <2> QED
    BY Zenon, <2>1, <2>2, <2>3, <2>4
<1>2. /\ Tail(wire) \in Seq(Frames) /\ <<g>> \o Tail(wire) \in Seq(Frames)
      /\ \A k \in 1 .. Len(Tail(wire)) : Tail(wire)[k].torn => ~tls
      /\ \A k \in 1 .. Len(<<g>> \o Tail(wire)) : (<<g>> \o Tail(wire))[k].torn => ~tls
  <2>1. /\ Len(wire) \in Nat \ {0} /\ Tail(wire) \in Seq(Frames) /\ Len(Tail(wire)) = Len(wire) - 1
        /\ \A k \in 1 .. Len(wire) - 1 : Tail(wire)[k] = wire[k + 1]
    BY <1>0 DEF WTypes
  <2>2. \A k \in 1 .. Len(wire) - 1 : k + 1 \in 1 .. Len(wire)
    BY <2>1
  <2>3. \A k \in 1 .. Len(Tail(wire)) : Tail(wire)[k].torn => ~tls
    BY Zenon, <2>1, <2>2 DEF WInv
  <2> DEFINE v == <<g>> \o Tail(wire)
  <2> HIDE DEF g, f
  <2>4. /\ v \in Seq(Frames) /\ Len(v) = Len(wire) /\ v[1] = g
        /\ \A k \in 2 .. Len(wire) : v[k] = wire[k]
    BY <1>0, <1>1 DEF WTypes
  <2>5. \A k \in 1 .. Len(wire) : k = 1 \/ k \in 2 .. Len(wire)
    BY <2>1
  <2>6. \A k \in 1 .. Len(v) : v[k].torn => ~tls
    BY Zenon, <1>1, <2>4, <2>5 DEF WInv
  <2> QED
    BY Zenon, <2>1, <2>3, <2>4, <2>6
<1>3. /\ Len(rem) = 0 /\ Len(got) \in Nat /\ got \in Seq(Nat \cup {None})
      /\ DOMAIN got = 1 .. Len(got) /\ \A i \in 1 .. Len(got) : got[i] = i
  BY <1>0 DEF WTypes, Reads
<1>4. PICK base : Laid(wire, Len(got), written, base)
  <2>1. Len(got) + Len(rem) = Len(got)
    BY <1>3
  <2> QED
    BY Zenon, <1>0, <2>1 DEF Reads
<1>5. /\ Placed(f, Len(got))
      /\ \E b : Laid(Tail(wire), Len(got) + Len(f.bytes), written, b)
      /\ \E b : Laid(<<g>> \o Tail(wire), Len(got) + Len(f.bytes), written, b)
  <2>1. written \in Nat /\ wire \in Seq(Frames)
    BY Zenon, <1>0 DEF WTypes
  <2>2. /\ Placed(f, Len(got))
        /\ \E b : Laid(Tail(wire), Len(got) + Len(f.bytes), written, b)
    BY Zenon, <1>0, <1>3, <1>4, <2>1, LaidTail
  <2>3. \E b : Laid(<<g>> \o Tail(wire), Len(got) + Len(f.bytes), written, b)
    <3> HIDE DEF g
    <3> QED
      BY Zenon, <1>0, <1>1, <1>3, <1>4, <2>1, LaidTorn
  <2> QED
    BY Zenon, <2>2, <2>3
<1>6. CASE /\ f.bytes # <<>>
           /\ rem' = f.bytes /\ rmaskPos' = 0
           /\ wire' = IF f.torn THEN <<g>> \o Tail(wire) ELSE Tail(wire)
           /\ UNCHANGED <<ended, got>>
  <2> HIDE DEF f, g
  <2>1. WTypes'
    BY Zenon, <1>0, <1>1, <1>2, <1>6 DEF WTypes
  <2>2. \A k \in 1 .. Len(wire') : wire'[k].torn => ~tls'
    BY Zenon, <1>0, <1>2, <1>6
  <2>3. StreamIntact'
    BY Zenon, <1>3, <1>6 DEF StreamIntact
  <2>4. Left'
    <3>1. \A i \in 1 .. Len(f.bytes) : 0 + (i - 1) = i - 1
      BY <1>1
    <3> QED
      BY Zenon, <1>5, <1>6, <3>1 DEF Left, Placed
  <2>5. \E b : Laid(wire', Len(got') + Len(rem'), written', b)
    BY Zenon, <1>0, <1>5, <1>6
  <2>6. Reads'
    BY Zenon, <1>3, <1>6, <2>4, <2>5 DEF Reads
  <2> QED
    BY Zenon, <2>1, <2>2, <2>3, <2>6 DEF WInv
<1>7. CASE /\ f.bytes = <<>> /\ ~f.torn
           /\ wire' = Tail(wire)
           /\ UNCHANGED <<rem, rmaskPos, got>>
  <2>1. Len(f.bytes) = 0
    BY <1>7
  <2> HIDE DEF f, g
  <2>2. WTypes'
    BY Zenon, <1>0, <1>2, <1>7 DEF WTypes
  <2>3. \A k \in 1 .. Len(wire') : wire'[k].torn => ~tls'
    BY Zenon, <1>0, <1>2, <1>7
  <2>4. StreamIntact'
    BY Zenon, <1>3, <1>7 DEF StreamIntact
  <2>5. Left'
    BY Zenon, <1>0, <1>7 DEF Left, Reads
  <2>6. Len(got) + Len(f.bytes) = Len(got') + Len(rem')
    BY Zenon, <1>3, <1>7, <2>1
  <2>7. \E b : Laid(wire', Len(got') + Len(rem'), written', b)
    BY Zenon, <1>0, <1>5, <1>7, <2>6
  <2>8. Reads'
    BY Zenon, <1>3, <1>7, <2>5, <2>7 DEF Reads
  <2> QED
    BY <2>2, <2>3, <2>4, <2>8 DEF WInv
<1>8. CASE /\ f.torn
           /\ \/ ended' = "garbled" /\ got' = Append(got, None)
              \/ ended' = "failed" /\ UNCHANGED got
           /\ wire' = Tail(wire)
           /\ UNCHANGED <<rem, rmaskPos>>
  <2> HIDE DEF f, g
  <2>1. WTypes'
    <3>1. Append(got, None) \in Seq(Nat \cup {None})
      BY <1>3
    <3>2. got' \in Seq(Nat \cup {None})
      BY Zenon, <1>3, <1>8, <3>1
    <3> QED
      BY Zenon, <1>0, <1>2, <1>8, <3>2 DEF WTypes
  <2>2. \A k \in 1 .. Len(wire') : wire'[k].torn => ~tls'
    BY Zenon, <1>0, <1>2, <1>8
  <2>3. StreamIntact'
    <3>1. CASE ended' = "failed" /\ UNCHANGED got
      BY Zenon, <1>3, <3>1 DEF StreamIntact
    <3>2. CASE ended' = "garbled" /\ got' = Append(got, None)
      <4>1. Len(got') = Len(got) + 1 /\ DOMAIN got' = 1 .. Len(got) + 1 /\ \A i \in 1 .. Len(got) : got'[i] = got[i]
        BY <1>3, <3>2
      <4> QED
        BY <1>0, <1>1, <1>3, <1>8, <3>2, <4>1 DEF StreamIntact
    <3> QED
      BY Zenon, <1>8, <3>1, <3>2
  <2>4. ended' # "no"
    BY Zenon, <1>8
  <2> QED
    BY Zenon, <2>1, <2>2, <2>3, <2>4 DEF WInv
<1> QED
  BY Zenon, <1>6, <1>7, <1>8 DEF nextFrame

\* One sequence after another.
LEMMA Joined ==
  ASSUME NEW S, NEW a \in Seq(S), NEW b \in Seq(S)
  PROVE  /\ a \o b \in Seq(S) /\ Len(a \o b) = Len(a) + Len(b)
         /\ \A i \in 1 .. Len(a) : (a \o b)[i] = a[i]
         /\ \A i \in Len(a) + 1 .. Len(a) + Len(b) : (a \o b)[i] = b[i - Len(a)]
OBVIOUS

\* Read returns the next bytes of the frame, with the mask where it stands.
LEMMA ReadStep ==
  ASSUME WInv, NEW n \in Buffers, Read(n)
  PROVE  WInv'
<1> DEFINE k == IF n > Len(rem) THEN Len(rem) ELSE n
           s == [i \in 1 .. k |-> Unmasked(rem[i], rmaskPos + i - 1)]
           L == Len(got)
           R == Len(rem)
<1>0. WTypes /\ ended = "no" /\ Reads /\ UNCHANGED <<tls, op, written, wire, ended>>
      /\ n \in Nat /\ L \in Nat /\ R \in Nat /\ rmaskPos \in Nat /\ MaskSize \in Nat \ {0}
  BY WSAssumption DEF WInv, Read, writing, WTypes
<1>1. got' = got \o s /\ rem' = SubSeq(rem, k + 1, R) /\ rmaskPos' = rmaskPos + k
  BY Zenon DEF Read, Taken
<1>2. k \in Nat /\ k <= R
  BY <1>0
<1> HIDE DEF k
<1>3. \A i \in 1 .. k : rmaskPos + i - 1 = rmaskPos + (i - 1) /\ i \in 1 .. R
  BY <1>0, <1>2
<1>4. \A i \in 1 .. k : s[i] = L + i
  BY Zenon, <1>0, <1>3 DEF Reads, Left, Unmasked
<1>5. s \in Seq(Nat \cup {None}) /\ Len(s) = k
  <2>1. \A i \in 1 .. k : L + i \in Nat
    BY <1>0
  <2>2. s = [i \in 1 .. k |-> s[i]]
    BY Zenon
  <2> HIDE DEF s
  <2>3. s \in [1 .. k -> Nat \cup {None}]
    BY Zenon, <1>4, <2>1, <2>2
  <2> QED
    BY <1>2, <2>3
<1> HIDE DEF s
<1>6. /\ got' \in Seq(Nat \cup {None}) /\ Len(got') = L + k
      /\ \A i \in 1 .. L : got'[i] = got[i]
      /\ \A i \in L + 1 .. L + k : got'[i] = s[i - L]
  <2>1. got \in Seq(Nat \cup {None}) /\ s \in Seq(Nat \cup {None})
    BY Zenon, <1>0, <1>5 DEF WTypes
  <2> QED
    BY Zenon, <1>1, <1>5, <2>1, Joined
<1>7. /\ rem' \in Seq(Bytes) /\ Len(rem') = R - k
      /\ \A i \in 1 .. R - k : rem'[i] = rem[k + i]
  BY <1>0, <1>1, <1>2 DEF WTypes
<1> HIDE DEF L, R
<1>8. \A i \in 1 .. Len(got') : got'[i] = i
  <2> SUFFICES ASSUME NEW i \in 1 .. Len(got') PROVE got'[i] = i
    BY Zenon
  <2>1. CASE i \in 1 .. L
    BY Zenon, <1>0, <1>6, <2>1 DEF Reads, L
  <2>2. CASE i \in L + 1 .. L + k
    <3>1. i - L \in 1 .. k /\ L + (i - L) = i
      BY <1>0, <1>2, <2>2
    <3> QED
      BY Zenon, <1>4, <1>6, <2>2, <3>1
  <2> QED
    BY <1>0, <1>2, <1>6, <2>1, <2>2
<1>9. Left'
  <2> SUFFICES ASSUME NEW i \in 1 .. Len(rem')
               PROVE  rem'[i].pos = Len(got') + i /\ rem'[i].key = (rmaskPos' + (i - 1)) % MaskSize
    BY Zenon DEF Left
  <2>1. /\ i \in 1 .. R - k /\ k + i \in 1 .. R /\ L + (k + i) = (L + k) + i
        /\ rmaskPos + ((k + i) - 1) = (rmaskPos + k) + (i - 1)
    BY <1>0, <1>2, <1>7
  <2>2. rem[k + i].pos = L + (k + i) /\ rem[k + i].key = (rmaskPos + ((k + i) - 1)) % MaskSize
    BY Zenon, <1>0, <2>1 DEF Reads, Left, L, R
  <2> QED
    BY Zenon, <1>1, <1>6, <1>7, <2>1, <2>2
<1>10. \E b : Laid(wire', Len(got') + Len(rem'), written', b)
  <2>1. Len(got') + Len(rem') = L + R
    BY <1>0, <1>2, <1>6, <1>7
  <2> QED
    BY Zenon, <1>0, <2>1 DEF Reads, L, R
<1>11. Reads'
  BY Zenon, <1>8, <1>9, <1>10 DEF Reads
<1>12. WTypes'
  <2>1. rmaskPos' \in Nat
    BY <1>0, <1>1, <1>2
  <2> QED
    BY Zenon, <1>0, <1>6, <1>7, <2>1 DEF WTypes
<1>13. StreamIntact'
  <2>1. DOMAIN got' = 1 .. Len(got')
    BY <1>6
  <2> QED
    BY Zenon, <1>8, <2>1 DEF StreamIntact
<1> QED
  BY Zenon, <1>0, <1>11, <1>12, <1>13 DEF WInv

\* The inductive invariant of the connection holds in every state.
LEMMA StreamInvariance == WSSpec => []WInv
<1>1. WSInit => WInv
  <2> SUFFICES ASSUME WSInit PROVE WInv
    BY Zenon
  <2>1. /\ wire = <<>> /\ rem = <<>> /\ got = <<>> /\ written = 0 /\ rmaskPos = 0 /\ tls \in BOOLEAN
        /\ op = [p \in Procs |-> None]
    BY Zenon DEF WSInit
  <2>2. Len(<<>>) = 0 /\ DOMAIN <<>> = {} /\ \A S : <<>> \in Seq(S)
    OBVIOUS
  <2>3. WTypes
    BY Zenon, <2>1, <2>2 DEF WTypes, Ops
  <2>4. StreamIntact /\ Left /\ \A i \in 1 .. Len(got) : got[i] = i
    BY <2>1, <2>2 DEF StreamIntact, Left
  <2>5. Laid(wire, Len(got) + Len(rem), written, [k \in 1 .. 1 |-> 0])
    BY <2>1, <2>2 DEF Laid
  <2> QED
    BY <2>1, <2>2, <2>3, <2>4, <2>5 DEF WInv, Reads
<1>2. WInv /\ [WSNext]_wsVars => WInv'
  <2> SUFFICES ASSUME WInv, [WSNext]_wsVars PROVE WInv'
    OBVIOUS
  <2>1. CASE UNCHANGED wsVars
    <3>1. Still /\ op' = op
      BY Zenon, <2>1 DEF wsVars, writing, reading, Still
    <3> QED
      BY Zenon, <3>1, StillKeeps DEF WInv, WTypes
  <2>2. CASE Ends
    <3>1. /\ UNCHANGED <<tls, op, wire, written, rem, rmaskPos, got>> /\ ended = "no" /\ ended' = "failed"
      BY Zenon, <2>2 DEF Ends, writing
    <3>2. WTypes'
      BY Zenon, <3>1 DEF WInv, WTypes
    <3>3. StreamIntact'
      BY Zenon, <3>1 DEF WInv, StreamIntact
    <3> QED
      BY Zenon, <3>1, <3>2, <3>3 DEF WInv
  <2>3. CASE WSNext /\ ~Ends
    BY Zenon, <2>3, WriterStep, WriteStep, NextFrameStep, ReadStep DEF WSNext, Steps
  <2> QED
    BY Zenon, <2>1, <2>2, <2>3
<1> QED
  BY <1>1, <1>2, PTL DEF WSSpec

\* What Read returns is the data stream as it was written, for every number of
\* writers, every size of frames and of buffers and every length of the mask;
\* only on a connection without TLS may the last read give anything else.
THEOREM ReadReturnsTheStream == WSSpec => []StreamIntact
<1>1. WInv => StreamIntact
  BY Zenon DEF WInv
<1> QED
  BY <1>1, StreamInvariance, PTL
===============================================================================
