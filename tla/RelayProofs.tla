----------------------------- MODULE RelayProofs -----------------------------
(***************************************************************************)
(* The relay's accounting for any number of connections, codes, circuits   *)
(* and addresses, and for every value of its limits.                       *)
(***************************************************************************)
EXTENDS Relay, FiniteSetTheorems, TLAPS

Jobs == [circuit : Circuits \cup {nil}, side : Sides, conn : Handlers \cup {nil}, ok : BOOLEAN]

Types ==
  /\ state \in [Handlers -> States]
  /\ published \in [Handlers -> SUBSET Codes]
  /\ job \in [Handlers -> Jobs]
  /\ pending \in [Codes -> Handlers \cup {nil}]
  /\ tickets \in SUBSET (Circuits \X Sides)
  /\ circuits \in Nat
  /\ made \in SUBSET Circuits
  /\ half \in [Circuits -> [Sides -> Handlers \cup {nil}]]
  /\ released \in SUBSET made
  /\ done \in SUBSET released
  /\ ipConns \in [IPs -> Nat]
  /\ closed \in BOOLEAN

\* The states in which a handler works on a circuit, and those of a half.
Half == {"attaching", "waiting", "splicing"}
Working == {"pairing", "toPublisher", "toClaimer"} \cup Half

\* Who works on a circuit works on one that was made.
JobsMade ==
  \A h \in Handlers : /\ job[h].circuit \in made \cup {nil}
                      /\ state[h] \in Working => job[h].circuit \in made

\* A circuit whose tickets are still to be issued is known to one handler only.
Private(h, k) ==
  /\ k \notin released
  /\ \A g \in Handlers \ {h} : job[g].circuit # k
  /\ \A s \in Sides : <<k, s>> \notin tickets /\ half[k][s] = nil

PairingIsPrivate ==
  \A h \in Handlers : state[h] = "pairing" => Private(h, job[h].circuit)

\* The ticket of a half is spent, and its place in the circuit is taken when it
\* attaches.
HalvesSpent ==
  \A h \in Handlers :
     LET k == job[h].circuit
         s == job[h].side IN
     /\ state[h] \in Half => <<k, s>> \notin tickets
     /\ state[h] = "attaching" => half[k][s] = nil
     /\ state[h] \in {"waiting", "splicing"} => half[k][s] = h
     /\ state[h] = "splicing" => half[k][1 - s] # nil

\* A ticket leads to a place that is free.
TicketsFree ==
  /\ \A t \in tickets : t[1] \in made /\ half[t[1]][t[2]] = nil
  /\ \A k \in Circuits \ made : \A s \in Sides : half[k][s] = nil

\* Until its slot is given back, whoever attached to a circuit is still there.
AttachedStays ==
  \A k \in Circuits, s \in Sides :
     half[k][s] # nil /\ k \notin released /\ ~closed =>
        state[half[k][s]] \in {"waiting", "splicing"} /\ job[half[k][s]].circuit = k

JInv == JobsMade /\ PairingIsPrivate /\ HalvesSpent /\ TicketsFree /\ AttachedStays /\ OneConnPerSide

IInv == Types /\ JInv /\ SlotsAccounted /\ PendingHasOwner /\ ConnsAccounted

-----------------------------------------------------------------------------
(* Types. *)

\* A job's fields.
LEMMA JobFacts ==
  ASSUME Types, NEW h \in Handlers
  PROVE  /\ job[h].circuit \in Circuits \cup {nil}
         /\ job[h].side \in Sides
         /\ 1 - job[h].side \in Sides
         /\ state[h] \in States
<1>1. job[h] \in Jobs /\ state[h] \in States
  BY Zenon DEF Types
<1>2. job[h].side \in Sides
  BY Zenon, <1>1 DEF Jobs
<1> QED
  BY <1>1, <1>2 DEF Jobs, Sides

\* Idle is a job without a circuit.
LEMMA IdleFacts ==
  /\ Idle \in Jobs /\ Idle.circuit = nil
  /\ \A k \in Circuits, s \in Sides : LET j == [Idle EXCEPT !.circuit = k, !.side = s] IN
        j \in Jobs /\ j.circuit = k /\ j.side = s
  /\ \A k \in Circuits, p \in Handlers : LET j == [Idle EXCEPT !.circuit = k, !.conn = p] IN
        j \in Jobs /\ j.circuit = k
BY Zenon DEF Idle, Jobs, Sides

\* Every step keeps the types; a slot is given back only of a circuit that a
\* handler works on.
LEMMA TypesStep ==
  ASSUME Types, JobsMade, [Next]_vars
  PROVE  Types'
<1> USE DEF Goes, server, limits
<1>1. ASSUME NEW h \in Handlers, Accept(h) \/ Hangup(h)
      PROVE  Types'
  BY <1>1, RelayAssumption DEF Types, Accept, Hangup, States
<1>2. ASSUME NEW h \in Handlers, NEW c \in Codes, Publish(h, c) \/ PublishRefused(h, c)
      PROVE  Types'
  BY <1>2 DEF Types, Publish, PublishRefused, States
<1>3. ASSUME NEW h \in Handlers, NEW c \in Codes, NEW k \in Circuits, Claim(h, c, k)
      PROVE  Types'
  <2>1. pending[c] \in Handlers
    BY Zenon, <1>3 DEF Types, Claim
  <2>2. job' \in [Handlers -> Jobs]
    BY Zenon, <1>3, <2>1, IdleFacts DEF Types, Claim
  <2>3. pending' \in [Codes -> Handlers \cup {nil}] /\ state' \in [Handlers -> States]
    BY Zenon, <1>3 DEF Types, Claim, States
  <2> QED
    BY <1>3, <2>2, <2>3 DEF Types, Claim
<1>4. ASSUME NEW h \in Handlers, NEW t \in tickets, Redeem(h, t)
      PROVE  Types'
  <2>1. t[1] \in Circuits /\ t[2] \in Sides
    BY Zenon DEF Types
  <2>2. job' \in [Handlers -> Jobs]
    BY Zenon, <1>4, <2>1, IdleFacts DEF Types, Redeem
  <2>3. state' \in [Handlers -> States]
    BY Zenon, <1>4 DEF Types, Redeem, States
  <2> QED
    BY Zenon, <1>4, <2>2, <2>3 DEF Types, Redeem
<1>5. ASSUME NEW h \in Handlers, state[h] \in Working
      PROVE  /\ job[h].circuit \in made
             /\ job[h].circuit \in Circuits
             /\ releaseOnce(job[h].circuit) => circuits' \in Nat /\ released' \in SUBSET made
  BY <1>5 DEF Types, JobsMade, releaseOnce
<1>6. ASSUME NEW h \in Handlers, TicketFails(h)
      PROVE  Types'
  <2>1. circuits' \in Nat /\ released' \in SUBSET made /\ made' = made /\ done' = done /\ released \subseteq released'
    BY <1>5, <1>6 DEF Types, TicketFails, Working
  <2>2. job' \in [Handlers -> Jobs] /\ state' \in [Handlers -> States]
    BY Zenon, <1>6, IdleFacts DEF Types, TicketFails, States
  <2> QED
    BY Zenon, <1>6, <2>1, <2>2 DEF Types, TicketFails
<1>7. ASSUME NEW h \in Handlers, IssueTickets(h)
      PROVE  Types'
  <2>1. tickets' \in SUBSET (Circuits \X Sides)
    BY Zenon, <1>5, <1>7 DEF Types, IssueTickets, Working
  <2> QED
    BY Zenon, <1>7, <2>1 DEF Types, IssueTickets, States
<1>8. ASSUME NEW h \in Handlers, PairedToPublisher(h)
      PROVE  Types'
  <2>1. job' \in [Handlers -> Jobs]
    <3>1. job[h] \in Jobs
      BY Zenon DEF Types
    <3>2. [job[h] EXCEPT !.ok = FALSE] \in Jobs
      BY Zenon, <3>1 DEF Jobs
    <3>3. job' = job \/ job' = [job EXCEPT ![h] = [job[h] EXCEPT !.ok = FALSE]]
      BY Zenon, <1>8 DEF PairedToPublisher, Types
    <3> QED
      BY Zenon, <3>2, <3>3 DEF Types
  <2> QED
    BY Zenon, <1>8, <2>1 DEF Types, PairedToPublisher, States
<1>9. ASSUME NEW h \in Handlers, PairedToClaimer(h)
      PROVE  Types'
  <2>1. /\ circuits' \in Nat /\ released' \in SUBSET made /\ made' = made /\ done' = done
        /\ released \subseteq released' /\ tickets' \in SUBSET (Circuits \X Sides)
    BY Zenon, <1>5, <1>9 DEF Types, PairedToClaimer, releaseOnce, Working
  <2>2. job' \in [Handlers -> Jobs] /\ state' \in [Handlers -> States]
    BY Zenon, <1>9, IdleFacts DEF Types, PairedToClaimer, States
  <2> QED
    BY Zenon, <1>9, <2>1, <2>2 DEF Types, PairedToClaimer
<1>10. ASSUME NEW h \in Handlers, AttachFails(h) \/ WaitDone(h) \/ WaitCancelled(h)
       PROVE  Types'
  BY Zenon, <1>10 DEF Types, AttachFails, WaitDone, WaitCancelled, States
<1>11. ASSUME NEW h \in Handlers, Attach(h)
       PROVE  Types'
  <2>1. half' \in [Circuits -> [Sides -> Handlers \cup {nil}]]
    BY Zenon, <1>5, <1>11, JobFacts DEF Types, Attach, Working, Half
  <2> QED
    BY Zenon, <1>11, <2>1 DEF Types, Attach, States
<1>12. ASSUME NEW h \in Handlers, SpliceEnds(h) \/ WaitTimesOut(h)
       PROVE  Types'
  <2>1. /\ circuits' \in Nat /\ released' \in SUBSET made /\ made' = made
        /\ done' \in SUBSET released'
    BY Zenon, <1>5, <1>12 DEF Types, SpliceEnds, WaitTimesOut, releaseOnce, Working, Half
  <2> QED
    BY Zenon, <1>12, <2>1 DEF Types, SpliceEnds, WaitTimesOut, States
<1>13. ASSUME NEW h \in Handlers, NEW c \in Codes, dropPending(h, c)
       PROVE  Types'
  BY Zenon, <1>13 DEF Types, dropPending
<1>14. ASSUME NEW h \in Handlers, releaseIP(h)
       PROVE  Types'
  <2>1. job' \in [Handlers -> Jobs] /\ state' \in [Handlers -> States]
    BY Zenon, <1>14, IdleFacts DEF Types, releaseIP, States
  <2>2. ipConns' \in [IPs -> Nat]
    <3>1. ip[h] \in IPs /\ ipConns \in [IPs -> Nat]
      BY Zenon, RelayAssumption DEF Types
    <3>2. ipConns[ip[h]] \in Nat
      BY Zenon, <3>1
    <3>3. (IF ipConns[ip[h]] <= 1 THEN 0 ELSE ipConns[ip[h]] - 1) \in Nat
      BY <3>2
    <3> QED
      BY Zenon, <1>14, <3>1, <3>3 DEF releaseIP
  <2> QED
    BY Zenon, <1>14, <2>1, <2>2 DEF Types, releaseIP
<1>15. ASSUME reap
       PROVE  Types'
  <2>1. pending' \in [Codes -> Handlers \cup {nil}] /\ tickets' \in SUBSET (Circuits \X Sides)
    BY Zenon, <1>15 DEF Types, reap
  <2> QED
    BY Zenon, <1>15, <2>1 DEF Types, reap
<1>16. ASSUME (\E c \in Codes : CodeAges(c)) \/ (\E k \in Circuits : CircuitAges(k))
              \/ (\E a \in IPs : MinutePasses(a)) \/ Close \/ UNCHANGED vars
       PROVE  Types'
  BY Zenon, <1>16 DEF Types, CodeAges, CircuitAges, MinutePasses, Close, vars
<1> QED
  BY Zenon, <1>1, <1>2, <1>3, <1>4, <1>6, <1>7, <1>8, <1>9, <1>10, <1>11, <1>12, <1>13, <1>14, <1>15, <1>16
     DEF Next, serveConn, pair, attachCircuit, deferred

-----------------------------------------------------------------------------
(* Circuits: who works on them, and what their tickets lead to. *)

\* A step that makes no circuit, issues no ticket and attaches no half: tickets
\* may go, slots may be given back, and handlers may leave what they work on,
\* but a half leaves an attached place only with its slot or with the relay.
LEMMA ShrinkStep ==
  ASSUME Types, JInv, Types',
         UNCHANGED <<made, half>>,
         tickets' \subseteq tickets,
         released \subseteq released',
         closed => closed',
         \A h \in Handlers :
            /\ \/ state'[h] = state[h]
               \/ state'[h] \notin Working
               \/ state[h] = "toPublisher" /\ state'[h] = "toClaimer"
            /\ \/ job'[h].circuit = job[h].circuit /\ job'[h].side = job[h].side
               \/ job'[h].circuit = nil /\ state'[h] \notin Working
            /\ state'[h] = "pairing" => job[h].circuit \notin released'
            /\ state[h] \in {"waiting", "splicing"} /\ state'[h] \notin Working =>
                  closed' \/ job[h].circuit \in released'
  PROVE  JInv'
<1>1. JobsMade'
  BY Zenon DEF JInv, JobsMade, Working
<1>2. PairingIsPrivate'
  <2> SUFFICES ASSUME NEW h \in Handlers, state'[h] = "pairing"
               PROVE  /\ job'[h].circuit \notin released'
                      /\ \A g \in Handlers \ {h} : job'[g].circuit # job'[h].circuit
                      /\ \A s \in Sides : <<job'[h].circuit, s>> \notin tickets' /\ half'[job'[h].circuit][s] = nil
    BY Zenon DEF PairingIsPrivate, Private
  <2>1. state[h] = "pairing" /\ job'[h].circuit = job[h].circuit /\ job[h].circuit \notin released'
    BY Zenon DEF Working
  <2>2. Private(h, job[h].circuit) /\ job[h].circuit \in made
    BY Zenon, <2>1 DEF JInv, PairingIsPrivate, JobsMade, Working
  <2>3. job[h].circuit # nil
    BY Zenon, <2>2, RelayAssumption DEF Types
  <2> QED
    BY Zenon, <2>1, <2>2, <2>3 DEF Private
<1>3. HalvesSpent'
  <2> SUFFICES ASSUME NEW h \in Handlers
               PROVE  /\ state'[h] \in Half => <<job'[h].circuit, job'[h].side>> \notin tickets'
                      /\ state'[h] = "attaching" => half'[job'[h].circuit][job'[h].side] = nil
                      /\ state'[h] \in {"waiting", "splicing"} => half'[job'[h].circuit][job'[h].side] = h
                      /\ state'[h] = "splicing" => half'[job'[h].circuit][1 - job'[h].side] # nil
    BY Zenon DEF HalvesSpent
  <2>1. CASE state'[h] \notin Half
    BY Zenon, <2>1 DEF Half
  <2>2. CASE state'[h] \in Half
    <3>1. state'[h] = state[h] /\ job'[h].circuit = job[h].circuit /\ job'[h].side = job[h].side
      BY Zenon, <2>2 DEF Working, Half
    <3> QED
      BY Zenon, <3>1 DEF JInv, HalvesSpent
  <2> QED
    BY Zenon, <2>1, <2>2
<1>4. TicketsFree'
  BY Zenon DEF JInv, TicketsFree
<1>5. AttachedStays'
  <2> SUFFICES ASSUME NEW k \in Circuits, NEW s \in Sides,
                      half[k][s] # nil, k \notin released', ~closed'
               PROVE  state'[half[k][s]] \in {"waiting", "splicing"} /\ job'[half[k][s]].circuit = k
    BY Zenon DEF AttachedStays
  <2>1. half[k][s] \in Handlers
    BY DEF Types
  <2>2. state[half[k][s]] \in {"waiting", "splicing"} /\ job[half[k][s]].circuit = k
    BY Zenon DEF JInv, AttachedStays
  <2>3. state'[half[k][s]] \in Working
    BY Zenon, <2>1, <2>2
  <2> QED
    BY Zenon, <2>1, <2>2, <2>3 DEF Working
<1>6. OneConnPerSide'
  <2> SUFFICES ASSUME NEW g \in Handlers, NEW h \in Handlers, g # h,
                      {state'[g], state'[h]} \subseteq Half,
                      job'[g].circuit = job'[h].circuit
               PROVE  job'[g].side # job'[h].side /\ {state'[g], state'[h]} # {"splicing"}
    BY Zenon DEF OneConnPerSide, Half
  <2>1. \A e \in {g, h} : state'[e] = state[e] /\ job'[e].circuit = job[e].circuit /\ job'[e].side = job[e].side
    BY Zenon DEF Working, Half
  <2> QED
    BY <2>1 DEF JInv, OneConnPerSide, Half
<1> QED
  BY Zenon, <1>1, <1>2, <1>3, <1>4, <1>5, <1>6 DEF JInv

\* A circuit that is made is new to everybody.
LEMMA ClaimStep ==
  ASSUME Types, JInv, Types', NEW h \in Handlers, NEW c \in Codes, NEW k \in Circuits, Claim(h, c, k)
  PROVE  JInv'
<1>1. /\ state[h] = "control" /\ k \notin made /\ made' = made \cup {k}
      /\ UNCHANGED <<tickets, half, released, closed>>
  BY Zenon DEF Claim
<1>2. /\ state'[h] = "pairing" /\ job'[h].circuit = k
      /\ \A g \in Handlers \ {h} : state'[g] = state[g] /\ job'[g] = job[g]
  <2>1. pending[c] \in Handlers
    BY Zenon DEF Types, Claim
  <2> QED
    <3>1. /\ job' = [job EXCEPT ![h] = [Idle EXCEPT !.circuit = k, !.conn = pending[c]]]
          /\ state' = [state EXCEPT ![h] = "pairing"]
      BY Zenon DEF Claim, Goes
    <3>2. [Idle EXCEPT !.circuit = k, !.conn = pending[c]].circuit = k
      BY Zenon, <2>1, IdleFacts
    <3> QED
      BY Zenon, <3>1, <3>2 DEF Types
<1>3. \A s \in Sides : <<k, s>> \notin tickets /\ half[k][s] = nil
  BY Zenon, <1>1 DEF JInv, TicketsFree
<1>4. k \notin released /\ k # nil /\ \A g \in Handlers : job[g].circuit # k
  BY Zenon, <1>1, RelayAssumption DEF Types, JInv, JobsMade
<1>5. JobsMade'
  BY Zenon, <1>1, <1>2 DEF JInv, JobsMade
<1>6. PairingIsPrivate'
  <2> SUFFICES ASSUME NEW g \in Handlers, state'[g] = "pairing"
               PROVE  /\ job'[g].circuit \notin released'
                      /\ \A e \in Handlers \ {g} : job'[e].circuit # job'[g].circuit
                      /\ \A s \in Sides : <<job'[g].circuit, s>> \notin tickets' /\ half'[job'[g].circuit][s] = nil
    BY Zenon DEF PairingIsPrivate, Private
  <2>1. CASE g = h
    BY Zenon, <1>1, <1>2, <1>3, <1>4, <2>1
  <2>2. CASE g # h
    <3>1. Private(g, job[g].circuit) /\ job[g].circuit # k /\ state[g] = "pairing"
      BY Zenon, <1>2, <1>4, <2>2 DEF JInv, PairingIsPrivate
    <3> QED
      BY Zenon, <1>1, <1>2, <2>2, <3>1 DEF Private
  <2> QED
    BY Zenon, <2>1, <2>2
<1>7. HalvesSpent'
  BY <1>1, <1>2 DEF JInv, HalvesSpent, Half
<1>8. TicketsFree'
  BY Zenon, <1>1 DEF JInv, TicketsFree
<1>9. AttachedStays'
  <2> SUFFICES ASSUME NEW j \in Circuits, NEW s \in Sides,
                      half[j][s] # nil, j \notin released, ~closed
               PROVE  state'[half[j][s]] \in {"waiting", "splicing"} /\ job'[half[j][s]].circuit = j
    BY Zenon, <1>1 DEF AttachedStays
  <2>1. half[j][s] \in Handlers
    BY DEF Types
  <2>2. state[half[j][s]] \in {"waiting", "splicing"} /\ job[half[j][s]].circuit = j
    BY Zenon DEF JInv, AttachedStays
  <2> QED
    BY Zenon, <1>1, <1>2, <2>1, <2>2
<1>10. OneConnPerSide'
  BY <1>2 DEF JInv, OneConnPerSide
<1> QED
  BY Zenon, <1>5, <1>6, <1>7, <1>8, <1>9, <1>10 DEF JInv

\* The tickets that are issued lead to free places of a circuit nobody knows.
LEMMA IssueStep ==
  ASSUME Types, JInv, Types', NEW h \in Handlers, IssueTickets(h)
  PROVE  JInv'
<1> DEFINE k == job[h].circuit
<1>1. /\ state[h] = "pairing" /\ tickets' = tickets \cup ({k} \X Sides)
      /\ UNCHANGED <<job, made, half, released, closed>>
      /\ state'[h] = "toPublisher"
      /\ \A g \in Handlers \ {h} : state'[g] = state[g]
  BY Zenon DEF IssueTickets, Goes, Types
<1>2. k \in made /\ Private(h, k)
  BY Zenon, <1>1 DEF JInv, PairingIsPrivate, JobsMade, Working
<1>3. /\ \A g \in Handlers \ {h} : job[g].circuit # k
      /\ \A s \in Sides : half[k][s] = nil
  BY Zenon, <1>2 DEF Private
<1> HIDE DEF k
<1>4. JobsMade'
  BY Zenon, <1>1, <1>2 DEF JInv, JobsMade, Working
<1>5. PairingIsPrivate'
  <2> SUFFICES ASSUME NEW g \in Handlers, state'[g] = "pairing"
               PROVE  /\ job[g].circuit \notin released
                      /\ \A e \in Handlers \ {g} : job[e].circuit # job[g].circuit
                      /\ \A s \in Sides : <<job[g].circuit, s>> \notin tickets' /\ half[job[g].circuit][s] = nil
    BY Zenon, <1>1 DEF PairingIsPrivate, Private
  <2>1. g # h /\ state[g] = "pairing" /\ job[g].circuit # k
    BY Zenon, <1>1, <1>3
  <2>2. Private(g, job[g].circuit)
    BY Zenon, <2>1 DEF JInv, PairingIsPrivate
  <2> QED
    BY Zenon, <1>1, <2>1, <2>2 DEF Private
<1>6. HalvesSpent'
  <2> SUFFICES ASSUME NEW g \in Handlers
               PROVE  /\ state'[g] \in Half => <<job[g].circuit, job[g].side>> \notin tickets'
                      /\ state'[g] = "attaching" => half[job[g].circuit][job[g].side] = nil
                      /\ state'[g] \in {"waiting", "splicing"} => half[job[g].circuit][job[g].side] = g
                      /\ state'[g] = "splicing" => half[job[g].circuit][1 - job[g].side] # nil
    BY Zenon, <1>1 DEF HalvesSpent
  <2>1. CASE g = h
    BY Zenon, <1>1, <2>1 DEF Half
  <2>2. CASE g # h
    <3>1. state'[g] = state[g] /\ job[g].circuit # k
      BY Zenon, <1>1, <1>3, <2>2
    <3> QED
      BY Zenon, <1>1, <3>1 DEF JInv, HalvesSpent
  <2> QED
    BY Zenon, <2>1, <2>2
<1>7. TicketsFree'
  <2>1. \A t \in {k} \X Sides : t[1] \in made /\ half[t[1]][t[2]] = nil
    BY Zenon, <1>2, <1>3
  <2> QED
    BY Zenon, <1>1, <2>1 DEF JInv, TicketsFree
<1>8. AttachedStays'
  <2> SUFFICES ASSUME NEW j \in Circuits, NEW s \in Sides,
                      half[j][s] # nil, j \notin released, ~closed
               PROVE  state'[half[j][s]] \in {"waiting", "splicing"} /\ job[half[j][s]].circuit = j
    BY Zenon, <1>1 DEF AttachedStays
  <2>1. half[j][s] \in Handlers
    BY DEF Types
  <2>2. state[half[j][s]] \in {"waiting", "splicing"} /\ job[half[j][s]].circuit = j
    BY Zenon DEF JInv, AttachedStays
  <2> QED
    BY Zenon, <1>1, <2>1, <2>2
<1>9. OneConnPerSide'
  BY <1>1 DEF JInv, OneConnPerSide
<1> QED
  BY Zenon, <1>4, <1>5, <1>6, <1>7, <1>8, <1>9 DEF JInv

\* A ticket is redeemed by one handler, which then is the only one of its side.
LEMMA RedeemStep ==
  ASSUME Types, JInv, Types', NEW h \in Handlers, NEW t \in tickets, Redeem(h, t)
  PROVE  JInv'
<1>1. /\ state[h] = "control" /\ tickets' = tickets \ {t}
      /\ UNCHANGED <<made, half, released, closed>>
  BY Zenon DEF Redeem
<1>2. t[1] \in Circuits /\ t[2] \in Sides /\ t = <<t[1], t[2]>> /\ t[1] \in made /\ half[t[1]][t[2]] = nil
  BY DEF Types, JInv, TicketsFree
<1>3. /\ state'[h] = "attaching" /\ job'[h].circuit = t[1] /\ job'[h].side = t[2]
      /\ \A g \in Handlers \ {h} : state'[g] = state[g] /\ job'[g] = job[g]
  <2>1. /\ job' = [job EXCEPT ![h] = [Idle EXCEPT !.circuit = t[1], !.side = t[2]]]
        /\ state' = [state EXCEPT ![h] = "attaching"]
    BY Zenon DEF Redeem, Goes
  <2>2. /\ [Idle EXCEPT !.circuit = t[1], !.side = t[2]].circuit = t[1]
        /\ [Idle EXCEPT !.circuit = t[1], !.side = t[2]].side = t[2]
    BY Zenon DEF Idle
  <2> QED
    BY Zenon, <2>1, <2>2 DEF Types
<1>4. JobsMade'
  BY Zenon, <1>1, <1>2, <1>3 DEF JInv, JobsMade
<1>5. PairingIsPrivate'
  <2> SUFFICES ASSUME NEW g \in Handlers, state'[g] = "pairing"
               PROVE  /\ job'[g].circuit \notin released'
                      /\ \A e \in Handlers \ {g} : job'[e].circuit # job'[g].circuit
                      /\ \A s \in Sides : <<job'[g].circuit, s>> \notin tickets' /\ half'[job'[g].circuit][s] = nil
    BY Zenon DEF PairingIsPrivate, Private
  <2>1. g # h /\ state[g] = "pairing" /\ job'[g].circuit = job[g].circuit
    BY Zenon, <1>3
  <2>2. Private(g, job[g].circuit)
    BY Zenon, <2>1 DEF JInv, PairingIsPrivate
  <2>3. t[1] # job[g].circuit
    BY Zenon, <1>2, <2>2 DEF Private
  <2> QED
    BY Zenon, <1>1, <1>3, <2>1, <2>2, <2>3 DEF Private
<1>6. HalvesSpent'
  <2> SUFFICES ASSUME NEW g \in Handlers
               PROVE  /\ state'[g] \in Half => <<job'[g].circuit, job'[g].side>> \notin tickets'
                      /\ state'[g] = "attaching" => half[job'[g].circuit][job'[g].side] = nil
                      /\ state'[g] \in {"waiting", "splicing"} => half[job'[g].circuit][job'[g].side] = g
                      /\ state'[g] = "splicing" => half[job'[g].circuit][1 - job'[g].side] # nil
    BY Zenon, <1>1 DEF HalvesSpent
  <2>1. CASE g = h
    BY Zenon, <1>1, <1>2, <1>3, <2>1
  <2>2. CASE g # h
    BY Zenon, <1>1, <1>3, <2>2 DEF JInv, HalvesSpent
  <2> QED
    BY Zenon, <2>1, <2>2
<1>7. TicketsFree'
  BY Zenon, <1>1 DEF JInv, TicketsFree
<1>8. AttachedStays'
  <2> SUFFICES ASSUME NEW j \in Circuits, NEW s \in Sides,
                      half[j][s] # nil, j \notin released, ~closed
               PROVE  state'[half[j][s]] \in {"waiting", "splicing"} /\ job'[half[j][s]].circuit = j
    BY Zenon, <1>1 DEF AttachedStays
  <2>1. half[j][s] \in Handlers
    BY DEF Types
  <2>2. state[half[j][s]] \in {"waiting", "splicing"} /\ job[half[j][s]].circuit = j
    BY Zenon DEF JInv, AttachedStays
  <2> QED
    BY Zenon, <1>1, <1>3, <2>1, <2>2
<1>9. OneConnPerSide'
  <2> SUFFICES ASSUME NEW g \in Handlers, NEW e \in Handlers, g # e,
                      {state'[g], state'[e]} \subseteq Half,
                      job'[g].circuit = job'[e].circuit
               PROVE  job'[g].side # job'[e].side /\ {state'[g], state'[e]} # {"splicing"}
    BY Zenon DEF OneConnPerSide, Half
  <2>1. CASE g # h /\ e # h
    BY <1>3, <2>1 DEF JInv, OneConnPerSide, Half
  <2>2. ASSUME NEW d \in {g, e}, d # h
        PROVE  <<job'[d].circuit, job'[d].side>> # t
    BY <1>3, <2>2 DEF JInv, HalvesSpent
  <2>3. CASE g = h \/ e = h
    <3>1. state'[h] # "splicing"
      BY Zenon, <1>3
    <3>2. job'[g].side # job'[e].side
      BY Zenon, <1>2, <1>3, <2>2, <2>3
    <3> QED
      BY Zenon, <2>3, <3>1, <3>2
  <2> QED
    BY Zenon, <2>1, <2>3
<1> QED
  BY Zenon, <1>4, <1>5, <1>6, <1>7, <1>8, <1>9 DEF JInv

\* A half that attaches finds its own place free and the other's as it is: only
\* one of the two can find the other there.
LEMMA AttachStep ==
  ASSUME Types, JInv, Types', NEW h \in Handlers, Attach(h)
  PROVE  JInv'
<1> DEFINE k == job[h].circuit
           side == job[h].side
<1>1. k \in Circuits /\ k \in made /\ side \in Sides /\ 1 - side \in Sides /\ 1 - side # side
  <2>1. state[h] = "attaching"
    BY Zenon DEF Attach
  <2>2. k \in made
    BY Zenon, <2>1 DEF JInv, JobsMade, Working, Half
  <2>3. side \in Sides
    BY Zenon, JobFacts
  <2> QED
    BY <2>2, <2>3 DEF Types, Sides
<1>2. /\ state[h] = "attaching"
      /\ UNCHANGED <<job, made, tickets, released, closed>>
      /\ half'[k][side] = h
      /\ \A j \in Circuits, s \in Sides : <<j, s>> # <<k, side>> => half'[j][s] = half[j][s]
      /\ state'[h] = IF half[k][1 - side] # nil THEN "splicing" ELSE "waiting"
      /\ \A g \in Handlers \ {h} : state'[g] = state[g]
  BY SMTT(30), <1>1 DEF Attach, Goes, Types
<1>3. half[k][side] = nil /\ <<k, side>> \notin tickets
  BY Zenon, <1>2 DEF JInv, HalvesSpent, Half
<1>4. h # nil /\ k # nil
  BY Zenon, <1>1, RelayAssumption
<1> HIDE DEF k, side
<1>5. JobsMade'
  BY Zenon, <1>1, <1>2 DEF JInv, JobsMade, Working, Half, k
<1>6. PairingIsPrivate'
  <2> SUFFICES ASSUME NEW g \in Handlers, state'[g] = "pairing"
               PROVE  /\ job[g].circuit \notin released
                      /\ \A e \in Handlers \ {g} : job[e].circuit # job[g].circuit
                      /\ \A s \in Sides : <<job[g].circuit, s>> \notin tickets /\ half'[job[g].circuit][s] = nil
    BY Zenon, <1>2 DEF PairingIsPrivate, Private
  <2>1. g # h /\ state[g] = "pairing"
    BY Zenon, <1>2
  <2>2. Private(g, job[g].circuit) /\ job[g].circuit \in Circuits
    BY Zenon, <2>1 DEF JInv, PairingIsPrivate, JobsMade, Working, Types
  <2>3. job[g].circuit # k
    BY Zenon, <2>1, <2>2 DEF Private, k
  <2> QED
    BY Zenon, <1>2, <2>2, <2>3 DEF Private
<1>7. HalvesSpent'
  <2> SUFFICES ASSUME NEW g \in Handlers
               PROVE  /\ state'[g] \in Half => <<job[g].circuit, job[g].side>> \notin tickets
                      /\ state'[g] = "attaching" => half'[job[g].circuit][job[g].side] = nil
                      /\ state'[g] \in {"waiting", "splicing"} => half'[job[g].circuit][job[g].side] = g
                      /\ state'[g] = "splicing" => half'[job[g].circuit][1 - job[g].side] # nil
    BY Zenon, <1>2 DEF HalvesSpent
  <2>1. CASE g = h
    BY Zenon, <1>1, <1>2, <1>3, <1>4, <2>1 DEF k, side
  <2>2. CASE g # h
    <3>1. CASE state[g] \notin Half
      BY Zenon, <1>2, <2>2, <3>1 DEF Half
    <3>2. CASE state[g] \in Half
      <4>1. job[g].circuit \in Circuits /\ job[g].side \in Sides /\ 1 - job[g].side \in Sides
        BY Zenon, <3>2, JobFacts DEF JInv, JobsMade, Working, Types
      <4>2. job[g].circuit = k => job[g].side # side
        BY <1>2, <2>2, <3>2 DEF JInv, OneConnPerSide, Half, k, side
      <4>3. half'[job[g].circuit][job[g].side] = half[job[g].circuit][job[g].side]
        BY Zenon, <1>2, <4>1, <4>2
      <4>4. half[job[g].circuit][1 - job[g].side] # nil => half'[job[g].circuit][1 - job[g].side] # nil
        BY Zenon, <1>2, <1>4, <4>1
      <4> QED
        BY Zenon, <1>2, <2>2, <3>2, <4>3, <4>4 DEF JInv, HalvesSpent
    <3> QED
      BY Zenon, <3>1, <3>2
  <2> QED
    BY Zenon, <2>1, <2>2
<1>8. TicketsFree'
  <2>1. ASSUME NEW t \in tickets
        PROVE  t[1] \in made /\ half'[t[1]][t[2]] = nil
    <3>1. t = <<t[1], t[2]>> /\ t[1] \in Circuits /\ t[2] \in Sides
      BY DEF Types
    <3>2. <<t[1], t[2]>> # <<k, side>>
      BY Zenon, <1>3, <3>1
    <3> QED
      BY Zenon, <1>2, <3>1, <3>2 DEF JInv, TicketsFree
  <2>2. \A j \in Circuits \ made : \A s \in Sides : half'[j][s] = nil
    BY <1>1, <1>2 DEF JInv, TicketsFree
  <2> QED
    BY Zenon, <1>2, <2>1, <2>2 DEF TicketsFree
<1>9. AttachedStays'
  <2> SUFFICES ASSUME NEW j \in Circuits, NEW s \in Sides,
                      half'[j][s] # nil, j \notin released, ~closed
               PROVE  state'[half'[j][s]] \in {"waiting", "splicing"} /\ job[half'[j][s]].circuit = j
    BY <1>2 DEF AttachedStays
  <2>1. CASE <<j, s>> = <<k, side>>
    BY Zenon, <1>2, <2>1 DEF k
  <2>2. CASE <<j, s>> # <<k, side>>
    <3>1. half'[j][s] = half[j][s] /\ half[j][s] \in Handlers
      BY <1>2, <2>2 DEF Types
    <3>2. state[half[j][s]] \in {"waiting", "splicing"} /\ job[half[j][s]].circuit = j
      BY Zenon, <3>1 DEF JInv, AttachedStays
    <3> QED
      BY Zenon, <1>2, <3>1, <3>2
  <2> QED
    BY Zenon, <2>1, <2>2
<1>10. OneConnPerSide'
  <2> SUFFICES ASSUME NEW g \in Handlers, NEW e \in Handlers, g # e,
                      {state'[g], state'[e]} \subseteq Half,
                      job[g].circuit = job[e].circuit
               PROVE  job[g].side # job[e].side /\ {state'[g], state'[e]} # {"splicing"}
    BY Zenon, <1>2 DEF OneConnPerSide, Half
  <2>1. {state[g], state[e]} \subseteq Half
    BY Zenon, <1>2 DEF Half
  <2>2. job[g].side # job[e].side /\ {state[g], state[e]} # {"splicing"}
    BY Zenon, <2>1 DEF JInv, OneConnPerSide, Half
  <2>3. ASSUME NEW d \in Handlers, d # h, job[d].circuit = k, job[d].side # side, state[d] = "splicing"
        PROVE  FALSE
    <3>1. job[d].side \in Sides /\ 1 - job[d].side = side
      BY <1>1, <2>3, JobFacts DEF Sides
    <3> QED
      BY Zenon, <1>3, <2>3, <3>1 DEF JInv, HalvesSpent
  <2>4. CASE g = h
    BY SMTT(30), <1>2, <2>2, <2>3, <2>4 DEF k, side
  <2>5. CASE e = h
    BY SMTT(30), <1>2, <2>2, <2>3, <2>5 DEF k, side
  <2>6. CASE g # h /\ e # h
    BY Zenon, <1>2, <2>2, <2>6
  <2> QED
    BY Zenon, <2>4, <2>5, <2>6
<1> QED
  BY <1>5, <1>6, <1>7, <1>8, <1>9, <1>10 DEF JInv

\* Every other step of the relay only shrinks what is there.
LEMMA CircuitsStep ==
  ASSUME Types, JInv, Types', [Next]_vars
  PROVE  JInv'
<1> USE DEF Goes, server, limits
<1>1. ASSUME UNCHANGED <<job, made, half, released, closed>>, tickets' \subseteq tickets,
             \A h \in Handlers : state'[h] = state[h] \/ {state[h], state'[h]} \cap Working = {}
      PROVE  JInv'
  <2>1. \A h \in Handlers : /\ state'[h] = "pairing" => job[h].circuit \notin released
                            /\ ~(state[h] \in {"waiting", "splicing"} /\ state'[h] \notin Working)
    BY Zenon, <1>1 DEF JInv, PairingIsPrivate, Private, Working, Half
  <2> QED
    BY Zenon, <1>1, <2>1, ShrinkStep
<1>2. ASSUME NEW h \in Handlers, Accept(h) \/ Hangup(h) \/ \E c \in Codes : Publish(h, c) \/ PublishRefused(h, c)
      PROVE  JInv'
  <2>1. UNCHANGED <<job, made, half, released, closed, tickets>>
    BY Zenon, <1>2 DEF Accept, Hangup, Publish, PublishRefused
  <2>2. \A g \in Handlers : state'[g] = state[g] \/ {state[g], state'[g]} \subseteq {"new", "control", "leaving"}
    BY Zenon, <1>2 DEF Accept, Hangup, Publish, PublishRefused, Types
  <2> QED
    BY Zenon, <1>1, <2>1, <2>2 DEF Working, Half
<1>3. ASSUME reap \/ (\E c \in Codes : CodeAges(c)) \/ (\E k \in Circuits : CircuitAges(k))
             \/ (\E a \in IPs : MinutePasses(a)) \/ UNCHANGED vars
             \/ (\E h \in Handlers, c \in Codes : dropPending(h, c))
      PROVE  JInv'
  <2>1. UNCHANGED <<state, job, made, half, released, closed>> /\ tickets' \subseteq tickets
    BY Zenon, <1>3 DEF reap, CodeAges, CircuitAges, MinutePasses, vars, dropPending
  <2> QED
    BY Zenon, <1>1, <2>1
\* The steps of one handler h that leave the others and what is made alone.
<1>4. ASSUME NEW h \in Handlers, NEW to \in States, NEW j \in Jobs,
             state' = [state EXCEPT ![h] = to], job' = [job EXCEPT ![h] = j],
             UNCHANGED <<made, half, closed>>, tickets' \subseteq tickets, released \subseteq released',
             to \notin Working \/ (state[h] = "toPublisher" /\ to = "toClaimer"),
             \/ j.circuit = job[h].circuit /\ j.side = job[h].side
             \/ j.circuit = nil /\ to \notin Working,
             released' \subseteq released \cup {job[h].circuit},
             state[h] \in {"waiting", "splicing"} => closed \/ job[h].circuit \in released'
      PROVE  JInv'
  <2>1. /\ state'[h] = to /\ job'[h] = j
        /\ \A g \in Handlers \ {h} : state'[g] = state[g] /\ job'[g] = job[g]
    BY Zenon, <1>4 DEF Types
  <2>2. ASSUME NEW g \in Handlers
        PROVE  /\ \/ state'[g] = state[g]
                  \/ state'[g] \notin Working
                  \/ state[g] = "toPublisher" /\ state'[g] = "toClaimer"
               /\ \/ job'[g].circuit = job[g].circuit /\ job'[g].side = job[g].side
                  \/ job'[g].circuit = nil /\ state'[g] \notin Working
               /\ state'[g] = "pairing" => job[g].circuit \notin released'
               /\ state[g] \in {"waiting", "splicing"} /\ state'[g] \notin Working =>
                     closed' \/ job[g].circuit \in released'
    <3>1. CASE g = h
      BY Zenon, <1>4, <2>1, <3>1 DEF Working
    <3>2. CASE g # h
      <4>1. state[g] = "pairing" => Private(g, job[g].circuit) /\ job[g].circuit # job[h].circuit
        BY Zenon, <3>2 DEF JInv, PairingIsPrivate, Private
      <4>2. state[g] = "pairing" => job[g].circuit \notin released'
        BY Zenon, <1>4, <4>1 DEF Private
      <4> QED
        BY Zenon, <2>1, <3>2, <4>2 DEF Working, Half
    <3> QED
      BY Zenon, <3>1, <3>2
  <2>3. closed => closed'
    BY Zenon, <1>4
  <2> QED
    BY Zenon, <1>4, <2>2, <2>3, ShrinkStep
<1>5. \A h \in Handlers : /\ job[h] \in Jobs /\ (job' = job => job' = [job EXCEPT ![h] = job[h]])
                          /\ {"control", "leaving", "gone", "toClaimer"} \subseteq States \ {"pairing", "toPublisher"}
                          /\ {"control", "leaving", "gone"} \cap Working = {}
  BY Zenon DEF Types, States, Working, Half
<1>6. ASSUME NEW h \in Handlers, TicketFails(h)
      PROVE  JInv'
  <2>1. /\ state' = [state EXCEPT ![h] = "control"] /\ job' = [job EXCEPT ![h] = Idle]
        /\ UNCHANGED <<made, half, closed, tickets>> /\ released' = released \cup {job[h].circuit}
        /\ state[h] = "pairing"
    BY Zenon, <1>6 DEF TicketFails
  <2> QED
    BY Zenon, <1>4, <1>5, <2>1, IdleFacts
<1>7. ASSUME NEW h \in Handlers, PairedToPublisher(h)
      PROVE  JInv'
  <2>1. /\ state' = [state EXCEPT ![h] = "toClaimer"] /\ state[h] = "toPublisher"
        /\ UNCHANGED <<made, half, closed, tickets, released>>
        /\ job' = job \/ job' = [job EXCEPT ![h] = [job[h] EXCEPT !.ok = FALSE]]
    BY Zenon, <1>7 DEF PairedToPublisher, Types
  <2>2. job[h] \in Jobs
    BY Zenon, <1>5
  <2>3. LET j == [job[h] EXCEPT !.ok = FALSE] IN
          j \in Jobs /\ j.circuit = job[h].circuit /\ j.side = job[h].side
    BY Zenon, <2>2 DEF Jobs
  <2>4. PICK j \in Jobs : /\ job' = [job EXCEPT ![h] = j]
                          /\ j.circuit = job[h].circuit /\ j.side = job[h].side
    BY Zenon, <1>5, <2>1, <2>2, <2>3
  <2> QED
    BY Zenon, <1>4, <1>5, <2>1, <2>4
<1>8. ASSUME NEW h \in Handlers, PairedToClaimer(h)
      PROVE  JInv'
  <2>1. /\ state' = [state EXCEPT ![h] = "control"] /\ job' = [job EXCEPT ![h] = Idle]
        /\ UNCHANGED <<made, half, closed>> /\ tickets' \subseteq tickets
        /\ released \subseteq released' /\ released' \subseteq released \cup {job[h].circuit}
        /\ state[h] = "toClaimer"
    BY Zenon, <1>8 DEF PairedToClaimer, releaseOnce
  <2> QED
    BY Zenon, <1>4, <1>5, <2>1, IdleFacts
<1>9. ASSUME NEW h \in Handlers,
             AttachFails(h) \/ SpliceEnds(h) \/ WaitDone(h) \/ WaitTimesOut(h) \/ WaitCancelled(h)
      PROVE  JInv'
  <2>1. /\ state' = [state EXCEPT ![h] = "leaving"] /\ job' = job
        /\ UNCHANGED <<made, half, closed, tickets>>
        /\ released \subseteq released' /\ released' \subseteq released \cup {job[h].circuit}
    BY Zenon, <1>9 DEF AttachFails, SpliceEnds, WaitDone, WaitTimesOut, WaitCancelled, releaseOnce
  <2>2. state[h] \in {"waiting", "splicing"} => closed \/ job[h].circuit \in released'
    BY Zenon, <1>9 DEF AttachFails, SpliceEnds, WaitDone, WaitTimesOut, WaitCancelled, releaseOnce, Types
  <2>3. job' = [job EXCEPT ![h] = job[h]] /\ job[h] \in Jobs
    BY Zenon, <1>5, <2>1
  <2> QED
    BY Zenon, <1>4, <1>5, <2>1, <2>2, <2>3
<1>10. ASSUME NEW h \in Handlers, releaseIP(h)
       PROVE  JInv'
  <2>1. /\ state' = [state EXCEPT ![h] = "gone"] /\ job' = [job EXCEPT ![h] = Idle]
        /\ UNCHANGED <<made, half, closed, tickets, released>>
        /\ state[h] = "leaving"
    BY Zenon, <1>10 DEF releaseIP
  <2> QED
    BY Zenon, <1>4, <1>5, <2>1, IdleFacts
<1>11. ASSUME Close
       PROVE  JInv'
  <2>1. UNCHANGED <<state, job, made, half, released, tickets>> /\ closed'
    BY Zenon, <1>11 DEF Close
  <2>2. \A h \in Handlers : state[h] = "pairing" => job[h].circuit \notin released
    BY Zenon DEF JInv, PairingIsPrivate, Private
  <2> QED
    BY Zenon, <2>1, <2>2, ShrinkStep
<1> QED
  BY Zenon, <1>2, <1>3, <1>6, <1>7, <1>8, <1>9, <1>10, <1>11, ClaimStep, IssueStep, RedeemStep, AttachStep
     DEF Next, serveConn, pair, attachCircuit, deferred

-----------------------------------------------------------------------------
(* The counters. *)

\* Counting one more and one less.
LEMMA Counting ==
  ASSUME NEW S, IsFiniteSet(S)
  PROVE  /\ Cardinality(S) \in Nat
         /\ \A x : x \notin S => Cardinality(S \cup {x}) = Cardinality(S) + 1
         /\ \A x \in S : Cardinality(S \ {x}) = Cardinality(S) - 1 /\ Cardinality(S) > 0
<1>1. Cardinality(S) \in Nat
  BY Zenon, FS_CardinalityType
<1>2. \A x : x \notin S => Cardinality(S \cup {x}) = Cardinality(S) + 1
  BY Zenon, FS_AddElement
<1>3. ASSUME NEW x \in S
      PROVE  Cardinality(S \ {x}) = Cardinality(S) - 1 /\ Cardinality(S) > 0
  <2>1. Cardinality(S \ {x}) = Cardinality(S) - 1
    BY Zenon, FS_RemoveElement
  <2>2. Cardinality(S \ {x}) \in Nat
    BY Zenon, FS_RemoveElement, FS_CardinalityType
  <2> QED
    BY <1>1, <2>1, <2>2
<1> QED
  BY Zenon, <1>1, <1>2, <1>3

\* releaseOnce gives a slot back the first time and does nothing afterwards.
LEMMA ReleaseOnceStep ==
  ASSUME Types, SlotsAccounted, NEW k \in made, releaseOnce(k), made' = made
  PROVE  SlotsAccounted'
<1>1. IsFiniteSet(made \ released)
  <2>1. made \ released \subseteq Circuits
    BY Zenon DEF Types
  <2> QED
    BY Zenon, <2>1, RelayAssumption, FS_Subset
<1>2. CASE k \in released
  <2>1. circuits' = circuits /\ released' = released
    BY Zenon, <1>2 DEF releaseOnce
  <2> QED
    BY Zenon, <2>1 DEF SlotsAccounted
<1>3. CASE k \notin released
  <2>1. /\ Cardinality((made \ released) \ {k}) = Cardinality(made \ released) - 1
        /\ Cardinality(made \ released) > 0
    BY Zenon, <1>1, <1>3, Counting
  <2>2. made' \ released' = (made \ released) \ {k}
    BY Zenon DEF releaseOnce
  <2>3. circuits' = circuits - 1
    BY Zenon, <1>3, <2>1 DEF releaseOnce, SlotsAccounted
  <2>4. circuits' <= MaxCircuits
    BY <2>3, RelayAssumption DEF Types, SlotsAccounted
  <2> QED
    BY Zenon, <2>1, <2>2, <2>3, <2>4 DEF SlotsAccounted
<1> QED
  BY Zenon, <1>2, <1>3

\* A slot is taken with the circuit it belongs to, and is given back once.
LEMMA SlotsStep ==
  ASSUME Types, JInv, SlotsAccounted, [Next]_vars
  PROVE  SlotsAccounted'
<1> USE DEF server
<1>1. ASSUME UNCHANGED <<made, released, circuits>>
      PROVE  SlotsAccounted'
  BY Zenon, <1>1 DEF SlotsAccounted
<1>2. ASSUME NEW h \in Handlers, NEW c \in Codes, NEW k \in Circuits, Claim(h, c, k)
      PROVE  SlotsAccounted'
  <2>1. /\ k \notin made /\ made' = made \cup {k} /\ released' = released
        /\ circuits' = circuits + 1 /\ circuits < MaxCircuits
    BY Zenon, <1>2 DEF Claim
  <2>2. made' \ released' = (made \ released) \cup {k} /\ k \notin made \ released
    BY Zenon, <2>1 DEF Types
  <2>3. IsFiniteSet(made \ released)
    <3>1. made \ released \subseteq Circuits
      BY Zenon DEF Types
    <3> QED
      BY Zenon, <3>1, RelayAssumption, FS_Subset
  <2>4. Cardinality((made \ released) \cup {k}) = Cardinality(made \ released) + 1
    BY Zenon, <2>2, <2>3, Counting
  <2>5. circuits' <= MaxCircuits
    BY <2>1, RelayAssumption DEF Types
  <2> QED
    BY Zenon, <2>1, <2>2, <2>4, <2>5 DEF SlotsAccounted
<1>3. ASSUME NEW h \in Handlers, state[h] \in Working, releaseOnce(job[h].circuit), made' = made
      PROVE  SlotsAccounted'
  <2>1. job[h].circuit \in made
    BY Zenon, <1>3 DEF JInv, JobsMade
  <2> QED
    BY Zenon, <1>3, <2>1, ReleaseOnceStep
<1>4. ASSUME NEW h \in Handlers, TicketFails(h)
      PROVE  SlotsAccounted'
  <2>1. job[h].circuit \notin released
    BY Zenon, <1>4 DEF TicketFails, JInv, PairingIsPrivate, Private
  <2>2. releaseOnce(job[h].circuit) /\ made' = made /\ state[h] \in Working
    BY Zenon, <1>4, <2>1 DEF TicketFails, releaseOnce, Working
  <2> QED
    BY Zenon, <1>3, <2>2
<1>5. ASSUME NEW h \in Handlers, PairedToClaimer(h)
      PROVE  SlotsAccounted'
  <2>1. /\ made' = made /\ state[h] \in Working
        /\ UNCHANGED <<circuits, released>> \/ releaseOnce(job[h].circuit)
    BY Zenon, <1>5 DEF PairedToClaimer, Working
  <2> QED
    BY Zenon, <1>1, <1>3, <2>1
<1>6. ASSUME NEW h \in Handlers, SpliceEnds(h) \/ WaitTimesOut(h)
      PROVE  SlotsAccounted'
  <2>1. made' = made /\ state[h] \in Working /\ releaseOnce(job[h].circuit)
    BY Zenon, <1>6 DEF SpliceEnds, WaitTimesOut, Working, Half
  <2> QED
    BY Zenon, <1>3, <2>1
<1>7. ASSUME NEW h \in Handlers,
             Accept(h) \/ Hangup(h) \/ (\E c \in Codes : Publish(h, c) \/ PublishRefused(h, c) \/ dropPending(h, c))
             \/ (\E t \in tickets : Redeem(h, t)) \/ IssueTickets(h) \/ PairedToPublisher(h)
             \/ AttachFails(h) \/ Attach(h) \/ WaitDone(h) \/ WaitCancelled(h) \/ releaseIP(h)
      PROVE  SlotsAccounted'
  <2>1. UNCHANGED <<made, released, circuits>>
    BY Zenon, <1>7 DEF Accept, Hangup, Publish, PublishRefused, dropPending, Redeem, IssueTickets,
                PairedToPublisher, AttachFails, Attach, WaitDone, WaitCancelled, releaseIP
  <2> QED
    BY Zenon, <1>1, <2>1
<1>8. ASSUME reap \/ (\E c \in Codes : CodeAges(c)) \/ (\E k \in Circuits : CircuitAges(k))
             \/ (\E a \in IPs : MinutePasses(a)) \/ Close \/ UNCHANGED vars
      PROVE  SlotsAccounted'
  <2>1. UNCHANGED <<made, released, circuits>>
    BY Zenon, <1>8 DEF reap, CodeAges, CircuitAges, MinutePasses, Close, vars
  <2> QED
    BY Zenon, <1>1, <2>1
<1> QED
  BY Zenon, <1>2, <1>4, <1>5, <1>6, <1>7, <1>8 DEF Next, serveConn, pair, attachCircuit, deferred

\* What a step does to pending, to the lists of the handlers and to who is gone.
LEMMA PendingStep ==
  ASSUME Types, PendingHasOwner, [Next]_vars
  PROVE  PendingHasOwner'
<1> USE DEF Goes, server
<1>1. ASSUME published' = published,
             \A c \in Codes : pending'[c] \in {pending[c], nil},
             \A h \in Handlers : state'[h] = "gone" => state[h] = "gone"
      PROVE  PendingHasOwner'
  BY Zenon, <1>1 DEF PendingHasOwner, Types
<1>2. ASSUME NEW h \in Handlers, NEW c \in Codes, Publish(h, c)
      PROVE  PendingHasOwner'
  <2>1. /\ \A d \in Codes : pending'[d] = IF d = c THEN h ELSE pending[d]
        /\ \A g \in Handlers : published'[g] = IF g = h THEN published[g] \cup {c} ELSE published[g]
        /\ \A g \in Handlers : state'[g] = state[g] \/ (g = h /\ state'[g] = "leaving")
        /\ state[h] = "control"
    BY Zenon, <1>2 DEF Publish, Types
  <2>2. h # nil /\ state'[h] # "gone"
    <3>1. h # nil
      BY Zenon, RelayAssumption
    <3>2. state'[h] \in {"control", "leaving"}
      BY Zenon, <2>1
    <3> QED
      BY Zenon, <3>1, <3>2
  <2>3. SUFFICES ASSUME NEW d \in Codes, pending'[d] # nil
                 PROVE  d \in published'[pending'[d]] /\ state'[pending'[d]] # "gone"
    BY Zenon DEF PendingHasOwner
  <2>4. CASE d = c
    <3>1. pending'[d] = h /\ published'[h] = published[h] \cup {c}
      BY Zenon, <2>1, <2>4
    <3> QED
      BY Zenon, <2>2, <2>4, <3>1
  <2>5. CASE d # c
    <3> DEFINE o == pending[d]
    <3>1. pending'[d] = o /\ o # nil
      BY Zenon, <2>1, <2>3, <2>5
    <3>2. o \in Handlers /\ d \in published[o] /\ state[o] # "gone"
      BY Zenon, <3>1 DEF PendingHasOwner, Types
    <3>3. published[o] \subseteq published'[o]
      BY Zenon, <2>1, <3>2
    <3>4. state'[o] # "gone"
      BY Zenon, <2>1, <3>2
    <3> QED
      BY Zenon, <3>1, <3>2, <3>3, <3>4
  <2> QED
    BY Zenon, <2>4, <2>5
<1>3. ASSUME NEW h \in Handlers, NEW c \in Codes, dropPending(h, c)
      PROVE  PendingHasOwner'
  <2>1. /\ \A d \in Codes : pending'[d] = IF d = c /\ pending[c] = h THEN nil ELSE pending[d]
        /\ \A g \in Handlers : published'[g] = IF g = h THEN published[g] \ {c} ELSE published[g]
        /\ state' = state
    BY Zenon, <1>3 DEF dropPending, Types
  <2> QED
    BY ZenonT(60), <2>1 DEF PendingHasOwner, Types
<1>4. ASSUME NEW h \in Handlers, releaseIP(h)
      PROVE  PendingHasOwner'
  <2>1. /\ published[h] = {} /\ UNCHANGED <<pending, published>>
        /\ \A g \in Handlers \ {h} : state'[g] = state[g]
    BY Zenon, <1>4 DEF releaseIP, Types
  <2> QED
    BY Zenon, <2>1 DEF PendingHasOwner, Types
<1>5. ASSUME NEW h \in Handlers, NEW c \in Codes, NEW k \in Circuits, Claim(h, c, k)
      PROVE  PendingHasOwner'
  <2>1. published' = published /\ \A d \in Codes : pending'[d] \in {pending[d], nil}
    BY Zenon, <1>5 DEF Claim, Types
  <2>2. \A g \in Handlers : state'[g] = "gone" => state[g] = "gone"
    BY Zenon, <1>5 DEF Claim, Types
  <2> QED
    BY Zenon, <1>1, <2>1, <2>2
<1>6. ASSUME reap
      PROVE  PendingHasOwner'
  <2>1. UNCHANGED <<published, state>> /\ \A d \in Codes : pending'[d] \in {pending[d], nil}
    BY Zenon, <1>6 DEF reap, Types
  <2> QED
    BY Zenon, <1>1, <2>1
<1>7. ASSUME NEW h \in Handlers,
             Accept(h) \/ Hangup(h) \/ (\E c \in Codes : PublishRefused(h, c))
             \/ (\E t \in tickets : Redeem(h, t)) \/ pair(h) \/ attachCircuit(h)
      PROVE  PendingHasOwner'
  <2>1. UNCHANGED <<published, pending>>
    BY Zenon, <1>7 DEF Accept, Hangup, PublishRefused, Redeem, pair, TicketFails, IssueTickets, PairedToPublisher,
                PairedToClaimer, attachCircuit, AttachFails, Attach, SpliceEnds, WaitDone, WaitTimesOut,
                WaitCancelled
  <2>2. PICK to \in States \ {"gone"} : state' = [state EXCEPT ![h] = to]
    <3> DEFINE Lands == \E to \in States \ {"gone"} : state' = [state EXCEPT ![h] = to]
    <3>1. CASE Accept(h) \/ Hangup(h) \/ (\E c \in Codes : PublishRefused(h, c)) \/ (\E t \in tickets : Redeem(h, t))
      <4>1. \/ state' = [state EXCEPT ![h] = "control"] \/ state' = [state EXCEPT ![h] = "leaving"]
            \/ state' = [state EXCEPT ![h] = "attaching"]
        BY Zenon, <3>1 DEF Accept, Hangup, PublishRefused, Redeem
      <4> QED
        BY Zenon, <4>1 DEF States
    <3>2. CASE pair(h)
      <4>1. \/ state' = [state EXCEPT ![h] = "control"] \/ state' = [state EXCEPT ![h] = "toPublisher"]
            \/ state' = [state EXCEPT ![h] = "toClaimer"]
        BY Zenon, <3>2 DEF pair, TicketFails, IssueTickets, PairedToPublisher, PairedToClaimer
      <4> QED
        BY Zenon, <4>1 DEF States
    <3>3. CASE attachCircuit(h)
      <4>1. \/ state' = [state EXCEPT ![h] = "leaving"] \/ state' = [state EXCEPT ![h] = "splicing"]
            \/ state' = [state EXCEPT ![h] = "waiting"]
        <5>1. CASE Attach(h)
          BY Zenon, <5>1 DEF Attach
        <5> QED
          BY Zenon, <3>3, <5>1 DEF attachCircuit, AttachFails, SpliceEnds, WaitDone, WaitTimesOut, WaitCancelled
      <4> QED
        BY Zenon, <4>1 DEF States
    <3> QED
      BY Zenon, <1>7, <3>1, <3>2, <3>3
  <2>3. \A g \in Handlers : state'[g] = "gone" => state[g] = "gone"
    BY Zenon, <2>2 DEF Types
  <2>4. \A d \in Codes : pending'[d] \in {pending[d], nil}
    BY Zenon, <2>1
  <2> QED
    BY Zenon, <1>1, <2>1, <2>3, <2>4
<1>8. ASSUME (\E c \in Codes : CodeAges(c)) \/ (\E k \in Circuits : CircuitAges(k))
             \/ (\E a \in IPs : MinutePasses(a)) \/ Close \/ UNCHANGED vars
      PROVE  PendingHasOwner'
  <2>1. UNCHANGED <<published, pending, state>>
    BY Zenon, <1>8 DEF CodeAges, CircuitAges, MinutePasses, Close, vars
  <2> QED
    BY Zenon, <1>1, <2>1
<1> QED
  BY Zenon, <1>2, <1>3, <1>4, <1>5, <1>6, <1>7, <1>8 DEF Next, serveConn, deferred

\* A connection counts from acquireIP to releaseIP.
Live(a) == {h \in Handlers : ip[h] = a /\ state[h] \notin {"new", "gone"}}

\* Every handler is counted once under its address.
LEMMA ConnsStep ==
  ASSUME Types, ConnsAccounted, [Next]_vars
  PROVE  ConnsAccounted'
<1> USE DEF Goes, server, limits
<1>1. \A a \in IPs : /\ ipConns[a] = Cardinality(Live(a)) /\ ipConns[a] <= MaxConnsPerIP
                     /\ ipConns[a] \in Nat /\ IsFiniteSet(Live(a))
  <2>1. \A a \in IPs : Live(a) \subseteq Handlers
    BY Zenon DEF Live
  <2>2. \A a \in IPs : IsFiniteSet(Live(a))
    BY Zenon, <2>1, RelayAssumption, FS_Subset
  <2> QED
    BY Zenon, <2>2 DEF ConnsAccounted, Types, Live
<1>2. SUFFICES \A a \in IPs : ipConns'[a] = Cardinality(Live(a)') /\ ipConns'[a] <= MaxConnsPerIP
  BY Zenon DEF ConnsAccounted, Live
<1>3. ASSUME ipConns' = ipConns,
             \A h \in Handlers : state'[h] \in {"new", "gone"} <=> state[h] \in {"new", "gone"}
      PROVE  \A a \in IPs : ipConns'[a] = Cardinality(Live(a)') /\ ipConns'[a] <= MaxConnsPerIP
  <2>1. \A a \in IPs : Live(a)' = Live(a)
    BY Zenon, <1>3 DEF Live
  <2> QED
    BY Zenon, <1>1, <1>3, <2>1
<1>4. ASSUME NEW h \in Handlers, Accept(h)
      PROVE  \A a \in IPs : ipConns'[a] = Cardinality(Live(a)') /\ ipConns'[a] <= MaxConnsPerIP
  <2>1. /\ state[h] = "new" /\ state'[h] \in {"control", "leaving"}
        /\ \A g \in Handlers \ {h} : state'[g] = state[g]
        /\ ip[h] \in IPs /\ ipConns[ip[h]] < MaxConnsPerIP
        /\ \A a \in IPs : ipConns'[a] = IF a = ip[h] THEN ipConns[a] + 1 ELSE ipConns[a]
    BY Zenon, <1>4, RelayAssumption DEF Accept, Types
  <2>2. \A a \in IPs : Live(a)' = IF a = ip[h] THEN Live(a) \cup {h} ELSE Live(a)
    <3>1. state'[h] \notin {"new", "gone"} /\ state[h] \in {"new", "gone"}
      BY Zenon, <2>1
    <3>2. \A g \in Handlers : state'[g] \notin {"new", "gone"} <=> (g = h \/ state[g] \notin {"new", "gone"})
      BY Zenon, <2>1, <3>1
    <3>3. ASSUME NEW a \in IPs, a = ip[h]
          PROVE  Live(a)' = Live(a) \cup {h}
      BY Zenon, <3>2, <3>3 DEF Live
    <3>4. ASSUME NEW a \in IPs, a # ip[h]
          PROVE  Live(a)' = Live(a)
      BY Zenon, <3>2, <3>4 DEF Live
    <3> QED
      BY Zenon, <3>3, <3>4
  <2>3. h \notin Live(ip[h])
    BY Zenon, <2>1 DEF Live
  <2>4. Cardinality(Live(ip[h]) \cup {h}) = Cardinality(Live(ip[h])) + 1
    BY Zenon, <1>1, <2>1, <2>3, Counting
  <2>5. ipConns[ip[h]] + 1 <= MaxConnsPerIP
    BY SMTT(30), <1>1, <2>1, RelayAssumption
  <2> QED
    BY ZenonT(60), <1>1, <2>1, <2>2, <2>4, <2>5
<1>5. ASSUME NEW h \in Handlers, releaseIP(h)
      PROVE  \A a \in IPs : ipConns'[a] = Cardinality(Live(a)') /\ ipConns'[a] <= MaxConnsPerIP
  <2>1. /\ state[h] = "leaving" /\ state'[h] = "gone"
        /\ \A g \in Handlers \ {h} : state'[g] = state[g]
        /\ ip[h] \in IPs
        /\ \A a \in IPs : ipConns'[a] = IF a = ip[h] THEN (IF ipConns[a] <= 1 THEN 0 ELSE ipConns[a] - 1)
                                        ELSE ipConns[a]
    BY Zenon, <1>5, RelayAssumption DEF releaseIP, Types
  <2>2. \A a \in IPs : Live(a)' = IF a = ip[h] THEN Live(a) \ {h} ELSE Live(a)
    <3>1. \A g \in Handlers : state'[g] \notin {"new", "gone"} <=> (g # h /\ state[g] \notin {"new", "gone"})
      BY Zenon, <2>1
    <3>2. ASSUME NEW a \in IPs, a = ip[h]
          PROVE  Live(a)' = Live(a) \ {h}
      BY Zenon, <3>1, <3>2 DEF Live
    <3>3. ASSUME NEW a \in IPs, a # ip[h]
          PROVE  Live(a)' = Live(a)
      BY Zenon, <3>1, <3>3 DEF Live
    <3> QED
      BY Zenon, <3>2, <3>3
  <2>3. h \in Live(ip[h])
    BY Zenon, <2>1 DEF Live
  <2>4. /\ Cardinality(Live(ip[h]) \ {h}) = Cardinality(Live(ip[h])) - 1
        /\ Cardinality(Live(ip[h])) > 0
    BY Zenon, <1>1, <2>1, <2>3, Counting
  <2>5. ipConns'[ip[h]] = ipConns[ip[h]] - 1 /\ ipConns'[ip[h]] <= MaxConnsPerIP
    <3>1. ipConns[ip[h]] \in Nat /\ ipConns[ip[h]] > 0 /\ ipConns[ip[h]] <= MaxConnsPerIP
      BY Zenon, <1>1, <2>1, <2>4
    <3> QED
      BY <2>1, <3>1, RelayAssumption
  <2> QED
    BY ZenonT(60), <1>1, <2>1, <2>2, <2>4, <2>5
<1>6. ASSUME NEW h \in Handlers, Hangup(h) \/ (\E c \in Codes : Publish(h, c) \/ PublishRefused(h, c))
             \/ (\E c \in Codes, k \in Circuits : Claim(h, c, k)) \/ (\E t \in tickets : Redeem(h, t))
      PROVE  \A a \in IPs : ipConns'[a] = Cardinality(Live(a)') /\ ipConns'[a] <= MaxConnsPerIP
  <2>1. ipConns' = ipConns /\ state[h] = "control"
    BY Zenon, <1>6 DEF Hangup, Publish, PublishRefused, Claim, Redeem
  <2>2. \A g \in Handlers : state'[g] = state[g] \/ (g = h /\ state'[g] \in {"leaving", "pairing", "attaching"})
    BY Zenon, <1>6 DEF Hangup, Publish, PublishRefused, Claim, Redeem, Types
  <2> QED
    BY Zenon, <1>3, <2>1, <2>2
<1>7. ASSUME NEW h \in Handlers, pair(h) \/ attachCircuit(h)
      PROVE  \A a \in IPs : ipConns'[a] = Cardinality(Live(a)') /\ ipConns'[a] <= MaxConnsPerIP
  <2>1. ipConns' = ipConns /\ state[h] \notin {"new", "gone"}
    BY Zenon, <1>7 DEF pair, TicketFails, IssueTickets, PairedToPublisher, PairedToClaimer,
                attachCircuit, AttachFails, Attach, SpliceEnds, WaitDone, WaitTimesOut, WaitCancelled
  <2>2. \A g \in Handlers : state'[g] = state[g] \/ (g = h /\ state'[g] \notin {"new", "gone"})
    BY Zenon, <1>7 DEF pair, TicketFails, IssueTickets, PairedToPublisher, PairedToClaimer,
                attachCircuit, AttachFails, Attach, SpliceEnds, WaitDone, WaitTimesOut, WaitCancelled, Types
  <2> QED
    BY Zenon, <1>3, <2>1, <2>2
<1>8. ASSUME reap \/ (\E c \in Codes : CodeAges(c)) \/ (\E k \in Circuits : CircuitAges(k))
             \/ (\E a \in IPs : MinutePasses(a)) \/ Close \/ UNCHANGED vars
             \/ (\E h \in Handlers, c \in Codes : dropPending(h, c))
      PROVE  \A a \in IPs : ipConns'[a] = Cardinality(Live(a)') /\ ipConns'[a] <= MaxConnsPerIP
  <2>1. UNCHANGED <<ipConns, state>>
    BY Zenon, <1>8 DEF reap, CodeAges, CircuitAges, MinutePasses, Close, vars, dropPending
  <2> QED
    BY Zenon, <1>3, <2>1
<1> QED
  BY Zenon, <1>4, <1>5, <1>6, <1>7, <1>8 DEF Next, serveConn, deferred

-----------------------------------------------------------------------------
(* The theorems. *)

\* The relay starts empty.
LEMMA Initially == Init => IInv
<1> SUFFICES ASSUME Init PROVE IInv
  BY Zenon
<1>1. /\ Idle.circuit = nil /\ Idle \in Jobs
      /\ \A h \in Handlers : job[h].circuit = nil /\ state[h] = "new"
  BY Zenon, IdleFacts DEF Init, Idle, Jobs
<1>2. Types
  BY Zenon, <1>1 DEF Init, Types, States
<1>3. JInv
  <2>1. JobsMade /\ PairingIsPrivate /\ HalvesSpent
    BY Zenon, <1>1 DEF JobsMade, PairingIsPrivate, HalvesSpent, Working, Half
  <2>2. \A k \in Circuits, s \in Sides : half[k][s] = nil
    BY Zenon DEF Init
  <2>3. tickets = {} /\ made = {}
    BY Zenon DEF Init
  <2>4. TicketsFree /\ AttachedStays
    BY Zenon, <2>2, <2>3 DEF TicketsFree, AttachedStays
  <2>5. OneConnPerSide
    BY Zenon, <1>1 DEF OneConnPerSide
  <2> QED
    BY Zenon, <2>1, <2>4, <2>5 DEF JInv
<1>4. SlotsAccounted
  <2>1. circuits = 0 /\ made \ released = {}
    BY Zenon DEF Init
  <2> QED
    BY <2>1, FS_EmptySet, RelayAssumption DEF SlotsAccounted
<1>5. PendingHasOwner
  BY Zenon DEF Init, PendingHasOwner
<1>6. ConnsAccounted
  <2>1. \A a \in IPs : ipConns[a] = 0
    BY Zenon DEF Init
  <2>2. \A a \in IPs : {h \in Handlers : ip[h] = a /\ state[h] \notin {"new", "gone"}} = {}
    BY Zenon, <1>1
  <2> QED
    BY SMTT(30), <2>1, <2>2, FS_EmptySet, RelayAssumption DEF ConnsAccounted
<1> QED
  BY Zenon, <1>2, <1>3, <1>4, <1>5, <1>6 DEF IInv

\* The invariant is inductive.
LEMMA Inductive == IInv /\ [Next]_vars => IInv'
<1> SUFFICES ASSUME IInv, [Next]_vars PROVE IInv'
  BY Zenon
<1>1. Types /\ JInv /\ JobsMade /\ SlotsAccounted /\ PendingHasOwner /\ ConnsAccounted
  BY Zenon DEF IInv, JInv
<1>2. Types'
  BY Zenon, <1>1, TypesStep
<1>3. JInv'
  BY Zenon, <1>1, <1>2, CircuitsStep
<1>4. SlotsAccounted'
  BY Zenon, <1>1, <1>2, SlotsStep
<1>5. PendingHasOwner' /\ ConnsAccounted'
  BY Zenon, <1>1, PendingStep, ConnsStep
<1> QED
  BY Zenon, <1>2, <1>3, <1>4, <1>5 DEF IInv

\* The invariant holds always.
LEMMA Invariance == Spec => []IInv
BY Initially, Inductive, PTL DEF Spec

\* The count of circuits against MaxCircuits is, in every interleaving of pairing,
\* splicing, reaping and shutting down, the number of circuits that were made and
\* whose slot releaseOnce has not given back.
THEOREM SlotsCorrect == Spec => []SlotsAccounted
<1>1. IInv => SlotsAccounted
  BY Zenon DEF IInv
<1> QED
  BY <1>1, Invariance, PTL

\* Every code in pending is in the list that its connection's deferred cleanup
\* works through, and that connection is still being served.
THEOREM PendingOwned == Spec => []PendingHasOwner
<1>1. IInv => PendingHasOwner
  BY Zenon DEF IInv
<1> QED
  BY <1>1, Invariance, PTL

\* acquireIP and releaseIP keep the number of connections of every address.
THEOREM ConnsCorrect == Spec => []ConnsAccounted
<1>1. IInv => ConnsAccounted
  BY Zenon DEF IInv
<1> QED
  BY <1>1, Invariance, PTL

\* A ticket is single-use: no two connections serve one side of a circuit, and
\* only one of its two runs the splice.
THEOREM TicketsSingleUse == Spec => []OneConnPerSide
<1>1. IInv => OneConnPerSide
  BY Zenon DEF IInv, JInv
<1> QED
  BY <1>1, Invariance, PTL

\* A circuit that some connection attached to has its slot given back when it is
\* over, whether it was spliced, timed out while waiting, or was cancelled.
THEOREM AttachedReleased == Spec => []AttachedIsReleased
<1>1. IInv => AttachedIsReleased
  <2> SUFFICES ASSUME IInv, NEW k \in Circuits, Over(k), ~closed, NEW s \in Sides, half[k][s] # nil,
                      k \notin released
               PROVE  FALSE
    BY Zenon DEF AttachedIsReleased
  <2>1. half[k][s] \in Handlers
    BY DEF IInv, Types
  <2>2. job[half[k][s]].circuit = k
    BY Zenon DEF IInv, JInv, AttachedStays
  <2> QED
    BY Zenon, <2>1, <2>2 DEF Over
<1> QED
  BY <1>1, Invariance, PTL

\* A code leaves pending only by a claim, by the reaper once it is old, or by the
\* cleanup of the connection that owns it: an old connection's cleanup does not
\* take a code that was published again.
THEOREM DropsByOwner == Spec => OnlyOwnerDrops
<1> DEFINE Drops == \A c \in Codes : (pending[c] # nil /\ pending'[c] = nil) =>
                      \/ state[pending[c]] = "leaving"
                      \/ c \in oldCodes
                      \/ \E h \in Handlers : h # pending[c] /\ state[h] = "control" /\ state'[h] = "pairing"
<1>1. IInv /\ Next => Drops
  <2> SUFFICES ASSUME IInv, Next PROVE Drops
    BY Zenon
  <2> USE DEF Goes, server
  <2>0. Types
    BY Zenon DEF IInv
  <2>1. CASE UNCHANGED pending
    BY Zenon, <2>1
  <2>2. ASSUME NEW h \in Handlers, NEW c \in Codes, Publish(h, c)
        PROVE  Drops
    <3>1. \A d \in Codes : pending'[d] = nil => pending[d] = nil
      BY Zenon, <2>0, <2>2, RelayAssumption DEF Publish, Types
    <3> QED
      BY Zenon, <3>1
  <2>3. ASSUME NEW h \in Handlers, NEW c \in Codes, NEW k \in Circuits, Claim(h, c, k)
        PROVE  Drops
    <3>1. /\ h # pending[c] /\ state[h] = "control" /\ state'[h] = "pairing"
          /\ \A d \in Codes : pending'[d] # pending[d] => d = c
      BY Zenon, <2>0, <2>3 DEF Claim, Types
    <3> QED
      BY Zenon, <3>1
  <2>4. ASSUME NEW h \in Handlers, NEW c \in Codes, dropPending(h, c)
        PROVE  Drops
    <3>1. /\ state[h] = "leaving"
          /\ \A d \in Codes : pending'[d] # pending[d] => d = c /\ pending[c] = h
      BY Zenon, <2>0, <2>4 DEF dropPending, Types
    <3> QED
      BY Zenon, <3>1
  <2>5. CASE reap
    BY Zenon, <2>0, <2>5 DEF reap, Types
  <2>6. CASE UNCHANGED pending \/ reap \/ (\E h \in Handlers, c \in Codes : Publish(h, c) \/ dropPending(h, c))
             \/ (\E h \in Handlers, c \in Codes, k \in Circuits : Claim(h, c, k))
    BY Zenon, <2>1, <2>2, <2>3, <2>4, <2>5, <2>6
  <2>7. ASSUME NEW h \in Handlers, pair(h) \/ attachCircuit(h) \/ Accept(h) \/ Hangup(h) \/ releaseIP(h)
               \/ (\E c \in Codes : PublishRefused(h, c)) \/ (\E t \in tickets : Redeem(h, t))
        PROVE  UNCHANGED pending
    BY Zenon, <2>7 DEF pair, TicketFails, IssueTickets, PairedToPublisher, PairedToClaimer, Accept, Hangup, PublishRefused,
                Redeem, releaseIP, attachCircuit, AttachFails, Attach, SpliceEnds, WaitDone, WaitTimesOut,
                WaitCancelled
  <2>8. ASSUME (\E c \in Codes : CodeAges(c)) \/ (\E k \in Circuits : CircuitAges(k))
               \/ (\E a \in IPs : MinutePasses(a)) \/ Close
        PROVE  UNCHANGED pending
    BY Zenon, <2>8 DEF CodeAges, CircuitAges, MinutePasses, Close
  <2> QED
    BY Zenon, <2>6, <2>7, <2>8 DEF Next, serveConn, deferred
<1>2. IInv /\ [Next]_vars => [Drops]_vars
  BY Zenon, <1>1
<1> QED
  BY <1>2, Invariance, PTL DEF Spec, OnlyOwnerDrops
=============================================================================
