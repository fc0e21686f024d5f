----------------------- MODULE RendezvousClientProofs -----------------------
(***************************************************************************)
(* The rendezvous client, for any number of calls, codes and connections:  *)
(* what is outstanding was asked for on the connection in use, or a write  *)
(* failed there; and the codes lead to the calls that are under way.       *)
(*                                                                         *)
(* The invariant that carries both says of every registered waiter who     *)
(* will still send it (Covered) and, of every one marked as sent, on which *)
(* connection it was asked for (Asked).                                    *)
(***************************************************************************)
EXTENDS RendezvousClient, TLAPS

\* The code of w leads to it.
Mine(w) == waiters[rid[w]] = w

\* supervise has a connection that it has not closed yet.
Live == sup \in {"connected", "resending", "reading", "down"}

\* Connections are used one after the other: every one but the latest is shut,
\* and Client.conn is the latest until supervise or Close lets go of it.
ConnState ==
  /\ Live => dialled > 0 /\ (conn = dialled \/ (conn = nil /\ dialled \in shut))
  /\ ~Live => conn = nil
  /\ \A c \in 1 .. dialled : c \notin shut => c = dialled /\ sup \in {"connected", "resending", "reading"}

\* A run of resendWaiters has waiters to send only while it is under way, on a
\* connection; that of supervise is on the latest connection.
Run(t) ==
  /\ todo[t] # {} \/ cur[t] # nil => Sending(t) /\ on[t] # nil
  /\ \A w \in Calls : w \in todo[t] \/ cur[t] = w => pc[w] # "idle"
Supervised ==
  sup = "resending" => on[Supervisor] = dialled \/ (on[Supervisor] = nil /\ dialled \in shut)

\* A call is registered only while it is under way, and all that time unless an
\* Invite of its code was cancelled.
Called(w) == (Mine(w) => Active(w)) /\ (Active(w) => Mine(w) \/ rid[w] \in cancelled)
Call(w) == Called(w) /\ (pc[w] = "idle" => ~sent[w])

\* A code leads to a call that has it.
Entries == \A r \in Codes : waiters[r] # nil => rid[waiters[r]] = r

\* A waiter that is marked as sent was asked for on the latest connection, or
\* was marked late.
Asked(w) ==
  /\ ~Live /\ Mine(w) /\ sent[w] => w \in late
  /\ Live /\ Usable(dialled) =>
       /\ \A t \in Threads : cur[t] = w /\ on[t] = dialled => w \in asked
       /\ Mine(w) /\ sent[w] /\ w \notin late => w \in asked

\* Run t will mark w as sent on the latest connection.
Will(t, w) == Sending(t) /\ on[t] = dialled /\ (w \in todo[t] \/ cur[t] = w)

\* A registered waiter is sent, or about to be by its own call or by supervise,
\* unless a write has failed on the connection.
Covered(w) ==
  sup \in {"resending", "reading"} /\ Usable(dialled) /\ Mine(w) =>
    sent[w] \/ failed \/ pc[w] = "registered" \/ Will(w, w) \/ Will(Supervisor, w)

\* The inductive invariant of the client.
CInv ==
  /\ TypeOK /\ ConnState /\ Supervised /\ Entries
  /\ \A t \in Threads : Run(t)
  /\ \A w \in Calls : Call(w) /\ Asked(w) /\ Covered(w)

\* The facts about the constants that the proofs use.
LEMMA ClientFacts ==
  /\ Supervisor \notin Calls /\ nil \notin Calls /\ Supervisor \in Threads
  /\ \A w \in Calls : w \in Threads /\ w # Supervisor /\ w # nil /\ rid[w] \in Codes
  /\ \A t \in Threads : t # Supervisor => t \in Calls
  /\ MaxConns \in Nat /\ \A c \in 1 .. MaxConns : c # nil
BY Zenon, ClientAssumption DEF Threads

\* Numbers of connections are numbers, and not nil.
LEMMA ConnNumbers ==
  ASSUME TypeOK
  PROVE  /\ dialled \in Nat /\ dialled <= MaxConns
         /\ \A c \in 1 .. dialled : c \in Nat /\ c > 0 /\ c <= dialled /\ c # nil
         /\ dialled # 0 => dialled # nil /\ dialled \in 1 .. dialled
         /\ \A t \in Threads : on[t] # nil => on[t] \in 1 .. dialled
         /\ conn # nil => conn \in 1 .. dialled
<1>1. /\ dialled \in 0 .. MaxConns /\ MaxConns \in Nat
      /\ \A t \in Threads : on[t] \in 1 .. dialled \cup {nil}
      /\ conn \in 1 .. dialled \cup {nil}
  BY Zenon, ClientFacts DEF TypeOK
<1>2. dialled \in Nat /\ dialled <= MaxConns /\ 1 .. dialled \subseteq 1 .. MaxConns
  BY <1>1
<1>3. \A c \in 1 .. dialled : c \in Nat /\ c > 0 /\ c <= dialled
  BY <1>2
<1>4. \A c \in 1 .. dialled : c # nil
  BY Zenon, <1>2, ClientFacts
<1>5. dialled # 0 => dialled \in 1 .. dialled
  BY <1>2
<1> QED
  BY Zenon, <1>1, <1>2, <1>3, <1>4, <1>5

\* What a step outside of the waiters and the runs leaves alone.
Same == UNCHANGED <<dialled, waiters, sent, asked, todo, on, cur, late, failed, cancelled>>

\* Such a step, if it brings back no connection, keeps what is said of every
\* run and every call.
LEMMA SameKeeps ==
  ASSUME CInv, Same, UNCHANGED sup, UNCHANGED pc,
         dead \subseteq dead', shut \subseteq shut'
  PROVE  /\ \A t \in Threads : Run(t)'
         /\ \A w \in Calls : Call(w)' /\ Asked(w)' /\ Covered(w)'
         /\ Supervised' /\ Entries'
<1>1. /\ \A t \in Threads : Run(t)
      /\ \A w \in Calls : Call(w) /\ Asked(w) /\ Covered(w)
      /\ Supervised /\ Entries
  BY Zenon DEF CInv
<1>2. Usable(dialled)' => Usable(dialled)
  BY Zenon DEF Usable, Same
<1>3. /\ \A t : (Sending(t)' <=> Sending(t)) /\ (Run(t)' <=> Run(t))
      /\ \A w : (Mine(w)' <=> Mine(w)) /\ (Active(w)' <=> Active(w)) /\ (Call(w)' <=> Call(w))
      /\ \A t, w : Will(t, w)' <=> Will(t, w)
      /\ Live' <=> Live
  BY Zenon DEF Sending, Run, Mine, Active, Call, Called, Will, Live, Same
<1>4. \A w \in Calls : Asked(w)' /\ Covered(w)'
  BY Zenon, <1>1, <1>2, <1>3 DEF Asked, Covered, Same
<1>5. Supervised' /\ Entries'
  BY Zenon, <1>1 DEF Supervised, Entries, Same
<1> QED
  BY Zenon, <1>1, <1>3, <1>4, <1>5

\* The steps of supervise outside of a connection.
LEMMA IdleStep ==
  ASSUME CInv, Top \/ DialFails
  PROVE  CInv'
<1>1. /\ UNCHANGED <<dialled, conn, dead, shut, waiters, sent, asked, published, paired, pc, todo, on, cur, late, failed, cancelled, closing>>
      /\ sup \in {"top", "dialing"} /\ sup' \in {"top", "dialing", "stopped"}
  BY Zenon DEF Top, DialFails, channels, resending
<1>2. TypeOK'
  BY Zenon, <1>1 DEF TypeOK, CInv
<1>3. ~Live /\ ~Live'
  BY Zenon, <1>1 DEF Live
<1>4. ConnState' /\ Supervised' /\ Entries'
  BY Zenon, <1>1, <1>3 DEF CInv, ConnState, Supervised, Entries
<1>5. /\ \A t \in Threads : Sending(t)' <=> Sending(t)
      /\ \A w : (Mine(w)' <=> Mine(w)) /\ (Call(w)' <=> Call(w))
  BY Zenon, <1>1 DEF Sending, Mine, Call, Called, Active
<1>6. ASSUME NEW t \in Threads PROVE Run(t)'
  BY Zenon, <1>1, <1>5 DEF CInv, Run
<1>7. ASSUME NEW w \in Calls PROVE Asked(w)' /\ Covered(w)'
  BY Zenon, <1>1, <1>3, <1>5 DEF CInv, Asked, Covered
<1> QED
  BY Zenon, <1>2, <1>4, <1>5, <1>6, <1>7 DEF CInv

\* A new connection: no run is on it yet, and no waiter counts as sent.
LEMMA DialStep ==
  ASSUME CInv, DialSucceeds
  PROVE  CInv'
<1>1. /\ UNCHANGED <<dead, shut, waiters, sent, published, paired, pc, todo, on, cur, late, cancelled, closing>>
      /\ asked' = {} /\ failed' = FALSE
      /\ sup = "dialing" /\ sup' = "connected" /\ dialled < MaxConns
      /\ dialled' = dialled + 1 /\ conn' = dialled + 1
  BY Zenon DEF DialSucceeds, channels, resending
<1>2. TypeOK /\ ConnState /\ dialled \in Nat /\ MaxConns \in Nat
      /\ \A t \in Threads : on[t] # dialled + 1
  <2>1. dialled + 1 \in 1 .. MaxConns /\ dialled \in Nat /\ MaxConns \in Nat
    BY <1>1, ClientFacts, ConnNumbers DEF CInv
  <2>2. dialled + 1 # nil
    BY Zenon, <2>1, ClientFacts
  <2> QED
    BY <2>1, <2>2, ConnNumbers DEF CInv
<1>3. ~Live /\ Live'
  BY Zenon, <1>1 DEF Live
<1>4. TypeOK'
  <2>1. 1 .. dialled \subseteq 1 .. dialled' 
        /\ dialled' \in 0 .. MaxConns /\ conn' \in 1 .. dialled'
    BY <1>1, <1>2
  <2>3. /\ dead \subseteq 1 .. dialled' /\ shut \subseteq 1 .. dialled'
    BY Zenon, <1>2, <2>1 DEF TypeOK
  <2>4. on \in [Threads -> 1 .. dialled' \cup {nil}]
    BY Zenon, <1>2, <2>1 DEF TypeOK
  <2> QED
    BY Zenon, <1>1, <1>2, <2>1, <2>3, <2>4 DEF TypeOK
<1>5. ConnState'
  BY <1>1, <1>2, <1>3 DEF ConnState
<1>6. Supervised' /\ Entries'
  BY Zenon, <1>1 DEF Supervised, Entries, CInv
<1>7. /\ \A t \in Threads : Sending(t)' <=> Sending(t)
      /\ \A w : (Mine(w)' <=> Mine(w)) /\ (Call(w)' <=> Call(w))
  BY Zenon, <1>1 DEF Sending, Mine, Call, Called, Active
<1>8. ASSUME NEW t \in Threads PROVE Run(t)'
  BY Zenon, <1>1, <1>7 DEF CInv, Run
<1>9. ASSUME NEW w \in Calls PROVE Asked(w)' /\ Covered(w)'
  <2>1. Mine(w) /\ sent[w] => w \in late
    BY Zenon, <1>3 DEF CInv, Asked
  <2>2. \A t \in Threads : on'[t] # dialled'
    BY Zenon, <1>1, <1>2
  <2> QED
    BY Zenon, <1>1, <1>3, <1>7, <2>1, <2>2 DEF Asked, Covered
<1> QED
  BY Zenon, <1>4, <1>5, <1>6, <1>7, <1>8, <1>9 DEF CInv

\* The connection is closed after a failed read.
LEMMA ReadFailsStep ==
  ASSUME CInv, ReadFails
  PROVE  CInv'
<1>1. /\ UNCHANGED <<dialled, conn, dead, waiters, sent, asked, published, paired, pc, todo, on, cur, late, failed, cancelled, closing>>
      /\ sup = "reading" /\ sup' = "down" /\ ~Usable(dialled)
      /\ shut' = shut \cup {dialled}
  BY Zenon DEF ReadFails, channels, resending
<1>2. Live /\ Live' /\ dialled > 0 /\ dialled \in 1 .. dialled
  BY <1>1, ConnNumbers DEF Live, CInv, ConnState
<1>3. TypeOK'
  <2>1. shut' \subseteq 1 .. dialled
    BY Zenon, <1>1, <1>2 DEF CInv, TypeOK
  <2> QED
    BY Zenon, <1>1, <2>1 DEF CInv, TypeOK
<1>4. ConnState' /\ Supervised' /\ Entries'
  BY Zenon, <1>1, <1>2 DEF CInv, ConnState, Supervised, Entries
<1>5. /\ \A t \in Threads : Sending(t)' <=> Sending(t)
      /\ \A w : (Mine(w)' <=> Mine(w)) /\ (Call(w)' <=> Call(w))
  BY Zenon, <1>1 DEF Sending, Mine, Call, Called, Active
<1>6. ASSUME NEW t \in Threads PROVE Run(t)'
  BY Zenon, <1>1, <1>5 DEF CInv, Run
<1>7. ~Usable(dialled)'
  BY Zenon, <1>1 DEF Usable
<1>8. ASSUME NEW w \in Calls PROVE Asked(w)' /\ Covered(w)'
  BY Zenon, <1>1, <1>2, <1>7 DEF Asked, Covered
<1> QED
  BY Zenon, <1>3, <1>4, <1>5, <1>6, <1>8 DEF CInv

\* Everything that is outstanding is to be sent again.
LEMMA ResetStep ==
  ASSUME CInv, Reset
  PROVE  CInv'
<1>1. /\ UNCHANGED <<dialled, dead, shut, waiters, asked, published, paired, pc, todo, on, cur, late, failed, cancelled, closing>>
      /\ sup = "down" /\ sup' = "top" /\ conn' = nil
      /\ sent' = [w \in Calls |-> IF Mine(w) THEN FALSE ELSE sent[w]]
  BY Zenon DEF Reset, channels, resending, Mine
<1>2. Live /\ ~Live'
  BY Zenon, <1>1 DEF Live
<1>3. TypeOK'
  BY Zenon, <1>1 DEF CInv, TypeOK
<1>4. ConnState' /\ Supervised' /\ Entries'
  BY Zenon, <1>1, <1>2 DEF CInv, ConnState, Supervised, Entries
<1>5. /\ \A t \in Threads : Sending(t)' <=> Sending(t)
      /\ \A w : Mine(w)' <=> Mine(w)
  BY Zenon, <1>1 DEF Sending, Mine
<1>6. ASSUME NEW t \in Threads PROVE Run(t)'
  BY Zenon, <1>1, <1>5 DEF CInv, Run
<1>7. ASSUME NEW w \in Calls PROVE Call(w)' /\ ~(Mine(w)' /\ sent'[w])
  BY Zenon, <1>1, <1>5 DEF CInv, Call, Called, Active
<1>8. ASSUME NEW w \in Calls PROVE Asked(w)' /\ Covered(w)'
  BY Zenon, <1>1, <1>2, <1>7 DEF Asked, Covered
<1> QED
  BY Zenon, <1>3, <1>4, <1>6, <1>7, <1>8 DEF CInv

\* A run goes from one place to the next, and no call is registered or ended.
Turns(t, s, p) ==
  /\ \A w \in Calls : pc'[w] = IF w = t THEN p ELSE pc[w]
  /\ sup' = IF t = Supervisor THEN s ELSE sup
  /\ pc' \in [Calls -> {"idle", "registered", "sending", "waiting", "invited", "waited", "returned"}]

\* Goes moves one thread and leaves the others where they are.
LEMMA GoesTurns ==
  ASSUME CInv, NEW t \in Threads, NEW s, NEW p \in {"sending", "waiting"}, Goes(t, s, p)
  PROVE  Turns(t, s, p)
<1>1. pc \in [Calls -> {"idle", "registered", "sending", "waiting", "invited", "waited", "returned"}]
  BY Zenon DEF CInv, TypeOK
<1>2. CASE t = Supervisor
  BY Zenon, <1>1, <1>2, ClientFacts DEF Goes, Turns
<1>3. CASE t # Supervisor
  BY Zenon, <1>1, <1>3, ClientFacts DEF Goes, Turns
<1> QED
  BY Zenon, <1>2, <1>3

\* A run begins.
LEMMA ListUnsentStep ==
  ASSUME CInv, NEW t \in Threads, ListUnsent(t)
  PROVE  CInv'
<1> DEFINE unsent == {w \in Calls : Mine(w) /\ ~sent[w]}
<1>0. TypeOK /\ ConnState /\ Supervised /\ Entries
  BY Zenon DEF CInv
<1>1. /\ UNCHANGED <<dialled, conn, dead, shut, waiters, sent, asked, published, paired, cur, late, failed, cancelled, closing>>
      /\ Starts(t) /\ Turns(t, "resending", "sending")
      /\ on' = [on EXCEPT ![t] = conn]
      /\ todo' = [todo EXCEPT ![t] = IF conn = nil THEN {} ELSE unsent]
  BY Zenon, GoesTurns DEF ListUnsent, channels, Mine
<1>2. /\ \A u \in Threads : on'[u] = IF u = t THEN conn ELSE on[u]
      /\ \A u \in Threads : todo'[u] = IF u = t THEN (IF conn = nil THEN {} ELSE unsent) ELSE todo[u]
  BY Zenon, <1>0, <1>1 DEF TypeOK
<1>3. ~Sending(t) /\ cur[t] = nil /\ todo[t] = {}
  <2>1. ~Sending(t)
    BY Zenon, <1>1 DEF Starts, Sending
  <2> QED
    BY Zenon, <2>1 DEF CInv, Run
<1>4. /\ \A u \in Threads : Sending(u)' <=> (Sending(u) \/ u = t)
      /\ t # Supervisor => sup' = sup
      /\ t = Supervisor => sup = "connected" /\ sup' = "resending"
  BY Zenon, <1>1, ClientFacts DEF Starts, Sending, Turns
<1>5. /\ \A w \in Calls : (Mine(w)' <=> Mine(w)) /\ (Active(w)' <=> Active(w))
      /\ \A w \in Calls : (pc'[w] = "idle" <=> pc[w] = "idle")
      /\ \A w \in Calls : w # t => pc'[w] = pc[w]
      /\ t \in Calls => pc[t] = "registered"
      /\ Live' <=> Live
  BY Zenon, <1>1, ClientFacts DEF Turns, Mine, Active, Starts, Live
<1>6. TypeOK'
  BY Zenon, <1>0, <1>1 DEF TypeOK, Turns
<1>7. ConnState'
  <2>1. sup' = sup \/ (sup = "connected" /\ sup' = "resending")
    BY Zenon, <1>4
  <2> QED
    BY Zenon, <1>0, <1>1, <1>5, <2>1 DEF ConnState
<1>8. Supervised' /\ Entries'
  <2>0. Entries'
    BY Zenon, <1>0, <1>1 DEF Entries
  <2>1. CASE t = Supervisor
    BY Zenon, <1>0, <1>1, <1>2, <1>4, <2>0, <2>1, ClientFacts DEF Supervised, ConnState, Live
  <2>2. CASE t # Supervisor
    BY Zenon, <1>0, <1>1, <1>2, <1>4, <2>0, <2>2, ClientFacts DEF Supervised
  <2> QED
    BY Zenon, <2>0, <2>1, <2>2
<1>9. ASSUME NEW u \in Threads PROVE Run(u)'
  <2>1. Run(u)
    BY Zenon DEF CInv
  <2>2. CASE u # t
    BY <1>1, <1>2, <1>4, <1>5, <2>1, <2>2 DEF Run
  <2>3. CASE u = t
    <3>1. \A w \in unsent : pc[w] # "idle"
      BY Zenon DEF CInv, Call, Called, Active
    <3> QED
      BY <1>1, <1>2, <1>3, <1>4, <1>5, <2>3, <3>1, ClientFacts DEF Run
  <2> QED
    BY Zenon, <2>2, <2>3
<1>10. ASSUME NEW w \in Calls PROVE Call(w)'
  BY Zenon, <1>1, <1>5 DEF CInv, Call, Called
<1>11. Usable(dialled)' <=> Usable(dialled)
  BY Zenon, <1>1 DEF Usable
<1>12. ASSUME NEW w \in Calls PROVE Asked(w)'
  <2>1. Asked(w)
    BY Zenon DEF CInv
  <2>2. \A u \in Threads : cur'[u] = w => cur[u] = w /\ on'[u] = on[u]
    BY Zenon, <1>1, <1>2, <1>3, ClientFacts
  <2> QED
    BY Zenon, <1>1, <1>5, <1>11, <2>1, <2>2 DEF Asked
<1>13. ASSUME NEW w \in Calls PROVE Covered(w)'
  <2> SUFFICES ASSUME sup' \in {"resending", "reading"}, Usable(dialled), Mine(w), ~sent[w], ~failed, pc'[w] # "registered"
               PROVE  Will(w, w)' \/ Will(Supervisor, w)'
    BY Zenon, <1>1, <1>5, <1>11 DEF Covered
  <2>1. Live /\ dialled \notin shut
    BY Zenon, <1>5 DEF Live, Usable
  <2>2. conn = dialled /\ conn # nil
    BY <1>0, <2>1, ConnNumbers DEF ConnState
  <2>3. CASE t = Supervisor \/ t = w
    <3>1. t \in Threads /\ on'[t] = dialled' /\ Sending(t)'
      BY Zenon, <1>1, <1>2, <1>4, <2>2
    <3>2. w \in todo'[t]
      BY Zenon, <1>2, <2>2
    <3> QED
      BY Zenon, <2>3, <3>1, <3>2 DEF Will
  <2>4. CASE t # Supervisor /\ t # w
    <3>1. Will(w, w) \/ Will(Supervisor, w)
      BY Zenon, <1>4, <1>5, <2>4 DEF CInv, Covered
    <3> QED
      BY Zenon, <1>1, <1>2, <1>4, <2>4, <3>1, ClientFacts DEF Will
  <2> QED
    BY Zenon, <2>3, <2>4
<1> QED
  BY Zenon, <1>6, <1>7, <1>8, <1>9, <1>10, <1>12, <1>13 DEF CInv

\* A run sends one waiter; it can only be on the latest connection.
LEMMA SendsOneStep ==
  ASSUME CInv, NEW t \in Threads, NEW w \in Calls, SendsOne(t, w)
  PROVE  CInv'
<1>0. TypeOK /\ ConnState /\ Supervised /\ Entries /\ Run(t)
  BY Zenon DEF CInv
<1>1. /\ UNCHANGED <<sup, dialled, conn, dead, shut, waiters, sent, published, paired, pc, on, late, failed, cancelled, closing>>
      /\ w \in todo[t] /\ cur[t] = nil /\ on[t] \notin shut
      /\ asked' = IF on[t] = dialled /\ on[t] \notin dead THEN asked \cup {w} ELSE asked
      /\ todo' = [todo EXCEPT ![t] = @ \ {w}]
      /\ cur' = [cur EXCEPT ![t] = w]
  BY Zenon DEF SendsOne, channels, supervisor
<1>2. on[t] = dialled /\ Sending(t)
  <2>1. on[t] # nil /\ Sending(t)
    BY Zenon, <1>0, <1>1 DEF Run
  <2> QED
    BY <1>0, <1>1, <2>1, ConnNumbers DEF ConnState
<1>3. /\ \A x \in Calls : x \in asked' <=> x \in asked \/ (x = w /\ dialled \notin dead)
      /\ \A u \in Threads : todo'[u] = IF u = t THEN todo[t] \ {w} ELSE todo[u]
      /\ \A u \in Threads : cur'[u] = IF u = t THEN w ELSE cur[u]
  BY Zenon, <1>0, <1>1, <1>2 DEF TypeOK
<1>4. TypeOK'
  BY Zenon, <1>0, <1>1, <1>2 DEF TypeOK
<1>5. ConnState' /\ Supervised' /\ Entries'
  BY Zenon, <1>0, <1>1 DEF ConnState, Supervised, Live, Entries
<1>6. /\ \A u : Sending(u)' <=> Sending(u)
      /\ \A x : (Mine(x)' <=> Mine(x)) /\ (Active(x)' <=> Active(x)) /\ (Call(x)' <=> Call(x))
      /\ Live' <=> Live
      /\ Usable(dialled)' <=> Usable(dialled)
  BY Zenon, <1>1 DEF Sending, Mine, Active, Call, Called, Live, Usable
<1>7. ASSUME NEW u \in Threads PROVE Run(u)'
  <2>1. Run(u)
    BY Zenon DEF CInv
  <2>2. CASE u = t
    BY <1>0, <1>1, <1>2, <1>3, <1>6, <2>2 DEF Run
  <2>3. CASE u # t
    BY Zenon, <1>1, <1>3, <1>6, <2>1, <2>3 DEF Run
  <2> QED
    BY Zenon, <2>2, <2>3
<1>8. ASSUME NEW x \in Calls PROVE Asked(x)'
  <2>1. Asked(x)
    BY Zenon DEF CInv
  <2>2. CASE x = w
    BY Zenon, <1>1, <1>2, <1>3, <1>6, <2>1, <2>2 DEF Asked, Usable
  <2>3. CASE x # w
    BY Zenon, <1>1, <1>3, <1>6, <2>1, <2>3 DEF Asked
  <2> QED
    BY Zenon, <2>2, <2>3
<1>9. ASSUME NEW x \in Calls PROVE Covered(x)'
  <2>1. \A u \in Threads : Will(u, x) => Will(u, x)'
    BY <1>1, <1>3, <1>6, ClientFacts DEF Will
  <2> QED
    BY Zenon, <1>1, <1>6, <2>1, ClientFacts DEF CInv, Covered
<1> QED
  BY Zenon, <1>4, <1>5, <1>6, <1>7, <1>8, <1>9 DEF CInv

\* It marks the waiter as sent: late, unless its connection is in use.
LEMMA MarksSentStep ==
  ASSUME CInv, NEW t \in Threads, MarksSent(t)
  PROVE  CInv'
<1> DEFINE v == cur[t]
<1>0. TypeOK /\ ConnState /\ Supervised /\ Entries /\ Run(t)
  BY Zenon DEF CInv
<1>1. /\ UNCHANGED <<sup, dialled, conn, dead, shut, waiters, asked, published, paired, pc, todo, on, failed, cancelled, closing>>
      /\ v # nil
      /\ sent' = [sent EXCEPT ![v] = TRUE]
      /\ cur' = [cur EXCEPT ![t] = nil]
      /\ late' = IF on[t] = conn THEN late \ {v} ELSE late \cup {v}
  BY Zenon DEF MarksSent, channels, supervisor
<1>2. v \in Calls /\ on[t] # nil /\ pc[v] # "idle"
  BY Zenon, <1>0, <1>1 DEF TypeOK, Run
<1>3. /\ \A x \in Calls : sent'[x] = (IF x = v THEN TRUE ELSE sent[x])
      /\ \A u \in Threads : cur'[u] = IF u = t THEN nil ELSE cur[u]
      /\ \A x \in Calls : x # v => (x \in late' <=> x \in late)
  BY Zenon, <1>0, <1>1, <1>2 DEF TypeOK
<1>4. TypeOK'
  BY Zenon, <1>0, <1>1, <1>2 DEF TypeOK
<1>5. ConnState' /\ Supervised' /\ Entries'
  BY Zenon, <1>0, <1>1 DEF ConnState, Supervised, Live, Entries
<1>6. /\ \A u : Sending(u)' <=> Sending(u)
      /\ \A x : (Mine(x)' <=> Mine(x)) /\ (Active(x)' <=> Active(x))
      /\ Live' <=> Live
      /\ Usable(dialled)' <=> Usable(dialled)
  BY Zenon, <1>1 DEF Sending, Mine, Active, Live, Usable
<1> HIDE DEF v
<1>7. ASSUME NEW u \in Threads PROVE Run(u)'
  BY <1>1, <1>3, <1>6, ClientFacts DEF CInv, Run
<1>8. ASSUME NEW x \in Calls PROVE Call(x)'
  BY Zenon, <1>1, <1>2, <1>3, <1>6 DEF CInv, Call, Called
<1>9. ASSUME NEW x \in Calls PROVE Asked(x)'
  <2>1. Asked(x)
    BY DEF CInv
  <2>2. \A u \in Threads : cur'[u] = x => cur[u] = x
    BY Zenon, <1>3, ClientFacts
  <2>3. CASE x # v
    BY Zenon, <1>1, <1>3, <1>6, <2>1, <2>2, <2>3 DEF Asked
  <2>4. CASE x = v /\ on[t] # conn
    <3>1. x \in late'
      BY Zenon, <1>1, <2>4
    <3> QED
      BY Zenon, <1>1, <1>6, <2>1, <2>2, <3>1 DEF Asked
  <2>5. CASE x = v /\ on[t] = conn
    <3>1. Live /\ on[t] = dialled
      BY Zenon, <1>0, <1>2, <2>5 DEF ConnState
    <3>2. Usable(dialled) => x \in asked
      BY Zenon, <2>1, <2>5, <3>1 DEF Asked, v
    <3> QED
      BY Zenon, <1>1, <1>6, <3>1, <3>2 DEF Asked
  <2> QED
    BY Zenon, <2>3, <2>4, <2>5
<1>10. ASSUME NEW x \in Calls PROVE Covered(x)'
  <2>1. CASE x = v
    BY Zenon, <1>3, <2>1 DEF Covered
  <2>2. CASE x # v
    <3>1. \A u \in Threads : Will(u, x) => Will(u, x)'
      BY Zenon, <1>1, <1>3, <1>6, <2>2, ClientFacts DEF Will, v
    <3> QED
      BY Zenon, <1>1, <1>3, <1>6, <2>2, <3>1, ClientFacts DEF CInv, Covered
  <2> QED
    BY Zenon, <2>1, <2>2
<1> QED
  BY Zenon, <1>4, <1>5, <1>7, <1>8, <1>9, <1>10 DEF CInv

\* A write fails and its run is over.
LEMMA SendFailsStep ==
  ASSUME CInv, NEW t \in Threads, SendFails(t)
  PROVE  CInv'
<1>0. TypeOK /\ ConnState /\ Supervised /\ Entries
  BY DEF CInv
<1>1. /\ UNCHANGED <<sup, dialled, conn, dead, shut, waiters, sent, asked, published, paired, pc, on, cur, late, cancelled, closing>>
      /\ todo' = [todo EXCEPT ![t] = {}] /\ failed' = (failed \/ on[t] = dialled) /\ cur[t] = nil
  BY Zenon DEF SendFails, channels, supervisor
<1>2. \A u \in Threads : todo'[u] = IF u = t THEN {} ELSE todo[u]
  BY Zenon, <1>0, <1>1 DEF TypeOK
<1>3. TypeOK'
  BY Zenon, <1>0, <1>1 DEF TypeOK
<1>4. ConnState' /\ Supervised' /\ Entries'
  BY Zenon, <1>0, <1>1 DEF ConnState, Supervised, Live, Entries
<1>5. /\ \A u : Sending(u)' <=> Sending(u)
      /\ \A x : (Mine(x)' <=> Mine(x)) /\ (Call(x)' <=> Call(x))
      /\ Live' <=> Live
      /\ Usable(dialled)' <=> Usable(dialled)
  BY Zenon, <1>1 DEF Sending, Mine, Active, Call, Called, Live, Usable
<1>6. ASSUME NEW u \in Threads PROVE Run(u)'
  BY <1>1, <1>2, <1>5 DEF CInv, Run
<1>7. ASSUME NEW x \in Calls PROVE Asked(x)'
  BY Zenon, <1>1, <1>5 DEF CInv, Asked
<1>8. ASSUME NEW x \in Calls PROVE Covered(x)'
  <2>1. \A u \in Threads : Will(u, x) => Will(u, x)' \/ failed'
    BY Zenon, <1>1, <1>2, <1>5 DEF Will
  <2> QED
    BY Zenon, <1>1, <1>5, <2>1, ClientFacts DEF CInv, Covered
<1> QED
  BY Zenon, <1>3, <1>4, <1>5, <1>6, <1>7, <1>8 DEF CInv

\* A run that has sent all it listed ends, and Covered passes to its own call
\* or to the marks it left.
LEMMA ResendEndsStep ==
  ASSUME CInv, NEW t \in Threads, ResendEnds(t)
  PROVE  CInv'
<1>0. TypeOK /\ ConnState /\ Supervised /\ Entries
  BY DEF CInv
<1>1. /\ UNCHANGED <<dialled, conn, dead, shut, waiters, sent, asked, published, paired, todo, cur, late, failed, cancelled, closing>>
      /\ Sending(t) /\ Turns(t, "reading", "waiting") /\ todo[t] = {} /\ cur[t] = nil
      /\ on' = [on EXCEPT ![t] = nil]
  BY Zenon, GoesTurns DEF ResendEnds, channels
<1>2. \A u \in Threads : on'[u] = IF u = t THEN nil ELSE on[u]
  BY Zenon, <1>0, <1>1 DEF TypeOK
<1>3. /\ \A u \in Threads : Sending(u)' <=> (Sending(u) /\ u # t)
      /\ t # Supervisor => sup' = sup
      /\ t = Supervisor => sup = "resending" /\ sup' = "reading"
  BY Zenon, <1>1, ClientFacts DEF Sending, Turns
<1>4. /\ \A w \in Calls : (Mine(w)' <=> Mine(w)) /\ (Active(w)' <=> Active(w))
      /\ \A w \in Calls : (pc'[w] = "idle" <=> pc[w] = "idle")
      /\ \A w \in Calls : pc'[w] = "registered" <=> pc[w] = "registered"
      /\ Live' <=> Live
      /\ Usable(dialled)' <=> Usable(dialled)
  BY Zenon, <1>1, ClientFacts DEF Turns, Mine, Active, Sending, Live, Usable
<1>5. TypeOK'
  BY Zenon, <1>0, <1>1 DEF TypeOK, Turns
<1>6. ConnState'
  <2>1. sup' = sup \/ (sup = "resending" /\ sup' = "reading")
    BY Zenon, <1>3
  <2> QED
    BY Zenon, <1>0, <1>1, <1>4, <2>1 DEF ConnState
<1>7. Supervised' /\ Entries'
  BY Zenon, <1>0, <1>1, <1>2, <1>3, ClientFacts DEF Supervised, Entries
<1>8. ASSUME NEW u \in Threads PROVE Run(u)'
  <2>1. Run(u)
    BY DEF CInv
  <2>2. CASE u # t
    BY Zenon, <1>1, <1>2, <1>3, <1>4, <2>1, <2>2 DEF Run
  <2>3. CASE u = t
    BY Zenon, <1>1, <2>3, ClientFacts DEF Run
  <2> QED
    BY <2>2, <2>3
<1>9. ASSUME NEW w \in Calls PROVE Call(w)'
  BY Zenon, <1>1, <1>4 DEF CInv, Call, Called
<1>10. ASSUME NEW w \in Calls PROVE Asked(w)'
  <2>1. Asked(w)
    BY DEF CInv
  <2>2. \A u \in Threads : cur'[u] = w => cur[u] = w /\ on'[u] = on[u]
    BY Zenon, <1>1, <1>2, ClientFacts
  <2> QED
    BY Zenon, <1>1, <1>4, <2>1, <2>2 DEF Asked
<1>11. ASSUME NEW w \in Calls PROVE Covered(w)'
  <2>1. \A u \in Threads : Will(u, w) => Will(u, w)'
    BY Zenon, <1>1, <1>2, <1>3, ClientFacts DEF Will
  <2>2. sup' \in {"resending", "reading"} => sup \in {"resending", "reading"}
    BY Zenon, <1>3
  <2> QED
    BY Zenon, <1>1, <1>4, <2>1, <2>2, ClientFacts DEF CInv, Covered
<1> QED
  BY <1>5, <1>6, <1>7, <1>8, <1>9, <1>10, <1>11 DEF CInv

\* A step of call v that is no step of a run: no other call is registered by it,
\* and v is not left registered with its run still to come or under way.
Moves(v) ==
  /\ UNCHANGED <<sup, dialled, conn, dead, shut, sent, asked, todo, on, cur, late, failed, closing>>
  /\ pc[v] \notin {"registered", "sending"} /\ pc'[v] \notin {"idle", "sending"}
  /\ \A x \in Calls : x # v => pc'[x] = pc[x] /\ (Mine(x)' => Mine(x))
  /\ Mine(v)' => Mine(v) \/ (pc[v] = "idle" /\ pc'[v] = "registered")
  /\ Entries' /\ \A x \in Calls : Called(x)'

\* A step of one call that changes no run keeps the invariant.
LEMMA MovesStep ==
  ASSUME CInv, NEW v \in Calls, Moves(v), TypeOK'
  PROVE  CInv'
<1>0. TypeOK /\ ConnState /\ Supervised /\ Entries
  BY Zenon DEF CInv
<1>1. ConnState' /\ Supervised' /\ Entries'
  BY Zenon, <1>0 DEF Moves, ConnState, Supervised, Live
<1>2. \A u \in Threads : Sending(u)' <=> Sending(u)
  BY Zenon, ClientFacts DEF Moves, Sending
<1>3. (Live' <=> Live) /\ (Usable(dialled)' <=> Usable(dialled))
  BY Zenon DEF Moves, Live, Usable
<1>4. ASSUME NEW u \in Threads PROVE Run(u)'
  BY Zenon, <1>2 DEF CInv, Run, Moves
<1>5. ASSUME NEW x \in Calls PROVE Call(x)'
  <2>1. CASE x = v
    BY Zenon, <2>1 DEF CInv, Call, Moves
  <2>2. CASE x # v
    BY Zenon, <2>2 DEF CInv, Call, Moves
  <2> QED
    BY Zenon, <2>1, <2>2
<1>6. ASSUME NEW x \in Calls
      PROVE  Mine(x)' => Mine(x) \/ (~sent[x] /\ pc'[x] = "registered")
  BY Zenon DEF CInv, Call, Moves
<1>7. ASSUME NEW x \in Calls PROVE Asked(x)'
  BY Zenon, <1>3, <1>6 DEF CInv, Asked, Moves
<1>8. ASSUME NEW x \in Calls PROVE Covered(x)'
  <2>1. \A u \in Threads : Will(u, x) => Will(u, x)'
    BY Zenon, <1>2 DEF Will, Moves
  <2>2. pc[x] = "registered" => pc'[x] = "registered"
    BY Zenon DEF Moves
  <2>3. sup' = sup /\ sent' = sent /\ failed' = failed
    BY Zenon DEF Moves
  <2> QED
    BY Zenon, <1>3, <1>6, <2>1, <2>2, <2>3, ClientFacts DEF CInv, Covered
<1> QED
  BY Zenon, <1>1, <1>4, <1>5, <1>7, <1>8 DEF CInv

\* A code that is registered belongs to one call only.
LEMMA registerStep ==
  ASSUME CInv, NEW w \in Calls, register(w)
  PROVE  CInv'
<1>0. TypeOK /\ Entries /\ rid[w] \in Codes /\ w # nil /\ \A x \in Calls : Called(x) /\ rid[x] \in Codes /\ x # nil
  BY Zenon, ClientFacts DEF CInv, Call
<1>1. /\ UNCHANGED <<sup, dialled, conn, dead, shut, sent, asked, published, paired, todo, on, cur, late, failed, cancelled, closing>>
      /\ pc[w] = "idle" /\ waiters[rid[w]] = nil
      /\ waiters' = [waiters EXCEPT ![rid[w]] = w]
      /\ pc' = [pc EXCEPT ![w] = "registered"]
  BY Zenon DEF register, channels, supervisor, resending
<1>2. /\ \A x \in Calls : pc'[x] = IF x = w THEN "registered" ELSE pc[x]
      /\ \A r \in Codes : waiters'[r] = IF r = rid[w] THEN w ELSE waiters[r]
  BY Zenon, <1>0, <1>1 DEF TypeOK
<1>3. TypeOK'
  BY Zenon, <1>0, <1>1 DEF TypeOK
<1>4. Entries'
  BY Zenon, <1>0, <1>2 DEF Entries
<1>5. \A x \in Calls : x # w => (Mine(x)' <=> Mine(x))
  BY Zenon, <1>0, <1>1, <1>2 DEF Mine
<1>6. Mine(w)' /\ Active(w)' /\ \A x \in Calls : x # w => (Active(x)' <=> Active(x))
  BY Zenon, <1>0, <1>2 DEF Mine, Active
<1>7. \A x \in Calls : Called(x)'
  BY Zenon, <1>0, <1>1, <1>5, <1>6 DEF Called
<1>8. Moves(w)
  BY <1>1, <1>2, <1>4, <1>5, <1>7 DEF Moves
<1> QED
  BY Zenon, <1>3, <1>8, MovesStep

\* Publish goes on to wait for its peer.
LEMMA AcknowledgedStep ==
  ASSUME CInv, NEW w \in Calls, Acknowledged(w)
  PROVE  CInv'
<1>0. TypeOK /\ Entries /\ \A x \in Calls : Called(x)
  BY Zenon DEF CInv, Call
<1>1. /\ UNCHANGED <<sup, dialled, conn, dead, shut, waiters, sent, asked, paired, todo, on, cur, late, failed, cancelled, closing>>
      /\ pc[w] = "waiting"
      /\ published' = [published EXCEPT ![w] = nil]
      /\ pc' = [pc EXCEPT ![w] = "invited"]
  BY Zenon DEF Acknowledged, supervisor, resending
<1>2. \A x \in Calls : pc'[x] = IF x = w THEN "invited" ELSE pc[x]
  BY Zenon, <1>0, <1>1 DEF TypeOK
<1>3. TypeOK'
  BY Zenon, <1>0, <1>1 DEF TypeOK
<1>4. Entries' /\ \A x \in Calls : (Mine(x)' <=> Mine(x)) /\ (Active(x)' <=> Active(x))
  BY Zenon, <1>0, <1>1, <1>2 DEF Entries, Mine, Active
<1>5. \A x \in Calls : Called(x)'
  BY Zenon, <1>0, <1>1, <1>4 DEF Called
<1>6. Moves(w)
  BY <1>1, <1>2, <1>4, <1>5 DEF Moves
<1> QED
  BY Zenon, <1>3, <1>6, MovesStep

\* A call returns and removes what is registered for its code: its own entry,
\* unless an Invite of the code was cancelled.
LEMMA EndsStep ==
  ASSUME CInv, NEW w \in Calls, CallEnds(w) \/ WaitEnds(w)
  PROVE  CInv'
<1>0. TypeOK /\ Entries /\ rid[w] \in Codes /\ w # nil /\ \A x \in Calls : Called(x) /\ rid[x] \in Codes /\ x # nil
  BY Zenon, ClientFacts DEF CInv, Call
<1>1. /\ UNCHANGED <<sup, dialled, conn, dead, shut, sent, asked, todo, on, cur, late, failed, cancelled, closing>>
      /\ pc[w] \in {"waiting", "invited"}
      /\ waiters' = [waiters EXCEPT ![rid[w]] = nil]
      /\ published' = [published EXCEPT ![w] = nil]
      /\ paired' = [paired EXCEPT ![w] = nil]
      /\ \E p \in {"waited", "returned"} : pc' = [pc EXCEPT ![w] = p]
  BY Zenon DEF CallEnds, WaitEnds, unregister, supervisor, resending
<1>2. /\ \A x \in Calls : x # w => pc'[x] = pc[x]
      /\ pc'[w] \in {"waited", "returned"}
      /\ \A r \in Codes : waiters'[r] = IF r = rid[w] THEN nil ELSE waiters[r]
  BY Zenon, <1>0, <1>1 DEF TypeOK
<1>3. TypeOK'
  <2>1. pc' \in [Calls -> {"idle", "registered", "sending", "waiting", "invited", "waited", "returned"}]
    BY Zenon, <1>0, <1>1 DEF TypeOK
  <2>2. waiters' \in [Codes -> Calls \cup {nil}]
    BY Zenon, <1>0, <1>1 DEF TypeOK
  <2> QED
    BY Zenon, <1>0, <1>1, <2>1, <2>2 DEF TypeOK
<1>4. Entries'
  BY Zenon, <1>0, <1>2 DEF Entries
<1>5. ~Active(w)' /\ ~Mine(w)' /\ \A x \in Calls : x # w => (Active(x)' <=> Active(x))
  BY Zenon, <1>0, <1>2 DEF Active, Mine
<1>6. \A x \in Calls : (Mine(x)' => Mine(x)) /\ (Mine(x) => Mine(x)' \/ rid[x] = rid[w])
  BY Zenon, <1>0, <1>2 DEF Mine
<1>7. ASSUME NEW x \in Calls PROVE Called(x)'
  <2>1. CASE x = w
    BY Zenon, <1>5, <2>1 DEF Called
  <2>2. CASE x # w /\ rid[x] # rid[w]
    BY Zenon, <1>0, <1>1, <1>5, <1>6, <2>2 DEF Called
  <2>3. CASE x # w /\ rid[x] = rid[w]
    <3>1. Mine(w) \/ rid[w] \in cancelled
      BY Zenon, <1>0, <1>1 DEF Called, Active
    <3>2. Mine(x) => rid[w] \in cancelled
      BY Zenon, <2>3, <3>1 DEF Mine
    <3> QED
      BY Zenon, <1>0, <1>1, <1>5, <1>6, <2>3, <3>2 DEF Called
  <2> QED
    BY Zenon, <2>1, <2>2, <2>3
<1>8. Moves(w)
  BY Zenon, <1>1, <1>2, <1>4, <1>5, <1>6, <1>7 DEF Moves
<1> QED
  BY Zenon, <1>3, <1>8, MovesStep

\* Cancel removes what is registered for its code; the calls stay where they are.
LEMMA CancelStep ==
  ASSUME CInv, NEW w \in Calls, Cancel(w)
  PROVE  CInv'
<1>0. TypeOK /\ Entries /\ rid[w] \in Codes /\ \A x \in Calls : Called(x) /\ rid[x] \in Codes /\ x # nil
  BY Zenon, ClientFacts DEF CInv, Call
<1>1. /\ UNCHANGED <<sup, dialled, conn, dead, shut, sent, asked, published, paired, pc, todo, on, cur, late, failed, closing>>
      /\ pc[w] \in {"invited", "waited"}
      /\ waiters' = [waiters EXCEPT ![rid[w]] = nil]
      /\ cancelled' = cancelled \cup {rid[w]}
  BY Zenon DEF Cancel, supervisor, resending
<1>2. \A r \in Codes : waiters'[r] = IF r = rid[w] THEN nil ELSE waiters[r]
  BY Zenon, <1>0, <1>1 DEF TypeOK
<1>3. TypeOK'
  BY Zenon, <1>0, <1>1 DEF TypeOK
<1>4. Entries'
  BY Zenon, <1>0, <1>2 DEF Entries
<1>5. \A x \in Calls : (Mine(x)' => Mine(x)) /\ (Mine(x) => Mine(x)' \/ rid[x] = rid[w]) /\ (Active(x)' <=> Active(x))
  BY Zenon, <1>0, <1>1, <1>2 DEF Mine, Active
<1>6. \A x \in Calls : Called(x)'
  BY Zenon, <1>0, <1>1, <1>5 DEF Called
<1>7. Moves(w)
  BY Zenon, <1>1, <1>4, <1>5, <1>6 DEF Moves
<1> QED
  BY Zenon, <1>3, <1>7, MovesStep

\* An answer comes, a connection ends, Close is called.
LEMMA OutsideStep ==
  ASSUME CInv, (\E r \in Codes, answer \in Answers : dispatch(r, answer)) \/ ConnDies \/ Close \/ CloseConn
  PROVE  CInv'
<1>0. TypeOK /\ ConnState
  BY Zenon DEF CInv
<1>1. /\ Same /\ UNCHANGED sup /\ UNCHANGED pc
      /\ dead \subseteq dead' /\ shut \subseteq shut'
  BY Zenon DEF Same, dispatch, ConnDies, Close, CloseConn, supervisor, resending, channels
<1>2. /\ \A t \in Threads : Run(t)'
      /\ \A w \in Calls : Call(w)' /\ Asked(w)' /\ Covered(w)'
      /\ Supervised' /\ Entries'
  BY Zenon, <1>1, SameKeeps
<1>3. TypeOK' /\ ConnState'
  <2>1. CASE \E r \in Codes, answer \in Answers : dispatch(r, answer)
    <3> PICK r \in Codes, answer \in Answers : dispatch(r, answer)
      BY Zenon, <2>1
    <3>1. UNCHANGED <<sup, dialled, conn, dead, shut, waiters, sent, asked, pc, todo, on, cur, late, failed, cancelled, closing>>
      BY Zenon DEF dispatch, supervisor, resending
    <3>2. answer \in {"published", "paired", "error"} /\ waiters[r] \in Calls
      BY Zenon, <1>0, ClientAssumption DEF dispatch, TypeOK
    <3>3. published' \in [Calls -> {"published", "error", nil}]
      <4>1. published' = published \/ (answer \in {"published", "error"} /\ published' = [published EXCEPT ![waiters[r]] = answer])
        BY Zenon DEF dispatch
      <4> QED
        BY Zenon, <1>0, <3>2, <4>1 DEF TypeOK
    <3>4. paired' \in [Calls -> {"paired", "error", nil}]
      <4>1. paired' = paired \/ (answer \in {"paired", "error"} /\ paired' = [paired EXCEPT ![waiters[r]] = answer])
        BY Zenon DEF dispatch
      <4> QED
        BY Zenon, <1>0, <3>2, <4>1 DEF TypeOK
    <3> QED
      BY Zenon, <1>0, <3>1, <3>3, <3>4 DEF TypeOK, ConnState, Live
  <2>2. CASE ConnDies
    <3>1. /\ UNCHANGED <<sup, dialled, conn, shut, waiters, sent, asked, published, paired, pc, todo, on, cur, late, failed, cancelled, closing>>
          /\ dead' = dead \cup {dialled} /\ dialled > 0
      BY Zenon, <2>2 DEF ConnDies, supervisor, resending, channels
    <3>2. dead' \in SUBSET (1 .. dialled)
      <4>1. dialled \in 1 .. dialled
        BY <1>0, <3>1, ConnNumbers
      <4>2. dead \in SUBSET (1 .. dialled)
        BY Zenon, <1>0 DEF TypeOK
      <4> QED
        BY Zenon, <3>1, <4>1, <4>2
    <3> QED
      BY Zenon, <1>0, <3>1, <3>2 DEF TypeOK, ConnState, Live
  <2>3. CASE Close
    BY Zenon, <1>0, <2>3 DEF TypeOK, ConnState, Live, Close, supervisor, resending, channels
  <2>4. CASE CloseConn
    <3>1. /\ UNCHANGED <<sup, dialled, dead, waiters, sent, asked, published, paired, pc, todo, on, cur, late, failed, cancelled>>
          /\ shut' = IF conn = nil THEN shut ELSE shut \cup {conn}
          /\ conn' = nil /\ closing' = "returned"
      BY Zenon, <2>4 DEF CloseConn, supervisor, resending, channels
    <3>2. shut' \in SUBSET (1 .. dialled)
      <4>1. shut \in SUBSET (1 .. dialled) /\ (conn # nil => conn \in 1 .. dialled)
        BY Zenon, <1>0, ConnNumbers DEF TypeOK
      <4> QED
        BY Zenon, <3>1, <4>1
    <3>3. TypeOK'
      BY Zenon, <1>0, <3>1, <3>2 DEF TypeOK
    <3>4. ConnState'
      BY Zenon, <1>0, <3>1 DEF ConnState, Live
    <3> QED
      BY Zenon, <3>3, <3>4
  <2> QED
    BY Zenon, <2>1, <2>2, <2>3, <2>4
<1> QED
  BY Zenon, <1>2, <1>3 DEF CInv

\* The inductive invariant of the client holds in every state.
LEMMA ClientInvariance == Spec => []CInv
<1>1. Init => CInv
  <2> SUFFICES ASSUME Init PROVE CInv
    BY Zenon
  <2>1. TypeOK
    <3>1. /\ dialled \in 0 .. MaxConns /\ dead \in SUBSET (1 .. dialled) /\ shut \in SUBSET (1 .. dialled)
      BY ClientFacts DEF Init
    <3> QED
      BY Zenon, <3>1, ClientFacts DEF Init, TypeOK
  <2>2. ConnState /\ Supervised /\ Entries
    BY DEF Init, ConnState, Supervised, Live, Entries
  <2>3. ASSUME NEW t \in Threads PROVE Run(t)
    BY Zenon, ClientFacts DEF Init, Run
  <2>4. ASSUME NEW w \in Calls PROVE Call(w) /\ Asked(w) /\ Covered(w)
    BY Zenon, ClientFacts DEF Init, Call, Called, Active, Mine, Asked, Live, Covered
  <2> QED
    BY Zenon, <2>1, <2>2, <2>3, <2>4 DEF CInv
<1>2. CInv /\ [Next]_vars => CInv'
  <2> SUFFICES ASSUME CInv, [Next]_vars PROVE CInv'
    BY Zenon
  <2>1. CASE UNCHANGED vars
    <3>1. TypeOK' /\ ConnState'
      BY Zenon, <2>1 DEF CInv, TypeOK, ConnState, Live, vars
    <3>2. Same /\ UNCHANGED sup /\ UNCHANGED pc /\ dead \subseteq dead' /\ shut \subseteq shut'
      BY Zenon, <2>1 DEF Same, vars
    <3> QED
      BY Zenon, <3>1, <3>2, SameKeeps DEF CInv
  <2>2. CASE Next
    BY Zenon, <2>2, IdleStep, DialStep, ReadFailsStep, ResetStep, ListUnsentStep, SendsOneStep, MarksSentStep,
       SendFailsStep, ResendEndsStep, registerStep, AcknowledgedStep, EndsStep, CancelStep, OutsideStep
       DEF Next, supervise, resendWaiters
  <2> QED
    BY Zenon, <2>1, <2>2
<1> QED
  BY <1>1, <1>2, PTL DEF Spec

\* The client's fields keep their types.
THEOREM ClientTypeCorrect == Spec => []TypeOK
<1>1. CInv => TypeOK
  BY Zenon DEF CInv
<1> QED
  BY <1>1, ClientInvariance, PTL

\* Every call that waits while the connection is up and read was asked for over
\* that connection, or a write failed there and it is still to be sent, or it was
\* marked late: for any number of calls, codes and connections, and whoever ran
\* resendWaiters.
THEOREM AskedOnThisConnection == Spec => []OutstandingIsAsked
<1>1. ASSUME CInv
      PROVE  OutstandingIsAsked
  <2> SUFFICES ASSUME NEW w \in Calls, Outstanding(w), w \notin late
               PROVE  w \in asked \/ (failed /\ ~sent[w])
    BY Zenon DEF OutstandingIsAsked
  <2>1. sup = "reading" /\ Usable(dialled) /\ Mine(w) /\ pc[w] \in {"waiting", "invited"}
    BY Zenon DEF Outstanding, Mine
  <2>2. ~Will(w, w) /\ ~Will(Supervisor, w)
    BY Zenon, <2>1, ClientFacts DEF Will, Sending
  <2>3. sent[w] \/ failed
    BY Zenon, <1>1, <2>1, <2>2 DEF CInv, Covered
  <2> QED
    BY Zenon, <1>1, <2>1, <2>3 DEF CInv, Asked, Live
<1> QED
  BY <1>1, ClientInvariance, PTL

\* The entries of waiters are those of the calls that are under way, whatever
\* calls of one code come, go and are cancelled.
THEOREM CodesAreOfCallsUnderWay == Spec => []CodesLeadToCalls
<1>1. ASSUME CInv
      PROVE  CodesLeadToCalls
  <2>1. Entries /\ waiters \in [Codes -> Calls \cup {nil}] /\ \A w \in Calls : Called(w)
    BY Zenon, <1>1 DEF CInv, Call, TypeOK
  <2> QED
    BY Zenon, <2>1 DEF Entries, Called, Mine, CodesLeadToCalls
<1> QED
  BY <1>1, ClientInvariance, PTL
=============================================================================
