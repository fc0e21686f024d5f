------------------------------ MODULE LinkProofs ------------------------------
(***************************************************************************)
(* A connection whose path works, and whose queues have room for pings and *)
(* pongs, is never dropped, and one whose path went dark ends in bounded   *)
(* time, for all timeouts, intervals and delays that leave the slack of    *)
(* LinkAssumption.  Both rest on where the pings and pongs of the last     *)
(* interval are: heard, or on their way with a known age.                  *)
(***************************************************************************)
EXTENDS Link, TLAPS

\* Frames, and those that are on their way in a queue.
Frames == [typ : {"ping", "pong", "chat", "fin"}, age : Nat]

InFlight(q) == {q[i] : i \in DOMAIN q}

\* What the variables hold.
Types ==
  /\ up \in SUBSET Ends
  /\ idle \in [Ends -> Nat]
  /\ ticker \in [Ends -> 0 .. keepaliveInterval]
  /\ unanswered \in [Ends -> Nat]
  /\ pipe \in [Ends -> Seq(Frames)]
  /\ dark \in SUBSET Ends

\* The last frame that e heard of came no longer ago than its peer's ticker
\* allows, or the ping of that ticker is on its way.
Heard(e) ==
  \/ idle[e] + ticker[Peer(e)] <= keepaliveInterval + MaxSkew
  \/ \E f \in InFlight(pipe[Peer(e)]) :
        /\ f.typ = "ping"
        /\ f.age = keepaliveInterval - ticker[Peer(e)]
        /\ idle[e] <= keepaliveInterval + MaxSkew + f.age

\* At most one ping of e is open, and it or its answer is on its way: the ping
\* since the ticker fired, the pong no longer than MaxDelay less.
Awaited(e) ==
  \/ unanswered[e] = 0
  \/ /\ unanswered[e] = 1
     /\ \/ \E f \in InFlight(pipe[e]) :
              f.typ = "ping" /\ f.age = keepaliveInterval - ticker[e]
        \/ \E f \in InFlight(pipe[Peer(e)]) :
              f.typ = "pong" /\ keepaliveInterval - ticker[e] <= MaxDelay + f.age

\* The end e hears its peer, is answered, and nothing it sent is held up.
Working(e) ==
  /\ Heard(e)
  /\ Awaited(e)
  /\ \A f \in InFlight(pipe[e]) : f.typ # "fin" /\ f.age <= MaxDelay

\* While no direction is dark and no queue was full both ends are up and work.
Healthy == dark = {} /\ crowded = {} => up = Ends /\ \A e \in Ends : Working(e)

\* The inductive invariant of a path that works.
IInv == Types /\ Healthy

-----------------------------------------------------------------------------
(* What the operations on a sequence do to the frames in it. *)

\* Sending adds a frame to those on their way.
LEMMA AppendFlight ==
  ASSUME NEW q \in Seq(Frames), NEW x \in Frames
  PROVE  /\ Append(q, x) \in Seq(Frames)
         /\ InFlight(Append(q, x)) = InFlight(q) \cup {x}
<1>1. Append(q, x) \in Seq(Frames) /\ Len(Append(q, x)) = Len(q) + 1
  OBVIOUS
<1>2. \A i \in 1 .. Len(q) : Append(q, x)[i] = q[i]
  OBVIOUS
<1>3. Append(q, x)[Len(q) + 1] = x
  OBVIOUS
<1>4. DOMAIN q = 1 .. Len(q) /\ DOMAIN Append(q, x) = 1 .. Len(q) + 1 /\ Len(q) \in Nat
  BY <1>1
<1>5. ASSUME NEW f \in InFlight(Append(q, x))
      PROVE  f \in InFlight(q) \cup {x}
  BY <1>2, <1>3, <1>4 DEF InFlight
<1>6. ASSUME NEW f \in InFlight(q) \cup {x}
      PROVE  f \in InFlight(Append(q, x))
  <2>1. CASE f = x
    BY <2>1, <1>3, <1>4 DEF InFlight
  <2>2. CASE f \in InFlight(q)
    BY <2>2, <1>2, <1>4 DEF InFlight
  <2> QED
    BY Zenon, <2>1, <2>2
<1> QED
  BY Zenon, <1>1, <1>5, <1>6

\* Reading takes the head away and leaves every other frame.
LEMMA TailFlight ==
  ASSUME NEW q \in Seq(Frames), q # <<>>
  PROVE  /\ Head(q) \in InFlight(q)
         /\ Tail(q) \in Seq(Frames)
         /\ InFlight(Tail(q)) \subseteq InFlight(q)
         /\ InFlight(q) \subseteq InFlight(Tail(q)) \cup {Head(q)}
<1>1. Tail(q) \in Seq(Frames) /\ Len(Tail(q)) = Len(q) - 1 /\ Len(q) \in Nat \ {0}
  OBVIOUS
<1>2. DOMAIN q = 1 .. Len(q) /\ DOMAIN Tail(q) = 1 .. Len(q) - 1
  BY <1>1
<1>3. Head(q) = q[1]
  OBVIOUS
<1>4. \A i \in 1 .. Len(q) - 1 : Tail(q)[i] = q[i + 1]
  OBVIOUS
<1>5. ASSUME NEW f \in InFlight(Tail(q))
      PROVE  f \in InFlight(q)
  <2>1. PICK i \in 1 .. Len(q) - 1 : f = Tail(q)[i]
    BY Zenon, <1>2 DEF InFlight
  <2>2. f = q[i + 1] /\ i + 1 \in DOMAIN q
    BY <2>1, <1>1, <1>2, <1>4
  <2> QED
    BY Zenon, <2>2 DEF InFlight
<1>6. ASSUME NEW f \in InFlight(q), f # Head(q)
      PROVE  f \in InFlight(Tail(q))
  <2>1. PICK i \in 1 .. Len(q) : f = q[i]
    BY Zenon, <1>2 DEF InFlight
  <2>2. i # 1
    BY Zenon, <2>1, <1>3, <1>6
  <2>3. i - 1 \in 1 .. Len(q) - 1 /\ (i - 1) + 1 = i
    BY <2>2, <1>1
  <2>4. i - 1 \in DOMAIN Tail(q) /\ Tail(q)[i - 1] = q[i]
    BY Zenon, <2>3, <1>2, <1>4
  <2> QED
    BY Zenon, <2>1, <2>4 DEF InFlight
<1>7. Head(q) \in InFlight(q)
  BY <1>1, <1>2, <1>3 DEF InFlight
<1> QED
  BY Zenon, <1>1, <1>5, <1>6, <1>7

\* Time makes every frame older by one.
LEMMA AgedFlight ==
  ASSUME NEW q \in Seq(Frames)
  PROVE  /\ Aged(q) \in Seq(Frames)
         /\ \A f \in InFlight(q) : [typ |-> f.typ, age |-> f.age + 1] \in InFlight(Aged(q))
         /\ \A g \in InFlight(Aged(q)) :
               \E f \in InFlight(q) : g.typ = f.typ /\ g.age = f.age + 1
<1>1. DOMAIN q = 1 .. Len(q) /\ Len(q) \in Nat /\ \A i \in DOMAIN q : q[i] \in Frames
  OBVIOUS
<1>2. DOMAIN Aged(q) = 1 .. Len(q)
  BY Zenon, <1>1 DEF Aged
<1>3. \A i \in DOMAIN q : Aged(q)[i] = [typ |-> q[i].typ, age |-> q[i].age + 1]
  BY Zenon, <1>1 DEF Aged
<1>4. \A r \in Frames : [typ |-> r.typ, age |-> r.age + 1] \in Frames
  BY DEF Frames
<1>5. Aged(q) \in Seq(Frames)
  BY <1>1, <1>2, <1>3, <1>4 DEF Aged
<1> QED
  BY <1>1, <1>2, <1>3, <1>5 DEF InFlight

-----------------------------------------------------------------------------
(* The ends and the constants. *)

\* There are two ends, each the other's peer.
LEMMA PeerFacts ==
  ASSUME NEW e \in Ends
  PROVE  Peer(e) \in Ends /\ Peer(e) # e /\ Peer(Peer(e)) = e /\ Ends = {e, Peer(e)}
BY LinkAssumption DEF Ends, Peer

\* The timeouts as numbers, with the slack between them.
LEMMA ConstantFacts ==
  /\ IOTimeout \in Nat /\ keepaliveInterval \in Nat /\ keepaliveMisses \in Nat \ {0}
  /\ MaxDelay \in Nat /\ MaxSkew \in Nat
  /\ keepaliveInterval + MaxDelay + MaxSkew < IOTimeout
  /\ 2 * MaxDelay < keepaliveInterval
  /\ MaxSkew <= keepaliveInterval
BY Zenon, LinkAssumption

\* The read deadline is over before the count of pings is.
LEMMA CountSlack ==
  keepaliveMisses >= 2 /\ IOTimeout < ((keepaliveMisses - 2) + 1) * keepaliveInterval
BY LinkAssumption

\* No frames are a queue of frames.
LEMMA EmptyQueue == <<>> \in Seq(Frames) /\ InFlight(<<>>) = {}
BY DEF InFlight

\* What sends a frame keeps the types.
LEMMA SentType ==
  ASSUME Types, NEW e \in Ends, NEW typ \in {"ping", "pong", "chat", "fin"}
  PROVE  Sent(e, typ) \in Seq(Frames)
BY Zenon, AppendFlight DEF Types, Sent, Frames

-----------------------------------------------------------------------------
(* Types. *)

\* A connection that was just registered has timers and frames of the right type.
LEMMA TypesInit == Init => Types
<1> SUFFICES ASSUME Init
             PROVE  Types
  BY Zenon
<1>1. PICK lead \in 0 .. MaxSkew :
        /\ idle = [e \in Ends |-> IF e = A THEN lead ELSE 0]
        /\ ticker = [e \in Ends |-> keepaliveInterval - IF e = A THEN lead ELSE 0]
  BY Zenon DEF Init
<1>2. lead \in Nat /\ lead <= keepaliveInterval
  BY ConstantFacts
<1>3. idle \in [Ends -> Nat] /\ ticker \in [Ends -> 0 .. keepaliveInterval]
  BY <1>1, <1>2, ConstantFacts
<1>4. <<>> \in Seq(Frames)
  OBVIOUS
<1> QED
  BY Zenon, <1>3, <1>4 DEF Init, Types

\* Every step of keepalive, reading and time keeps those types.
LEMMA TypesStep == Types /\ [Next]_vars => Types'
<1> SUFFICES ASSUME Types, [Next]_vars
             PROVE  Types'
  BY Zenon
<1> USE ConstantFacts
<1>1. ASSUME NEW e \in Ends, Tick(e)
      PROVE  Types'
  <2>1. Sent(e, "ping") \in Seq(Frames) /\ Sent(e, "fin") \in Seq(Frames)
    BY Zenon, SentType
  <2>2. pipe' \in [Ends -> Seq(Frames)] /\ up' \in SUBSET Ends
    BY Zenon, <1>1, <2>1, EmptyQueue DEF Tick, Types, Dropped
  <2>3. ticker' \in [Ends -> 0 .. keepaliveInterval] /\ unanswered' \in [Ends -> Nat]
    BY <1>1 DEF Tick, Types
  <2> QED
    BY Zenon, <1>1, <2>2, <2>3 DEF Tick, Types
<1>2. ASSUME NEW e \in Ends, Chat(e)
      PROVE  Types'
  BY Zenon, <1>2, SentType DEF Chat, Types
<1>3. ASSUME NEW e \in Ends, ReadFrame(e)
      PROVE  Types'
  <2>1. Peer(e) \in Ends /\ pipe[Peer(e)] \in Seq(Frames) /\ pipe[Peer(e)] # <<>>
    BY Zenon, <1>3, PeerFacts DEF ReadFrame, Types
  <2>2. Tail(pipe[Peer(e)]) \in Seq(Frames)
    BY Zenon, <2>1, TailFlight
  <2>3. Sent(e, "pong") \in Seq(Frames) /\ Sent(e, "fin") \in Seq(Frames)
    BY Zenon, SentType
  <2>4. pipe' \in [Ends -> Seq(Frames)]
    BY Zenon, <1>3, <2>1, <2>2, <2>3, EmptyQueue DEF ReadFrame, Types, Dropped
  <2>5. idle' \in [Ends -> Nat]
    BY SMTT(30), <1>3 DEF ReadFrame, Types, Recv
  <2>6. unanswered' \in [Ends -> Nat]
    <3>1. unanswered' = unanswered \/ unanswered' = [unanswered EXCEPT ![e] = 0]
      BY ZenonT(30), <1>3 DEF ReadFrame
    <3>2. unanswered \in [Ends -> Nat] /\ 0 \in Nat
      BY Zenon DEF Types
    <3>3. CASE unanswered' = unanswered
      BY Zenon, <3>2, <3>3
    <3>4. CASE unanswered' = [unanswered EXCEPT ![e] = 0]
      BY Zenon, <3>2, <3>4
    <3> QED
      BY Zenon, <3>1, <3>3, <3>4
  <2>7. up' \in SUBSET Ends
    BY Zenon, <1>3 DEF ReadFrame, Types, Dropped
  <2> QED
    BY Zenon, <1>3, <2>4, <2>5, <2>6, <2>7 DEF ReadFrame, Types
<1>4. ASSUME NEW e \in Ends, ReadTimesOut(e) \/ WriteFails(e)
      PROVE  Types'
  <2>1. Sent(e, "fin") \in Seq(Frames)
    BY Zenon, SentType
  <2> QED
    BY Zenon, <1>4, <2>1, EmptyQueue DEF ReadTimesOut, WriteFails, Types, Dropped
<1>6. ASSUME NEW lost \in SUBSET Ends, GoDark(lost)
      PROVE  Types'
  BY <1>6 DEF GoDark, Types
<1>7. ASSUME Pass
      PROVE  Types'
  <2>1. \A e \in Ends : Aged(pipe[e]) \in Seq(Frames)
    BY Zenon, AgedFlight DEF Types
  <2>2. pipe' = [e \in Ends |-> Aged(pipe[e])]
    BY Zenon, <1>7 DEF Pass
  <2>3. pipe' \in [Ends -> Seq(Frames)]
    BY Zenon, <2>1, <2>2
  <2>4. ticker' \in [Ends -> 0 .. keepaliveInterval]
    BY SMTT(30), <1>7 DEF Pass, Types
  <2>5. idle' \in [Ends -> Nat]
    BY <1>7 DEF Pass, Types
  <2> QED
    BY Zenon, <1>7, <2>3, <2>4, <2>5 DEF Pass, Types
<1>8. CASE UNCHANGED vars
  BY Zenon, <1>8 DEF vars, Types
<1> QED
  BY Zenon, <1>1, <1>2, <1>3, <1>4, <1>6, <1>7, <1>8 DEF Next

-----------------------------------------------------------------------------
(* A path that works. *)

\* Registration within MaxSkew of each other leaves both ends healthy.
LEMMA HealthyInit == Init => Healthy
<1> SUFFICES ASSUME Init
             PROVE  up = Ends /\ \A e \in Ends : Working(e)
  BY Zenon DEF Healthy
<1>0. up = Ends
  BY Zenon DEF Init
<1> SUFFICES ASSUME NEW e \in Ends
             PROVE  Working(e)
  BY Zenon, <1>0
<1>1. PICK lead \in 0 .. MaxSkew :
        /\ idle = [d \in Ends |-> IF d = A THEN lead ELSE 0]
        /\ ticker = [d \in Ends |-> keepaliveInterval - IF d = A THEN lead ELSE 0]
  BY Zenon DEF Init
<1>2. idle[e] + ticker[Peer(e)] <= keepaliveInterval + MaxSkew
  BY <1>1, ConstantFacts, PeerFacts
<1>3. unanswered[e] = 0 /\ InFlight(pipe[e]) = {}
  BY DEF Init, InFlight
<1> QED
  BY Zenon, <1>2, <1>3 DEF Working, Heard, Awaited

\* The step of the invariant: as long as no direction goes dark, no action drops
\* the connection or leaves a ping unaccounted for.
LEMMA HealthyStep == IInv /\ [Next]_vars => Healthy'
<1> SUFFICES ASSUME IInv, [Next]_vars, dark' = {}, crowded' = {}
             PROVE  up' = Ends /\ \A d \in Ends : Working(d)'
  BY Zenon DEF Healthy
<1>1. Types /\ Types'
  BY Zenon, TypesStep DEF IInv
<1>2. dark = {} /\ crowded = {}
  <2>1. dark = {}
    BY Zenon DEF Next, vars, Tick, Chat, ReadFrame, ReadTimesOut, WriteFails, GoDark, Pass
  <2>2. crowded \subseteq crowded'
    BY Zenon DEF Next, vars, Tick, Chat, ReadFrame, ReadTimesOut, WriteFails, GoDark, Pass, Full
  <2> QED
    BY Zenon, <2>1, <2>2
<1>3. up = Ends /\ \A d \in Ends : Working(d)
  BY Zenon, <1>2 DEF IInv, Healthy
<1>4. \A e \in Ends, typ \in {"ping", "pong", "chat", "fin"} :
        /\ Sent(e, typ) = Append(pipe[e], [typ |-> typ, age |-> 0])
        /\ InFlight(Sent(e, typ)) = InFlight(pipe[e]) \cup {[typ |-> typ, age |-> 0]}
  <2> SUFFICES ASSUME NEW e \in Ends, NEW typ \in {"ping", "pong", "chat", "fin"}
               PROVE  /\ Sent(e, typ) = Append(pipe[e], [typ |-> typ, age |-> 0])
                      /\ InFlight(Sent(e, typ)) = InFlight(pipe[e]) \cup {[typ |-> typ, age |-> 0]}
    BY Zenon
  <2>1. Sent(e, typ) = Append(pipe[e], [typ |-> typ, age |-> 0])
    BY Zenon, <1>2, <1>3, PeerFacts DEF Sent
  <2> QED
    BY Zenon, <1>1, <2>1, AppendFlight DEF Types, Frames
<1>5. \A e \in Ends : \A f \in InFlight(pipe[e]) : f.age \in Nat
  <2>1. \A e \in Ends : pipe[e] \in Seq(Frames)
    BY Zenon, <1>1 DEF Types
  <2>2. \A e \in Ends : \A i \in DOMAIN pipe[e] : pipe[e][i] \in Frames
    BY <2>1
  <2>3. \A f \in Frames : f.age \in Nat
    BY Zenon DEF Frames
  <2> QED
    BY Zenon, <2>2, <2>3 DEF InFlight
<1>6. ASSUME NEW e \in Ends, Tick(e)
      PROVE  up' = Ends /\ \A d \in Ends : Working(d)'
  <2> DEFINE p == Peer(e)
             ping == [typ |-> "ping", age |-> 0]
  <2>1. p \in Ends /\ p # e /\ Peer(p) = e /\ Ends = {e, p}
    BY Zenon, PeerFacts
  <2>2. ticker[e] = 0 /\ ticker' = [ticker EXCEPT ![e] = keepaliveInterval]
    BY Zenon, <1>6 DEF Tick
  <2>3. unanswered[e] = 0
    BY <1>3, <1>5, <2>1, <2>2, ConstantFacts DEF Working, Awaited
  <2>4. /\ unanswered' = [unanswered EXCEPT ![e] = 1]
        /\ pipe' = [pipe EXCEPT ![e] = Sent(e, "ping")]
        /\ up' = up /\ idle' = idle
    <3>1. unanswered' = [unanswered EXCEPT ![e] = 1] /\ unanswered'[e] = 1
      BY <1>1, <1>6, <2>3 DEF Tick, Types
    <3>2. ~ (unanswered'[e] > keepaliveMisses)
      BY <3>1, ConstantFacts
    <3>3. ~ Full(e)
      BY Zenon DEF Full
    <3> QED
      BY Zenon, <1>6, <3>1, <3>2, <3>3 DEF Tick
  <2>5. InFlight(pipe'[e]) = InFlight(pipe[e]) \cup {ping} /\ pipe'[p] = pipe[p]
    BY Zenon, <1>1, <1>4, <2>1, <2>4 DEF Types
  <2>6. ticker'[e] = keepaliveInterval /\ ticker'[p] = ticker[p]
    BY Zenon, <1>1, <2>1, <2>2 DEF Types
  <2>7. unanswered'[e] = 1 /\ unanswered'[p] = unanswered[p]
    BY Zenon, <1>1, <2>1, <2>4 DEF Types
  <2>8. Heard(e)' /\ Awaited(e)'
    <3>1. Heard(e)'
      BY Zenon, <1>3, <2>4, <2>5, <2>6 DEF Working, Heard
    <3>2. /\ ping \in InFlight(pipe'[e]) /\ ping.typ = "ping"
          /\ ping.age = keepaliveInterval - ticker'[e]
      BY <2>5, <2>6, ConstantFacts
    <3> HIDE DEF ping
    <3>3. Awaited(e)'
      BY Zenon, <2>7, <3>2 DEF Awaited
    <3> QED
      BY Zenon, <3>1, <3>3
  <2>9. idle[p] <= keepaliveInterval + MaxSkew
    BY SMTT(30), <1>3, <1>5, <2>1, <2>2, <1>1, ConstantFacts DEF Working, Heard, Types
  <2>10. Heard(p)' /\ Awaited(p)'
    <3>1. /\ ping \in InFlight(pipe'[Peer(p)]) /\ ping.typ = "ping"
          /\ ping.age = keepaliveInterval - ticker'[Peer(p)]
          /\ idle'[p] <= keepaliveInterval + MaxSkew + ping.age
      BY <1>1, <2>1, <2>4, <2>5, <2>6, <2>9, ConstantFacts DEF Types
    <3> HIDE DEF ping
    <3>2. Heard(p)'
      BY Zenon, <3>1 DEF Heard
    <3>3. Awaited(p)'
      BY Zenon, <1>3, <2>1, <2>5, <2>6, <2>7 DEF Working, Awaited
    <3> QED
      BY Zenon, <3>2, <3>3
  <2>11. \A d \in Ends : \A f \in InFlight(pipe'[d]) : f.typ # "fin" /\ f.age <= MaxDelay
    BY <1>3, <2>1, <2>5, ConstantFacts DEF Working
  <2> QED
    BY Zenon, <1>3, <2>1, <2>4, <2>8, <2>10, <2>11 DEF Working
<1>7. ASSUME NEW e \in Ends, Chat(e)
      PROVE  up' = Ends /\ \A d \in Ends : Working(d)'
  <2>1. pipe' = [pipe EXCEPT ![e] = Sent(e, "chat")]
    BY Zenon, <1>7 DEF Chat
  <2>2. \A d \in Ends : InFlight(pipe[d]) \subseteq InFlight(pipe'[d])
    BY Zenon, <1>1, <1>4, <2>1 DEF Types
  <2>3. \A d \in Ends : \A f \in InFlight(pipe'[d]) : f.typ # "fin" /\ f.age <= MaxDelay
    <3>1. \A d \in Ends : InFlight(pipe'[d]) \subseteq InFlight(pipe[d]) \cup {[typ |-> "chat", age |-> 0]}
      BY Zenon, <1>1, <1>4, <2>1 DEF Types
    <3> QED
      BY <1>3, <3>1, ConstantFacts DEF Working
  <2>4. \A d \in Ends : Heard(d)' /\ Awaited(d)'
    BY Zenon, <1>3, <1>7, <2>2, PeerFacts DEF Working, Heard, Awaited, Chat
  <2> QED
    BY Zenon, <1>3, <1>7, <2>3, <2>4 DEF Working, Chat
<1>8. ASSUME NEW e \in Ends, ReadFrame(e)
      PROVE  up' = Ends /\ \A d \in Ends : Working(d)'
  <2> DEFINE p == Peer(e)
             h == Head(pipe[p])
             pong == [typ |-> "pong", age |-> 0]
  <2>1. p \in Ends /\ p # e /\ Peer(p) = e /\ Ends = {e, p}
    BY PeerFacts
  <2>2. /\ h \in InFlight(pipe[p])
        /\ InFlight(Tail(pipe[p])) \subseteq InFlight(pipe[p])
        /\ InFlight(pipe[p]) \subseteq InFlight(Tail(pipe[p])) \cup {h}
    BY Zenon, <1>1, <1>8, <2>1, TailFlight DEF ReadFrame, Types
  <2>3. h.typ # "fin" /\ h.age <= MaxDelay
    BY Zenon, <1>3, <2>1, <2>2 DEF Working
  <2>35. ~ Full(e)
    BY Zenon DEF Full
  <2>4. /\ up' = up /\ ticker' = ticker
        /\ idle' = [idle EXCEPT ![e] = 0]
        /\ pipe'[p] = Tail(pipe[p])
    BY Zenon, <1>1, <1>8, <2>1, <2>3 DEF ReadFrame, Recv, Types
  <2>5. unanswered' = IF h.typ = "pong" THEN [unanswered EXCEPT ![e] = 0] ELSE unanswered
    BY Zenon, <1>8, <2>3, <2>35 DEF ReadFrame
  <2>6. InFlight(pipe'[e]) = InFlight(pipe[e]) \cup IF h.typ = "ping" THEN {pong} ELSE {}
    <3>1. pipe'[e] = IF h.typ = "ping" THEN Sent(e, "pong") ELSE pipe[e]
      BY Zenon, <1>1, <1>8, <2>1, <2>3, <2>35 DEF ReadFrame, Types
    <3> QED
      BY Zenon, <3>1, <1>4
  <2>7. idle'[e] = 0 /\ idle'[p] = idle[p] /\ ticker[p] \in 0 .. keepaliveInterval
    BY Zenon, <1>1, <2>1, <2>4 DEF Types
  <2>8. Heard(e)'
    BY <2>4, <2>7, ConstantFacts DEF Heard
  <2>9. Heard(p)'
    BY Zenon, <1>3, <2>1, <2>4, <2>6, <2>7 DEF Heard, Working
  <2>10. Awaited(e)'
    <3>1. CASE h.typ = "pong"
      BY Zenon, <1>1, <2>5, <3>1 DEF Awaited, Types
    <3>2. CASE h.typ # "pong"
      <4>1. \A f \in InFlight(pipe[p]) : f.typ = "pong" => f \in InFlight(pipe'[p])
        BY Zenon, <2>2, <2>4, <3>2
      <4> QED
        BY Zenon, <1>3, <2>4, <2>5, <2>6, <3>2, <4>1 DEF Awaited, Working
    <3> QED
      BY Zenon, <3>1, <3>2
  <2>11. Awaited(p)'
    <3>1. unanswered'[p] = unanswered[p]
      BY Zenon, <1>1, <2>1, <2>5 DEF Types
    <3>2. CASE unanswered[p] = 0
      BY Zenon, <3>1, <3>2 DEF Awaited
    <3>3. ASSUME unanswered[p] = 1,
                 NEW f \in InFlight(pipe[p]),
                 f.typ = "ping", f.age = keepaliveInterval - ticker[p]
          PROVE  Awaited(p)'
      <4>1. CASE f = h
        <5>1. pong \in InFlight(pipe'[e]) /\ pong.typ = "pong" /\ pong.age = 0
          BY Zenon, <2>6, <3>3, <4>1
        <5>2. keepaliveInterval - ticker'[p] <= MaxDelay + pong.age
          BY <2>3, <2>4, <3>3, <4>1, <5>1, ConstantFacts
        <5> QED
          BY Zenon, <2>1, <3>1, <3>3, <5>1, <5>2 DEF Awaited
      <4>2. CASE f # h
        BY Zenon, <2>2, <2>4, <3>1, <3>3, <4>2 DEF Awaited
      <4> QED
        BY Zenon, <4>1, <4>2
    <3>4. ASSUME unanswered[p] = 1,
                 NEW f \in InFlight(pipe[e]),
                 f.typ = "pong", keepaliveInterval - ticker[p] <= MaxDelay + f.age
          PROVE  Awaited(p)'
      BY Zenon, <2>1, <2>4, <2>6, <3>1, <3>4 DEF Awaited
    <3> QED
      BY Zenon, <1>3, <2>1, <3>2, <3>3, <3>4 DEF Working, Awaited
  <2>12. \A d \in Ends : \A f \in InFlight(pipe'[d]) : f.typ # "fin" /\ f.age <= MaxDelay
    BY <1>3, <2>1, <2>2, <2>4, <2>6, ConstantFacts DEF Working
  <2> QED
    BY Zenon, <1>3, <2>1, <2>4, <2>8, <2>9, <2>10, <2>11, <2>12 DEF Working
<1>9. ASSUME NEW e \in Ends, ReadTimesOut(e)
      PROVE  FALSE
  <2>1. Peer(e) \in Ends
    BY Zenon, PeerFacts
  <2>2. idle[e] \in Nat /\ ticker[Peer(e)] \in Nat
    BY <1>1, <2>1, ConstantFacts DEF Types
  <2>3. \A f \in InFlight(pipe[Peer(e)]) : f.age <= MaxDelay /\ f.age \in Nat
    BY Zenon, <1>3, <1>5, <2>1 DEF Working
  <2>4. idle[e] <= keepaliveInterval + MaxSkew + MaxDelay
    BY <1>3, <2>2, <2>3, ConstantFacts DEF Working, Heard
  <2> QED
    BY <1>9, <2>2, <2>4, ConstantFacts DEF ReadTimesOut, DeadlinePast
<1>10. ASSUME NEW e \in Ends, WriteFails(e)
       PROVE  FALSE
  BY Zenon, <1>2, <1>3, <1>10, PeerFacts DEF WriteFails
<1>11. ASSUME NEW lost \in SUBSET Ends, GoDark(lost)
       PROVE  FALSE
  BY Zenon, <1>11 DEF GoDark
<1>12. ASSUME Pass
       PROVE  up' = Ends /\ \A d \in Ends : Working(d)'
  <2>1. \A d \in Ends : /\ pipe'[d] = Aged(pipe[d])
                        /\ ticker'[d] = ticker[d] - 1
                        /\ idle'[d] \in {idle[d], idle[d] + 1}
                        /\ ticker[d] \in Nat /\ idle[d] \in Nat
    BY <1>1, <1>3, <1>12, ConstantFacts DEF Pass, Types
  <2>2. up' = up /\ unanswered' = unanswered
    BY Zenon, <1>12 DEF Pass
  <2>3. \A d \in Ends :
          /\ \A f \in InFlight(pipe[d]) : [typ |-> f.typ, age |-> f.age + 1] \in InFlight(pipe'[d])
          /\ \A g \in InFlight(pipe'[d]) : \E f \in InFlight(pipe[d]) : g.typ = f.typ /\ g.age = f.age + 1
    BY <1>1, <2>1, AgedFlight DEF Types
  <2>4. \A d \in Ends : \A f \in InFlight(pipe[d]) : f.age < MaxDelay
    <3>1. \A d \in Ends : \E e \in up : d = Peer(e)
      BY Zenon, <1>3, PeerFacts DEF Peer, Ends
    <3> QED
      BY Zenon, <1>12, <3>1 DEF Pass, InFlight
  <2>5. ASSUME NEW d \in Ends
        PROVE  Heard(d)'
    <3>1. Peer(d) \in Ends
      BY PeerFacts
    <3>2. CASE idle[d] + ticker[Peer(d)] <= keepaliveInterval + MaxSkew
      BY <2>1, <3>1, <3>2, ConstantFacts DEF Heard
    <3>3. ASSUME NEW f \in InFlight(pipe[Peer(d)]), f.typ = "ping",
                 f.age = keepaliveInterval - ticker[Peer(d)],
                 idle[d] <= keepaliveInterval + MaxSkew + f.age
          PROVE  Heard(d)'
      <4> DEFINE g == [typ |-> f.typ, age |-> f.age + 1]
      <4>1. g \in InFlight(pipe'[Peer(d)]) /\ g.typ = "ping" /\ g.age = f.age + 1
        BY Zenon, <2>3, <3>1, <3>3
      <4>2. f.age \in Nat
        BY Zenon, <1>5, <3>1
      <4>3. g.age = keepaliveInterval - ticker'[Peer(d)] /\ idle'[d] <= keepaliveInterval + MaxSkew + g.age
        BY <2>1, <3>1, <3>3, <4>1, <4>2, ConstantFacts
      <4> HIDE DEF g
      <4> QED
        BY Zenon, <4>1, <4>3 DEF Heard
    <3> QED
      BY Zenon, <1>3, <3>2, <3>3 DEF Working, Heard
  <2>6. ASSUME NEW d \in Ends
        PROVE  Awaited(d)'
    <3>1. Peer(d) \in Ends
      BY PeerFacts
    <3>2. CASE unanswered[d] = 0
      BY Zenon, <2>2, <3>2 DEF Awaited
    <3>3. ASSUME unanswered[d] = 1, NEW f \in InFlight(pipe[d]), f.typ = "ping",
                 f.age = keepaliveInterval - ticker[d]
          PROVE  Awaited(d)'
      <4> DEFINE g == [typ |-> f.typ, age |-> f.age + 1]
      <4>1. g \in InFlight(pipe'[d]) /\ g.typ = "ping" /\ g.age = f.age + 1
        BY Zenon, <2>3, <3>3
      <4>2. g.age = keepaliveInterval - ticker'[d]
        BY <2>1, <3>3, <4>1, ConstantFacts
      <4> HIDE DEF g
      <4> QED
        BY Zenon, <2>2, <3>3, <4>1, <4>2 DEF Awaited
    <3>4. ASSUME unanswered[d] = 1, NEW f \in InFlight(pipe[Peer(d)]), f.typ = "pong",
                 keepaliveInterval - ticker[d] <= MaxDelay + f.age
          PROVE  Awaited(d)'
      <4> DEFINE g == [typ |-> f.typ, age |-> f.age + 1]
      <4>1. g \in InFlight(pipe'[Peer(d)]) /\ g.typ = "pong" /\ g.age = f.age + 1
        BY Zenon, <2>3, <3>1, <3>4
      <4>2. f.age \in Nat
        BY <1>5, <3>1
      <4>3. keepaliveInterval - ticker'[d] <= MaxDelay + g.age
        BY <2>1, <3>4, <4>1, <4>2, ConstantFacts
      <4> HIDE DEF g
      <4> QED
        BY Zenon, <2>2, <3>4, <4>1, <4>3 DEF Awaited
    <3> QED
      BY Zenon, <1>3, <3>2, <3>3, <3>4 DEF Working, Awaited
  <2>7. \A d \in Ends : \A g \in InFlight(pipe'[d]) : g.typ # "fin" /\ g.age <= MaxDelay
    BY <1>3, <1>5, <2>3, <2>4, ConstantFacts DEF Working
  <2> QED
    BY Zenon, <1>3, <2>2, <2>5, <2>6, <2>7 DEF Working
<1>13. CASE UNCHANGED vars
  BY Zenon, <1>3, <1>13 DEF vars, Working, Heard, Awaited
<1> QED
  BY Zenon, <1>6, <1>7, <1>8, <1>9, <1>10, <1>11, <1>12, <1>13 DEF Next

\* HealthyStays: keepaliveLoop and the read deadlines of transport.go never drop
\* a connection whose path works and whose queues had room for every ping and
\* pong, for all timeouts that leave the slack.
THEOREM HealthyConnectionStays == Spec => []HealthyStays
<1>1. Init => IInv
  BY Zenon, TypesInit, HealthyInit DEF IInv
<1>2. IInv /\ [Next]_vars => IInv'
  BY Zenon, TypesStep, HealthyStep DEF IInv
<1>3. IInv => HealthyStays
  BY DEF IInv, Healthy, Working, Awaited, HealthyStays
<1> QED
  BY <1>1, <1>2, <1>3, PTL DEF Spec

-----------------------------------------------------------------------------
(* A path that goes dark. *)

\* Timers and counts stay within their limits; an end that reached the limit of
\* the count is down.
Limits ==
  /\ idle \in [Ends -> 0 .. IOTimeout]
  /\ \A e \in Ends : unanswered[e] <= keepaliveMisses + 1
  /\ \A e \in up : unanswered[e] <= keepaliveMisses
  /\ darkFor \in 0 .. Bound + 1

\* Nothing is in a dark direction, and nothing is late for an end that is up.
Prompt ==
  /\ \A d \in dark : pipe[d] = <<>>
  /\ \A e \in up : \A f \in InFlight(pipe[Peer(e)]) : f.age <= MaxDelay

\* The frames of x are lost: its peer has heard nothing since, and once the peer
\* is down x either has the end of the stream on its way, sent before the peer's
\* read deadline, or hears nothing any more itself.
Fading(x) ==
  /\ Peer(x) \in up => darkFor <= idle[Peer(x)]
  /\ x \in up /\ Peer(x) \notin up =>
       IF Peer(x) \in dark
         THEN darkFor <= idle[x] + IOTimeout + MaxDelay
         ELSE \E f \in InFlight(pipe[Peer(x)]) : f.typ = "fin" /\ darkFor <= IOTimeout + f.age

\* An end whose peer closed over a path that works has the end of the stream on
\* its way.
Told(x) ==
  x \in up /\ Peer(x) \notin up /\ Peer(x) \notin dark =>
    \E f \in InFlight(pipe[Peer(x)]) : f.typ = "fin"

Darkness ==
  /\ \A x \in Ends : Told(x)
  /\ dark = {} => darkFor = 0
  /\ dark # {} => \E x \in dark : Fading(x)

\* The pings that an end has open, but for the first, and the time since the last
\* one, were sent since the path went dark, unless a pong was refused.
Counted ==
  crowded = {} => \A e \in up : unanswered[e] >= 2 =>
    (unanswered[e] - 2) * keepaliveInterval + (keepaliveInterval - ticker[e]) <= darkFor

DInv == Types /\ Healthy /\ Limits /\ Prompt /\ Darkness /\ Counted

\* What sends a frame adds it to those on their way, unless it is lost.
LEMMA SentFlight ==
  ASSUME Types, NEW e \in Ends, NEW typ \in {"ping", "pong", "chat", "fin"}
  PROVE  /\ e \in dark \/ Peer(e) \notin up => Sent(e, typ) = pipe[e]
         /\ e \notin dark /\ Peer(e) \in up =>
              InFlight(Sent(e, typ)) = InFlight(pipe[e]) \cup {[typ |-> typ, age |-> 0]}
<1>1. pipe[e] \in Seq(Frames) /\ [typ |-> typ, age |-> 0] \in Frames
  BY Zenon DEF Types, Frames
<1> QED
  BY <1>1, AppendFlight, Zenon DEF Sent

\* The age of a frame is a number.
LEMMA AgesAreNumbers ==
  ASSUME Types, NEW e \in Ends, NEW f \in InFlight(pipe[e])
  PROVE  f \in Frames /\ f.age \in Nat
<1>1. pipe[e] \in Seq(Frames)
  BY Zenon DEF Types
<1>2. f \in Frames
  BY <1>1 DEF InFlight
<1> QED
  BY Zenon, <1>2 DEF Frames

\* Timers and counts.
LEMMA LimitsStep == Types /\ Limits /\ [Next]_vars => Limits'
<1> SUFFICES ASSUME Types, Limits, [Next]_vars
             PROVE  Limits'
  BY Zenon
<1>0. Bound \in Nat /\ IOTimeout \in Nat /\ keepaliveMisses \in Nat \ {0}
  BY ConstantFacts DEF Bound
<1>1. ASSUME NEW e \in Ends, Tick(e)
      PROVE  Limits'
  <2>1. /\ unanswered' = [unanswered EXCEPT ![e] = @ + 1] /\ UNCHANGED <<idle, darkFor>> /\ e \in up
        /\ up' \subseteq up /\ (unanswered'[e] <= keepaliveMisses \/ e \notin up')
    BY Zenon, <1>1 DEF Tick, Dropped
  <2>2. \A d \in Ends : unanswered[d] \in Nat /\ unanswered'[d] = IF d = e THEN unanswered[e] + 1 ELSE unanswered[d]
    BY Zenon, <2>1 DEF Types
  <2>3. \A d \in up' : d \in Ends /\ d \in up
    BY Zenon, <2>1 DEF Types
  <2>4. \A d \in Ends : unanswered'[d] <= keepaliveMisses + 1
    BY <1>0, <2>1, <2>2 DEF Limits
  <2>5. \A d \in up' : unanswered'[d] <= keepaliveMisses
    BY <1>0, <2>1, <2>2, <2>3 DEF Limits
  <2> QED
    BY Zenon, <2>1, <2>4, <2>5 DEF Limits
<1>2. ASSUME NEW e \in Ends, ReadFrame(e)
      PROVE  Limits'
  <2>1. /\ idle' = idle \/ idle' = [idle EXCEPT ![e] = 0]
        /\ unanswered' = unanswered \/ unanswered' = [unanswered EXCEPT ![e] = 0]
        /\ up' \subseteq up /\ UNCHANGED darkFor
    <3>1. idle' = idle \/ idle' = [idle EXCEPT ![e] = 0]
      BY ZenonT(30), <1>2 DEF ReadFrame, Recv
    <3>2. unanswered' = unanswered \/ unanswered' = [unanswered EXCEPT ![e] = 0]
      BY ZenonT(30), <1>2 DEF ReadFrame
    <3>3. up' \subseteq up /\ UNCHANGED darkFor
      BY Zenon, <1>2 DEF ReadFrame, Dropped
    <3> QED
      BY Zenon, <3>1, <3>2, <3>3
  <2>2. idle' \in [Ends -> 0 .. IOTimeout]
    BY <1>0, <2>1 DEF Limits
  <2>3. \A d \in Ends : unanswered'[d] \in {0, unanswered[d]}
    BY Zenon, <2>1 DEF Types
  <2>4. \A d \in up' : d \in Ends /\ d \in up
    BY Zenon, <2>1 DEF Types
  <2> QED
    BY <1>0, <2>1, <2>2, <2>3, <2>4 DEF Limits
<1>3. ASSUME Pass
      PROVE  Limits'
  <2>1. idle' \in [Ends -> 0 .. IOTimeout]
    BY <1>0, <1>3 DEF Pass, Limits
  <2>2. darkFor' \in 0 .. Bound + 1
    BY <1>0, <1>3 DEF Pass, Limits
  <2> QED
    BY Zenon, <1>3, <2>1, <2>2 DEF Pass, Limits
<1>4. ASSUME up' \subseteq up, UNCHANGED <<idle, unanswered, darkFor>>
      PROVE  Limits'
  BY Zenon, <1>4 DEF Limits
<1>5. ASSUME NEW e \in Ends, Chat(e) \/ ReadTimesOut(e) \/ WriteFails(e)
      PROVE  Limits'
  BY Zenon, <1>4, <1>5 DEF Chat, ReadTimesOut, WriteFails, Dropped
<1>6. ASSUME NEW lost \in SUBSET Ends, GoDark(lost)
      PROVE  Limits'
  BY Zenon, <1>4, <1>6 DEF GoDark
<1>7. CASE UNCHANGED vars
  BY Zenon, <1>4, <1>7 DEF vars
<1> QED
  BY Zenon, <1>1, <1>2, <1>3, <1>5, <1>6, <1>7 DEF Next

\* An end that is up sends a frame, which is its last one if it goes down: what
\* was on its way to it is lost then.
Sends(e, typ) ==
  /\ e \in up
  /\ pipe'[e] = Sent(e, typ)
  /\ pipe'[Peer(e)] = IF typ = "fin" THEN <<>> ELSE pipe[Peer(e)]
  /\ idle' = idle /\ dark' = dark /\ darkFor' = darkFor
  /\ up' = IF typ = "fin" THEN up \ {e} ELSE up

\* Sending keeps the timing of a dark path.
LEMMA SendStep ==
  ASSUME Types, Limits, Prompt, Darkness, NEW e \in Ends,
         NEW typ \in {"ping", "pong", "chat", "fin"}, Sends(e, typ)
  PROVE  Prompt' /\ Darkness'
<1> USE DEF Sends
<1> DEFINE p == Peer(e)
           g == [typ |-> typ, age |-> 0]
<1>1. p \in Ends /\ p # e /\ Peer(p) = e /\ Ends = {e, p} /\ up \subseteq Ends /\ dark \subseteq Ends
  BY Zenon, PeerFacts DEF Types
<1>2. /\ InFlight(pipe'[p]) \subseteq InFlight(pipe[p])
      /\ p \in dark => pipe'[p] = <<>>
      /\ e \in up' => pipe'[p] = pipe[p]
  BY Zenon, <1>1, EmptyQueue DEF Prompt
<1>3. g.typ = typ /\ g.age = 0
  BY Zenon
<1>4. /\ e \in dark => pipe'[e] = pipe[e]
      /\ p \in up /\ e \notin dark => InFlight(pipe'[e]) = InFlight(pipe[e]) \cup {g}
  BY SentFlight, ZenonT(40)
<1> HIDE DEF g
<1>5. Prompt'
  <2>1. \A d \in dark : pipe'[d] = <<>>
    BY Zenon, <1>1, <1>2, <1>4 DEF Prompt
  <2>2. p \in up => \A f \in InFlight(pipe'[e]) : f.age <= MaxDelay
    BY <1>1, <1>3, <1>4, ConstantFacts DEF Prompt
  <2>3. \A f \in InFlight(pipe'[p]) : f.age <= MaxDelay
    BY Zenon, <1>1, <1>2 DEF Prompt
  <2>4. \A d \in up' : d \in up /\ d \in {e, p}
    BY Zenon, <1>1
  <2>5. \A d \in up' : \A f \in InFlight(pipe'[Peer(d)]) : f.age <= MaxDelay
    BY <1>1, <2>2, <2>3, <2>4, Zenon
  <2> QED
    BY Zenon, <2>1, <2>5 DEF Prompt
<1>6. ASSUME NEW x \in dark, Fading(x)
      PROVE  Fading(x)'
  <2>1. CASE x = e
    BY Zenon, <1>1, <1>2, <1>6, <2>1 DEF Fading
  <2>2. CASE x = p
    <3>1. darkFor <= idle[e] /\ idle[e] <= IOTimeout /\ idle[e] \in Nat /\ darkFor \in Nat
      BY <1>1, <1>6, <2>2, ConstantFacts DEF Fading, Limits, Bound
    <3>2. CASE up' = up
      BY Zenon, <1>1, <1>6, <2>2, <3>1, <3>2 DEF Fading
    <3>3. CASE up' = up \ {e} /\ typ = "fin"
      <4>1. idle[p] \in Nat
        BY Zenon, <1>1 DEF Types
      <4>2. e \in dark => darkFor <= idle[p] + IOTimeout + MaxDelay
        BY <3>1, <4>1, ConstantFacts
      <4>3. e \notin dark /\ p \in up => g \in InFlight(pipe'[e]) /\ darkFor <= IOTimeout + g.age
        BY <1>3, <1>4, <3>1, ConstantFacts
      <4> QED
        BY Zenon, <1>1, <1>3, <2>2, <3>3, <4>2, <4>3 DEF Fading
    <3> QED
      BY Zenon, <3>2, <3>3
  <2> QED
    BY Zenon, <1>1, <2>1, <2>2
<1>7. Told(e)'
  BY Zenon, <1>1, <1>2 DEF Darkness, Told
<1>8. Told(p)'
  <2> SUFFICES ASSUME p \in up', e \notin up', e \notin dark
               PROVE  \E f \in InFlight(pipe'[e]) : f.typ = "fin"
    BY Zenon, <1>1 DEF Told
  <2>1. p \in up /\ typ = "fin"
    BY Zenon
  <2> QED
    BY Zenon, <1>3, <1>4, <2>1
<1> QED
  BY Zenon, <1>1, <1>5, <1>6, <1>7, <1>8 DEF Darkness

\* The rest of the timing: reading, the path and time.
LEMMA DarkStep == DInv /\ [Next]_vars => Prompt' /\ Darkness'
<1> SUFFICES ASSUME DInv, [Next]_vars
             PROVE  Prompt' /\ Darkness'
  BY Zenon
<1>0. /\ Types /\ Healthy /\ Limits /\ Prompt /\ Darkness
      /\ up \subseteq Ends /\ dark \subseteq Ends
  BY Zenon DEF DInv, Types
<1>01. ASSUME NEW e \in Ends, e \in up, Dropped(e), UNCHANGED <<idle, dark, darkFor>>
       PROVE  Prompt' /\ Darkness'
  <2>1. Sends(e, "fin")
    BY Zenon, <1>01, PeerFacts DEF Dropped, Sends
  <2> QED
    BY Zenon, <1>0, <2>1, SendStep
<1>02. ASSUME NEW e \in Ends, e \in up, NEW typ \in {"ping", "chat"},
              pipe' = [pipe EXCEPT ![e] = Sent(e, typ)], UNCHANGED <<up, idle, dark, darkFor>>
       PROVE  Prompt' /\ Darkness'
  <2>1. typ # "fin" /\ typ \in {"ping", "pong", "chat", "fin"}
    BY Zenon
  <2>2. Sends(e, typ)
    BY Zenon, <1>0, <1>02, <2>1, PeerFacts DEF Sends, Types
  <2> QED
    BY Zenon, <1>0, <2>1, <2>2, SendStep
<1>1. ASSUME NEW e \in Ends, Tick(e)
      PROVE  Prompt' /\ Darkness'
  BY Zenon, <1>01, <1>02, <1>1 DEF Tick
<1>2. ASSUME NEW e \in Ends, Chat(e)
      PROVE  Prompt' /\ Darkness'
  BY Zenon, <1>02, <1>2 DEF Chat
<1>3. ASSUME NEW e \in Ends, ReadTimesOut(e) \/ WriteFails(e)
      PROVE  Prompt' /\ Darkness'
  BY Zenon, <1>01, <1>3 DEF ReadTimesOut, WriteFails
<1>4. ASSUME NEW e \in Ends, ReadFrame(e)
      PROVE  Prompt' /\ Darkness'
  <2> DEFINE p == Peer(e)
             h == Head(pipe[p])
  <2>1. p \in Ends /\ p # e /\ Peer(p) = e /\ Ends = {e, p}
    BY Zenon, PeerFacts
  <2>2. e \in up /\ pipe[p] # <<>> /\ p \notin dark /\ UNCHANGED <<dark, darkFor>>
    BY Zenon, <1>0, <1>4 DEF ReadFrame, Prompt
  <2>3. /\ InFlight(Tail(pipe[p])) \subseteq InFlight(pipe[p])
        /\ InFlight(pipe[p]) \subseteq InFlight(Tail(pipe[p])) \cup {h}
    BY Zenon, <1>0, <2>1, <2>2, TailFlight DEF Types
  <2>31. CASE h.typ = "fin"
    <3>1. Dropped(e) /\ UNCHANGED idle
      BY Zenon, <1>4, <2>31 DEF ReadFrame
    <3> QED
      BY Zenon, <1>01, <2>2, <3>1
  <2>32. CASE h.typ # "fin"
    <3>1. /\ up' = up
          /\ pipe'[p] = Tail(pipe[p])
          /\ pipe'[e] = pipe[e] \/ pipe'[e] = Sent(e, "pong")
          /\ idle' = [idle EXCEPT ![e] = 0]
      BY Zenon, <1>0, <1>4, <2>1, <2>32 DEF ReadFrame, Types, Recv
    <3>2. idle'[p] = idle[p]
      BY Zenon, <1>0, <2>1, <3>1 DEF Types
    <3> HIDE DEF h
    <3>3. /\ e \in dark => pipe'[e] = <<>>
          /\ \A f \in InFlight(pipe'[e]) : f \in InFlight(pipe[e]) \/ f.age = 0
      <4>1. CASE pipe'[e] = pipe[e]
        BY Zenon, <1>0, <4>1 DEF Prompt
      <4>2. CASE pipe'[e] = Sent(e, "pong")
        BY <1>0, <4>2, SentFlight DEF Prompt
      <4> QED
        BY Zenon, <3>1, <4>1, <4>2
    <3>4. Prompt'
      <4>1. \A d \in dark : pipe'[d] = <<>>
        BY Zenon, <1>0, <2>1, <2>2, <3>3
      <4>2. p \in up => \A f \in InFlight(pipe'[e]) : f.age <= MaxDelay
        BY <1>0, <2>1, <3>3, ConstantFacts DEF Prompt
      <4>3. \A f \in InFlight(pipe'[p]) : f.age <= MaxDelay
        BY Zenon, <1>0, <2>2, <2>3, <3>1 DEF Prompt
      <4>4. \A d \in up : d \in {e, p}
        BY Zenon, <1>0, <2>1
      <4>5. \A d \in up : \A f \in InFlight(pipe'[Peer(d)]) : f.age <= MaxDelay
        BY <2>1, <4>2, <4>3, <4>4, Zenon
      <4> QED
        BY Zenon, <2>2, <3>1, <4>1, <4>5 DEF Prompt
    <3>5. \A f \in InFlight(pipe[p]) : f.typ = "fin" => f \in InFlight(pipe'[p])
      BY Zenon, <2>3, <2>32, <3>1
    <3>6. ASSUME NEW x \in dark, Fading(x)
          PROVE  Fading(x)'
      <4>1. x = e
        BY Zenon, <1>0, <2>1, <2>2
      <4> QED
        BY Zenon, <2>2, <3>1, <3>2, <3>5, <3>6, <4>1 DEF Fading
    <3>7. \A x \in Ends : Told(x)'
      BY Zenon, <1>0, <2>1, <2>2, <3>1, <3>5 DEF Told, Darkness
    <3> QED
      BY Zenon, <1>0, <2>2, <3>4, <3>6, <3>7 DEF Darkness
  <2> QED
    BY Zenon, <2>31, <2>32
<1>5. ASSUME NEW lost \in SUBSET Ends, GoDark(lost)
      PROVE  Prompt' /\ Darkness'
  <2>1. /\ lost # {} /\ lost \cap dark = {} /\ dark' = dark \cup lost
        /\ \A d \in Ends : pipe'[d] = IF d \in lost THEN <<>> ELSE pipe[d]
        /\ UNCHANGED <<up, idle, darkFor>>
    BY Zenon, <1>5 DEF GoDark
  <2>2. InFlight(<<>>) = {}
    BY DEF InFlight
  <2>3. Prompt'
    <3>1. \A d \in dark' : pipe'[d] = <<>>
      BY Zenon, <1>0, <2>1 DEF Prompt
    <3>2. \A e \in up : \A f \in InFlight(pipe'[Peer(e)]) : f.age <= MaxDelay
      BY Zenon, <1>0, <2>1, <2>2, PeerFacts DEF Prompt
    <3> QED
      BY Zenon, <2>1, <3>1, <3>2 DEF Prompt
  <2>35. ASSUME NEW x \in Ends
         PROVE  Told(x)'
    <3>1. Peer(x) \in Ends
      BY Zenon, PeerFacts
    <3>2. Peer(x) \notin dark' => Peer(x) \notin dark /\ pipe'[Peer(x)] = pipe[Peer(x)]
      BY Zenon, <2>1, <3>1
    <3>3. Told(x) /\ up' = up
      BY Zenon, <1>0, <2>1 DEF Darkness
    <3> QED
      BY Zenon, <3>2, <3>3 DEF Told
  <2>4. CASE dark = {}
    <3>1. PICK x \in lost : TRUE
      BY Zenon, <2>1
    <3>2. darkFor = 0 /\ x \in Ends /\ Peer(x) \in Ends
      BY Zenon, <1>0, <2>4, PeerFacts DEF Darkness
    <3>3. idle[Peer(x)] \in Nat /\ idle[x] \in Nat
      BY Zenon, <1>0, <3>2 DEF Types
    <3>4. darkFor' <= idle'[Peer(x)] /\ darkFor' <= idle'[x] + IOTimeout + MaxDelay
      BY <2>1, <3>2, <3>3, ConstantFacts
    <3>5. ASSUME x \in up, Peer(x) \notin up, Peer(x) \notin dark'
          PROVE  \E f \in InFlight(pipe'[Peer(x)]) : f.typ = "fin" /\ darkFor' <= IOTimeout + f.age
      <4>1. pipe'[Peer(x)] = pipe[Peer(x)] /\ Peer(x) \notin dark
        BY Zenon, <2>1, <3>2, <3>5
      <4>2. PICK f \in InFlight(pipe[Peer(x)]) : f.typ = "fin"
        BY Zenon, <1>0, <3>2, <3>5, <4>1 DEF Darkness, Told
      <4>3. f.age \in Nat
        BY Zenon, <1>0, <3>2, AgesAreNumbers
      <4>4. darkFor' <= IOTimeout + f.age
        BY <2>1, <3>2, <4>3, ConstantFacts
      <4> QED
        BY Zenon, <4>1, <4>2, <4>4
    <3>6. Fading(x)'
      BY Zenon, <2>1, <3>4, <3>5 DEF Fading
    <3> QED
      BY Zenon, <2>1, <2>3, <2>35, <3>1, <3>6 DEF Darkness
  <2>5. CASE dark # {}
    <3>1. PICK x \in dark : Fading(x)
      BY Zenon, <1>0, <2>5 DEF Darkness
    <3> DEFINE y == Peer(x)
    <3>2. x \in Ends /\ y \in Ends /\ y # x /\ Ends = {x, y} /\ Peer(y) = x
      BY Zenon, <1>0, PeerFacts
    <3>3. lost = {y} /\ y \notin dark
      BY Zenon, <2>1, <3>2
    <3>4. idle[x] \in Nat /\ darkFor \in Nat
      BY <1>0, <3>2, ConstantFacts DEF Types, Limits, Bound
    <3>5. ASSUME x \in up, y \notin up
          PROVE  darkFor <= idle[x] + IOTimeout + MaxDelay
      <4>1. PICK f \in InFlight(pipe[y]) : f.typ = "fin" /\ darkFor <= IOTimeout + f.age
        BY Zenon, <3>1, <3>3, <3>5 DEF Fading
      <4>2. f.age <= MaxDelay /\ f.age \in Nat
        BY Zenon, <1>0, <3>2, <3>5, AgesAreNumbers DEF Prompt
      <4> QED
        BY <3>4, <4>1, <4>2, ConstantFacts
    <3>6. Fading(x)'
      BY Zenon, <2>1, <3>1, <3>3, <3>5 DEF Fading
    <3> QED
      BY Zenon, <2>1, <2>3, <2>35, <3>1, <3>6 DEF Darkness
  <2> QED
    BY Zenon, <2>4, <2>5
<1>6. ASSUME Pass
      PROVE  Prompt' /\ Darkness'
  <2>1. /\ \A d \in Ends : pipe'[d] = Aged(pipe[d])
        /\ \A d \in up : idle'[d] = idle[d] + 1
        /\ UNCHANGED <<up, dark>>
        /\ darkFor' = IF dark # {} /\ darkFor <= Bound THEN darkFor + 1 ELSE darkFor
    BY <1>0, <1>6, ConstantFacts DEF Pass, DeadlinePast, Limits
  <2>2. \A e \in up : \A f \in InFlight(pipe[Peer(e)]) : f.age < MaxDelay
    BY Zenon, <1>6 DEF Pass, InFlight
  <2>3. \A d \in Ends :
          /\ \A f \in InFlight(pipe[d]) : [typ |-> f.typ, age |-> f.age + 1] \in InFlight(pipe'[d])
          /\ \A g \in InFlight(pipe'[d]) : \E f \in InFlight(pipe[d]) : g.typ = f.typ /\ g.age = f.age + 1
    BY <1>0, <2>1, AgedFlight DEF Types
  <2>4. Prompt'
    <3>1. \A d \in dark : pipe'[d] = <<>>
      <4>1. Aged(<<>>) = <<>>
        BY DEF Aged
      <4> QED
        BY Zenon, <1>0, <2>1, <4>1 DEF Prompt
    <3>2. \A e \in up : \A g \in InFlight(pipe'[Peer(e)]) : g.age <= MaxDelay
      <4> SUFFICES ASSUME NEW e \in up, NEW g \in InFlight(pipe'[Peer(e)])
                   PROVE  g.age <= MaxDelay
        BY Zenon
      <4>1. Peer(e) \in Ends
        BY Zenon, <1>0, PeerFacts
      <4>2. PICK f \in InFlight(pipe[Peer(e)]) : g.age = f.age + 1
        BY Zenon, <2>3, <4>1
      <4>3. f.age < MaxDelay /\ f.age \in Nat
        BY Zenon, <1>0, <2>2, <4>1, AgesAreNumbers
      <4> QED
        BY <4>2, <4>3, ConstantFacts
    <3> QED
      BY Zenon, <2>1, <3>1, <3>2 DEF Prompt
  <2>5. ASSUME NEW x \in dark, Fading(x)
        PROVE  Fading(x)'
    <3> DEFINE y == Peer(x)
    <3>1. x \in Ends /\ y \in Ends
      BY Zenon, <1>0, PeerFacts
    <3>2. idle[x] \in Nat /\ idle[y] \in Nat /\ darkFor \in Nat /\ darkFor' \in Nat /\ darkFor' <= darkFor + 1
      <4>1. idle[x] \in Nat /\ idle[y] \in Nat
        BY Zenon, <1>0, <3>1 DEF Types
      <4>2. darkFor \in Nat
        BY <1>0, ConstantFacts DEF Limits, Bound
      <4> QED
        BY <2>1, <4>1, <4>2
    <3>3. y \in up => darkFor' <= idle'[y]
      BY <2>1, <2>5, <3>2 DEF Fading
    <3>4. ASSUME x \in up, y \notin up, y \in dark
          PROVE  darkFor' <= idle'[x] + IOTimeout + MaxDelay
      BY <2>1, <2>5, <3>2, <3>4, ConstantFacts DEF Fading
    <3>5. ASSUME x \in up, y \notin up, y \notin dark
          PROVE  \E g \in InFlight(pipe'[y]) : g.typ = "fin" /\ darkFor' <= IOTimeout + g.age
      <4>1. PICK f \in InFlight(pipe[y]) : f.typ = "fin" /\ darkFor <= IOTimeout + f.age
        BY Zenon, <2>5, <3>5 DEF Fading
      <4> DEFINE g == [typ |-> f.typ, age |-> f.age + 1]
      <4>2. f.age \in Nat
        BY Zenon, <1>0, <3>1, AgesAreNumbers
      <4>3. g \in InFlight(pipe'[y]) /\ g.typ = "fin" /\ darkFor' <= IOTimeout + g.age
        BY <2>3, <3>1, <3>2, <4>1, <4>2, ConstantFacts
      <4> HIDE DEF g
      <4> QED
        BY Zenon, <4>3
    <3> QED
      BY Zenon, <2>1, <3>3, <3>4, <3>5 DEF Fading
  <2>55. ASSUME NEW x \in Ends
         PROVE  Told(x)'
    <3> SUFFICES ASSUME x \in up, Peer(x) \notin up, Peer(x) \notin dark
                 PROVE  \E f \in InFlight(pipe'[Peer(x)]) : f.typ = "fin"
      BY Zenon, <2>1 DEF Told
    <3>1. PICK f \in InFlight(pipe[Peer(x)]) : f.typ = "fin"
      BY Zenon, <1>0 DEF Darkness, Told
    <3> DEFINE g == [typ |-> f.typ, age |-> f.age + 1]
    <3>2. g \in InFlight(pipe'[Peer(x)]) /\ g.typ = "fin"
      BY Zenon, <2>3, <3>1, PeerFacts
    <3> QED
      BY Zenon, <3>2
  <2>6. Darkness'
    BY Zenon, <1>0, <2>1, <2>5, <2>55 DEF Darkness
  <2> QED
    BY Zenon, <2>4, <2>6
<1>7. CASE UNCHANGED vars
  BY Zenon, <1>0, <1>7 DEF vars, Prompt, Darkness, Fading, Told
<1> QED
  BY Zenon, <1>1, <1>2, <1>3, <1>4, <1>5, <1>6, <1>7 DEF Next

\* What the timing amounts to: after Bound nobody is up.
LEMMA DarkBound ==
  ASSUME Types, Limits, Prompt, Darkness, darkFor > Bound
  PROVE  up = {}
<1> SUFFICES ASSUME NEW e \in up
             PROVE  FALSE
  BY Zenon
<1>1. PICK x \in dark : Fading(x)
  BY ConstantFacts DEF Darkness, Bound
<1> DEFINE y == Peer(x)
<1>2. x \in Ends /\ y \in Ends /\ y # x /\ Ends = {x, y} /\ Peer(y) = x /\ e \in {x, y}
  BY Zenon, PeerFacts DEF Types
<1>3. idle[x] <= IOTimeout /\ idle[y] <= IOTimeout /\ idle[x] \in Nat /\ idle[y] \in Nat /\ darkFor \in Nat
  BY <1>2, ConstantFacts DEF Limits, Bound
<1>4. y \notin up
  BY <1>1, <1>3, ConstantFacts DEF Fading, Bound
<1>5. x \in up
  BY Zenon, <1>2, <1>4
<1>6. y \notin dark
  BY <1>1, <1>3, <1>4, <1>5, ConstantFacts DEF Fading, Bound
<1>7. PICK f \in InFlight(pipe[y]) : f.typ = "fin" /\ darkFor <= IOTimeout + f.age
  BY Zenon, <1>1, <1>4, <1>5, <1>6 DEF Fading
<1>8. f.age <= MaxDelay /\ f.age \in Nat
  BY Zenon, <1>2, <1>5, AgesAreNumbers DEF Prompt
<1> QED
  BY <1>3, <1>7, <1>8, ConstantFacts DEF Bound

\* A product of numbers is a number, and grows with its first factor.
LEMMA Products ==
  ASSUME NEW i \in Nat, NEW a \in Nat, NEW b \in Nat, a <= b
  PROVE  a * i \in Nat /\ b * i \in Nat /\ a * i <= b * i /\ (a + 1) * i = a * i + i
<1>1. a * i \in Nat /\ (b - a) * i \in Nat /\ b * i = a * i + (b - a) * i
  OBVIOUS
<1>2. (a + 1) * i = a * i + i
  OBVIOUS
<1> QED
  BY <1>1, <1>2

\* Each open ping after the first took an interval of the dark.
LEMMA CountedStep == DInv /\ [Next]_vars => Counted'
<1> SUFFICES ASSUME DInv, [Next]_vars, crowded' = {}
             PROVE  Counted'
  BY Zenon DEF Counted
<1>0. /\ Types /\ Healthy /\ Limits /\ Prompt /\ Darkness /\ Counted
      /\ up \subseteq Ends /\ keepaliveInterval \in Nat /\ darkFor \in Nat
  BY ConstantFacts DEF DInv, Types, Limits, Bound
<1>00. crowded = {}
  <2>1. crowded \subseteq crowded'
    BY Zenon DEF Next, vars, Tick, Chat, ReadFrame, ReadTimesOut, WriteFails, GoDark, Pass, Full
  <2> QED
    BY Zenon, <2>1
<1>1. ASSUME NEW e \in Ends, Tick(e)
      PROVE  Counted'
  <2> SUFFICES ASSUME NEW d \in up', unanswered'[d] >= 2
               PROVE  (unanswered'[d] - 2) * keepaliveInterval + (keepaliveInterval - ticker'[d]) <= darkFor'
    BY Zenon DEF Counted
  <2>1. d \in up /\ d \in Ends /\ UNCHANGED darkFor /\ e \in up /\ ticker[e] = 0
    BY Zenon, <1>0, <1>1 DEF Tick, Dropped
  <2>2. /\ unanswered[d] \in Nat /\ ticker[d] \in Nat
        /\ unanswered'[d] = IF d = e THEN unanswered[e] + 1 ELSE unanswered[d]
        /\ ticker'[d] = IF d = e THEN keepaliveInterval ELSE ticker[d]
    BY <1>0, <1>1, <2>1 DEF Tick, Types
  <2>3. CASE d # e
    BY Zenon, <1>0, <1>00, <2>1, <2>2, <2>3 DEF Counted
  <2>4. CASE d = e /\ unanswered[e] = 1
    BY <1>0, <2>1, <2>2, <2>4
  <2>5. CASE d = e /\ unanswered[e] >= 2
    <3>1. (unanswered[e] - 2) * keepaliveInterval + (keepaliveInterval - 0) <= darkFor
      BY Zenon, <1>0, <1>00, <2>1, <2>5 DEF Counted
    <3> DEFINE a == unanswered[e] - 2
    <3>2. a \in Nat /\ (a + 1) * keepaliveInterval = a * keepaliveInterval + keepaliveInterval
          /\ a * keepaliveInterval \in Nat
      BY <1>0, <2>2, <2>5, Products
    <3>3. unanswered'[d] - 2 = a + 1 /\ ticker'[d] = keepaliveInterval
      BY <2>2, <2>5
    <3>4. a * keepaliveInterval + keepaliveInterval <= darkFor
      BY <1>0, <3>1, <3>2
    <3> HIDE DEF a
    <3> QED
      BY <1>0, <2>1, <3>2, <3>3, <3>4
  <2> QED
    BY <2>1, <2>2, <2>3, <2>4, <2>5
<1>2. ASSUME NEW e \in Ends, ReadFrame(e)
      PROVE  Counted'
  <2>1. up' \subseteq up /\ UNCHANGED <<ticker, darkFor>>
    BY Zenon, <1>2 DEF ReadFrame, Dropped
  <2>2. unanswered' = unanswered \/ unanswered' = [unanswered EXCEPT ![e] = 0]
    BY ZenonT(30), <1>2 DEF ReadFrame
  <2>3. \A d \in Ends : unanswered'[d] = unanswered[d] \/ unanswered'[d] = 0
    BY Zenon, <1>0, <2>2 DEF Types
  <2> QED
    BY <1>0, <1>00, <2>1, <2>3 DEF Counted
<1>3. ASSUME Pass
      PROVE  Counted'
  <2> SUFFICES ASSUME NEW d \in up', unanswered'[d] >= 2
               PROVE  (unanswered'[d] - 2) * keepaliveInterval + (keepaliveInterval - ticker'[d]) <= darkFor'
    BY Zenon DEF Counted
  <2>1. d \in up /\ d \in Ends /\ unanswered'[d] = unanswered[d] /\ ticker'[d] = ticker[d] - 1
    BY Zenon, <1>0, <1>3 DEF Pass
  <2>2. unanswered[d] \in Nat /\ ticker[d] \in Nat
    BY <1>0, <2>1 DEF Types
  <2>3. dark # {}
    BY <1>0, <1>00, <2>1, <2>2 DEF Healthy, Working, Awaited
  <2>4. darkFor <= Bound
    BY <1>0, <2>1, DarkBound, ConstantFacts DEF Bound
  <2>5. darkFor' = darkFor + 1
    BY Zenon, <1>3, <2>3, <2>4 DEF Pass
  <2> DEFINE m == (unanswered[d] - 2) * keepaliveInterval
  <2>6. m \in Nat /\ m + (keepaliveInterval - ticker[d]) <= darkFor
    <3>1. unanswered[d] - 2 \in Nat
      BY <2>1, <2>2
    <3> QED
      BY <1>0, <1>00, <2>1, <3>1, Products DEF Counted
  <2> HIDE DEF m
  <2>7. m + (keepaliveInterval - ticker'[d]) <= darkFor'
    BY <1>0, <2>1, <2>2, <2>5, <2>6
  <2> QED
    BY Zenon, <2>1, <2>7 DEF m
<1>4. ASSUME up' \subseteq up, UNCHANGED <<ticker, unanswered, darkFor>>
      PROVE  Counted'
  BY Zenon, <1>0, <1>00, <1>4 DEF Counted
<1>5. ASSUME NEW e \in Ends, Chat(e) \/ ReadTimesOut(e) \/ WriteFails(e)
      PROVE  Counted'
  BY Zenon, <1>4, <1>5 DEF Chat, ReadTimesOut, WriteFails, Dropped
<1>6. ASSUME NEW lost \in SUBSET Ends, GoDark(lost)
      PROVE  Counted'
  BY Zenon, <1>4, <1>6 DEF GoDark
<1>7. CASE UNCHANGED vars
  BY Zenon, <1>4, <1>7 DEF vars
<1> QED
  BY Zenon, <1>1, <1>2, <1>3, <1>5, <1>6, <1>7 DEF Next

\* The new connection.
LEMMA DarkInit == Init => Limits /\ Prompt /\ Darkness /\ Counted
<1> SUFFICES ASSUME Init
             PROVE  Limits /\ Prompt /\ Darkness /\ Counted
  BY Zenon
<1>1. PICK lead \in 0 .. MaxSkew : idle = [e \in Ends |-> IF e = A THEN lead ELSE 0]
  BY Zenon DEF Init
<1>2. idle \in [Ends -> 0 .. IOTimeout]
  BY <1>1, ConstantFacts
<1>3. \A e \in Ends : InFlight(pipe[e]) = {} /\ Peer(e) \in Ends
  BY PeerFacts DEF Init, InFlight
<1> QED
  BY <1>2, <1>3, ConstantFacts DEF Init, Limits, Prompt, Darkness, Counted, Bound, Told

\* DarkEnds: a path that goes dark takes both ends down within two read deadlines
\* and a delay, and not by keepaliveLoop's count.
THEOREM DarkPathEnds == Spec => []DarkEnds
<1>1. Init => DInv
  BY Zenon, TypesInit, HealthyInit, DarkInit DEF DInv
<1>2. DInv /\ [Next]_vars => DInv'
  BY Zenon, TypesStep, HealthyStep, LimitsStep, DarkStep, CountedStep DEF DInv, IInv
<1>3. DInv => DarkEnds
  <2> SUFFICES ASSUME DInv
               PROVE  DarkEnds
    BY Zenon
  <2>1. darkFor > Bound => up = {}
    BY Zenon, DarkBound DEF DInv
  <2>2. ASSUME up = Ends, crowded = {}, NEW e \in Ends, ticker[e] = 0, unanswered[e] >= keepaliveMisses
        PROVE  FALSE
    <3>1. unanswered[e] \in Nat /\ keepaliveMisses >= 2 /\ darkFor \in Nat
      BY ConstantFacts, CountSlack DEF DInv, Types, Limits, Bound
    <3>2. (unanswered[e] - 2) * keepaliveInterval + (keepaliveInterval - 0) <= darkFor
      BY <2>2, <3>1, ConstantFacts DEF DInv, Counted
    <3> DEFINE a == keepaliveMisses - 2
               b == unanswered[e] - 2
    <3>3. a \in Nat /\ b \in Nat /\ a <= b
      BY <2>2, <3>1, ConstantFacts
    <3>4. /\ a * keepaliveInterval \in Nat /\ b * keepaliveInterval \in Nat
          /\ a * keepaliveInterval <= b * keepaliveInterval
          /\ (a + 1) * keepaliveInterval = a * keepaliveInterval + keepaliveInterval
      BY Zenon, <3>3, ConstantFacts, Products
    <3>5. IOTimeout < (a + 1) * keepaliveInterval
      BY Zenon, CountSlack
    <3>6. b * keepaliveInterval + keepaliveInterval <= darkFor
      BY <3>2, ConstantFacts
    <3> HIDE DEF a, b
    <3>7. IOTimeout < darkFor
      BY <3>1, <3>4, <3>5, <3>6, ConstantFacts
    <3>8. PICK x \in dark : Fading(x)
      BY <3>7, ConstantFacts DEF DInv, Darkness
    <3>9. x \in Ends /\ Peer(x) \in Ends
      BY Zenon, PeerFacts DEF DInv, Types
    <3>10. idle[Peer(x)] \in 0 .. IOTimeout /\ darkFor <= idle[Peer(x)]
      BY Zenon, <2>2, <3>8, <3>9 DEF DInv, Limits, Fading
    <3> QED
      BY <3>1, <3>7, <3>10, ConstantFacts
  <2>3. \A e \in Ends : unanswered[e] \in Nat
    BY Zenon DEF DInv, Types
  <2> QED
    BY <2>1, <2>2, <2>3, ConstantFacts DEF DarkEnds
<1> QED
  BY <1>1, <1>2, <1>3, PTL DEF Spec
==============================================================================
