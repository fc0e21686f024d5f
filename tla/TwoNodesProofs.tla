---------------------------- MODULE TwoNodesProofs ----------------------------
(***************************************************************************)
(* What the handshake establishes between two ends that run this code, for *)
(* any connections, identities, pairing keys and setups, with the registry *)
(* and the loops of both nodes running on top.                             *)
(***************************************************************************)
EXTENDS TwoNodes, SequenceTheorems, TLAPS

Transcripts == (Ends \X Ends) \cup {nil}
Values == ((Keys \cup {nil}) \X Transcripts) \cup {nil}

Messages ==
  [type : {"init"}, eph : Ends]
  \cup [type : {"auth"}, eph : Ends, secret : SUBSET Ends, transcript : Transcripts,
        info : {"hs2", "hs3"}, id : Nodes]
  \cup [type : {"frame"}, kind : {"confirm", "ping", "pong"}, session : Transcripts, value : Values]

\* The transcript of an end that has one.
Shared(e) == IF Opts(e).initiator THEN <<e, Other(e)>> ELSE <<Other(e), e>>

\* What the other end of e can have sent, from its own role and identity.
Honest(e, m) ==
  /\ m.type = "init" => m.eph = Other(e)
  /\ m.type = "auth" => /\ m.eph = Other(e)
                        /\ m.id = Node(Other(e))
                        /\ m.info = IF Opts(Other(e)).initiator THEN "hs3" ELSE "hs2"

Legal(e) == {m \in Messages : Honest(e, m)}

Types ==
  /\ setup \in Setups
  /\ pc \in [Ends -> {"new", "checked", "waits", "up"} \cup Receiving \cup Closed]
  /\ transcript \in [Ends -> Transcripts]
  /\ peer \in [Ends -> Nodes \cup {nil}]

WireLegal == /\ wire \in [Ends -> Seq(Messages)]
             /\ \A e \in Ends : wire[e] \in Seq(Legal(e))

\* The step an end has reached tells its role and what it knows.
Roles ==
  \A e \in Ends :
     /\ pc[e] \in {"msg1", "msg3"} => ~Opts(e).initiator
     /\ pc[e] = "msg2" => Opts(e).initiator
     /\ pc[e] = "msg3" \/ Complete(e) => transcript[e] = Shared(e)
     /\ pc[e] \in {"confirm", "checked", "waits", "up"} => Complete(e)
     /\ Complete(e) => /\ peer[e] = Node(Other(e))
                       /\ peer[e] # Node(e)
                       /\ Opts(e).initiator # Opts(Other(e)).initiator

IInv == Types /\ WireLegal /\ Roles

-----------------------------------------------------------------------------
(* Ends and messages. *)

\* The two ends of a connection are each other's other end.
LEMMA EndFacts ==
  \A e \in Ends : Other(e) \in Ends /\ Other(Other(e)) = e /\ Other(e) # e
BY DEF Ends, Sides, Other

\* What an end was told by its caller.
LEMMA OptionFacts ==
  ASSUME Types, NEW e \in Ends
  PROVE  Node(e) \in Nodes /\ Opts(e).initiator \in BOOLEAN /\ Opts(e).key \in Keys \cup {nil}
<1>1. setup \in [Conns -> [sid : Nat, a : EndOptions, b : EndOptions]]
  BY Zenon, HandshakeAssumption DEF Types
<1>2. e[1] \in Conns /\ e[2] \in {"a", "b"}
  BY Zenon DEF Ends, Sides
<1>3. setup[e[1]] \in [sid : Nat, a : EndOptions, b : EndOptions]
  BY Zenon, <1>1, <1>2
<1>4. Opts(e) \in EndOptions
  BY Zenon, <1>2, <1>3 DEF Opts
<1> QED
  BY Zenon, <1>4 DEF EndOptions, Node

\* The options do not change, so neither does what is legal.
LEMMA SetupFixed ==
  ASSUME setup' = setup, NEW e \in Ends
  PROVE  /\ Opts(e)' = Opts(e) /\ Node(e)' = Node(e) /\ Shared(e)' = Shared(e)
         /\ Legal(e)' = Legal(e)
BY Zenon DEF Opts, Node, Shared, Legal, Honest

\* What the wire holds after a message was taken off and others were sent.
LEMMA SeqFacts ==
  ASSUME NEW S, NEW q \in Seq(S)
  PROVE  /\ q # <<>> => Head(q) \in S /\ Tail(q) \in Seq(S)
         /\ \A m \in S : Append(q, m) \in Seq(S) /\ <<m>> \in Seq(S)
         /\ \A s \in Seq(S) : q \o s \in Seq(S)
         /\ <<>> \in Seq(S)
OBVIOUS

\* A message of the handshake that e sends is legal at its other end.
LEMMA SentLegal ==
  ASSUME Types, NEW e \in Ends, NEW tr \in Transcripts
  PROVE  /\ Opts(e).initiator => InitMessage(e) \in Legal(Other(e))
         /\ ~Opts(e).initiator => \A p \in Ends : Auth(e, p, tr, "hs2") \in Legal(Other(e))
         /\ Opts(e).initiator => \A p \in Ends : Auth(e, p, tr, "hs3") \in Legal(Other(e))
         /\ Confirmation(e, tr) \in Seq(Legal(Other(e)))
         /\ \A kind \in {"ping", "pong"} : Frame(kind, tr, nil) \in Legal(Other(e))
<1>1. Other(e) \in Ends /\ Other(Other(e)) = e
  BY Zenon, EndFacts
<1>2. Node(e) \in Nodes /\ Opts(e).key \in Keys \cup {nil}
  BY Zenon, OptionFacts
<1>3. InitMessage(e) \in Messages /\ Honest(Other(e), InitMessage(e))
  BY Zenon, <1>1 DEF Messages, Honest, InitMessage
<1>4. ASSUME NEW p \in Ends, NEW info \in {"hs2", "hs3"},
             info = IF Opts(e).initiator THEN "hs3" ELSE "hs2"
      PROVE  Auth(e, p, tr, info) \in Legal(Other(e))
  <2>1. Auth(e, p, tr, info) \in Messages
    BY Zenon, <1>2, <1>4 DEF Messages, Auth
  <2>2. Honest(Other(e), Auth(e, p, tr, info))
    BY Zenon, <1>1, <1>4 DEF Honest, Auth
  <2> QED
    BY Zenon, <2>1, <2>2 DEF Legal
<1>5. ASSUME NEW kind \in {"confirm", "ping", "pong"}, NEW value \in Values,
             kind = "confirm" => value = PairConfirm(Opts(e).key, tr)
      PROVE  Frame(kind, tr, value) \in Legal(Other(e))
  <2>1. Frame(kind, tr, value) \in Messages
    BY Zenon, <1>5 DEF Messages, Frame
  <2>2. Honest(Other(e), Frame(kind, tr, value))
    BY Zenon, <1>1, <1>5 DEF Honest, Frame
  <2> QED
    BY Zenon, <2>1, <2>2 DEF Legal
<1>6. PairConfirm(Opts(e).key, tr) \in Values /\ nil \in Values
  BY Zenon, <1>2 DEF Values, PairConfirm
<1>7. Frame("confirm", tr, PairConfirm(Opts(e).key, tr)) \in Legal(Other(e))
  BY Zenon, <1>5, <1>6
<1>8. Confirmation(e, tr) \in Seq(Legal(Other(e)))
  BY <1>7 DEF Confirmation
<1> QED
  BY Zenon, <1>3, <1>4, <1>5, <1>6, <1>8 DEF Legal

\* Taking a message and sending legal ones leaves the wires legal.
LEMMA ExchangeLegal ==
  ASSUME Types, WireLegal, setup' = setup, NEW e \in Ends,
         NEW out \in Seq(Legal(Other(e))), Exchange(e, out)
  PROVE  WireLegal'
<1>1. Other(e) \in Ends /\ Other(e) # e
  BY Zenon, EndFacts
<1>2. \A d \in Ends : Legal(d)' = Legal(d)
  BY Zenon, SetupFixed
<1>3. wire[e] \in Seq(Legal(e)) /\ wire[Other(e)] \in Seq(Legal(Other(e)))
  BY Zenon, <1>1 DEF WireLegal
<1>4. \A d \in Ends : \A q \in Seq(Legal(d)) : q \in Seq(Messages)
  <2>1. \A d \in Ends : Legal(d) \subseteq Messages
    BY Zenon DEF Legal
  <2> QED
    BY <2>1
<1>5. wire[Other(e)] \o out \in Seq(Legal(Other(e)))
  BY Zenon, <1>3, SeqFacts
<1>6. Got(e) => Tail(wire[e]) \in Seq(Legal(e))
  BY Zenon, <1>3, SeqFacts DEF Got
<1>7. wire'[e] \in Seq(Legal(e)) /\ wire'[Other(e)] \in Seq(Legal(Other(e)))
  BY Zenon, <1>1, <1>3, <1>5, <1>6 DEF Exchange, WireLegal
<1>8. \A d \in Ends \ {e, Other(e)} : wire'[d] = wire[d]
  BY Zenon, <1>1 DEF Exchange, WireLegal
<1>9. \A d \in Ends : wire'[d] \in Seq(Legal(d))
  BY Zenon, <1>7, <1>8 DEF WireLegal
<1>10. wire' \in [Ends -> Seq(Messages)]
  <2>1. \A d \in Ends : wire'[d] \in Seq(Messages)
    BY Zenon, <1>4, <1>9
  <2>2. DOMAIN wire' = Ends /\ wire' = [d \in Ends |-> wire'[d]]
    BY Zenon DEF Exchange, WireLegal
  <2> QED
    BY Zenon, <2>1, <2>2
<1> QED
  BY Zenon, <1>2, <1>9, <1>10 DEF WireLegal

-----------------------------------------------------------------------------
(* Steps. *)

\* A step after which end e is at to keeps the invariant if the new facts of e
\* hold and the wires stay legal.
LEMMA EndStepKeeps ==
  ASSUME IInv, setup' = setup, WireLegal', NEW e \in Ends,
         NEW to \in {"new", "checked", "waits", "up"} \cup Receiving \cup Closed,
         NEW tr \in Transcripts, NEW id \in Nodes \cup {nil},
         pc' = [pc EXCEPT ![e] = to],
         transcript' = [transcript EXCEPT ![e] = tr],
         peer' = [peer EXCEPT ![e] = id],
         to \in {"msg1", "msg3"} => ~Opts(e).initiator,
         to = "msg2" => Opts(e).initiator,
         to = "msg3" \/ id # nil => tr = Shared(e),
         to \in {"confirm", "checked", "waits", "up"} => id # nil,
         id # nil => /\ id = Node(Other(e))
                     /\ id # Node(e)
                     /\ Opts(e).initiator # Opts(Other(e)).initiator
  PROVE  IInv'
<1>1. /\ pc'[e] = to /\ transcript'[e] = tr /\ peer'[e] = id
      /\ \A d \in Ends \ {e} : pc'[d] = pc[d] /\ transcript'[d] = transcript[d] /\ peer'[d] = peer[d]
  BY Zenon DEF IInv, Types
<1>2. \A d \in Ends : /\ Opts(d)' = Opts(d) /\ Node(d)' = Node(d) /\ Shared(d)' = Shared(d)
                      /\ Opts(Other(d))' = Opts(Other(d)) /\ Node(Other(d))' = Node(Other(d))
  BY Zenon, SetupFixed, EndFacts
<1>3. Types'
  BY Zenon DEF IInv, Types
<1>4. Roles'
  <2> SUFFICES ASSUME NEW d \in Ends
               PROVE  /\ pc'[d] \in {"msg1", "msg3"} => ~Opts(d).initiator
                      /\ pc'[d] = "msg2" => Opts(d).initiator
                      /\ pc'[d] = "msg3" \/ peer'[d] # nil => transcript'[d] = Shared(d)
                      /\ pc'[d] \in {"confirm", "checked", "waits", "up"} => peer'[d] # nil
                      /\ peer'[d] # nil => /\ peer'[d] = Node(Other(d))
                                           /\ peer'[d] # Node(d)
                                           /\ Opts(d).initiator # Opts(Other(d)).initiator
    BY <1>2 DEF Roles, Complete
  <2>1. CASE d = e
    BY Zenon, <1>1, <2>1
  <2>2. CASE d # e
    BY <1>1, <2>2 DEF IInv, Roles, Complete
  <2> QED
    BY Zenon, <2>1, <2>2
<1> QED
  BY Zenon, <1>3, <1>4 DEF IInv

\* What an end knows by the role it has and the step it has reached.
LEMMA Known ==
  ASSUME IInv, NEW e \in Ends
  PROVE  /\ pc[e] \in {"new", "checked", "waits", "up"} \cup Receiving \cup Closed
         /\ transcript' = transcript => transcript' = [transcript EXCEPT ![e] = transcript[e]]
         /\ peer' = peer => peer' = [peer EXCEPT ![e] = peer[e]]
         /\ transcript[e] \in Transcripts
         /\ peer[e] \in Nodes \cup {nil}
         /\ pc[e] \in {"msg1", "msg3"} => ~Opts(e).initiator
         /\ pc[e] = "msg2" => Opts(e).initiator
         /\ pc[e] = "msg3" \/ peer[e] # nil => transcript[e] = Shared(e)
         /\ pc[e] \in {"confirm", "checked", "waits", "up"} => peer[e] # nil
         /\ peer[e] # nil => /\ peer[e] = Node(Other(e))
                             /\ peer[e] # Node(e)
                             /\ Opts(e).initiator # Opts(Other(e)).initiator
<1>1. pc[e] \in {"new", "checked", "waits", "up"} \cup Receiving \cup Closed
  BY Zenon DEF IInv, Types
<1>2. /\ transcript' = transcript => transcript' = [transcript EXCEPT ![e] = transcript[e]]
      /\ peer' = peer => peer' = [peer EXCEPT ![e] = peer[e]]
      /\ transcript[e] \in Transcripts
      /\ peer[e] \in Nodes \cup {nil}
  BY Zenon DEF IInv, Types
<1> QED
  BY Zenon, <1>1, <1>2 DEF IInv, Roles, Complete

\* A step that moves an end and leaves what it learnt as it is.
LEMMA MoveKeeps ==
  ASSUME IInv, WireLegal', NEW e \in Ends,
         NEW to \in {"new", "checked", "waits", "up"} \cup Receiving \cup Closed,
         pc' = [pc EXCEPT ![e] = to],
         UNCHANGED <<setup, transcript, peer>>,
         to \in {"msg1", "msg3"} => ~Opts(e).initiator,
         to = "msg2" => Opts(e).initiator,
         to # "msg3",
         to \in {"confirm", "checked", "waits", "up"} => peer[e] # nil
  PROVE  IInv'
<1> DEFINE tr == transcript[e]
           id == peer[e]
<1>1. /\ transcript' = [transcript EXCEPT ![e] = tr] /\ tr \in Transcripts
      /\ peer' = [peer EXCEPT ![e] = id] /\ id \in Nodes \cup {nil}
      /\ to = "msg3" \/ id # nil => tr = Shared(e)
      /\ to \in {"confirm", "checked", "waits", "up"} => id # nil
      /\ id # nil => /\ id = Node(Other(e))
                     /\ id # Node(e)
                     /\ Opts(e).initiator # Opts(Other(e)).initiator
  BY Zenon, Known
<1>2. setup' = setup
  BY Zenon
<1> HIDE DEF tr, id
<1> QED
  BY Zenon, <1>1, <1>2, EndStepKeeps

\* Closing an end forgets what was on its way to it.
LEMMA CloseKeeps ==
  ASSUME IInv, NEW e \in Ends, NEW how \in Closed, CloseAt(e, how)
  PROVE  IInv'
<1>1. setup' = setup /\ transcript' = transcript /\ peer' = peer /\ pc' = [pc EXCEPT ![e] = how]
  BY Zenon DEF CloseAt
<1>2. WireLegal'
  <2>1. \A d \in Ends : Legal(d)' = Legal(d)
    BY Zenon, <1>1, SetupFixed
  <2>2. wire' = [wire EXCEPT ![e] = <<>>]
    BY Zenon DEF CloseAt
  <2> QED
    BY <2>1, <2>2 DEF IInv, WireLegal
<1>3. how \in {"new", "checked", "waits", "up"} \cup Receiving \cup Closed
  BY Zenon
<1>4. how \notin {"msg1", "msg2", "msg3", "confirm", "checked", "waits", "up"}
  BY Zenon DEF Closed
<1> QED
  BY Zenon, <1>1, <1>2, <1>3, <1>4, MoveKeeps

\* The first message on the wire comes from the other end.
LEMMA HeadHonest ==
  ASSUME IInv, NEW e \in Ends, Got(e)
  PROVE  Head(wire[e]) \in Messages /\ Honest(e, Head(wire[e]))
<1>1. wire[e] \in Seq(Legal(e)) /\ wire[e] # <<>>
  BY Zenon DEF IInv, WireLegal, Got
<1>2. Head(wire[e]) \in Legal(e)
  BY Zenon, <1>1, SeqFacts
<1> QED
  BY Zenon, <1>2 DEF Legal

\* Begin takes the role it was told.
LEMMA BeginStep ==
  ASSUME IInv, NEW e \in Ends, Begin(e)
  PROVE  IInv'
<1> DEFINE to == IF Opts(e).initiator THEN "msg2" ELSE "msg1"
<1>1. /\ setup' = setup /\ transcript' = transcript /\ peer' = peer
      /\ pc[e] = "new" /\ pc' = [pc EXCEPT ![e] = to]
  BY Zenon DEF Begin
<1>2. to \in {"new", "checked", "waits", "up"} \cup Receiving \cup Closed /\ to \in {"msg1", "msg2"}
  BY Zenon DEF Receiving
<1>3. WireLegal'
  <2>1. Other(e) \in Ends
    BY Zenon, EndFacts
  <2>2. \A d \in Ends : Legal(d)' = Legal(d)
    BY Zenon, <1>1, SetupFixed
  <2>3. Opts(e).initiator => InitMessage(e) \in Legal(Other(e))
    BY Zenon, SentLegal DEF IInv, Transcripts
  <2>4. Opts(e).initiator => Append(wire[Other(e)], InitMessage(e)) \in Seq(Legal(Other(e)))
    BY Zenon, <2>1, <2>3, SeqFacts DEF IInv, WireLegal
  <2>5. \A d \in Ends : wire'[d] \in Seq(Legal(d))
    BY Zenon, <2>1, <2>4 DEF Begin, IInv, WireLegal
  <2>6. InitMessage(e) \in Messages
    BY Zenon DEF InitMessage, Messages
  <2>7. wire' \in [Ends -> Seq(Messages)]
    BY <2>1, <2>6 DEF Begin, IInv, WireLegal
  <2> QED
    BY Zenon, <2>2, <2>5, <2>7 DEF WireLegal
<1>4. /\ to \in {"msg1", "msg3"} => ~Opts(e).initiator
      /\ to = "msg2" => Opts(e).initiator
      /\ to # "msg3"
      /\ to \in {"confirm", "checked", "waits", "up"} => peer[e] # nil
  BY Zenon, <1>1
<1> HIDE DEF to
<1> QED
  BY Zenon, <1>1, <1>2, <1>3, <1>4, MoveKeeps

\* The responder answers the initiator's ephemeral key with its own.
LEMMA InitStep ==
  ASSUME IInv, NEW e \in Ends, handleInit(e)
  PROVE  IInv'
<1> DEFINE m == Head(wire[e])
           tr == <<m.eph, e>>
           out == <<Auth(e, m.eph, tr, "hs2")>>
<1>1. /\ setup' = setup /\ peer' = peer /\ pc[e] = "msg1" /\ pc' = [pc EXCEPT ![e] = "msg3"]
      /\ Got(e) /\ m.type = "init"
      /\ transcript' = [transcript EXCEPT ![e] = tr]
      /\ Exchange(e, out)
  BY Zenon DEF handleInit
<1>2. m.eph = Other(e) /\ m.eph \in Ends
  BY Zenon, <1>1, HeadHonest, EndFacts DEF Honest
<1>3. ~Opts(e).initiator
  BY Zenon, <1>1, Known
<1>4. tr = Shared(e) /\ tr \in Transcripts
  BY Zenon, <1>2, <1>3 DEF Shared, Transcripts
<1>5. Auth(e, m.eph, tr, "hs2") \in Legal(Other(e))
  BY Zenon, <1>2, <1>3, <1>4, SentLegal DEF IInv
<1>6. out \in Seq(Legal(Other(e)))
  BY <1>5
<1>7. WireLegal'
  BY Zenon, <1>1, <1>6, ExchangeLegal DEF IInv
<1>8. "msg3" \in {"new", "checked", "waits", "up"} \cup Receiving \cup Closed
  BY Zenon DEF Receiving
<1> HIDE DEF m, tr, out
<1> QED
  BY ZenonT(60), <1>1, <1>3, <1>4, <1>7, <1>8, Known, EndStepKeeps

\* Both ends finish in the same way: with the other's identity, and with the
\* transcript of their roles.
LEMMA FinishStep ==
  ASSUME IInv, NEW e \in Ends, WireLegal', Finish(e, Node(Other(e))),
         transcript' = [transcript EXCEPT ![e] = Shared(e)],
         Node(Other(e)) # Node(e),
         Opts(e).initiator # Opts(Other(e)).initiator,
         pc[e] \in {"msg2", "msg3"}
  PROVE  IInv'
<1> DEFINE to == IF Opts(e).key = nil THEN "checked" ELSE "confirm"
           id == Node(Other(e))
<1>1. setup' = setup /\ peer' = [peer EXCEPT ![e] = id] /\ pc' = [pc EXCEPT ![e] = to]
  BY Zenon DEF Finish
<1>2. id \in Nodes /\ id # nil
  BY Zenon, EndFacts, OptionFacts, HandshakeAssumption DEF IInv
<1>3. Shared(e) \in Transcripts
  BY Zenon, EndFacts DEF Shared, Transcripts
<1>4. to \in {"new", "checked", "waits", "up"} \cup Receiving \cup Closed /\ to \in {"checked", "confirm"}
  BY Zenon DEF Receiving
<1>5. /\ to \in {"msg1", "msg3"} => ~Opts(e).initiator
      /\ to = "msg2" => Opts(e).initiator
      /\ to = "msg3" \/ id # nil => Shared(e) = Shared(e)
      /\ to \in {"confirm", "checked", "waits", "up"} => id # nil
  BY Zenon, <1>2
<1> HIDE DEF to
<1> QED
  BY Zenon, <1>1, <1>2, <1>3, <1>4, <1>5, EndStepKeeps

\* The initiator accepts msg2 of a responder over its own transcript.
LEMMA AuthInitiatorStep ==
  ASSUME IInv, NEW e \in Ends, handleAuthInitiator(e)
  PROVE  IInv'
<1> DEFINE m == Head(wire[e])
           tr == <<e, m.eph>>
           out == <<Auth(e, m.eph, tr, "hs3")>> \o Confirmation(e, tr)
<1>1. /\ pc[e] = "msg2" /\ Got(e) /\ AcceptsMsg2(e, m)
      /\ transcript' = [transcript EXCEPT ![e] = tr]
      /\ Exchange(e, out)
      /\ Finish(e, m.id)
  BY Zenon DEF handleAuthInitiator
<1>2. m.type = "auth" /\ m.info = "hs2" /\ m.id # Node(e)
  BY Zenon, <1>1 DEF AcceptsMsg2, Opens
<1>3. m.eph = Other(e) /\ m.id = Node(Other(e)) /\ ~Opts(Other(e)).initiator
  BY Zenon, <1>1, <1>2, HeadHonest DEF Honest
<1>4. Opts(e).initiator /\ Other(e) \in Ends
  BY Zenon, <1>1, Known, EndFacts
<1>5. tr = Shared(e) /\ tr \in Transcripts
  BY Zenon, <1>3, <1>4 DEF Shared, Transcripts
<1>6. out \in Seq(Legal(Other(e)))
  <2>1. Auth(e, m.eph, tr, "hs3") \in Legal(Other(e)) /\ Confirmation(e, tr) \in Seq(Legal(Other(e)))
    BY Zenon, <1>3, <1>4, <1>5, SentLegal DEF IInv
  <2> HIDE DEF m, tr
  <2> QED
    BY <2>1
<1>7. WireLegal'
  BY Zenon, <1>1, <1>6, ExchangeLegal DEF IInv, Finish
<1> HIDE DEF m, tr, out
<1> QED
  BY Zenon, <1>1, <1>2, <1>3, <1>4, <1>5, <1>7, FinishStep

\* The responder accepts msg3 of an initiator over the transcript it sent.
LEMMA AuthResponderStep ==
  ASSUME IInv, NEW e \in Ends, handleAuthResponder(e)
  PROVE  IInv'
<1> DEFINE m == Head(wire[e])
<1>1. /\ pc[e] = "msg3" /\ Got(e) /\ AcceptsMsg3(e, m)
      /\ transcript' = transcript
      /\ Exchange(e, Confirmation(e, transcript[e]))
      /\ Finish(e, m.id)
  BY Zenon DEF handleAuthResponder
<1>2. m.type = "auth" /\ m.info = "hs3" /\ m.id # Node(e)
  BY Zenon, <1>1 DEF AcceptsMsg3, Opens
<1>3. m.id = Node(Other(e)) /\ Opts(Other(e)).initiator
  BY Zenon, <1>1, <1>2, HeadHonest DEF Honest
<1>4. ~Opts(e).initiator /\ transcript[e] = Shared(e) /\ transcript[e] \in Transcripts
  BY Zenon, <1>1, Known
<1>5. transcript' = [transcript EXCEPT ![e] = Shared(e)]
  BY Zenon, <1>1, <1>4, Known
<1>6. Confirmation(e, transcript[e]) \in Seq(Legal(Other(e)))
  BY Zenon, <1>4, SentLegal DEF IInv
<1>7. WireLegal'
  BY Zenon, <1>1, <1>6, ExchangeLegal DEF IInv, Finish
<1> HIDE DEF m
<1> QED
  BY Zenon, <1>1, <1>2, <1>3, <1>4, <1>5, <1>7, FinishStep

\* The confirmation moves an end that knows its peer already.
LEMMA ConfirmStep ==
  ASSUME IInv, NEW e \in Ends, ConfirmReceived(e)
  PROVE  IInv'
<1> DEFINE m == Head(wire[e])
           to == IF Confirmed(e, m) THEN "checked" ELSE "confirm"
<1>1. /\ pc[e] = "confirm" /\ Got(e)
      /\ pc' = [pc EXCEPT ![e] = IF Confirmed(e, m) THEN "checked" ELSE @]
      /\ Exchange(e, <<>>)
      /\ setup' = setup /\ transcript' = transcript /\ peer' = peer
  BY Zenon DEF ConfirmReceived
<1>2. pc' = [pc EXCEPT ![e] = to]
  BY Zenon, <1>1 DEF IInv, Types
<1>4. WireLegal'
  <2>1. <<>> \in Seq(Legal(Other(e)))
    OBVIOUS
  <2> QED
    BY Zenon, <1>1, <2>1, ExchangeLegal DEF IInv
<1>5. to \in {"new", "checked", "waits", "up"} \cup Receiving \cup Closed /\ to \in {"checked", "confirm"}
  BY Zenon DEF Receiving
<1>6. /\ to \in {"msg1", "msg3"} => ~Opts(e).initiator
      /\ to = "msg2" => Opts(e).initiator
      /\ to # "msg3"
      /\ to \in {"confirm", "checked", "waits", "up"} => peer[e] # nil
  BY Zenon, <1>1, Known
<1> HIDE DEF m, to
<1> QED
  BY Zenon, <1>1, <1>2, <1>4, <1>5, <1>6, MoveKeeps

\* Every step of runHandshake keeps the invariant.
LEMMA HandshakeKeeps ==
  ASSUME IInv, NEW e \in Ends, HandshakeStep(e)
  PROVE  IInv'
<1>1. CASE HandshakeRefused(e) \/ ConfirmRefused(e) \/ HandshakeFails(e)
  <2>1. CloseAt(e, "failed") /\ "failed" \in Closed
    BY Zenon, <1>1 DEF HandshakeRefused, ConfirmRefused, HandshakeFails, Closed
  <2> QED
    BY Zenon, <2>1, CloseKeeps
<1> QED
  BY Zenon, <1>1, BeginStep, InitStep, AuthInitiatorStep, AuthResponderStep, ConfirmStep DEF HandshakeStep

\* register keeps a checked connection, which knows its peer, and closes the one
\* it replaces.
LEMMA KeepsStep ==
  ASSUME IInv, NEW e \in Ends, RegisterKeeps(e)
  PROVE  IInv'
<1> DEFINE old == Current(e)
<1>1. /\ pc[e] = "checked"
      /\ pc' = [f \in Ends |-> IF f = e THEN "up" ELSE IF f = old THEN "dropped" ELSE pc[f]]
      /\ wire' = [f \in Ends |-> IF f = old THEN <<>> ELSE wire[f]]
      /\ UNCHANGED <<setup, transcript, peer>>
  BY Zenon DEF RegisterKeeps
<1>2. \A d \in Ends : /\ Opts(d)' = Opts(d) /\ Node(d)' = Node(d) /\ Shared(d)' = Shared(d)
                      /\ Opts(Other(d))' = Opts(Other(d)) /\ Node(Other(d))' = Node(Other(d))
                      /\ Legal(d)' = Legal(d)
  BY Zenon, <1>1, SetupFixed, EndFacts
<1>3. \A d \in Ends : pc'[d] = pc[d] \/ (pc'[d] = "up" /\ d = e) \/ pc'[d] = "dropped"
  BY Zenon, <1>1
<1> HIDE DEF old
<1>4. Types'
  <2>1. pc' \in [Ends -> {"new", "checked", "waits", "up"} \cup Receiving \cup Closed]
    BY Zenon, <1>1 DEF IInv, Types, Closed
  <2> QED
    BY Zenon, <1>1, <2>1 DEF IInv, Types
<1>5. WireLegal'
  <2>1. wire' \in [Ends -> Seq(Messages)]
    BY <1>1 DEF IInv, WireLegal
  <2>2. \A d \in Ends : wire'[d] \in Seq(Legal(d))
    BY <1>1 DEF IInv, WireLegal
  <2> QED
    BY Zenon, <1>2, <2>1, <2>2 DEF WireLegal
<1>6. Roles'
  <2> SUFFICES ASSUME NEW d \in Ends
               PROVE  /\ pc'[d] \in {"msg1", "msg3"} => ~Opts(d).initiator
                      /\ pc'[d] = "msg2" => Opts(d).initiator
                      /\ pc'[d] = "msg3" \/ peer[d] # nil => transcript[d] = Shared(d)
                      /\ pc'[d] \in {"confirm", "checked", "waits", "up"} => peer[d] # nil
                      /\ peer[d] # nil => /\ peer[d] = Node(Other(d))
                                          /\ peer[d] # Node(d)
                                          /\ Opts(d).initiator # Opts(Other(d)).initiator
    BY <1>1, <1>2 DEF Roles, Complete
  <2> QED
    BY Zenon, <1>1, <1>3, Known
<1> QED
  BY Zenon, <1>4, <1>5, <1>6 DEF IInv

\* A register that waits, and a dropConn that unregisters, move an end and send
\* nothing.
LEMMA QuietStep ==
  ASSUME IInv, NEW e \in Ends, RegisterWaits(e) \/ Unregister(e)
  PROVE  IInv'
<1>1. PICK to \in {"waits", "dropped"} :
         pc' = [pc EXCEPT ![e] = to] /\ (to = "waits" => pc[e] = "checked")
  BY Zenon DEF RegisterWaits, Unregister
<1>2. UNCHANGED <<setup, transcript, peer, wire>>
  BY Zenon DEF RegisterWaits, Unregister
<1>3. WireLegal'
  BY Zenon, <1>2, SetupFixed DEF IInv, WireLegal
<1>4. to \in {"new", "checked", "waits", "up"} \cup Receiving \cup Closed
  BY Zenon DEF Closed
<1>5. to = "waits" => peer[e] # nil
  BY Zenon, <1>1, Known
<1> QED
  BY ZenonT(60), <1>1, <1>2, <1>3, <1>4, <1>5, MoveKeeps

\* Steps that only put frames on a wire or take them off.
LEMMA WireStep ==
  ASSUME IInv, WireLegal', UNCHANGED <<setup, pc, transcript, peer>>
  PROVE  IInv'
<1>1. Types'
  BY Zenon DEF IInv, Types
<1>2. \A d \in Ends : /\ Opts(d)' = Opts(d) /\ Node(d)' = Node(d) /\ Shared(d)' = Shared(d)
                      /\ Opts(Other(d))' = Opts(Other(d)) /\ Node(Other(d))' = Node(Other(d))
  BY Zenon, SetupFixed, EndFacts
<1>3. Roles'
  BY Zenon, <1>2 DEF IInv, Roles, Complete
<1> QED
  BY Zenon, <1>1, <1>3 DEF IInv

\* Keepalive frames carry no confirmation.
LEMMA FrameStep ==
  ASSUME IInv, NEW e \in Ends, Tick(e) \/ ReadFrame(e)
  PROVE  IInv'
<1>1. UNCHANGED <<setup, pc, transcript, peer>>
  BY Zenon DEF Tick, ReadFrame
<1>2. /\ transcript[e] \in Transcripts
      /\ \A kind \in {"ping", "pong"} : Frame(kind, transcript[e], nil) \in Legal(Other(e))
  BY Zenon, Known, SentLegal DEF IInv
<1>3. Other(e) \in Ends
  BY Zenon, EndFacts
<1>4. \A d \in Ends : Legal(d)' = Legal(d) /\ Legal(d) \subseteq Messages
  BY Zenon, <1>1, SetupFixed DEF Legal
<1>5. CASE Tick(e)
  <2>1. wire' = [wire EXCEPT ![Other(e)] = IF pc[Other(e)] \in Closed THEN @
                                           ELSE Append(@, Frame("ping", transcript[e], nil))]
    BY Zenon, <1>5 DEF Tick
  <2>2. Append(wire[Other(e)], Frame("ping", transcript[e], nil)) \in Seq(Legal(Other(e)))
    BY Zenon, <1>2, <1>3, SeqFacts DEF IInv, WireLegal
  <2>3. \A d \in Ends : wire'[d] \in Seq(Legal(d))
    BY Zenon, <1>3, <2>1, <2>2 DEF IInv, WireLegal
  <2>4. Frame("ping", transcript[e], nil) \in Messages
    BY Zenon, <1>2, <1>3, <1>4
  <2>5. wire' \in [Ends -> Seq(Messages)]
    BY <1>3, <2>1, <2>4 DEF IInv, WireLegal
  <2>6. WireLegal'
    BY Zenon, <1>4, <2>3, <2>5 DEF WireLegal
  <2> QED
    BY Zenon, <1>1, <2>6, WireStep
<1>6. CASE ReadFrame(e)
  <2> DEFINE out == IF Head(wire[e]).kind = "ping" THEN <<Frame("pong", transcript[e], nil)>> ELSE <<>>
  <2>1. Exchange(e, out)
    BY Zenon, <1>6 DEF ReadFrame
  <2>2. out \in Seq(Legal(Other(e)))
    BY <1>2
  <2> HIDE DEF out
  <2>3. WireLegal'
    BY Zenon, <1>1, <2>1, <2>2, ExchangeLegal DEF IInv
  <2> QED
    BY <1>1, <2>3, WireStep
<1> QED
  BY Zenon, <1>5, <1>6

\* Every step of the two nodes keeps the invariant.
LEMMA Inductive == IInv /\ [Next]_vars => IInv'
<1> SUFFICES ASSUME IInv, [Next]_vars
             PROVE  IInv'
  BY Zenon
<1>1. ASSUME NEW e \in Ends, HandshakeStep(e), UNCHANGED nodeVars
      PROVE  IInv'
  BY Zenon, <1>1, HandshakeKeeps DEF nodeVars
<1>2. ASSUME NEW e \in Ends, RegisterRefuses(e) \/ Drop(e)
      PROVE  IInv'
  <2>1. PICK how \in Closed : CloseAt(e, how)
    BY Zenon, <1>2 DEF RegisterRefuses, Drop, Closed
  <2> QED
    BY Zenon, <2>1, CloseKeeps
<1>3. ASSUME UNCHANGED <<setup, pc, transcript, peer, wire>>
      PROVE  IInv'
  <2>1. WireLegal'
    BY Zenon, <1>3, SetupFixed DEF IInv, WireLegal
  <2> QED
    BY Zenon, <1>3, <2>1, WireStep
<1>4. ASSUME NEW e \in Ends, AnnounceLooksUp(e) \/ AnnounceMarks(e)
      PROVE  IInv'
  BY Zenon, <1>3, <1>4 DEF AnnounceLooksUp, AnnounceMarks, handshakeVars
<1>5. ASSUME NEW c \in Conns, Break(c), UNCHANGED nodeVars
      PROVE  IInv'
  BY Zenon, <1>3, <1>5 DEF Break, nodeVars
<1>6. CASE UNCHANGED vars
  BY Zenon, <1>3, <1>6 DEF vars
<1> QED
  BY Zenon, <1>1, <1>2, <1>4, <1>5, <1>6, KeepsStep, QuietStep, FrameStep DEF Next, EndStep

\* Nothing is known or sent in the beginning.
LEMMA Initially == Init => IInv
<1> SUFFICES ASSUME Init
             PROVE  IInv
  BY Zenon
<1> USE DEF Init, HandshakeInit
<1>1. Types
  BY Zenon DEF Types, Transcripts
<1>2. WireLegal
  BY DEF WireLegal
<1>3. Roles
  BY Zenon DEF Roles, Complete
<1> QED
  BY Zenon, <1>1, <1>2, <1>3 DEF IInv

-----------------------------------------------------------------------------
(* Theorems. *)

\* For any setup of any connections, matching or not, two ends that completed the
\* handshake have opposite roles, one transcript, and each other's identity.
THEOREM HandshakeAgrees == Spec => []Agreement
<1>1. IInv => Agreement
  <2> SUFFICES ASSUME IInv, NEW e \in Ends, Complete(e)
               PROVE  /\ peer[e] = Node(Other(e))
                      /\ peer[e] # Node(e)
                      /\ Complete(Other(e)) =>
                            /\ transcript[e] = transcript[Other(e)]
                            /\ Opts(e).initiator # Opts(Other(e)).initiator
    BY Zenon DEF Agreement
  <2>1. Other(e) \in Ends /\ Other(Other(e)) = e
    BY Zenon, EndFacts
  <2>2. /\ peer[e] = Node(Other(e)) /\ peer[e] # Node(e)
        /\ Opts(e).initiator # Opts(Other(e)).initiator
        /\ transcript[e] = Shared(e)
    BY Zenon DEF IInv, Roles
  <2>3. Complete(Other(e)) => transcript[Other(e)] = Shared(Other(e))
    BY Zenon, <2>1 DEF IInv, Roles
  <2>4. Opts(e).initiator \in BOOLEAN /\ Opts(Other(e)).initiator \in BOOLEAN
    BY Zenon, <2>1, OptionFacts DEF IInv
  <2>5. Shared(e) = Shared(Other(e))
    BY Zenon, <2>1, <2>2, <2>4 DEF Shared
  <2> QED
    BY Zenon, <2>2, <2>3, <2>5
<1> QED
  BY <1>1, Initially, Inductive, PTL DEF Spec
=============================================================================
