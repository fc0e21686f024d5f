--------------------------------- MODULE Link ---------------------------------
(***************************************************************************)
(* What decides, in the steady state, that a connection is dead: the read  *)
(* deadline that internal/transport/transport.go sets on every Recv, and   *)
(* the keepalive of internal/session/manager.go (a ping per interval, a    *)
(* count of those unanswered).  Both ends of one connection, in discrete   *)
(* time.                                                                   *)
(*                                                                         *)
(* The path delivers in order, within MaxDelay, until one or both of its   *)
(* directions go dark: from then on that direction carries nothing and     *)
(* nobody is told.                                                         *)
(***************************************************************************)
EXTENDS Integers, Sequences

CONSTANTS
  A, B,                 \* the two ends
  IOTimeout,            \* of a read (30 s)
  keepaliveInterval,    \* between pings (20 s)
  keepaliveMisses,      \* unanswered pings that are tolerated (3)
  MaxDelay,             \* of a frame, while its direction works
  MaxSkew,              \* between the two ends' registration
  MaxChats              \* bound: chat messages in flight in one direction

Ends == {A, B}
Peer(e) == IF e = A THEN B ELSE A

\* The slack that the constants of the code leave: a ping is sent and arrives
\* before the read deadline that started with the previous one, and that deadline
\* is over before the count of unanswered pings is.
ASSUME LinkAssumption ==
  /\ A # B
  /\ {IOTimeout, keepaliveInterval, keepaliveMisses} \subseteq Nat \ {0}
  /\ {MaxDelay, MaxSkew, MaxChats} \subseteq Nat
  /\ keepaliveInterval + MaxDelay + MaxSkew < IOTimeout
  /\ 2 * MaxDelay < keepaliveInterval
  /\ MaxSkew <= keepaliveInterval
  /\ IOTimeout < (keepaliveMisses - 1) * keepaliveInterval

VARIABLES
  up,          \* the ends that have not dropped the connection
  idle,        \* time since Recv was called
  ticker,      \* time until the ticker fires
  unanswered,  \* conn.unanswered
  pipe,        \* pipe[e]: frames from e to its peer, each with its age
  dark,        \* ends whose frames no longer get through
  darkFor,     \* time since a direction first went dark
  crowded      \* history: ends that had a ping or a pong refused by a full queue

vars == <<up, idle, ticker, unanswered, pipe, dark, darkFor, crowded>>

Bound == 2 * IOTimeout + MaxDelay

\* Each end has registered the connection, one up to MaxSkew before the other.
Init ==
  /\ up = Ends
  /\ \E lead \in 0 .. MaxSkew :
       /\ idle = [e \in Ends |-> IF e = A THEN lead ELSE 0]
       /\ ticker = [e \in Ends |-> keepaliveInterval - IF e = A THEN lead ELSE 0]
  /\ unanswered = [e \in Ends |-> 0]
  /\ pipe = [e \in Ends |-> <<>>]
  /\ dark = {}
  /\ darkFor = 0
  /\ crowded = {}

\* enqueue and writeLoop: the frame is on its way, or lost in the dark or at an
\* end that has closed.
Sent(e, typ) ==
  IF e \in dark \/ Peer(e) \notin up THEN pipe[e]
  ELSE Append(pipe[e], [typ |-> typ, age |-> 0])

\* dropConn: the socket closes, what is on its way to it is lost and, if the path
\* works, the other end is told.
Dropped(e) ==
  /\ up' = up \ {e}
  /\ pipe' = [d \in Ends |-> IF d = e THEN Sent(e, "fin") ELSE <<>>]

\* enqueue finds conn.send full: messages of the user may fill it at any time,
\* faster than writeLoop empties it.
Full(e) == crowded' = crowded \cup {e}

\* keepaliveLoop, when its ticker fires: too many pings are unanswered, or one
\* more is sent, or the queue has no room for it.
Tick(e) ==
  /\ e \in up /\ ticker[e] = 0
  /\ ticker' = [ticker EXCEPT ![e] = keepaliveInterval]
  /\ unanswered' = [unanswered EXCEPT ![e] = @ + 1]
  /\ \/ /\ unanswered'[e] > keepaliveMisses
        /\ Dropped(e)
        /\ UNCHANGED crowded
     \/ /\ unanswered'[e] <= keepaliveMisses
        /\ pipe' = [pipe EXCEPT ![e] = Sent(e, "ping")]
        /\ UNCHANGED <<up, crowded>>
     \/ /\ unanswered'[e] <= keepaliveMisses
        /\ Full(e)
        /\ Dropped(e)
  /\ UNCHANGED <<idle, dark, darkFor>>

\* Send by the user.
Chat(e) ==
  /\ e \in up /\ Len(SelectSeq(pipe[e], LAMBDA f : f.typ = "chat")) < MaxChats
  /\ pipe' = [pipe EXCEPT ![e] = Sent(e, "chat")]
  /\ UNCHANGED <<up, idle, ticker, unanswered, dark, darkFor, crowded>>

\* Mutation: the deadline of the first Recv is never moved.
RecvKeepsDeadline(e) == UNCHANGED idle

\* Recv is called again, with a new deadline.
Recv(e) == idle' = [idle EXCEPT ![e] = 0]

\* readLoop takes one frame from its peer: a ping is answered, unless the queue is
\* full, which readLoop does not notice; a pong clears the count; the end of the
\* stream ends the connection.
ReadFrame(e) ==
  /\ e \in up /\ pipe[Peer(e)] # <<>>
  /\ LET typ == Head(pipe[Peer(e)]).typ
         rest == [pipe EXCEPT ![Peer(e)] = Tail(@)] IN
     \/ /\ typ = "ping"
        /\ pipe' = [rest EXCEPT ![e] = Sent(e, "pong")]
        /\ Recv(e)
        /\ UNCHANGED <<up, unanswered, crowded>>
     \/ /\ typ = "ping"
        /\ Full(e)
        /\ pipe' = rest
        /\ Recv(e)
        /\ UNCHANGED <<up, unanswered>>
     \/ /\ typ = "pong"
        /\ unanswered' = [unanswered EXCEPT ![e] = 0]
        /\ pipe' = rest
        /\ Recv(e)
        /\ UNCHANGED <<up, crowded>>
     \/ /\ typ = "chat"
        /\ pipe' = rest
        /\ Recv(e)
        /\ UNCHANGED <<up, unanswered, crowded>>
     \/ /\ typ = "fin"
        /\ Dropped(e)
        /\ UNCHANGED <<idle, unanswered, crowded>>
  /\ UNCHANGED <<ticker, dark, darkFor>>

\* Mutation: a read has no deadline, as after ClearDeadline.
NoDeadline(e) == FALSE

\* The deadline of the current Recv is over.
DeadlinePast(e) == idle[e] >= IOTimeout

\* readLoop ends and drops the connection.
ReadTimesOut(e) ==
  /\ e \in up /\ DeadlinePast(e)
  /\ Dropped(e)
  /\ UNCHANGED <<idle, ticker, unanswered, dark, darkFor, crowded>>

\* writeLoop: Send runs into its deadline as nothing gets through, or the other
\* end has closed.
WriteFails(e) ==
  /\ e \in up /\ (e \in dark \/ Peer(e) \notin up)
  /\ Dropped(e)
  /\ UNCHANGED <<idle, ticker, unanswered, dark, darkFor, crowded>>

\* One or both directions stop carrying frames, with those on their way.
GoDark(lost) ==
  /\ lost # {} /\ lost \cap dark = {}
  /\ dark' = dark \cup lost
  /\ pipe' = [e \in Ends |-> IF e \in lost THEN <<>> ELSE pipe[e]]
  /\ UNCHANGED <<up, idle, ticker, unanswered, darkFor, crowded>>

Aged(q) == [i \in DOMAIN q |-> [typ |-> q[i].typ, age |-> q[i].age + 1]]

\* Time passes, but not past a ticker, a deadline or a frame for an end that is
\* up, once it is due.
Pass ==
  /\ \A e \in up : ticker[e] > 0 /\ ~DeadlinePast(e)
  /\ \A e \in up : \A i \in DOMAIN pipe[Peer(e)] : pipe[Peer(e)][i].age < MaxDelay
  /\ idle' = [e \in Ends |-> IF e \in up /\ idle[e] < IOTimeout THEN idle[e] + 1 ELSE idle[e]]
  /\ ticker' = [e \in Ends |-> IF e \in up THEN ticker[e] - 1 ELSE 0]
  /\ pipe' = [e \in Ends |-> Aged(pipe[e])]
  /\ darkFor' = IF dark # {} /\ darkFor <= Bound THEN darkFor + 1 ELSE darkFor
  /\ UNCHANGED <<up, unanswered, dark, crowded>>

Next ==
  \/ \E e \in Ends : Tick(e) \/ Chat(e) \/ ReadFrame(e) \/ ReadTimesOut(e) \/ WriteFails(e)
  \/ \E lost \in SUBSET Ends : GoDark(lost)
  \/ Pass

Spec == Init /\ [][Next]_vars

-----------------------------------------------------------------------------
\* The timers and counts of both ends are within their limits.
TypeOK ==
  /\ up \subseteq Ends /\ dark \subseteq Ends /\ crowded \subseteq Ends
  /\ idle \in [Ends -> 0 .. IOTimeout]
  /\ ticker \in [Ends -> 0 .. keepaliveInterval]
  /\ unanswered \in [Ends -> 0 .. keepaliveMisses + 1]
  /\ darkFor \in 0 .. Bound + 1

\* A connection whose path works is never dropped, idle or not, unless a ping or
\* a pong was refused by a full send queue: one keepalive interval and the delays
\* of the path fit into the read deadline, and every pong comes before the next
\* ping.  At most one ping is open.
HealthyStays ==
  dark = {} /\ crowded = {} => up = Ends /\ \A e \in Ends : unanswered[e] <= 1

\* A path that goes dark, in one direction or both, at once or one after the
\* other, ends at both ends within two read deadlines and a delay: by the
\* deadline where nothing arrives any more, and through that end's closing, or
\* a deadline of its own, at the other.  It is not the count that ends it: while
\* both are up, and no queue was full, no tick finds keepaliveMisses unanswered.
DarkEnds ==
  /\ darkFor > Bound => up = {}
  /\ up = Ends /\ crowded = {} => \A e \in Ends : ticker[e] = 0 => unanswered[e] < keepaliveMisses
==============================================================================
