--------------------------- MODULE RendezvousClient ---------------------------
(***************************************************************************)
(* The supervised control connection of internal/rendezvous/client.go:     *)
(* supervise dials, re-sends what is outstanding and reads until the       *)
(* connection fails, while Publish and Claim calls register, send their    *)
(* request over whatever connection there is, and wait for the answer.     *)
(*                                                                         *)
(* Connections are numbered in the order in which they are dialled.  The   *)
(* relay is the environment: it answers, in any way and any number of      *)
(* times, requests that were written to the connection being read.         *)
(***************************************************************************)
EXTENDS Integers

CONSTANTS
  Calls,             \* calls of Publish and Claim
  Codes, rid,        \* rendezvous IDs, and the one of each call
  Claims,            \* the calls that are claims
  MaxConns,          \* bound: connections that are dialled
  Answers,           \* the answers that the relay may give
  Supervisor, nil

ASSUME ClientAssumption ==
  /\ rid \in [Calls -> Codes]
  /\ Claims \subseteq Calls
  /\ MaxConns \in Nat
  /\ Answers \subseteq {"published", "paired", "error"}
  /\ {Supervisor, nil} \cap Calls = {}
  /\ nil \notin 1 .. MaxConns

VARIABLES
  sup,      \* where supervise is
  dialled,  \* connections dialled so far; the highest is the latest
  conn,     \* Client.conn: a connection or nil
  dead,     \* connections that the network or the relay has ended
  shut,     \* connections that this side has closed
  waiters,  \* Client.waiters: the call that a code belongs to, or nil
  sent,     \* waiter.sent
  asked,    \* history: calls whose request was written to the latest connection while it lived
  published, paired,   \* the channels of a waiter: an answer or nil
  pc,       \* where a call is
  todo,     \* what a run of resendWaiters has listed and not yet sent
  on,       \* the connection that this run uses
  cur,      \* the waiter that it has sent and not yet marked, or nil
  late,     \* history: waiters marked sent when their connection was no longer in use
  failed,   \* history: a SendMessage of resendWaiters has failed on the latest connection
  cancelled,  \* history: codes whose Invite was cancelled
  closing   \* where Close is

supervisor == <<sup, dialled>>
resending == <<todo, on, cur, late, failed>>
channels == <<published, paired, cancelled>>
vars == <<sup, dialled, conn, dead, shut, waiters, sent, asked, published, paired,
          pc, todo, on, cur, late, failed, cancelled, closing>>

Threads == Calls \cup {Supervisor}
closed == closing # "no"
Usable(c) == c \notin dead \cup shut

Init ==
  /\ sup = "top"
  /\ dialled = 0
  /\ conn = nil
  /\ dead = {}
  /\ shut = {}
  /\ waiters = [r \in Codes |-> nil]
  /\ sent = [w \in Calls |-> FALSE]
  /\ asked = {}
  /\ published = [w \in Calls |-> nil]
  /\ paired = [w \in Calls |-> nil]
  /\ pc = [w \in Calls |-> "idle"]
  /\ todo = [t \in Threads |-> {}]
  /\ on = [t \in Threads |-> nil]
  /\ cur = [t \in Threads |-> nil]
  /\ late = {}
  /\ failed = FALSE
  /\ cancelled = {}
  /\ closing = "no"

-----------------------------------------------------------------------------
(* supervise. *)

\* Mutation: the client's end is not looked at.
TopForever ==
  /\ sup = "top"
  /\ sup' = "dialing"
  /\ UNCHANGED <<dialled, conn, dead, shut, waiters, sent, asked, channels, pc, resending, closing>>

\* The top of the loop, also reached after a dial that failed and its backoff.
Top ==
  /\ sup = "top"
  /\ sup' = IF closed THEN "stopped" ELSE "dialing"
  /\ UNCHANGED <<dialled, conn, dead, shut, waiters, sent, asked, channels, pc, resending, closing>>

DialFails ==
  /\ sup = "dialing"
  /\ sup' = "top"
  /\ UNCHANGED <<dialled, conn, dead, shut, waiters, sent, asked, channels, pc, resending, closing>>

\* The connection is installed; Close is not consulted again.
DialSucceeds ==
  /\ sup = "dialing"
  /\ dialled < MaxConns
  /\ dialled' = dialled + 1
  /\ conn' = dialled + 1
  /\ sup' = "connected"
  /\ asked' = {}
  /\ failed' = FALSE
  /\ UNCHANGED <<dead, shut, waiters, sent, channels, pc, todo, on, cur, late, closing>>

\* readPump returns and the connection is closed.
ReadFails ==
  /\ sup = "reading"
  /\ ~Usable(dialled)
  /\ shut' = shut \cup {dialled}
  /\ sup' = "down"
  /\ UNCHANGED <<dialled, conn, dead, waiters, sent, asked, channels, pc, resending, closing>>

\* Mutation: the waiters still count as sent.
ResetKeepsSent ==
  /\ sup = "down"
  /\ conn' = nil
  /\ sup' = "top"
  /\ UNCHANGED <<dialled, dead, shut, waiters, sent, asked, channels, pc, resending, closing>>

\* The end of the loop body.
Reset ==
  /\ sup = "down"
  /\ conn' = nil
  /\ sent' = [w \in Calls |-> IF waiters[rid[w]] = w THEN FALSE ELSE sent[w]]
  /\ sup' = "top"
  /\ UNCHANGED <<dialled, dead, shut, waiters, asked, channels, pc, resending, closing>>

-----------------------------------------------------------------------------
(* resendWaiters, run by supervise for each connection and by each register. *)

Starts(t) == IF t = Supervisor THEN sup = "connected" ELSE pc[t] = "registered"
Sending(t) == IF t = Supervisor THEN sup = "resending" ELSE pc[t] = "sending"

Goes(t, s, p) ==
  IF t = Supervisor THEN sup' = s /\ UNCHANGED pc ELSE pc' = [pc EXCEPT ![t] = p] /\ UNCHANGED sup

ListUnsent(t) ==
  /\ Starts(t)
  /\ on' = [on EXCEPT ![t] = conn]
  /\ todo' = [todo EXCEPT ![t] =
       IF conn = nil THEN {} ELSE {w \in Calls : waiters[rid[w]] = w /\ ~sent[w]}]
  /\ Goes(t, "resending", "sending")
  /\ UNCHANGED <<dialled, conn, dead, shut, waiters, sent, asked, channels, cur, late, failed, closing>>

\* SendMessage returned no error, which it also may on a connection that the
\* network has ended already.
SendsOne(t, w) ==
  /\ w \in todo[t]
  /\ cur[t] = nil
  /\ on[t] \notin shut
  /\ asked' = IF on[t] = dialled /\ on[t] \notin dead THEN asked \cup {w} ELSE asked
  /\ todo' = [todo EXCEPT ![t] = @ \ {w}]
  /\ cur' = [cur EXCEPT ![t] = w]
  /\ UNCHANGED <<supervisor, conn, dead, shut, waiters, sent, channels, pc, on, late, failed, closing>>

MarksSent(t) ==
  /\ cur[t] # nil
  /\ sent' = [sent EXCEPT ![cur[t]] = TRUE]
  /\ cur' = [cur EXCEPT ![t] = nil]
  /\ late' = IF on[t] = conn THEN late \ {cur[t]} ELSE late \cup {cur[t]}
  /\ UNCHANGED <<supervisor, conn, dead, shut, waiters, asked, channels, pc, todo, on, failed, closing>>

\* SendMessage returned an error: the run is over, with what it still had to send.
\* A write may also run into its deadline on a connection that is read on.
SendFails(t) ==
  /\ todo[t] # {}
  /\ cur[t] = nil
  /\ todo' = [todo EXCEPT ![t] = {}]
  /\ failed' = (failed \/ on[t] = dialled)
  /\ UNCHANGED <<supervisor, conn, dead, shut, waiters, sent, asked, channels, pc, on, cur, late, closing>>

ResendEnds(t) ==
  /\ Sending(t)
  /\ todo[t] = {}
  /\ cur[t] = nil
  /\ Goes(t, "reading", "waiting")
  /\ on' = [on EXCEPT ![t] = nil]
  /\ UNCHANGED <<dialled, conn, dead, shut, waiters, sent, asked, channels, todo, cur, late, failed, closing>>

-----------------------------------------------------------------------------
(* Publish, Claim and Invite.Wait. *)

\* A code that is already outstanding is refused and leaves everything as it was.
register(w) ==
  /\ pc[w] = "idle"
  /\ waiters[rid[w]] = nil
  /\ waiters' = [waiters EXCEPT ![rid[w]] = w]
  /\ pc' = [pc EXCEPT ![w] = "registered"]
  /\ UNCHANGED <<supervisor, conn, dead, shut, sent, asked, channels, resending, closing>>

\* Publish is acknowledged; the Invite that it returns waits for a peer.
Acknowledged(w) ==
  /\ pc[w] = "waiting"
  /\ w \notin Claims
  /\ published[w] = "published"
  /\ published' = [published EXCEPT ![w] = nil]
  /\ pc' = [pc EXCEPT ![w] = "invited"]
  /\ UNCHANGED <<supervisor, conn, dead, shut, waiters, sent, asked, paired, cancelled, resending, closing>>

\* The call is over: whatever is registered for its code goes, and the waiter with
\* what its channels still hold.
unregister(w, to) ==
  /\ waiters' = [waiters EXCEPT ![rid[w]] = nil]
  /\ published' = [published EXCEPT ![w] = nil]
  /\ paired' = [paired EXCEPT ![w] = nil]
  /\ pc' = [pc EXCEPT ![w] = to]
  /\ UNCHANGED <<supervisor, conn, dead, shut, sent, asked, cancelled, resending, closing>>

\* Mutation: Claim returns without its deferred unregister.
CallEndsRegistered(w) ==
  /\ pc[w] = "waiting"
  /\ pc' = [pc EXCEPT ![w] = "returned"]
  /\ UNCHANGED <<supervisor, conn, dead, shut, waiters, sent, asked, channels, resending, closing>>

\* Every other way out of Publish and Claim: an answer or a refusal, Close, the
\* caller's deadline.
CallEnds(w) == pc[w] = "waiting" /\ unregister(w, "returned")

\* The same for Wait of the Invite.
WaitEnds(w) == pc[w] = "invited" /\ unregister(w, "waited")

\* Cancel of the Invite, during Wait or after it: the code is given up, the waiter
\* is not told.
Cancel(w) ==
  /\ pc[w] \in {"invited", "waited"}
  /\ waiters' = [waiters EXCEPT ![rid[w]] = nil]
  /\ cancelled' = cancelled \cup {rid[w]}
  /\ UNCHANGED <<supervisor, conn, dead, shut, sent, asked, published, paired, pc, resending, closing>>

\* Mutation: every message is offered to both phases, as an error is.
dispatchBoth(r, answer) ==
  LET w == waiters[r]
      Into(ch) == IF ch[w] = nil THEN [ch EXCEPT ![w] = answer] ELSE ch IN
  /\ sup = "reading"
  /\ \E v \in Calls : rid[v] = r /\ v \in asked
  /\ w # nil
  /\ published' = Into(published)
  /\ paired' = Into(paired)
  /\ UNCHANGED <<supervisor, conn, dead, shut, waiters, sent, asked, pc, cancelled, resending, closing>>

\* dispatch.  An error is delivered to both channels.
dispatch(r, answer) ==
  LET w == waiters[r]
      Into(ch) == IF ch[w] = nil THEN [ch EXCEPT ![w] = answer] ELSE ch IN
  /\ sup = "reading"
  /\ \E v \in Calls : rid[v] = r /\ v \in asked
  /\ w # nil
  /\ published' = IF answer \in {"published", "error"} THEN Into(published) ELSE published
  /\ paired' = IF answer \in {"paired", "error"} THEN Into(paired) ELSE paired
  /\ UNCHANGED <<supervisor, conn, dead, shut, waiters, sent, asked, pc, cancelled, resending, closing>>

-----------------------------------------------------------------------------
(* The network and Close. *)

ConnDies ==
  /\ dialled > 0
  /\ Usable(dialled)
  /\ dead' = dead \cup {dialled}
  /\ UNCHANGED <<supervisor, conn, shut, waiters, sent, asked, channels, pc, resending, closing>>

Close ==
  /\ closing = "no"
  /\ closing' = "signalled"
  /\ UNCHANGED <<supervisor, conn, dead, shut, waiters, sent, asked, channels, pc, resending>>

CloseConn ==
  /\ closing = "signalled"
  /\ closing' = "returned"
  /\ shut' = IF conn = nil THEN shut ELSE shut \cup {conn}
  /\ conn' = nil
  /\ UNCHANGED <<supervisor, dead, waiters, sent, asked, channels, pc, resending>>

-----------------------------------------------------------------------------
supervise == Top \/ DialFails \/ DialSucceeds \/ ReadFails \/ Reset

resendWaiters(t) ==
  ListUnsent(t) \/ MarksSent(t) \/ SendFails(t) \/ ResendEnds(t) \/ \E w \in Calls : SendsOne(t, w)

Next ==
  \/ supervise
  \/ \E t \in Threads : resendWaiters(t)
  \/ \E w \in Calls : register(w) \/ Acknowledged(w) \/ CallEnds(w) \/ WaitEnds(w) \/ Cancel(w)
  \/ \E r \in Codes, answer \in Answers : dispatch(r, answer)
  \/ ConnDies \/ Close \/ CloseConn

Spec == Init /\ [][Next]_vars

\* supervise keeps running: a dial and a write are bounded by their deadlines.  A
\* read has none: nothing makes the network end a connection.
Fairness == WF_vars(supervise) /\ WF_vars(resendWaiters(Supervisor))

FairSpec == Spec /\ Fairness

-----------------------------------------------------------------------------
\* The client's fields, the waiters' channels and the calls are well formed.
TypeOK ==
  /\ sup \in {"top", "dialing", "connected", "resending", "reading", "down", "stopped"}
  /\ dialled \in 0 .. MaxConns
  /\ conn \in 1 .. dialled \cup {nil}
  /\ dead \in SUBSET (1 .. dialled)
  /\ shut \in SUBSET (1 .. dialled)
  /\ waiters \in [Codes -> Calls \cup {nil}]
  /\ sent \in [Calls -> BOOLEAN]
  /\ asked \in SUBSET Calls
  /\ published \in [Calls -> {"published", "error", nil}]
  /\ paired \in [Calls -> {"paired", "error", nil}]
  /\ pc \in [Calls -> {"idle", "registered", "sending", "waiting", "invited", "waited", "returned"}]
  /\ todo \in [Threads -> SUBSET Calls]
  /\ on \in [Threads -> 1 .. dialled \cup {nil}]
  /\ cur \in [Threads -> Calls \cup {nil}]
  /\ late \in SUBSET Calls
  /\ failed \in BOOLEAN
  /\ cancelled \in SUBSET Codes
  /\ closing \in {"no", "signalled", "returned"}

\* A call that waits for the relay while the connection is up and read.
Outstanding(w) ==
  /\ sup = "reading"
  /\ Usable(dialled)
  /\ waiters[rid[w]] = w
  /\ pc[w] \in {"waiting", "invited"}

\* Whatever connections came and went, and whoever ran resendWaiters, the relay
\* was asked over the connection in use for every call that waits; or a write has
\* failed on that connection and the call is still to be sent; or the call was
\* marked as sent after the connection it was sent on was replaced.
OutstandingIsAsked ==
  \A w \in Calls : (Outstanding(w) /\ w \notin late) =>
    w \in asked \/ (failed /\ ~sent[w])

\* The call of w is under way.
Active(w) == pc[w] \in {"registered", "sending", "waiting", "invited"}

\* An entry of waiters goes with its call, on every way out of it, so that a code
\* can be used again; and a call keeps its entry until then, against other calls
\* of its code that come and go, unless an Invite of that code was cancelled
\* (Wait, which goes on, then removes the entry of a later call).
CodesLeadToCalls ==
  /\ \A r \in Codes : waiters[r] # nil => rid[waiters[r]] = r /\ Active(waiters[r])
  /\ \A w \in Calls : Active(w) => waiters[rid[w]] = w \/ rid[w] \in cancelled

\* After Close, supervise stops, unless the dial that Close came into succeeded: it
\* then reads the connection that it installed after Close, until the relay ends
\* it, and stops then.
SuperviseStops ==
  (closing = "returned") ~>
    (sup = "stopped" \/ (sup = "reading" /\ conn = dialled /\ Usable(dialled)))
==============================================================================
