------------------------------- MODULE WSConn -------------------------------
(***************************************************************************)
(* A WebSocket connection of internal/rendezvous/ws.go: all goroutines of  *)
(* one end that write on it, and the reading side of the other end.        *)
(*                                                                         *)
(* At the writing end SendMessage is called by several goroutines          *)
(* (resendWaiters at a client; pair and serveConn at the relay), Ping by   *)
(* pingLoop, a pong or the echo of a close by whoever reads, and Close by  *)
(* the reader when its loop ends and by Client.Close.  They share one lock *)
(* for frames, and one write deadline that is set outside of the lock.     *)
(*                                                                         *)
(* A byte of the data stream is its position in it and the index of the    *)
(* mask byte it was combined with; it comes back only under the same       *)
(* index.  Deadlines are armed and later past; their length is left out.   *)
(***************************************************************************)
EXTENDS Integers, Sequences

CONSTANTS
  Senders,      \* goroutines that call SendMessage
  pinger,       \* pingLoop
  reader,       \* the goroutine that reads at this end
  closer,       \* a goroutine that calls Close
  MaskSize,     \* bytes of a mask (4)
  Sizes,        \* bytes of the data frames
  Buffers,      \* sizes of the buffers Read is called with
  BufCap,       \* bound: frames that the path holds before a write blocks
  MaxSends,     \* bound: SendMessage calls in all
  None

Closers == {reader, closer}
Procs == Senders \cup {pinger} \cup Closers

ASSUME WSAssumption ==
  /\ {MaskSize, BufCap} \subseteq Nat \ {0}
  /\ Sizes \subseteq Nat /\ Buffers \subseteq Nat \ {0}
  /\ MaxSends \in Nat
  /\ None \notin Procs

VARIABLES
  tls,       \* the connection under this one is TLS
  open,      \* it is not closed at the writing end
  broken,    \* TLS refuses writes after one has timed out
  wdl,       \* its write deadline: "none", "armed" or "past"
  wmu,       \* holder of WSConn.wmu
  closeOnce, \* WSConn.closeOnce: None, the goroutine inside, or "done"
  at,        \* where each goroutine is
  op,        \* the frame each goroutine is writing
  wire,      \* frames written and not yet read
  sends,     \* SendMessage calls so far
  written,   \* bytes of the data stream written so far
  rem,       \* bytes of the current data frame not yet read (WSConn.rem)
  rmaskPos,  \* WSConn.rmaskPos of the reading end
  ended,     \* how reading ended: "no", "eof", "failed", or in "garbled" bytes
  got        \* history: what Read has returned

writing == <<tls, open, broken, wdl, wmu, closeOnce, at, op, sends, written>>
reading == <<rem, rmaskPos, ended, got>>
wsVars == <<writing, wire, reading>>

-----------------------------------------------------------------------------
(* Lengths on the wire: writeFrame and nextFrame. *)

maxWSPayload == 2^20 + 1024

\* The seven bits of the length and the bytes that extend it.
lengthCode(n) ==
  CASE n < 126 -> [code |-> n, ext |-> 0, width |-> 0]
    [] n \in 126 .. 65535 -> [code |-> 126, ext |-> n % 2^16, width |-> 2]
    [] OTHER -> [code |-> 127, ext |-> n, width |-> 8]

\* What nextFrame takes the length to be; None when it refuses the frame.
decodedLength(h) ==
  LET n == IF h.code \in {126, 127} THEN h.ext ELSE h.code IN
  IF n > maxWSPayload THEN None ELSE n

-----------------------------------------------------------------------------
(* The writing end. *)

WSInit ==
  /\ tls \in BOOLEAN /\ open = TRUE /\ broken = FALSE
  /\ wdl = "none" /\ wmu = None /\ closeOnce = None
  /\ at = [p \in Procs |-> "idle"]
  /\ op = [p \in Procs |-> None]
  /\ wire = <<>> /\ sends = 0 /\ written = 0
  /\ rem = <<>> /\ rmaskPos = 0 /\ ended = "no" /\ got = <<>>

Goto(p, label) == at' = [at EXCEPT ![p] = label]
Prepare(p, opcode) ==
  /\ op' = [op EXCEPT ![p] = opcode]
  /\ Goto(p, "lock")

\* Mutation: SendMessage relies on the deadline of whoever wrote before.
SendMessageNoDeadline(p) ==
  /\ at[p] = "idle" /\ sends < MaxSends
  /\ sends' = sends + 1
  /\ Prepare(p, "binary")
  /\ UNCHANGED <<tls, open, broken, wdl, wmu, closeOnce, written, wire, reading>>

\* SendMessage encodes, sets the deadline and goes on to writeFrame.
SendMessage(p) ==
  /\ at[p] = "idle" /\ sends < MaxSends
  /\ sends' = sends + 1
  /\ wdl' = "armed"
  /\ Prepare(p, "binary")
  /\ UNCHANGED <<tls, open, broken, wmu, closeOnce, written, wire, reading>>

\* Ping, and the pong by which nextFrame answers one: neither sets a deadline.
Ping ==
  /\ at[pinger] = "idle"
  /\ Prepare(pinger, "control")
  /\ UNCHANGED <<tls, open, broken, wdl, wmu, closeOnce, sends, written, wire, reading>>

AnswerPing ==
  /\ at[reader] = "idle"
  /\ Prepare(reader, "control")
  /\ UNCHANGED <<tls, open, broken, wdl, wmu, closeOnce, sends, written, wire, reading>>

\* The close frame of the other end is echoed before Read returns io.EOF.
Echo ==
  /\ at[reader] = "idle"
  /\ Prepare(reader, "close")
  /\ UNCHANGED <<tls, open, broken, wdl, wmu, closeOnce, sends, written, wire, reading>>

\* Close is called: after a read that failed, or by another goroutine.
CallClose(p) ==
  /\ at[p] = "idle"
  /\ Goto(p, "once")
  /\ UNCHANGED <<tls, open, broken, wdl, wmu, closeOnce, op, sends, written, wire, reading>>

\* The first call sets a short deadline and writes a close frame; later ones
\* wait for it in closeOnce.Do.
EnterOnce(p) ==
  /\ at[p] = "once"
  /\ \/ /\ closeOnce = None
        /\ closeOnce' = p /\ wdl' = "armed"
        /\ Prepare(p, "close")
     \/ /\ closeOnce = "done"
        /\ Goto(p, "shut")
        /\ UNCHANGED <<closeOnce, wdl, op>>
  /\ UNCHANGED <<tls, open, broken, wmu, sends, written, wire, reading>>

\* writeFrame returns, having unlocked wmu: SendMessage still has its deferred
\* call to make, pingLoop and the reader stop after an error, and the first
\* Close leaves closeOnce.
Returns(p, ok) ==
  /\ wmu' = None
  /\ op' = [op EXCEPT ![p] = None]
  /\ closeOnce' = IF closeOnce = p THEN "done" ELSE closeOnce
  /\ Goto(p, CASE p \in Senders -> "clear"
               [] p = pinger -> IF ok THEN "idle" ELSE "done"
               [] closeOnce = p -> "shut"
               [] OTHER -> IF ok /\ op[p] = "control" THEN "idle" ELSE "once")

\* The frame of size bytes that p writes: masked from its own first byte on.
Frame(opcode, size) ==
  [op |-> opcode, torn |-> FALSE,
   bytes |-> [i \in 1 .. size |-> [pos |-> written + i, key |-> (i - 1) % MaskSize]]]
Payloads(p) == IF op[p] = "binary" THEN Sizes ELSE {0}

Writable == open /\ ~broken /\ wdl # "past"

\* Whether the path has room for a frame; the part of one takes none.  A second
\* part changes nothing for the reader and is left out.
Torn == \E i \in DOMAIN wire : wire[i].torn
HasRoom == Len(wire) < BufCap + IF Torn THEN 1 ELSE 0

\* writeFrame takes wmu and starts to write, or is refused at once.
Lock(p) ==
  /\ at[p] = "lock" /\ wmu = None
  /\ \/ /\ Writable
        /\ wmu' = p
        /\ Goto(p, "write")
        /\ UNCHANGED <<broken, closeOnce, op>>
     \/ /\ ~Writable
        /\ broken' = (broken \/ tls)
        /\ Returns(p, FALSE)
  /\ UNCHANGED <<tls, open, wdl, sends, written, wire, reading>>

\* It goes through as soon as the path has room for the frame.
WriteSucceeds(p) ==
  /\ at[p] = "write" /\ Writable /\ HasRoom
  /\ \E n \in Payloads(p) :
       /\ wire' = Append(wire, Frame(op[p], n))
       /\ written' = written + n
  /\ Returns(p, TRUE)
  /\ UNCHANGED <<tls, open, broken, wdl, sends, reading>>

\* A write whose time runs out, or whose connection is closed, under way.  It
\* may have left a part of its frame, in the last free bytes, on a connection
\* without TLS; TLS takes no further writes.
WriteFails(p) ==
  /\ at[p] = "write" /\ ~Writable
  /\ broken' = (broken \/ tls)
  /\ \/ UNCHANGED <<wire, written>>
     \/ /\ open /\ ~tls /\ ~HasRoom /\ ~Torn
        /\ \E n \in Payloads(p) : \E cut \in {0} \cup 0 .. n - 1 :
             /\ wire' = Append(wire, [Frame(op[p], cut) EXCEPT !.torn = TRUE])
             /\ written' = written + cut
  /\ Returns(p, FALSE)
  /\ UNCHANGED <<tls, open, wdl, sends, reading>>

\* SendMessage's deferred call removes the deadline, whoever set it.
Clear(p) ==
  /\ at[p] = "clear"
  /\ wdl' = "none"
  /\ Goto(p, "idle")
  /\ UNCHANGED <<tls, open, broken, wmu, closeOnce, op, sends, written, wire, reading>>

\* Close goes on to close the connection underneath.
Shut(p) ==
  /\ at[p] = "shut"
  /\ open' = FALSE
  /\ Goto(p, "done")
  /\ UNCHANGED <<tls, broken, wdl, wmu, closeOnce, op, sends, written, wire, reading>>

Expire ==
  /\ wdl = "armed"
  /\ wdl' = "past"
  /\ UNCHANGED <<tls, open, broken, wmu, closeOnce, at, op, sends, written, wire, reading>>

-----------------------------------------------------------------------------
(* The reading end. *)

\* nextFrame: control frames are consumed, an empty data frame is skipped, a
\* close frame is the end of the stream.  A frame that was cut short waits for
\* the rest of its bytes and takes what follows for them: from there on Read
\* returns anything.
nextFrame ==
  /\ ended = "no" /\ rem = <<>> /\ wire # <<>>
  /\ LET f == Head(wire) IN
     \/ /\ f.bytes # <<>>
        /\ rem' = f.bytes /\ rmaskPos' = 0
        /\ wire' = IF f.torn THEN <<[f EXCEPT !.bytes = <<>>]>> \o Tail(wire) ELSE Tail(wire)
        /\ UNCHANGED <<ended, got>>
     \/ /\ f.bytes = <<>> /\ ~f.torn
        /\ wire' = Tail(wire)
        /\ ended' = IF f.op = "close" THEN "eof" ELSE ended
        /\ UNCHANGED <<rem, rmaskPos, got>>
     \/ /\ f.bytes = <<>> /\ f.torn
        /\ \/ Len(wire) > 1 /\ ended' = "garbled" /\ got' = Append(got, None)
           \/ Len(wire) = 1 /\ ~open /\ ended' = "failed" /\ UNCHANGED got
        /\ wire' = Tail(wire)
        /\ UNCHANGED <<rem, rmaskPos>>
  /\ UNCHANGED writing

Unmasked(byte, pos) == IF byte.key = pos % MaskSize THEN byte.pos ELSE None
Taken(k, from) == got \o [i \in 1 .. k |-> Unmasked(rem[i], from + i - 1)]

\* Mutation: every call of Read starts the mask again.
ReadRestartsMask(n) ==
  /\ ended = "no" /\ rem # <<>>
  /\ LET k == IF n > Len(rem) THEN Len(rem) ELSE n IN
     /\ got' = Taken(k, 0)
     /\ rem' = SubSeq(rem, k + 1, Len(rem))
     /\ rmaskPos' = k
  /\ UNCHANGED <<writing, wire, ended>>

\* Read with a buffer of n bytes: it never crosses the end of a frame.
Read(n) ==
  /\ ended = "no" /\ rem # <<>>
  /\ LET k == IF n > Len(rem) THEN Len(rem) ELSE n IN
     /\ got' = Taken(k, rmaskPos)
     /\ rem' = SubSeq(rem, k + 1, Len(rem))
     /\ rmaskPos' = rmaskPos + k
  /\ UNCHANGED <<writing, wire, ended>>

\* The connection was closed and everything before that has been read.
Ends ==
  /\ ended = "no" /\ rem = <<>> /\ wire = <<>> /\ ~open
  /\ ended' = "failed"
  /\ UNCHANGED <<writing, wire, rem, rmaskPos, got>>

-----------------------------------------------------------------------------
Steps(p) ==
  \/ EnterOnce(p) \/ Lock(p) \/ WriteSucceeds(p) \/ WriteFails(p)
  \/ Clear(p) \/ Shut(p)

WSNext ==
  \/ \E p \in Senders : SendMessage(p)
  \/ Ping \/ AnswerPing \/ Echo
  \/ \E p \in Closers : CallClose(p)
  \/ \E p \in Procs : Steps(p)
  \/ Expire
  \/ nextFrame \/ Ends
  \/ \E n \in Buffers : Read(n)

WSSpec == WSInit /\ [][WSNext]_wsVars

\* A goroutine that can go on does, time passes, and a goroutine that waits for
\* a sync.Mutex gets it (its starvation mode).  Nothing is assumed of calls yet
\* to be made, nor of the path and the reading end: both may stop for good.
WSFairSpec ==
  /\ WSSpec
  /\ WF_wsVars(Expire)
  /\ \A p \in Procs : SF_wsVars(Steps(p))

-----------------------------------------------------------------------------
\* Both ends' fields are well formed.
WSTypeOK ==
  /\ {tls, open, broken} \subseteq BOOLEAN
  /\ wdl \in {"none", "armed", "past"}
  /\ wmu \in Procs \cup {None}
  /\ closeOnce \in Closers \cup {None, "done"}
  /\ at \in [Procs -> {"idle", "lock", "write", "clear", "once", "shut", "done"}]
  /\ op \in [Procs -> {None, "binary", "control", "close"}]
  /\ sends \in 0 .. MaxSends /\ written \in Nat
  /\ rmaskPos \in Nat
  /\ ended \in {"no", "eof", "failed", "garbled"}

\* "Frame boundaries are deliberately NOT preserved across Read": what Read
\* returns is the data stream as it was written, from its first byte on, in
\* whatever pieces it is read, and with pings, pongs and closes of other
\* goroutines in between.  Only without TLS, and only after a write that timed
\* out half way was followed by another, is anything else returned.
StreamIntact ==
  \A i \in DOMAIN got : got[i] = i \/ (~tls /\ ended = "garbled" /\ i = Len(got))

\* Goroutines that are between setting the write deadline and being done with it.
Timed == {p \in Senders : at[p] # "idle"} \cup {p \in Closers : closeOnce = p}

\* wsWriteTimeout and the deadline of Close bound every SendMessage and every
\* Close, also behind a ping or pong that is stuck on a path that no longer
\* carries anything, provided no two of these calls overlap: the deadline
\* belongs to the connection, and the first to finish removes it for both.
CallsReturn ==
  [](\A p, q \in Timed : p = q) =>
    /\ \A p \in Senders : (at[p] = "lock") ~> (at[p] = "idle")
    /\ \A p \in Closers : (at[p] = "once") ~> (at[p] = "done")
==============================================================================
