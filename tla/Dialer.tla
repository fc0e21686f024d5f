------------------------------- MODULE Dialer -------------------------------
(***************************************************************************)
(* The connection ladder of internal/rendezvous/dialer.go and proxy.go, as *)
(* functions of what the network does: when Dial returns, on which rung,   *)
(* and whether the relay's certificate was verified.  One goroutine walks  *)
(* the ladder, so there is nothing to interleave; time is counted in       *)
(* ticks.                                                                  *)
(*                                                                         *)
(* What a network does on a rung is a record: up and dial (a TCP           *)
(* connection to the relay, or to the proxy, is made or refused after so   *)
(* long), tunnel and connect (likewise for the proxy's answer to CONNECT), *)
(* cert and tls (the TLS handshake ends after so long, with a certificate  *)
(* that is accepted, one that is not, or otherwise broken), upgrade and ws *)
(* (likewise for the WebSocket upgrade).                                   *)
(***************************************************************************)
EXTENDS Integers, Sequences, SequencesExt

CONSTANTS
  RungTimeout,    \* ticks (5 s)
  NoRung

ASSUME DialerAssumption == RungTimeout \in Nat \ {0}

Ladder == <<"tls", "tls-via-proxy", "http">>
Rungs == Range(Ladder)

\* The context that supervise gives to Dial.
Budget == (Len(Ladder) + 1) * RungTimeout

\* A step that starts at t, takes d and may not last beyond its deadline.
Step(t, d, deadline, ok) ==
  IF t + d <= deadline THEN [at |-> t + d, ok |-> ok]
  ELSE [at |-> IF t > deadline THEN t ELSE deadline, ok |-> FALSE]

\* DialViaProxy: a TCP connection and a CONNECT, under the context's deadline.
DialViaProxy(net, t, ctx) ==
  LET tcp == Step(t, net.dial, ctx, net.up) IN
  IF tcp.ok THEN Step(tcp.at, net.connect, ctx, net.tunnel) ELSE tcp

dialRaw(net, proxied, t, ctx) ==
  IF proxied THEN DialViaProxy(net, t, ctx) ELSE Step(t, net.dial, ctx, net.up)

\* Pin or Verify is set: no fallback.
Strict(ep) == ep.pin \/ ep.verify

\* dialTLS: on a certificate that does not verify it dials once more without
\* verification, within the same context, unless that is ruled out.
dialTLS(ep, net, proxied, t, ctx) ==
  LET raw == dialRaw(net, proxied, t, ctx)
      hs == Step(raw.at, net.tls, ctx, net.cert = "good")
      timedOut == raw.at + net.tls > ctx
      again == dialRaw(net, proxied, hs.at, ctx)
      hs2 == Step(again.at, net.tls, ctx, net.cert # "broken")
  IN
  CASE ~raw.ok -> [at |-> raw.at, ok |-> FALSE, verified |-> FALSE]
    [] raw.ok /\ (hs.ok \/ timedOut \/ net.cert # "bad" \/ Strict(ep)) ->
         [at |-> hs.at, ok |-> hs.ok, verified |-> hs.ok]
    [] OTHER ->
         [at |-> IF again.ok THEN hs2.at ELSE again.at,
          ok |-> again.ok /\ hs2.ok, verified |-> FALSE]

\* ProxyURL fails at once when no proxy is set.
ProxyURL(ep) == ep.proxy

\* The connection of one rung, before the upgrade.
Connection(ep, net, rung, t, ctx) ==
  CASE rung = "tls" -> dialTLS(ep, net, FALSE, t, ctx)
    [] rung = "tls-via-proxy" ->
         IF ProxyURL(ep) THEN dialTLS(ep, net, TRUE, t, ctx)
                         ELSE [at |-> t, ok |-> FALSE, verified |-> FALSE]
    [] rung = "http" ->
         LET raw == Step(t, net.dial, ctx, net.up) IN
         [at |-> raw.at, ok |-> raw.ok, verified |-> FALSE]

\* DialRung: ClientHandshake has a RungTimeout of its own, counted from where it
\* starts, and does not look at the context.
DialRung(ep, net, rung, t) ==
  LET ctx == IF t + RungTimeout < Budget THEN t + RungTimeout ELSE Budget
      conn == Connection(ep, net, rung, t, ctx)
      up == Step(conn.at, net.ws, conn.at + RungTimeout, net.upgrade)
  IN
  IF conn.ok THEN [at |-> up.at, ok |-> up.ok, verified |-> conn.verified] ELSE conn

\* Dial: rung after rung, until one works or the context has ended.
Dial(ep, nets) ==
  LET Try(walk, rung) ==
        IF walk.rung # NoRung \/ (walk.tried # {} /\ walk.at >= Budget) THEN walk
        ELSE LET r == DialRung(ep, nets[rung], rung, walk.at) IN
             [at |-> r.at, tried |-> walk.tried \cup {rung},
              rung |-> IF r.ok THEN rung ELSE NoRung, verified |-> r.ok /\ r.verified]
  IN FoldLeft(Try, [at |-> 0, tried |-> {}, rung |-> NoRung, verified |-> FALSE], Ladder)

-----------------------------------------------------------------------------
\* What the ladder promises.  Dial returns in bounded time.  It finds the first
\* rung on which the relay can be reached at all, except that the slow failure
\* of both TLS rungs leaves less than a RungTimeout of supervise's context: the
\* HTTP rung is then cut short or not tried.  With a pin or with Verify a TLS
\* connection is a verified one.
LadderSound(ep, nets) ==
  LET found == Dial(ep, nets)
      usable == {r \in Rungs : DialRung(ep, nets[r], r, 0).ok}
      first == IF usable = {} THEN NoRung
               ELSE SelectSeq(Ladder, LAMBDA r : r \in usable)[1]
      direct == DialRung(ep, nets["tls"], "tls", 0).at
      proxied == DialRung(ep, nets["tls-via-proxy"], "tls-via-proxy", direct).at
  IN
  /\ found.at <= Budget + RungTimeout
  /\ found.rung # first =>
       /\ first = "http" /\ found.rung = NoRung
       /\ ep.proxy /\ proxied > Budget - RungTimeout
  /\ (Strict(ep) /\ found.rung \in {"tls", "tls-via-proxy"}) => found.verified
==============================================================================
