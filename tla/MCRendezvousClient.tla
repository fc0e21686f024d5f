-------------------------- MODULE MCRendezvousClient --------------------------
(* Instances of RendezvousClient for TLC. *)
EXTENDS RendezvousClient, Dialer, TLC

CONSTANTS w1, w2, r1

\* A publish and a claim with the same code.
OneCode == w1 :> r1 @@ w2 :> r1

-----------------------------------------------------------------------------
(* The ladder that supervise walks, with a RungTimeout of 2 ticks. *)

Never == Budget + 1
Upgrades == {[upgrade |-> TRUE, ws |-> 0], [upgrade |-> TRUE, ws |-> RungTimeout],
             [upgrade |-> FALSE, ws |-> 0], [upgrade |-> TRUE, ws |-> Never]}
Closed == [up |-> FALSE, dial |-> 0, tunnel |-> TRUE, connect |-> 0,
           cert |-> "good", tls |-> 0, upgrade |-> FALSE, ws |-> 0]
Unreachable == {[Closed EXCEPT !.dial = d] : d \in {0, RungTimeout, Never}}
Networks(dials, certs, handshakes) ==
  Unreachable \cup
  {[Closed EXCEPT !.up = TRUE, !.dial = d, !.cert = c, !.tls = h, !.upgrade = u.upgrade, !.ws = u.ws] :
     d \in dials, c \in certs, h \in handshakes, u \in Upgrades}
TLSNetworks == Networks({0, RungTimeout}, {"good", "bad", "broken"}, {0, 1, Never})
HTTPNetworks == Networks({0, RungTimeout}, {"good"}, {0})

\* The proxy refuses the tunnel, or takes its time to answer.
Proxies ==
  TLSNetworks \cup
  {[Closed EXCEPT !.up = TRUE, !.upgrade = TRUE, !.tunnel = k, !.connect = d, !.cert = c] :
     k \in BOOLEAN, d \in {1, RungTimeout, Never}, c \in {"good", "bad"}}
Endpoints == [pin : {FALSE}, verify : BOOLEAN, proxy : BOOLEAN]

\* The ladder is sound on every network whose steps fail at once, succeed at
\* once, take as long as a rung may, or never end.
ASSUME LaddersSound ==
  \A ep \in Endpoints : \A a \in TLSNetworks, c \in HTTPNetworks :
    \A b \in IF ep.proxy THEN Proxies ELSE {a} :
      LadderSound(ep, "tls" :> a @@ "tls-via-proxy" :> b @@ "http" :> c)
==============================================================================
