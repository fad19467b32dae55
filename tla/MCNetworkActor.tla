--------------------------- MODULE MCNetworkActor ---------------------------
(***************************************************************************)
(* Small instances of NetworkActor.  me is the node; p and q are peers; r  *)
(* is a relay.  Each configuration picks the addresses, the moves of the   *)
(* environment and the bounds its question needs.                          *)
(***************************************************************************)
EXTENDS NetworkActor

CONSTANTS me, p, q, r, h1, h2, m1, m2

Nowhere == {}
NoBinds == [a \in {} |-> {}]
NoFrom  == [m \in {} |-> p]

RelayAtR == <<Ip(h2), P2p(r)>>
RelayAtP == <<Ip(h2), P2p(p)>>

\* Sending: one peer, whose address nothing translates.
PeerP == <<Ip(h1), P2p(p)>>
OneTarget  == {PeerP}

\* A browser's view: a peer behind its own relay, the relay itself under a
\* name, an address without a peer and one that does not parse.
BehindRelay == RelayAtP \o <<Circuit, P2p(q)>>
BrowserTargets == {BehindRelay, <<Dns(h1), P2p(p)>>, <<Dns(h1)>>, NoAddr}

\* Listening: a fixed address, which announces itself, and a wildcard, which
\* announces one address for each interface.
Fixed    == <<Ip(h1)>>
Wildcard == <<Dns(h2)>>
Interfaces == {<<Ip(h1)>>, <<Ip(h2)>>}
BothListens == {Fixed, Wildcard, NoAddr}
BothBinds == [a \in BothListens |-> IF a = Wildcard THEN Interfaces ELSE {a}]
RelayR == {RelayAtR}

FromP == [m \in InMsg |-> p]
=============================================================================
