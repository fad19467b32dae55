--------------------------- MODULE MCLegacyNetwork ---------------------------
(***************************************************************************)
(* A small instance of LegacyNetwork: the node me, a peer p, an address    *)
(* that names no peer, and a wildcard listener that announces two          *)
(* addresses.                                                              *)
(***************************************************************************)
EXTENDS LegacyNetwork

CONSTANTS me, p1, h1, h2

Targets  == {<<Ip(h1), P2p(p1)>>, <<Ip(h2)>>}
Wildcard == <<Dns(h2)>>
Listens  == {Wildcard, NoAddr}
TwoInterfaces == [a \in Listens |->
                    IF a = Wildcard THEN {<<Ip(h1)>>, <<Ip(h2)>>} ELSE {a}]
FromP1 == [m \in InMsg |-> p1]
=============================================================================
