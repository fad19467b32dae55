---------------------------- MODULE MCMockNetwork ----------------------------
(***************************************************************************)
(* Small instances of MockNetwork: nodes a and b, names x and y.           *)
(***************************************************************************)
EXTENDS MockNetwork

CONSTANTS a, b, x, y, h

Base1 == <<Ip(h)>>
At(id) == Base1 \o <<P2p(id)>>

\* Nodes may be created at the same nanosecond of a second, or not.
AnyName == [n \in Node |-> {x, y}]

\* Peers that are there or come later, and an address without a peer.
Direct == {At(x), At(y), Base1}
=============================================================================
