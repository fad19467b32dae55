------------------------------ MODULE Addresses ------------------------------
(***************************************************************************)
(* The addresses of the network layers, and what every layer does with     *)
(* them: test their prefix, parse them (str::parse::<Multiaddr>, external) *)
(* and take a peer out of them (extract_peer_id).                          *)
(*                                                                         *)
(* An address string is the sequence of its segments.  "/ip4/H/tcp/P" and  *)
(* "/ip4/H/tcp/P/ws" are one segment each, because no decision of the code *)
(* separates host, port and transport.  The segment Blank stands for the   *)
(* empty name between two slashes that follow each other.                  *)
(***************************************************************************)
EXTENDS Naturals, Sequences

CONSTANTS
  Peer,          \* peer identities
  NoPeer,        \* "no peer id in this address"
  Host           \* host and port pairs

Ip(h)   == [proto |-> "ip4", val |-> h]
Dns(h)  == [proto |-> "dns4", val |-> h]
P2p(p)  == [proto |-> "p2p", val |-> p]
Circuit == [proto |-> "p2p-circuit", val |-> NoPeer]
Blank   == [proto |-> "", val |-> NoPeer]

Segment == {Ip(h) : h \in Host} \cup {Dns(h) : h \in Host}
             \cup {P2p(p) : p \in Peer} \cup {Circuit, Blank}
Address == Seq(Segment)
NoAddr  == <<Blank>>   \* "/": never parsed, never bound, never announced

ASSUME AddressAssumption == NoPeer \notin Peer
-----------------------------------------------------------------------------
\* str::starts_with, on whole segments.
StartsWith(addr, prefix) ==
  /\ Len(prefix) <= Len(addr)
  /\ \A i \in 1 .. Len(prefix) : addr[i] = prefix[i]

\* str::contains("/p2p-circuit").
ContainsCircuit(addr) == \E i \in 1 .. Len(addr) : addr[i] = Circuit

\* str::starts_with("/ip4/") || str::starts_with("/ip6/").
StartsWithIp(addr) == Len(addr) > 0 /\ addr[1].proto = "ip4"

\* str::parse::<Multiaddr>() (external): no protocol has the empty name.
Parses(addr) == \A i \in 1 .. Len(addr) : addr[i] # Blank
-----------------------------------------------------------------------------
IsPeerAt(addr, i) == addr[i].proto = "p2p"

IsFirstPeerAt(addr, i) ==
  IsPeerAt(addr, i) /\ \A j \in 1 .. (i - 1) : ~IsPeerAt(addr, j)
IsLastPeerAt(addr, i) ==
  IsPeerAt(addr, i) /\ \A j \in (i + 1) .. Len(addr) : ~IsPeerAt(addr, j)

\* extract_peer_id_from_addr of MockNetwork and extract_peer_id of
\* LibP2PNetwork: the first peer id, for a circuit address the relay's.
FirstPeerId(addr) ==
  IF \E i \in 1 .. Len(addr) : IsFirstPeerAt(addr, i)
  THEN addr[CHOOSE i \in 1 .. Len(addr) : IsFirstPeerAt(addr, i)].val
  ELSE NoPeer

\* NetworkActor::extract_peer_id: the last peer id, which for a circuit
\* address is the destination and not the relay.
ExtractPeerId(addr) ==
  IF \E i \in 1 .. Len(addr) : IsLastPeerAt(addr, i)
  THEN addr[CHOOSE i \in 1 .. Len(addr) : IsLastPeerAt(addr, i)].val
  ELSE NoPeer
=============================================================================
