----------------------------- MODULE RelaySystem -----------------------------
(***************************************************************************)
(* A relay server and its clients, all of them nodes of meerkat-net-v2:    *)
(* how ListenViaRelay, the reservation, identify and the circuits between  *)
(* clients work together.  Each node is reduced to the arms of its event   *)
(* loop that matter for this; NetworkActor has all of them.                *)
(*                                                                         *)
(* External are identify and circuit relay v2 (libp2p), as actor.rs and    *)
(* the notes in the README of the repository use them: a relay grants every *)
(* reservation, but a client gets an address out of it only if the relay   *)
(* has an external address, which it has when identify told it one; a      *)
(* circuit needs a reservation its owner knows of; and it is cut when it   *)
(* has carried max_circuit_bytes or lasted max_circuit_duration.           *)
(***************************************************************************)
EXTENDS Naturals, FiniteSets

CONSTANTS
  Client, Message,
  Listener,              \* clients that call ListenViaRelay; others only send
  Source, Destination,   \* the clients each message is sent from and to
  Oversized,             \* messages longer than max_circuit_bytes
  MaxBreaks              \* links and circuits that break

ASSUME RelayAssumption ==
  /\ Source \in [Message -> Client] /\ Destination \in [Message -> Client]
  /\ \A m \in Message : Source[m] # Destination[m]
  /\ Listener \subseteq Client /\ Oversized \subseteq Message /\ MaxBreaks \in Nat

VARIABLES
  observed,    \* the relay has an external address
  dialling,    \* dialling[c]: dials of the relay by c that are under way
  link,        \* clients connected to the relay
  introduced,  \* clients whose identify info the relay has received
  call,        \* call[c]: the ListenViaRelay call of c, and with it pending_relay
  asking,      \* reservation requests of listen_on and their replies
  reserved,    \* clients with a reservation at the relay
  listening,   \* clients that announced a circuit address
  tries,       \* circuits being dialled, <<from, to>>
  circuit,     \* circuits that exist, {c, d}
  opening,     \* <<c, d>>: c has not seen yet that its circuit to d exists
  closing,     \* <<c, d>>: c has not seen yet that it is gone
  peers,       \* peers[c]: clients the swarm of c is connected to
  fate,        \* fate[m]: what has become of m
  breaks       \* links and circuits broken so far

callVars == <<call, asking>>
linkVars == <<dialling, link, introduced, observed, reserved, listening>>
circuitVars == <<tries, circuit, opening, closing, peers>>
vars == <<callVars, linkVars, circuitVars, fate, breaks>>

Init ==
  /\ observed = FALSE /\ dialling = [c \in Client |-> 0] /\ link = {}
  /\ introduced = {} /\ reserved = {} /\ listening = {}
  /\ call = [c \in Client |-> "none"] /\ asking = {}
  /\ tries = {} /\ circuit = {} /\ opening = {} /\ closing = {}
  /\ peers = [c \in Client |-> {}]
  /\ fate = [m \in Message |-> "new"] /\ breaks = 0

Both(c, d) == {<<c, d>>, <<d, c>>}
Between(c, d) == {m \in Message : Source[m] = c /\ Destination[m] = d}
-----------------------------------------------------------------------------
(* Reservations.                                                           *)

\* SwarmCommand::ListenViaRelay: dial the relay, connected or not.
ListenViaRelay(c) ==
  /\ call[c] = "none"
  /\ call' = [call EXCEPT ![c] = "waiting"]
  /\ dialling' = [dialling EXCEPT ![c] = @ + 1]
  /\ UNCHANGED <<asking, link, introduced, observed, reserved, listening,
                 circuitVars, fate, breaks>>

\* pending_relay holds the address of the peer that connected.
Asks(c) == call[c] = "waiting"

\* ConnectionEstablished with the relay: listen_on its circuit address.
RelayConnected(c) ==
  /\ dialling[c] > 0 /\ dialling' = [dialling EXCEPT ![c] = @ - 1]
  /\ link' = link \cup {c}
  /\ asking' = IF Asks(c)
               THEN asking \cup {[of |-> c, dial |-> dialling[c], at |-> "sent"]}
               ELSE asking
  /\ UNCHANGED <<call, introduced, observed, reserved, listening,
                 circuitVars, fate, breaks>>

\* A relay that keeps the observed address to itself.
StaysUnobserved == observed
\* swarm.add_external_address(info.observed_addr)
Observes == TRUE

\* The Identify arm of the relay: the info of c, with the address it observed.
Introduce(c) ==
  /\ c \in link \ introduced
  /\ introduced' = introduced \cup {c} /\ observed' = Observes
  /\ UNCHANGED <<callVars, dialling, link, reserved, listening,
                 circuitVars, fate, breaks>>

\* The relay (external) answers with its external addresses, if it has any.
Reserve(a) ==
  /\ a \in asking /\ a.at = "sent"
  /\ reserved' = reserved \cup {a.of}
  /\ asking' = (asking \ {a}) \cup
                 {[a EXCEPT !.at = IF observed THEN "granted" ELSE "empty"]}
  /\ UNCHANGED <<call, dialling, link, introduced, observed, listening,
                 circuitVars, fate, breaks>>

\* A listener that announces its address before it has the reservation.
AnnouncesEarly(a) == a.at # "empty"
Announces(a) == a.at = "granted"

\* NewListenAddr with the circuit address answers the call.
NewListenAddr(a) ==
  /\ a \in asking /\ Announces(a)
  /\ asking' = asking \ {a} /\ listening' = listening \cup {a.of}
  /\ call' = [call EXCEPT ![a.of] = IF @ = "waiting" THEN "ok" ELSE @]
  /\ UNCHANGED <<dialling, link, introduced, observed, reserved,
                 circuitVars, fate, breaks>>

\* NoAddressesInReservation: ListenerClosed, the `_ => {}' arm.
ListenerClosed(a) ==
  /\ a \in asking /\ a.at = "empty"
  /\ asking' = asking \ {a}
  /\ UNCHANGED <<call, linkVars, circuitVars, fate, breaks>>
-----------------------------------------------------------------------------
(* Messages over circuits.                                                 *)

\* do_send to the circuit address of the destination, from a swarm that is
\* connected to it and from one that is not.
Send(m) ==
  LET c == Source[m]  d == Destination[m] IN
  /\ fate[m] = "new"
  /\ \/ /\ d \in peers[c]
        /\ fate' = [fate EXCEPT ![m] = IF {c, d} \in circuit THEN "sent" ELSE "failed"]
        /\ UNCHANGED tries
     \/ /\ d \notin peers[c]
        /\ fate' = [fate EXCEPT ![m] = "pending"]
        /\ tries' = tries \cup {<<c, d>>}
  /\ UNCHANGED <<callVars, linkVars, circuit, opening, closing, peers, breaks>>

\* The relay transport (external) dials the relay first.
DialRelay(c, d) ==
  /\ <<c, d>> \in tries /\ c \notin link /\ dialling[c] = 0
  /\ dialling' = [dialling EXCEPT ![c] = @ + 1]
  /\ UNCHANGED <<callVars, link, introduced, observed, reserved, listening,
                 circuitVars, fate, breaks>>

\* A relay that asks nobody whether the client it calls is prepared.
Reserved(d) == d \in reserved \cap link
\* The relay has a reservation of d, and d one that it knows of.
Reachable(d) == d \in reserved \cap listening \cap link

\* Only the client that dialled is told of the circuit.
OneEnd(c, d) == {<<c, d>>}
\* Both are, and each in its own loop.
Told(c, d) == Both(c, d)

\* The circuit is set up, or refused: OutgoingConnectionError, `_ => {}'.
\* (One circuit between two clients at a time, and the next when both have
\* seen the one before.)
DialCircuit(c, d) ==
  /\ <<c, d>> \in tries /\ c \in link
  /\ Both(c, d) \cap opening = {}
  /\ tries' = tries \ {<<c, d>>}
  /\ IF {c, d} \notin circuit /\ Reachable(d)
     THEN circuit' = circuit \cup {{c, d}} /\ opening' = opening \cup Told(c, d)
     ELSE UNCHANGED <<circuit, opening>>
  /\ UNCHANGED <<callVars, linkVars, closing, peers, fate, breaks>>

\* One that leaves pending_sends to the next do_send.
FlushesNothing(c, d) == {}
\* pending_sends.remove(&peer_id)
Flushes(c, d) == {m \in Between(c, d) : fate[m] = "pending"}

\* ConnectionEstablished with a client, whoever dialled: what waits for it is
\* written, or its stream does not open any more.
Established(c, d) ==
  /\ <<c, d>> \in opening /\ d \notin peers[c]
  /\ opening' = opening \ {<<c, d>>}
  /\ peers' = [peers EXCEPT ![c] = @ \cup {d}]
  /\ fate' = [m \in Message |->
       IF m \in Flushes(c, d)
       THEN IF {c, d} \in circuit THEN "sent" ELSE "failed"
       ELSE fate[m]]
  /\ UNCHANGED <<callVars, linkVars, tries, circuit, closing, breaks>>

\* ConnectionClosed.
Closed(c, d) ==
  /\ <<c, d>> \in closing /\ d \in peers[c]
  /\ closing' = closing \ {<<c, d>>}
  /\ peers' = [peers EXCEPT ![c] = @ \ {d}]
  /\ UNCHANGED <<callVars, linkVars, tries, circuit, opening, fate, breaks>>

\* handle_incoming at the destination.
Receive(m) ==
  /\ fate[m] = "sent" /\ m \notin Oversized
  /\ fate' = [fate EXCEPT ![m] = "received"]
  /\ UNCHANGED <<callVars, linkVars, circuitVars, breaks>>
-----------------------------------------------------------------------------
(* What breaks.                                                            *)

\* Circuits go, with the messages that are on their way in them.
Cut(gone) ==
  /\ circuit' = circuit \ gone
  /\ closing' = closing \cup {p \in Client \X Client : {p[1], p[2]} \in gone}
  /\ fate' = [m \in Message |->
       IF fate[m] = "sent" /\ {Source[m], Destination[m]} \in gone
       THEN "lost" ELSE fate[m]]

\* The limit of bytes, and the limit of time.
Exceed(m) ==
  /\ fate[m] = "sent" /\ m \in Oversized
  /\ Cut({{Source[m], Destination[m]}})
  /\ UNCHANGED <<callVars, linkVars, tries, opening, peers, breaks>>

Expire(p) ==
  /\ p \in circuit /\ breaks < MaxBreaks /\ breaks' = breaks + 1
  /\ Cut({p})
  /\ UNCHANGED <<callVars, linkVars, tries, opening, peers>>

\* Circuits that outlive the connections they run over.
NoneOver(c) == {}
CircuitsOver(c) == {p \in circuit : c \in p}

\* The connection of c to the relay goes, and everything that hangs on it.
LoseLink(c) ==
  /\ c \in link /\ breaks < MaxBreaks /\ breaks' = breaks + 1
  /\ link' = link \ {c} /\ introduced' = introduced \ {c}
  /\ reserved' = reserved \ {c} /\ listening' = listening \ {c}
  /\ asking' = {a \in asking : a.of # c}
  /\ Cut(CircuitsOver(c))
  /\ UNCHANGED <<call, dialling, observed, tries, opening, peers>>

\* A dial of the relay fails, and the circuits that waited for it.
RelayDialFails(c) ==
  /\ dialling[c] > 0 /\ breaks < MaxBreaks /\ breaks' = breaks + 1
  /\ dialling' = [dialling EXCEPT ![c] = @ - 1]
  /\ tries' = IF c \in link THEN tries ELSE {t \in tries : t[1] # c}
  /\ UNCHANGED <<callVars, link, introduced, observed, reserved, listening,
                 circuit, opening, closing, peers, fate>>
-----------------------------------------------------------------------------
RelayStep ==
  \/ \E c \in Client : RelayConnected(c)
  \/ \E a \in asking : Reserve(a) \/ NewListenAddr(a) \/ ListenerClosed(a)

CircuitStep(c, d) ==
  DialRelay(c, d) \/ DialCircuit(c, d) \/ Established(c, d) \/ Closed(c, d)

Break ==
  \/ \E c \in Client : LoseLink(c) \/ RelayDialFails(c)
  \/ \E p \in circuit : Expire(p)

Next ==
  \/ \E c \in Listener : ListenViaRelay(c)
  \/ \E c \in Client : Introduce(c)
  \/ RelayStep
  \/ \E c, d \in Client : CircuitStep(c, d)
  \/ \E m \in Message : Send(m) \/ Receive(m) \/ Exceed(m)
  \/ Break

Spec == Init /\ [][Next]_vars

\* Every loop takes the events its swarm has for it, and the protocols come to
\* an end.  Nobody has to call or send, and nothing has to break.
FairSpec ==
  /\ Spec /\ WF_vars(RelayStep)
  /\ \A c, d \in Client : WF_vars(CircuitStep(c, d))
  /\ \A m \in Message : WF_vars(Receive(m) \/ Exceed(m))
-----------------------------------------------------------------------------
(* Properties.                                                             *)

TypeOK ==
  /\ observed \in BOOLEAN /\ dialling \in [Client -> Nat]
  /\ link \subseteq Client /\ breaks \in 0 .. MaxBreaks
  /\ introduced \subseteq link
  /\ reserved \subseteq link /\ listening \subseteq link
  /\ call \in [Client -> {"none", "waiting", "ok"}]
  /\ asking \subseteq [of : link, dial : Nat, at : {"sent", "granted", "empty"}]
  /\ \A p \in circuit : \E c, d \in link : p = {c, d}
  /\ tries \cup opening \cup closing \subseteq Client \X Client
  /\ peers \in [Client -> SUBSET Client]
  /\ fate \in [Message -> {"new", "pending", "sent", "received", "failed", "lost"}]

\* The address a ListenViaRelay call returned can be dialled: as long as
\* nothing breaks, its node holds the reservation and knows it.
AnswerIsDialable ==
  breaks = 0 => \A c \in Client : call[c] = "ok" => Reachable(c)

\* A client can be reached through the relay only after its own ListenViaRelay
\* call succeeded, although the relay keeps a reservation for a client whose
\* call was left without an answer.
ReachedOnlyAfterSuccess ==
  \A p \in circuit : \E c \in p : call[c] = "ok"

\* Once identify has told the relay of one client, every ListenViaRelay call
\* made from then on is answered, as long as nothing breaks.
ServedOnceIntroduced ==
  \A c \in Client :
    [](introduced # {} /\ call[c] = "none" =>
         (call[c] = "waiting" ~> call[c] = "ok" \/ breaks > 0))

\* A message that is queued while nothing is under way that could flush it.
Stranded(m) ==
  LET c == Source[m]  d == Destination[m] IN
  fate[m] = "pending" /\ <<c, d>> \notin tries \cup opening /\ d \notin peers[c]

\* Every message is received, or reported, or lost with its circuit, or it
\* stays behind in pending_sends because its circuit could not be set up.
EndsOrStranded ==
  \A m \in Message :
    fate[m] # "new" ~> fate[m] \in {"received", "failed", "lost"} \/ Stranded(m)

\* What waits for a client is written when a circuit to it exists, also when
\* the own dial failed and it was the other side that set the circuit up.
FlushedByEitherSide ==
  \A m \in Message :
    fate[m] = "pending" /\ {Source[m], Destination[m]} \in circuit
      ~> fate[m] # "pending"

\* "Clients automatically request reservation after identify completes."
ReservesAfterIdentify == \A a \in asking : a.of \in introduced
=============================================================================
