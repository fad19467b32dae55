-------------------------- MODULE RelaySystemProofs --------------------------
(***************************************************************************)
(* What holds of a relay and its clients for any number of clients, any    *)
(* messages, and any number of links and circuits that break.              *)
(***************************************************************************)
EXTENDS RelaySystem, TLAPS

(* The inductive invariant: what a reservation request, a client that      *)
(* announced its address, and a call that succeeded look like.             *)

CallTypes ==
  /\ call \in [Client -> {"none", "waiting", "ok"}] /\ breaks \in Nat
  /\ link \subseteq Client /\ reserved \subseteq link /\ listening \subseteq link

AskInv ==
  \A a \in asking : /\ a.of \in link /\ call[a.of] \in {"waiting", "ok"}
                    /\ a.at = "granted" => a.of \in reserved

ListenInv == \A c \in listening : call[c] = "ok"

IInv == CallTypes /\ AskInv /\ ListenInv /\ AnswerIsDialable /\ ReachedOnlyAfterSuccess

\* A field that is updated, and those that are not.
LEMMA RequestUpdated ==
  ASSUME NEW a, a \in [of : Client, dial : Nat, at : {"sent", "granted", "empty"}],
         NEW s \in {"sent", "granted", "empty"}
  PROVE  [a EXCEPT !.at = s].of = a.of /\ [a EXCEPT !.at = s].at = s
OBVIOUS
-----------------------------------------------------------------------------
(* Each action keeps it.                                                   *)

LEMMA InitInv ==
  ASSUME RelayAssumption, Init
  PROVE  IInv
BY DEF RelayAssumption, Init, IInv, CallTypes, AskInv, ListenInv, AnswerIsDialable,
       ReachedOnlyAfterSuccess

\* A call begins: its client had none before.
LEMMA ListenViaRelayInv ==
  ASSUME RelayAssumption, IInv, NEW c \in Listener, ListenViaRelay(c)
  PROVE  IInv'
<1>1. /\ call[c] = "none" /\ c \in Client /\ call' = [call EXCEPT ![c] = "waiting"]
      /\ UNCHANGED <<asking, link, reserved, listening, circuit, breaks>>
  BY DEF ListenViaRelay, RelayAssumption, circuitVars
<1>2. CallTypes' /\ \A d \in Client : call[d] = "ok" <=> call'[d] = "ok"
  BY <1>1 DEF IInv, CallTypes
<1>3. AskInv' /\ ListenInv'
  BY <1>1, <1>2 DEF IInv, CallTypes, AskInv, ListenInv
<1>4. AnswerIsDialable'
  BY <1>1, <1>2 DEF IInv, AnswerIsDialable, Reachable
<1>5. \A p \in circuit : \E d \in p : call'[d] = "ok"
  <2>1. \A d : call[d] = "ok" => call'[d] = "ok"
    BY <1>1 DEF IInv, CallTypes
  <2> QED
    BY <2>1 DEF IInv, ReachedOnlyAfterSuccess
<1> QED
  BY <1>1, <1>2, <1>3, <1>4, <1>5 DEF IInv, ReachedOnlyAfterSuccess

\* The relay is connected, and a waiting call asks for its reservation.
LEMMA RelayConnectedInv ==
  ASSUME RelayAssumption, IInv, NEW c \in Client, RelayConnected(c)
  PROVE  IInv'
<1>1. /\ link' = link \cup {c}
      /\ UNCHANGED <<call, reserved, listening, circuit, breaks>>
  BY DEF RelayConnected, circuitVars
<1>2. \A a \in asking' : a \in asking \/ (a.of = c /\ a.at = "sent" /\ call[c] = "waiting")
  BY DEF RelayConnected, Asks
<1>3. CallTypes' /\ AskInv' /\ ListenInv'
  BY <1>1, <1>2 DEF IInv, CallTypes, AskInv, ListenInv
<1>4. AnswerIsDialable' /\ ReachedOnlyAfterSuccess'
  BY <1>1 DEF IInv, AnswerIsDialable, ReachedOnlyAfterSuccess, Reachable
<1> QED
  BY <1>3, <1>4 DEF IInv

\* The relay answers a request.
LEMMA ReserveInv ==
  ASSUME RelayAssumption, IInv, TypeOK, NEW a \in asking, Reserve(a)
  PROVE  IInv'
<1>1. /\ reserved' = reserved \cup {a.of}
      /\ UNCHANGED <<call, link, listening, circuit, breaks>>
  BY DEF Reserve, circuitVars
<1>2. a \in [of : Client, dial : Nat, at : {"sent", "granted", "empty"}]
  BY DEF TypeOK, IInv, AskInv, CallTypes
<1>3. \A b \in asking' : b \in asking \/ b.of = a.of
  BY <1>2, RequestUpdated DEF Reserve
<1>4. a.of \in link /\ call[a.of] \in {"waiting", "ok"}
  BY DEF IInv, AskInv
<1>5. CallTypes' /\ AskInv' /\ ListenInv'
  BY <1>1, <1>3, <1>4 DEF IInv, CallTypes, AskInv, ListenInv
<1>6. AnswerIsDialable' /\ ReachedOnlyAfterSuccess'
  BY <1>1 DEF IInv, AnswerIsDialable, ReachedOnlyAfterSuccess, Reachable
<1> QED
  BY <1>5, <1>6 DEF IInv

\* The address is announced and answers the call.
LEMMA NewListenAddrInv ==
  ASSUME RelayAssumption, IInv, NEW a \in asking, NewListenAddr(a)
  PROVE  IInv'
<1>1. /\ a.at = "granted" /\ asking' \subseteq asking
      /\ listening' = listening \cup {a.of}
      /\ call' = [call EXCEPT ![a.of] = IF @ = "waiting" THEN "ok" ELSE @]
      /\ UNCHANGED <<link, reserved, circuit, breaks>>
  BY DEF NewListenAddr, Announces, circuitVars
<1>2. a.of \in link /\ a.of \in reserved /\ call[a.of] \in {"waiting", "ok"}
  BY <1>1 DEF IInv, AskInv
<1>3. call'[a.of] = "ok" /\ a.of \in Client
  BY <1>1, <1>2 DEF IInv, CallTypes
<1>4. \A d : d # a.of => call'[d] = call[d]
  BY <1>1 DEF IInv, CallTypes
<1>5. CallTypes' /\ AskInv' /\ ListenInv'
  BY <1>1, <1>2, <1>3, <1>4 DEF IInv, CallTypes, AskInv, ListenInv
<1>6. AnswerIsDialable'
  BY <1>1, <1>2, <1>3, <1>4 DEF IInv, AnswerIsDialable, Reachable
<1>7. ReachedOnlyAfterSuccess'
  BY <1>1, <1>3, <1>4 DEF IInv, ReachedOnlyAfterSuccess
<1> QED
  BY <1>5, <1>6, <1>7 DEF IInv

\* A circuit is set up to a client that knows of its reservation.
LEMMA DialCircuitInv ==
  ASSUME IInv, NEW c \in Client, NEW d \in Client, DialCircuit(c, d)
  PROVE  IInv'
<1>1. UNCHANGED <<call, asking, link, reserved, listening, breaks>>
  BY DEF DialCircuit, callVars, linkVars
<1>2. \/ circuit' = circuit
      \/ circuit' = circuit \cup {{c, d}} /\ d \in listening
  BY DEF DialCircuit, Reachable
<1>3. ReachedOnlyAfterSuccess'
  BY <1>1, <1>2 DEF IInv, ListenInv, ReachedOnlyAfterSuccess
<1> QED
  BY <1>1, <1>3 DEF IInv, CallTypes, AskInv, ListenInv, AnswerIsDialable, Reachable

\* The connection to the relay goes, and with it all the relay knew.
LEMMA LoseLinkInv ==
  ASSUME IInv, NEW c \in Client, LoseLink(c)
  PROVE  IInv'
<1>1. /\ breaks' = breaks + 1 /\ link' = link \ {c} /\ reserved' = reserved \ {c}
      /\ listening' = listening \ {c} /\ asking' = {a \in asking : a.of # c}
      /\ circuit' \subseteq circuit /\ UNCHANGED call
  BY DEF LoseLink, Cut
<1>2. CallTypes' /\ AskInv' /\ ListenInv' /\ ReachedOnlyAfterSuccess'
  BY <1>1 DEF IInv, CallTypes, AskInv, ListenInv, ReachedOnlyAfterSuccess
<1>3. breaks' # 0
  BY <1>1 DEF IInv, CallTypes
<1> QED
  BY <1>2, <1>3 DEF IInv, AnswerIsDialable

\* Everything else leaves the calls alone and makes no circuit.
LEMMA KeptInv ==
  ASSUME IInv, UNCHANGED <<call, link, reserved, listening>>,
         asking' \subseteq asking, circuit' \subseteq circuit,
         breaks' = breaks \/ breaks' = breaks + 1
  PROVE  IInv'
<1>1. CallTypes' /\ (breaks' = 0 => breaks = 0)
  BY DEF IInv, CallTypes
<1> QED
  BY <1>1 DEF IInv, AskInv, ListenInv, AnswerIsDialable, ReachedOnlyAfterSuccess, Reachable

\* The steps that KeptInv is about.
LEMMA OthersInv ==
  ASSUME IInv,
         \/ \E c \in Client : Introduce(c) \/ RelayDialFails(c)
         \/ \E a \in asking : ListenerClosed(a)
         \/ \E c, d \in Client : DialRelay(c, d) \/ Established(c, d) \/ Closed(c, d)
         \/ \E m \in Message : Send(m) \/ Receive(m) \/ Exceed(m)
         \/ \E p \in circuit : Expire(p)
         \/ UNCHANGED vars
  PROVE  IInv'
<1>1. CASE \E c \in Client : Introduce(c) \/ RelayDialFails(c)
  BY <1>1, KeptInv DEF Introduce, RelayDialFails, callVars, circuitVars
<1>2. CASE \E a \in asking : ListenerClosed(a)
  BY <1>2, KeptInv DEF ListenerClosed, linkVars, circuitVars
<1>3. CASE \E c, d \in Client : DialRelay(c, d) \/ Established(c, d) \/ Closed(c, d)
  BY <1>3, KeptInv DEF DialRelay, Established, Closed, callVars, linkVars, circuitVars
<1>4. CASE \E m \in Message : Send(m) \/ Receive(m) \/ Exceed(m)
  BY <1>4, KeptInv DEF Send, Receive, Exceed, Cut, callVars, linkVars, circuitVars
<1>5. CASE \E p \in circuit : Expire(p)
  BY <1>5, KeptInv DEF Expire, Cut, callVars, linkVars
<1>6. CASE UNCHANGED vars
  BY <1>6, KeptInv DEF vars, callVars, linkVars, circuitVars
<1> QED
  BY <1>1, <1>2, <1>3, <1>4, <1>5, <1>6
-----------------------------------------------------------------------------
(* Types.                                                                  *)

LEMMA InitTypes ==
  ASSUME RelayAssumption, Init
  PROVE  TypeOK
<1>1. dialling \in [Client -> Nat] /\ peers \in [Client -> SUBSET Client]
  BY DEF Init
<1>2. call \in [Client -> {"none", "waiting", "ok"}]
  BY DEF Init
<1>3. fate \in [Message -> {"new", "pending", "sent", "received", "failed", "lost"}]
  BY DEF Init
<1>4. breaks \in 0 .. MaxBreaks
  BY DEF Init, RelayAssumption
<1> QED
  BY <1>1, <1>2, <1>3, <1>4 DEF Init, TypeOK

\* The requests: of clients that are connected, see AskInv.
LEMMA ListenViaRelayTypes ==
  ASSUME RelayAssumption, TypeOK, NEW c \in Listener, ListenViaRelay(c)
  PROVE  TypeOK'
BY DEF RelayAssumption, TypeOK, ListenViaRelay, circuitVars

LEMMA RelayConnectedTypes ==
  ASSUME RelayAssumption, TypeOK, NEW c \in Client, RelayConnected(c)
  PROVE  TypeOK'
<1>1. /\ dialling[c] \in Nat /\ dialling[c] > 0
      /\ dialling' = [dialling EXCEPT ![c] = @ - 1] /\ link' = link \cup {c}
      /\ UNCHANGED <<call, introduced, observed, reserved, listening, tries, circuit,
                     opening, closing, peers, fate, breaks>>
  BY DEF TypeOK, RelayConnected, circuitVars
<1>2. dialling' \in [Client -> Nat]
  BY <1>1 DEF TypeOK
<1>3. [of |-> c, dial |-> dialling[c], at |-> "sent"] \in
        [of : link', dial : Nat, at : {"sent", "granted", "empty"}]
  BY <1>1
<1>4. asking' \subseteq [of : link', dial : Nat, at : {"sent", "granted", "empty"}]
  BY <1>1, <1>3 DEF TypeOK, RelayConnected
<1> QED
  BY <1>1, <1>2, <1>4 DEF TypeOK

LEMMA RequestTypes ==
  ASSUME TypeOK, NEW a \in asking, Reserve(a) \/ NewListenAddr(a) \/ ListenerClosed(a)
  PROVE  TypeOK'
<1>1. a \in [of : link, dial : Nat, at : {"sent", "granted", "empty"}]
  BY DEF TypeOK
<1>2. UNCHANGED <<observed, dialling, link, introduced, tries, circuit, opening,
                  closing, peers, fate, breaks>>
  BY DEF Reserve, NewListenAddr, ListenerClosed, linkVars, circuitVars
<1>3. asking' \subseteq [of : link, dial : Nat, at : {"sent", "granted", "empty"}]
  BY <1>1 DEF TypeOK, Reserve, NewListenAddr, ListenerClosed
<1>4. reserved' \subseteq link /\ listening' \subseteq link
  BY <1>1 DEF TypeOK, Reserve, NewListenAddr, ListenerClosed, linkVars
<1>5. call' \in [Client -> {"none", "waiting", "ok"}]
  BY <1>1 DEF TypeOK, Reserve, NewListenAddr, ListenerClosed
<1> QED
  BY <1>2, <1>3, <1>4, <1>5 DEF TypeOK

LEMMA IntroduceTypes ==
  ASSUME TypeOK, NEW c \in Client, Introduce(c)
  PROVE  TypeOK'
BY DEF TypeOK, Introduce, Observes, callVars, circuitVars

LEMMA MessageTypes ==
  ASSUME RelayAssumption, TypeOK, NEW m \in Message, Send(m) \/ Receive(m)
  PROVE  TypeOK'
<1>1. <<Source[m], Destination[m]>> \in Client \X Client
  BY DEF RelayAssumption
<1>2. tries' \subseteq tries \cup {<<Source[m], Destination[m]>>}
  BY DEF Send, Receive, circuitVars
<1>3. fate' \in [Message -> {"new", "pending", "sent", "received", "failed", "lost"}]
  BY DEF TypeOK, Send, Receive
<1>4. UNCHANGED <<callVars, linkVars, circuit, opening, closing, peers, breaks>>
  BY DEF Send, Receive, circuitVars
<1> QED
  BY <1>1, <1>2, <1>3, <1>4 DEF TypeOK, callVars, linkVars

LEMMA CircuitStepTypes ==
  ASSUME RelayAssumption, TypeOK, NEW c \in Client, NEW d \in Client, CircuitStep(c, d)
  PROVE  TypeOK'
<1>1. CASE DialRelay(c, d)
  BY <1>1 DEF TypeOK, DialRelay, callVars, circuitVars
<1>2. CASE DialCircuit(c, d)
  <2>1. /\ c \in link /\ tries' \subseteq tries
        /\ UNCHANGED <<callVars, linkVars, closing, peers, fate, breaks>>
    BY <1>2 DEF DialCircuit
  <2>2. \/ UNCHANGED <<circuit, opening>>
        \/ /\ circuit' = circuit \cup {{c, d}} /\ d \in link
           /\ opening' = opening \cup {<<c, d>>, <<d, c>>}
    BY <1>2 DEF DialCircuit, Reachable, Told, Both
  <2>3. <<c, d>> \in Client \X Client /\ <<d, c>> \in Client \X Client
    OBVIOUS
  <2>4. \A p \in circuit' : \E i, j \in link : p = {i, j}
    <3>1. \A p \in circuit : \E i, j \in link : p = {i, j}
      BY DEF TypeOK
    <3>2. CASE circuit' = circuit
      BY <3>1, <3>2
    <3>3. CASE circuit' = circuit \cup {{c, d}} /\ d \in link
      BY <2>1, <3>1, <3>3
    <3> QED
      BY <2>2, <3>2, <3>3
  <2> QED
    BY <2>1, <2>2, <2>3, <2>4 DEF TypeOK, callVars, linkVars
<1>3. CASE Established(c, d)
  <2>1. /\ opening' \subseteq opening /\ peers' = [peers EXCEPT ![c] = @ \cup {d}]
        /\ UNCHANGED <<callVars, linkVars, tries, circuit, closing, breaks>>
    BY <1>3 DEF Established
  <2>2. fate' \in [Message -> {"new", "pending", "sent", "received", "failed", "lost"}]
    BY <1>3 DEF Established, TypeOK
  <2> QED
    BY <2>1, <2>2 DEF TypeOK, callVars, linkVars
<1>4. CASE Closed(c, d)
  BY <1>4 DEF TypeOK, Closed, callVars, linkVars
<1> QED
  BY <1>1, <1>2, <1>3, <1>4 DEF CircuitStep

\* What Cut does, whatever goes.
LEMMA CutTypes ==
  ASSUME TypeOK, NEW gone, Cut(gone)
  PROVE  /\ circuit' \subseteq circuit /\ closing' \subseteq Client \X Client
         /\ fate' \in [Message -> {"new", "pending", "sent", "received", "failed", "lost"}]
BY DEF TypeOK, Cut

LEMMA BreakTypes ==
  ASSUME RelayAssumption, TypeOK, Break \/ \E m \in Message : Exceed(m)
  PROVE  TypeOK'
<1>1. CASE \/ \E m \in Message : Exceed(m)
           \/ \E p \in circuit : Expire(p)
  <2>1. PICK gone : Cut(gone)
    BY <1>1 DEF Exceed, Expire
  <2>2. UNCHANGED <<callVars, linkVars, tries, opening, peers>>
    BY <1>1 DEF Exceed, Expire
  <2>3. breaks' \in 0 .. MaxBreaks
    <3>1. breaks \in 0 .. MaxBreaks /\ MaxBreaks \in Nat
      BY DEF TypeOK, RelayAssumption
    <3>2. breaks' = breaks \/ (breaks < MaxBreaks /\ breaks' = breaks + 1)
      BY <1>1 DEF Exceed, Expire
    <3> QED
      BY <3>1, <3>2
  <2> QED
    BY <2>1, <2>2, <2>3, CutTypes DEF TypeOK, callVars, linkVars
<1>2. ASSUME NEW c \in Client, LoseLink(c)
      PROVE  TypeOK'
  <2>1. /\ link' = link \ {c} /\ introduced' = introduced \ {c}
        /\ reserved' = reserved \ {c} /\ listening' = listening \ {c}
        /\ asking' = {a \in asking : a.of # c}
        /\ UNCHANGED <<call, dialling, observed, tries, opening, peers>>
    BY <1>2 DEF LoseLink
  <2>2. /\ closing' \subseteq Client \X Client
        /\ fate' \in [Message -> {"new", "pending", "sent", "received", "failed", "lost"}]
    BY <1>2, CutTypes DEF LoseLink
  <2>3. breaks' \in 0 .. MaxBreaks
    BY <1>2 DEF LoseLink, TypeOK, RelayAssumption
  <2>4. \A p \in circuit' : p \in circuit /\ c \notin p
    BY <1>2 DEF LoseLink, Cut, CircuitsOver
  <2>5. \A p \in circuit' : \E i, j \in link' : p = {i, j}
    BY <2>1, <2>4 DEF TypeOK
  <2>6. asking' \subseteq [of : link', dial : Nat, at : {"sent", "granted", "empty"}]
    BY <2>1 DEF TypeOK
  <2> QED
    BY <2>1, <2>2, <2>3, <2>5, <2>6 DEF TypeOK
<1>3. ASSUME NEW c \in Client, RelayDialFails(c)
      PROVE  TypeOK'
  <2>1. /\ dialling[c] > 0 /\ dialling' = [dialling EXCEPT ![c] = @ - 1]
        /\ tries' \subseteq tries
        /\ UNCHANGED <<callVars, link, introduced, observed, reserved, listening,
                       circuit, opening, closing, peers, fate>>
    BY <1>3 DEF RelayDialFails
  <2>2. dialling' \in [Client -> Nat]
    BY <2>1 DEF TypeOK
  <2>3. breaks' \in 0 .. MaxBreaks
    BY <1>3 DEF RelayDialFails, TypeOK, RelayAssumption
  <2> QED
    BY <2>1, <2>2, <2>3 DEF TypeOK, callVars
<1> QED
  BY <1>1, <1>2, <1>3 DEF Break

LEMMA TypeStep ==
  ASSUME RelayAssumption, TypeOK, [Next]_vars
  PROVE  TypeOK'
<1>1. CASE UNCHANGED vars
  BY <1>1 DEF TypeOK, vars, callVars, linkVars, circuitVars
<1>2. CASE Next
  BY <1>2, ListenViaRelayTypes, IntroduceTypes, RelayConnectedTypes, RequestTypes,
     CircuitStepTypes, MessageTypes, BreakTypes
     DEF Next, RelayStep
<1> QED
  BY <1>1, <1>2

LEMMA InvStep ==
  ASSUME RelayAssumption, TypeOK, IInv, [Next]_vars
  PROVE  IInv'
<1>1. CASE UNCHANGED vars
  BY <1>1, OthersInv
<1>2. CASE \E c \in Listener : ListenViaRelay(c)
  BY <1>2, ListenViaRelayInv
<1>3. CASE RelayStep
  BY <1>3, RelayConnectedInv, ReserveInv, NewListenAddrInv, OthersInv DEF RelayStep
<1>4. CASE \E c, d \in Client : CircuitStep(c, d)
  BY <1>4, DialCircuitInv, OthersInv DEF CircuitStep
<1>5. CASE \/ \E c \in Client : Introduce(c)
           \/ \E m \in Message : Send(m) \/ Receive(m) \/ Exceed(m)
  BY <1>5, OthersInv
<1>6. CASE Break
  BY <1>6, LoseLinkInv, OthersInv DEF Break
<1> QED
  BY <1>1, <1>2, <1>3, <1>4, <1>5, <1>6 DEF Next

LEMMA Invariance == Spec => [](TypeOK /\ IInv)
<1>1. Init => TypeOK /\ IInv
  BY RelayAssumption, InitTypes, InitInv
<1>2. TypeOK /\ IInv /\ [Next]_vars => (TypeOK /\ IInv)'
  BY RelayAssumption, TypeStep, InvStep
<1> QED
  BY <1>1, <1>2, PTL DEF Spec
-----------------------------------------------------------------------------
(* The theorems.                                                           *)

\* What the relay knows of a client goes with its connection, and every circuit
\* joins two clients that are connected to the relay.
THEOREM TypeCorrect == Spec => []TypeOK
BY Invariance, PTL

\* As long as nothing breaks, the address a ListenViaRelay call returned can be
\* dialled, however many clients ask at once and whenever identify comes.
THEOREM AnswersAreDialable == Spec => []AnswerIsDialable
<1>1. IInv => AnswerIsDialable
  BY DEF IInv
<1> QED
  BY <1>1, Invariance, PTL

\* Every circuit has an end whose ListenViaRelay call succeeded, whatever breaks
\* and is set up again.
THEOREM ReachedAfterSuccess == Spec => []ReachedOnlyAfterSuccess
<1>1. IInv => ReachedOnlyAfterSuccess
  BY DEF IInv
<1> QED
  BY <1>1, Invariance, PTL
=============================================================================
