------------------------- MODULE NetworkActorProofs -------------------------
(***************************************************************************)
(* Theorems about NetworkActor, for any peers, addresses, environment and  *)
(* bounds.                                                                 *)
(***************************************************************************)
EXTENDS NetworkActor, SequenceTheorems, FiniteSetTheorems, TLAPS

\* What the address operators return is an address, and a peer.
LEMMA SegmentTypes ==
  /\ Circuit \in Segment /\ Blank \in Segment
  /\ \A p \in Peer : P2p(p) \in Segment
  /\ NoAddr \in Address
<1>1. Circuit \in Segment /\ Blank \in Segment
  BY DEF Segment
<1>2. \A p \in Peer : P2p(p) \in Segment
  BY DEF Segment
<1>3. NoAddr \in Address
  BY <1>1 DEF NoAddr, Address
<1>. QED
  BY <1>1, <1>2, <1>3

\* Addresses are closed under the joins translate_address and with() make.
LEMMA AppendTypes ==
  ASSUME NEW a \in Address, NEW s \in Segment, NEW t \in Segment, NEW b \in Address
  PROVE  a \o <<s>> \in Address /\ a \o <<s, t>> \o b \in Address
BY DEF Address

\* translate_address gives an address, extract_peer_id a peer or none.
LEMMA AddressTypes ==
  ASSUME NEW a \in Address
  PROVE  /\ TranslateAddress(a) \in Address
         /\ CircuitAddr(a) \in Address
         /\ ExtractPeerId(a) \in Peer \cup {NoPeer}
<1>1. TranslateAddress(a) \in Address
  BY SegmentTypes, AppendTypes, NetworkAssumption
  DEF TranslateAddress, NetworkAssumption
<1>2. CircuitAddr(a) \in Address
  <2>1. CircuitListenAddr(a) \in Address
    BY SegmentTypes, AppendTypes DEF CircuitListenAddr
  <2>. QED
    BY <2>1, SegmentTypes, AppendTypes, NetworkAssumption
    DEF CircuitAddr, NetworkAssumption
<1>3. ExtractPeerId(a) \in Peer \cup {NoPeer}
  <2>1. \A s \in Segment : s.proto = "p2p" => s.val \in Peer
    <3>. SUFFICES ASSUME NEW s \in Segment, s.proto = "p2p" PROVE s.val \in Peer
      OBVIOUS
    <3>1. \A h \in Host : s # Ip(h) /\ s # Dns(h)
      BY DEF Ip, Dns
    <3>2. s # Circuit /\ s # Blank
      <4>1. Circuit.proto # "p2p"
        BY DEF Circuit
      <4>2. Blank.proto # "p2p"
        BY DEF Blank
      <4>. QED
        BY <4>1, <4>2
    <3>3. PICK p \in Peer : s = P2p(p)
      BY <3>1, <3>2 DEF Segment
    <3>. QED
      BY <3>3 DEF P2p
  <2>2. \A i \in 1 .. Len(a) : IsLastPeerAt(a, i) => a[i].val \in Peer
    BY <2>1 DEF IsLastPeerAt, IsPeerAt, Address
  <2>. QED
    BY <2>2 DEF ExtractPeerId
<1>. QED
  BY <1>1, <1>2, <1>3
-----------------------------------------------------------------------------
\* What the loop and its tasks send to the manager are events.
LEMMA EventTypes ==
  /\ \A id \in Nat : \A err \in {"unreachable", "protocol"} : Failed(id, err) \in Event
  /\ \A p \in Peer : Connected(p) \in Event /\ Disconnected(p) \in Event
  /\ \A m \in InMsg : Received(m) \in Event
BY NetworkAssumption DEF Event, Failed, Connected, Disconnected, Received, NetworkAssumption

\* A part of the state that a step leaves alone keeps its type.
LEMMA Unchanged ==
  ASSUME TypeOK
  PROVE  /\ UNCHANGED frontVars => FrontTypeOK'
         /\ UNCHANGED loopVars => LoopTypeOK'
         /\ UNCHANGED swarmVars => SwarmTypeOK'
         /\ UNCHANGED recvVars => RecvTypeOK'
         /\ UNCHANGED <<wire, heard>> => HistoryTypeOK'
<1>1. UNCHANGED frontVars => FrontTypeOK'
  BY DEF TypeOK, FrontTypeOK, frontVars
<1>2. UNCHANGED loopVars => LoopTypeOK'
  BY DEF TypeOK, LoopTypeOK, loopVars, Idle
<1>3. UNCHANGED swarmVars => SwarmTypeOK'
  BY DEF TypeOK, SwarmTypeOK, swarmVars
<1>4. UNCHANGED recvVars => RecvTypeOK'
  BY DEF TypeOK, RecvTypeOK, recvVars
<1>5. UNCHANGED <<wire, heard>> => HistoryTypeOK'
  BY DEF TypeOK, HistoryTypeOK
<1>. QED
  BY <1>1, <1>2, <1>3, <1>4, <1>5

\* A node that was just created has the types.
LEMMA InitType == Init => TypeOK
<1>. SUFFICES ASSUME Init PROVE TypeOK
  OBVIOUS
<1>1. FrontTypeOK
  BY SegmentTypes DEF Init, FrontTypeOK, NoCall, NoAnswer
<1>2. LoopTypeOK
  <2>1. pending \in [Peer -> Seq(Nat)]
    BY DEF Init
  <2>2. outbox \in [peer : Peer \cup {NoPeer}, msgs : Seq(Nat)]
    BY DEF Init, Nothing
  <2>. QED
    BY <2>1, <2>2, SegmentTypes DEF Init, LoopTypeOK, Idle
<1>3. SwarmTypeOK
  BY DEF Init, SwarmTypeOK
<1>4. RecvTypeOK
  BY DEF Init, RecvTypeOK
<1>5. HistoryTypeOK
  BY DEF Init, HistoryTypeOK
<1>6. cmdQ \in Seq(Command) /\ evtQ \in Seq(Event)
  BY DEF Init
<1>. QED
  BY <1>1, <1>2, <1>3, <1>4, <1>5, <1>6 DEF TypeOK

\* Taking a command leaves a queue of commands and yields one.
LEMMA TakeType ==
  ASSUME TypeOK, NEW kind, Take(kind)
  PROVE  /\ cmdQ' \in Seq(Command)
         /\ Head(cmdQ) \in Command
         /\ Head(cmdQ).id \in Nat /\ Head(cmdQ).addr \in Address
         /\ kind = "listen" => Head(cmdQ).addr \in ListenAddr
         /\ kind = "relay" => Head(cmdQ).addr \in RelayAddr
         /\ Destination \in Peer \cup {NoPeer}
<1>1. Head(cmdQ) \in Command /\ cmdQ' \in Seq(Command)
  BY DEF TypeOK, Take
<1>2. Head(cmdQ).addr \in Address /\ Head(cmdQ).id \in Nat
  BY <1>1, NetworkAssumption DEF Command, NetworkAssumption
<1>3. /\ kind = "listen" => Head(cmdQ).addr \in ListenAddr
      /\ kind = "relay" => Head(cmdQ).addr \in RelayAddr
  BY <1>1 DEF Take, Command
<1>. QED
  BY <1>1, <1>2, <1>3, AddressTypes DEF Destination

\* event_tx.send leaves a channel of events.
LEMMA EmitType ==
  ASSUME TypeOK, NEW e \in Event, Emit(e)
  PROVE  evtQ' \in Seq(Event)
BY DEF TypeOK, Emit

\* The actor's own steps.
LEMMA SendMessageType ==
  ASSUME TypeOK, NEW a \in Target, SendMessage(a)
  PROVE  TypeOK'
<1>1. a \in Address /\ TranslateAddress(a) \in Address
  BY AddressTypes, NetworkAssumption DEF NetworkAssumption
<1>2. [kind |-> "send", id |-> nextId, addr |-> TranslateAddress(a)] \in Command
  BY <1>1 DEF TypeOK, FrontTypeOK, Command
<1>3. cmdQ' \in Seq(Command) /\ evtQ' \in Seq(Event)
  BY <1>2 DEF SendMessage, TypeOK
<1>4. FrontTypeOK'
  BY <1>1 DEF SendMessage, TypeOK, FrontTypeOK
<1>5. UNCHANGED <<loopVars, swarmVars, recvVars, wire, heard>>
  BY DEF SendMessage
<1>. QED
  BY <1>3, <1>4, <1>5, Unchanged DEF TypeOK

\* Listen and ListenViaRelay before their await.
LEMMA StartCallType ==
  ASSUME TypeOK, NEW kind \in {"listen", "relay"},
         NEW a \in IF kind = "listen" THEN ListenAddr ELSE RelayAddr,
         StartCall(kind, a)
  PROVE  TypeOK'
<1>0. a \in Address
  BY NetworkAssumption DEF NetworkAssumption
<1>1. [kind |-> kind, id |-> 0, addr |-> a] \in Command
  BY DEF Command
<1>2. cmdQ' \in Seq(Command) /\ evtQ' \in Seq(Event)
  BY <1>1 DEF StartCall, TypeOK
<1>3. FrontTypeOK'
  BY <1>0 DEF StartCall, TypeOK, FrontTypeOK
<1>4. UNCHANGED <<loopVars, swarmVars, recvVars, wire, heard>>
  BY DEF StartCall
<1>. QED
  BY <1>2, <1>3, <1>4, Unchanged DEF TypeOK

\* The same calls after it: the address they record is an address.
LEMMA FinishCallType ==
  ASSUME TypeOK, FinishCall
  PROVE  TypeOK'
<1>1. FrontTypeOK'
  <2>1. call' = NoCall /\ answer' = NoAnswer /\ nextId' = nextId /\ sentTo' = sentTo
    BY DEF FinishCall
  <2>2. answer.addr \in Address /\ answer.res \in {"none", "ok", "err"}
    BY DEF TypeOK, FrontTypeOK
  <2>3. localAddrs' \in Seq(Address)
    BY <2>2 DEF FinishCall, ActualAddr, TypeOK, FrontTypeOK
  <2>4. replies' \in Seq([kind : {"none", "listen", "relay"}, asked : Address,
                          res : {"none", "ok", "err"}, got : Address])
    <3>. DEFINE R == [kind : {"none", "listen", "relay"}, asked : Address,
                      res : {"none", "ok", "err"}, got : Address]
    <3>1. [kind |-> call.kind, asked |-> call.addr,
           res |-> answer.res, got |-> answer.addr] \in R
      BY DEF TypeOK, FrontTypeOK
    <3>2. replies \in Seq(R)
      BY DEF TypeOK, FrontTypeOK
    <3>. HIDE DEF R
    <3>3. replies' \in Seq(R)
      BY <3>1, <3>2 DEF FinishCall
    <3>. QED
      BY <3>3 DEF R
  <2>. QED
    BY <2>1, <2>3, <2>4, SegmentTypes
    DEF TypeOK, FrontTypeOK, NoCall, NoAnswer
<1>2. UNCHANGED <<cmdQ, evtQ, loopVars, swarmVars, recvVars, wire, heard>>
  BY DEF FinishCall
<1>. QED
  BY <1>1, <1>2, Unchanged DEF TypeOK

\* do_send, one lemma for each way out of it.
LEMMA SendRejectedType ==
  ASSUME TypeOK, SendUnparsable \/ SendWithoutPeer
  PROVE  TypeOK'
<1>1. /\ Take("send")
      /\ UNCHANGED <<frontVars, loopVars, swarmVars, recvVars, wire, heard>>
  BY DEF SendUnparsable, SendWithoutPeer
<1>2. PICK err \in {"unreachable", "protocol"} : Emit(Failed(Head(cmdQ).id, err))
  BY DEF SendUnparsable, SendWithoutPeer
<1>3. cmdQ' \in Seq(Command) /\ evtQ' \in Seq(Event)
  BY <1>1, <1>2, TakeType, EventTypes, EmitType
<1>. QED
  BY <1>1, <1>3, Unchanged DEF TypeOK

\* The peer is connected: the message goes to the outbox.
LEMMA SendConnectedType ==
  ASSUME TypeOK, SendConnected
  PROVE  TypeOK'
<1>1. /\ cmdQ' \in Seq(Command) /\ Head(cmdQ).id \in Nat /\ Destination \in Peer
      /\ Destination # NoPeer
  BY TakeType DEF SendConnected, Routable
<1>2. evtQ' \in Seq(Event)
  BY DEF SendConnected, TypeOK
<1>3. LoopTypeOK'
  BY <1>1 DEF SendConnected, TypeOK, LoopTypeOK, Idle
<1>4. UNCHANGED <<frontVars, swarmVars, recvVars, wire, heard>>
  BY DEF SendConnected
<1>. QED
  BY <1>1, <1>2, <1>3, <1>4, Unchanged DEF TypeOK

\* A dial adds to the count of one peer, or of no peer.
LEMMA DialType ==
  ASSUME TypeOK, NEW a \in Address, Dial(a)
  PROVE  dials' \in [Peer \cup {NoPeer} -> Nat]
BY AddressTypes DEF Dial, TypeOK, SwarmTypeOK

\* pending_sends after a push and after a removal.
LEMMA QueuedType ==
  ASSUME TypeOK, NEW p \in Peer, NEW id \in Nat
  PROVE  /\ Queued(pending, p, id) \in [Peer -> Seq(Nat)]
         /\ Removed(pending, p) \in [Peer -> Seq(Nat)]
         /\ Removed(Queued(pending, p, id), p) \in [Peer -> Seq(Nat)]
<1>1. Queued(pending, p, id) \in [Peer -> Seq(Nat)]
  BY DEF Queued, TypeOK, LoopTypeOK
<1>2. \A q \in [Peer -> Seq(Nat)] : Removed(q, p) \in [Peer -> Seq(Nat)]
  BY DEF Removed
<1>. QED
  BY <1>1, <1>2 DEF TypeOK, LoopTypeOK

\* The message waits for the dial.
LEMMA SendAndDialType ==
  ASSUME TypeOK, SendAndDial
  PROVE  TypeOK'
<1>1. /\ cmdQ' \in Seq(Command) /\ Head(cmdQ).id \in Nat
      /\ Head(cmdQ).addr \in Address /\ Destination \in Peer
  BY TakeType DEF SendAndDial, Routable
<1>2. evtQ' \in Seq(Event)
  BY DEF SendAndDial, TypeOK
<1>3. LoopTypeOK'
  BY <1>1, QueuedType DEF SendAndDial, TypeOK, LoopTypeOK, Idle
<1>4. SwarmTypeOK'
  BY <1>1, DialType DEF SendAndDial, TypeOK, SwarmTypeOK
<1>5. UNCHANGED <<frontVars, recvVars, wire, heard>>
  BY DEF SendAndDial
<1>. QED
  BY <1>1, <1>2, <1>3, <1>4, <1>5, Unchanged DEF TypeOK

\* The dial was refused: its queue is removed.
LEMMA SendDialRefusedType ==
  ASSUME TypeOK, SendDialRefused
  PROVE  TypeOK'
<1>1. /\ cmdQ' \in Seq(Command) /\ Head(cmdQ).id \in Nat /\ Destination \in Peer
  BY TakeType DEF SendDialRefused, Routable
<1>2. evtQ' \in Seq(Event)
  BY <1>1, EventTypes, EmitType DEF SendDialRefused
<1>3. LoopTypeOK'
  BY <1>1, QueuedType DEF SendDialRefused, TypeOK, LoopTypeOK, Idle
<1>4. UNCHANGED <<frontVars, swarmVars, recvVars, wire, heard>>
  BY DEF SendDialRefused
<1>. QED
  BY <1>1, <1>2, <1>3, <1>4, Unchanged DEF TypeOK

\* What remains of a sequence of two or more is not empty.
LEMMA TailOfLonger ==
  ASSUME NEW s \in Seq(Nat), s # <<>>, Len(s) # 1
  PROVE  Tail(s) \in Seq(Nat) /\ Tail(s) # <<>>
<1>1. Tail(s) \in Seq(Nat) /\ Len(Tail(s)) = Len(s) - 1
  BY HeadTailProperties
<1>2. Len(s) \in Nat
  BY LenProperties
<1>3. Len(Tail(s)) # 0
  BY <1>1, <1>2
<1>. QED
  BY <1>1, <1>3, EmptySeq

\* One message of the outbox is written or reported.
LEMMA SendToPeerType ==
  ASSUME TypeOK, SendToPeer
  PROVE  TypeOK'
<1>1. /\ outbox.peer \in Peer /\ outbox.msgs \in Seq(Nat) /\ outbox.msgs # <<>>
      /\ Head(outbox.msgs) \in Nat
  BY DEF SendToPeer, TypeOK, LoopTypeOK
<1>2. LoopTypeOK'
  <2>1. CASE Len(outbox.msgs) = 1
    BY <2>1, Unchanged DEF SendToPeer, AfterFirst, TypeOK, LoopTypeOK, Idle, Nothing
  <2>2. CASE Len(outbox.msgs) # 1
    <3>1. outbox' = [outbox EXCEPT !.msgs = Tail(@)]
      BY <2>2 DEF SendToPeer, AfterFirst
    <3>2. Tail(outbox.msgs) \in Seq(Nat) /\ Tail(outbox.msgs) # <<>>
      BY <1>1, <2>2, TailOfLonger
    <3>. QED
      BY <1>1, <3>1, <3>2 DEF SendToPeer, TypeOK, LoopTypeOK, Idle
  <2>. QED
    BY <2>1, <2>2
<1>3. evtQ' \in Seq(Event)
  BY <1>1, EventTypes, EmitType DEF SendToPeer, TypeOK
<1>4. HistoryTypeOK'
  <2>1. \/ wire' = wire
        \/ wire' = [wire EXCEPT ![outbox.peer] = Append(@, Head(outbox.msgs))]
    BY DEF SendToPeer
  <2>2. ASSUME NEW p \in Peer, NEW id \in Nat
        PROVE  [wire EXCEPT ![p] = Append(@, id)] \in [Peer -> Seq(Nat)]
    <3>1. wire \in [Peer -> Seq(Nat)]
      BY DEF TypeOK, HistoryTypeOK
    <3>. QED
      BY <3>1
  <2>3. wire' \in [Peer -> Seq(Nat)]
    <3>1. CASE wire' = wire
      BY <3>1 DEF TypeOK, HistoryTypeOK
    <3>2. CASE wire' = [wire EXCEPT ![outbox.peer] = Append(@, Head(outbox.msgs))]
      BY <1>1, <2>2, <3>2
    <3>. QED
      BY <2>1, <3>1, <3>2
  <2>. QED
    BY <2>3 DEF SendToPeer, TypeOK, HistoryTypeOK
<1>5. cmdQ' \in Seq(Command)
  BY DEF SendToPeer, TypeOK
<1>6. UNCHANGED <<frontVars, swarmVars, recvVars>>
  BY DEF SendToPeer
<1>. QED
  BY <1>2, <1>3, <1>4, <1>5, <1>6, Unchanged DEF TypeOK

\* The listening commands.
LEMMA ListenOnType ==
  ASSUME TypeOK, NEW A \in SUBSET Address, ListenOn(A)
  PROVE  listeners' \in Nat /\ announcing' \subseteq [no : Nat, addr : Address]
BY DEF ListenOn, TypeOK, SwarmTypeOK

\* SwarmCommand::Listen.
LEMMA HandleListenType ==
  ASSUME TypeOK, HandleListen
  PROVE  TypeOK'
<1>1. cmdQ' \in Seq(Command) /\ evtQ' \in Seq(Event)
  BY TakeType DEF HandleListen, TypeOK
<1>2. Binds[Head(cmdQ).addr] \in SUBSET Address
  BY TakeType, NetworkAssumption DEF HandleListen, NetworkAssumption
<1>3. FrontTypeOK'
  BY SegmentTypes DEF HandleListen, Reply, TypeOK, FrontTypeOK
<1>4. LoopTypeOK'
  BY DEF HandleListen, TypeOK, LoopTypeOK, Idle
<1>5. SwarmTypeOK'
  BY <1>2, ListenOnType DEF HandleListen, TypeOK, SwarmTypeOK
<1>6. UNCHANGED <<recvVars, wire, heard>>
  BY DEF HandleListen
<1>. QED
  BY <1>1, <1>3, <1>4, <1>5, <1>6, Unchanged DEF TypeOK

\* SwarmCommand::ListenViaRelay.
LEMMA HandleListenViaRelayType ==
  ASSUME TypeOK, HandleListenViaRelay
  PROVE  TypeOK'
<1>1. cmdQ' \in Seq(Command) /\ evtQ' \in Seq(Event)
  BY TakeType DEF HandleListenViaRelay, TypeOK
<1>2. Head(cmdQ).addr \in Address
  BY TakeType DEF HandleListenViaRelay
<1>3. FrontTypeOK'
  BY SegmentTypes DEF HandleListenViaRelay, Reply, TypeOK, FrontTypeOK
<1>4. LoopTypeOK'
  BY <1>2 DEF HandleListenViaRelay, TypeOK, LoopTypeOK, Idle
<1>5. SwarmTypeOK'
  BY <1>2, DialType DEF HandleListenViaRelay, TypeOK, SwarmTypeOK
<1>6. UNCHANGED <<recvVars, wire, heard>>
  BY DEF HandleListenViaRelay
<1>. QED
  BY <1>1, <1>3, <1>4, <1>5, <1>6, Unchanged DEF TypeOK

\* All commands together.
LEMMA HandleCommandType ==
  ASSUME TypeOK, HandleCommand
  PROVE  TypeOK'
BY SendRejectedType, SendConnectedType, SendAndDialType, SendDialRefusedType,
   HandleListenType, HandleListenViaRelayType
DEF HandleCommand, DoSend

\* The swarm events.
LEMMA NewListenAddrType ==
  ASSUME TypeOK, NewListenAddr
  PROVE  TypeOK'
<1>1. PICK a \in announcing :
         /\ announcing' = announcing \ {a} /\ announced' = Append(announced, a.addr)
         /\ \/ UNCHANGED answer
            \/ Reply("ok", a.addr)
         /\ pendingRelay' \in {pendingRelay, NoAddr}
         /\ pendingListen' \in {pendingListen, FALSE}
  BY DEF NewListenAddr, RelayTaken
<1>2. a.addr \in Address
  BY DEF TypeOK, SwarmTypeOK
<1>3. FrontTypeOK'
  BY <1>1, <1>2 DEF NewListenAddr, Reply, TypeOK, FrontTypeOK
<1>4. LoopTypeOK'
  BY <1>1, SegmentTypes DEF NewListenAddr, TypeOK, LoopTypeOK, Idle
<1>5. SwarmTypeOK'
  BY <1>1, <1>2 DEF NewListenAddr, TypeOK, SwarmTypeOK
<1>6. UNCHANGED <<cmdQ, evtQ, recvVars, wire, heard>>
  BY DEF NewListenAddr
<1>. QED
  BY <1>3, <1>4, <1>5, <1>6, Unchanged DEF TypeOK

\* A listener lost before it was announced.
LEMMA ListenerClosedType ==
  ASSUME TypeOK, ListenerClosed
  PROVE  TypeOK'
<1>1. SwarmTypeOK'
  BY DEF ListenerClosed, TypeOK, SwarmTypeOK
<1>2. UNCHANGED <<frontVars, cmdQ, evtQ, loopVars, recvVars, wire, heard>>
  BY DEF ListenerClosed
<1>. QED
  BY <1>1, <1>2, Unchanged DEF TypeOK

\* What every new connection sets off.
LEMMA OnConnectedType ==
  ASSUME TypeOK, NEW p \in Peer, OnConnected(p),
         dials' \in [Peer \cup {NoPeer} -> Nat]
  PROVE  TypeOK'
<1>1. evtQ' \in Seq(Event)
  BY EventTypes, EmitType DEF OnConnected, TellsOpened
<1>2. LoopTypeOK'
  <2>1. pending[p] \in Seq(Nat)
    BY DEF TypeOK, LoopTypeOK
  <2>2. pending' \in [Peer -> Seq(Nat)]
    BY DEF OnConnected, Removed, TypeOK, LoopTypeOK
  <2>3. /\ outbox' \in [peer : Peer \cup {NoPeer}, msgs : Seq(Nat)]
        /\ outbox' = Nothing \/ (outbox'.peer # NoPeer /\ outbox'.msgs # <<>>)
    <3>1. CASE pending[p] = <<>>
      BY <3>1 DEF OnConnected, Nothing
    <3>2. CASE pending[p] # <<>>
      BY <2>1, <3>2, AddressAssumption DEF OnConnected, BatchOf, AddressAssumption
    <3>. QED
      BY <3>1, <3>2
  <2>. QED
    BY <2>2, <2>3 DEF OnConnected, TypeOK, LoopTypeOK, Idle, Nothing
<1>3. SwarmTypeOK'
  <2>1. conns' \in [Peer -> Nat]
    BY DEF OnConnected, TypeOK, SwarmTypeOK
  <2>2. CircuitAddr(pendingRelay) \in Address
    BY AddressTypes DEF TypeOK, LoopTypeOK
  <2>3. listeners' \in Nat /\ announcing' \subseteq [no : Nat, addr : Address]
    BY <2>2, ListenOnType DEF OnConnected, TypeOK, SwarmTypeOK
  <2>. QED
    BY <2>1, <2>3 DEF OnConnected, TypeOK, SwarmTypeOK
<1>4. cmdQ' \in Seq(Command)
  BY DEF OnConnected, TypeOK
<1>5. UNCHANGED <<frontVars, recvVars, wire, heard>>
  BY DEF OnConnected
<1>. QED
  BY <1>1, <1>2, <1>3, <1>4, <1>5, Unchanged DEF TypeOK

\* Connections that open, fail to open, and close.
LEMMA ConnectionTypes ==
  ASSUME TypeOK
  PROVE  /\ Dialled => TypeOK'
         /\ \A p \in Peer : Inbound(p) => TypeOK'
         /\ DialFails => TypeOK'
         /\ ConnectionClosed => TypeOK'
<1>1. ASSUME NEW p \in Peer, NEW d \in Peer \cup {NoPeer}, DialSucceeds(p, d)
      PROVE  TypeOK'
  <2>1. dials' \in [Peer \cup {NoPeer} -> Nat]
    BY <1>1 DEF DialSucceeds, TypeOK, SwarmTypeOK
  <2>. QED
    BY <1>1, <2>1, OnConnectedType DEF DialSucceeds
<1>2. ASSUME NEW p \in Peer, Inbound(p) PROVE TypeOK'
  BY <1>2, OnConnectedType DEF Inbound, TypeOK, SwarmTypeOK
<1>3. ASSUME DialFails PROVE TypeOK'
  <2>1. dials' \in [Peer \cup {NoPeer} -> Nat]
    BY <1>3 DEF DialFails, TypeOK, SwarmTypeOK
  <2>2. SwarmTypeOK'
    BY <1>3, <2>1 DEF DialFails, TypeOK, SwarmTypeOK
  <2>3. UNCHANGED <<frontVars, cmdQ, evtQ, loopVars, recvVars, wire, heard>>
    BY <1>3 DEF DialFails
  <2>. QED
    BY <2>2, <2>3, Unchanged DEF TypeOK
<1>4. ASSUME ConnectionClosed PROVE TypeOK'
  <2>1. PICK p \in Peer : /\ conns[p] > 0 /\ conns' = [conns EXCEPT ![p] = @ - 1]
                          /\ Emit(Disconnected(p))
    BY <1>4 DEF ConnectionClosed, TellsClosed
  <2>2. conns' \in [Peer -> Nat]
    BY <2>1 DEF TypeOK, SwarmTypeOK
  <2>3. SwarmTypeOK'
    BY <1>4, <2>2 DEF ConnectionClosed, TypeOK, SwarmTypeOK
  <2>4. evtQ' \in Seq(Event)
    BY <2>1, EventTypes, EmitType
  <2>5. UNCHANGED <<frontVars, cmdQ, loopVars, recvVars, wire, heard>>
    BY <1>4 DEF ConnectionClosed
  <2>. QED
    BY <2>3, <2>4, <2>5, Unchanged DEF TypeOK
<1>. QED
  BY <1>1, <1>2, <1>3, <1>4 DEF Dialled

\* Inbound messages and the manager.
LEMMA RecvTypes ==
  ASSUME TypeOK
  PROVE  /\ \A m \in InMsg : RemoteSends(m) \/ HandleIncoming(m) => TypeOK'
         /\ AcceptStream => TypeOK'
         /\ TryRecvEvent => TypeOK'
<1>1. ASSUME NEW m \in InMsg, RemoteSends(m) PROVE TypeOK'
  <2>1. RecvTypeOK'
    BY <1>1 DEF RemoteSends, TypeOK, RecvTypeOK
  <2>2. UNCHANGED <<frontVars, cmdQ, evtQ, loopVars, swarmVars, wire, heard>>
    BY <1>1 DEF RemoteSends
  <2>. QED
    BY <2>1, <2>2, Unchanged DEF TypeOK
<1>2. ASSUME NEW m \in InMsg, HandleIncoming(m) PROVE TypeOK'
  <2>1. RecvTypeOK'
    BY <1>2 DEF HandleIncoming, TypeOK, RecvTypeOK
  <2>2. evtQ' \in Seq(Event)
    BY <1>2, EventTypes, EmitType DEF HandleIncoming, TypeOK
  <2>3. UNCHANGED <<frontVars, cmdQ, loopVars, swarmVars, wire, heard>>
    BY <1>2 DEF HandleIncoming
  <2>. QED
    BY <2>1, <2>2, <2>3, Unchanged DEF TypeOK
<1>3. ASSUME AcceptStream PROVE TypeOK'
  <2>1. RecvTypeOK'
    BY <1>3 DEF AcceptStream, TypeOK, RecvTypeOK
  <2>2. UNCHANGED <<frontVars, cmdQ, evtQ, loopVars, swarmVars, wire, heard>>
    BY <1>3 DEF AcceptStream
  <2>. QED
    BY <2>1, <2>2, Unchanged DEF TypeOK
<1>4. ASSUME TryRecvEvent PROVE TypeOK'
  <2>1. evtQ' \in Seq(Event) /\ Head(evtQ) \in Event
    BY <1>4 DEF TryRecvEvent, TypeOK
  <2>2. heard' \in [peers : SUBSET Peer, met : SUBSET Peer, failed : SUBSET Nat]
    BY <1>4, <2>1 DEF TryRecvEvent, Hear, Event, TypeOK, HistoryTypeOK
  <2>3. HistoryTypeOK'
    BY <1>4, <2>2 DEF TryRecvEvent, TypeOK, HistoryTypeOK
  <2>4. UNCHANGED <<frontVars, cmdQ, loopVars, swarmVars, recvVars, wire>>
    BY <1>4 DEF TryRecvEvent
  <2>. QED
    BY <2>1, <2>3, <2>4, Unchanged DEF TypeOK
<1>. QED
  BY <1>1, <1>2, <1>3, <1>4

\* Every step of the node keeps the types.
LEMMA NextType == TypeOK /\ [Next]_vars => TypeOK'
<1>. SUFFICES ASSUME TypeOK, [Next]_vars PROVE TypeOK'
  OBVIOUS
<1>1. CASE UNCHANGED vars
  BY <1>1, Unchanged DEF vars, TypeOK
<1>2. CASE Next
  BY <1>2, SendMessageType, StartCallType, FinishCallType, HandleCommandType,
     SendToPeerType, NewListenAddrType, ListenerClosedType, ConnectionTypes, RecvTypes
  DEF Next
<1>. QED
  BY <1>1, <1>2

\* The variables have their types in every behaviour.
THEOREM TypeCorrect == Spec => []TypeOK
BY InitType, NextType, PTL DEF Spec
-----------------------------------------------------------------------------
(* PendingOnlyWhenDisconnected is inductive once the types are known.      *)

\* Nothing waits at the start.
LEMMA PendingInit == Init => PendingOnlyWhenDisconnected
BY DEF Init, PendingOnlyWhenDisconnected

\* Steps that touch neither queues nor connections.
LEMMA PendingUnchanged ==
  ASSUME PendingOnlyWhenDisconnected, UNCHANGED <<pending, conns>>
  PROVE  PendingOnlyWhenDisconnected'
BY DEF PendingOnlyWhenDisconnected

\* A message is queued only for a peer without a connection, and a connection
\* takes along everything queued for its peer.
LEMMA PendingNext ==
  TypeOK /\ PendingOnlyWhenDisconnected /\ [Next]_vars => PendingOnlyWhenDisconnected'
<1>. SUFFICES ASSUME TypeOK, PendingOnlyWhenDisconnected, [Next]_vars
              PROVE  PendingOnlyWhenDisconnected'
  OBVIOUS
<1>0. conns \in [Peer -> Nat] /\ pending \in [Peer -> Seq(Nat)]
  BY DEF TypeOK, SwarmTypeOK, LoopTypeOK
<1>1. CASE UNCHANGED vars
  BY <1>1, PendingUnchanged DEF vars, loopVars, swarmVars
<1>2. CASE \/ \E a \in Target : SendMessage(a)
           \/ \E a \in ListenAddr : StartCall("listen", a)
           \/ \E a \in RelayAddr : StartCall("relay", a)
           \/ FinishCall
  BY <1>2, PendingUnchanged
  DEF SendMessage, StartCall, FinishCall, loopVars, swarmVars
<1>3. CASE HandleCommand
  <2>1. CASE \/ SendUnparsable \/ SendWithoutPeer \/ SendConnected
             \/ HandleListen \/ HandleListenViaRelay
    BY <2>1, PendingUnchanged
    DEF SendUnparsable, SendWithoutPeer, SendConnected, HandleListen,
        HandleListenViaRelay, loopVars, swarmVars
  <2>2. CASE SendAndDial
    <3>1. /\ conns' = conns /\ conns[Destination] = 0
          /\ pending' = Queued(pending, Destination, Head(cmdQ).id)
      BY <2>2 DEF SendAndDial
    <3>. QED
      BY <1>0, <3>1 DEF PendingOnlyWhenDisconnected, Queued
  <2>3. CASE SendDialRefused
    <3>1. /\ conns' = conns /\ conns[Destination] = 0
          /\ pending' = Removed(Queued(pending, Destination, Head(cmdQ).id), Destination)
      BY <2>3 DEF SendDialRefused, swarmVars
    <3>. QED
      BY <1>0, <3>1 DEF PendingOnlyWhenDisconnected, Queued, Removed
  <2>. QED
    BY <1>3, <2>1, <2>2, <2>3 DEF HandleCommand, DoSend
<1>4. CASE SendToPeer \/ NewListenAddr \/ ListenerClosed \/ DialFails
  BY <1>4, PendingUnchanged
  DEF SendToPeer, NewListenAddr, ListenerClosed, DialFails, loopVars, swarmVars
<1>5. CASE Dialled \/ \E p \in Peer : Inbound(p)
  <2>1. PICK p \in Peer : OnConnected(p)
    BY <1>5 DEF Dialled, DialSucceeds, Inbound
  <2>2. pending' = Removed(pending, p) /\ conns' = [conns EXCEPT ![p] = @ + 1]
    BY <2>1 DEF OnConnected
  <2>. QED
    BY <1>0, <2>2 DEF PendingOnlyWhenDisconnected, Removed
<1>6. CASE ConnectionClosed
  <2>1. PICK p \in Peer : conns' = [conns EXCEPT ![p] = @ - 1]
    BY <1>6 DEF ConnectionClosed
  <2>2. pending' = pending
    BY <1>6 DEF ConnectionClosed, loopVars
  <2>3. \A q \in Peer : conns'[q] > 0 => conns[q] > 0
    BY <1>0, <2>1
  <2>. QED
    BY <2>2, <2>3 DEF PendingOnlyWhenDisconnected
<1>7. CASE \/ \E m \in InMsg : RemoteSends(m) \/ HandleIncoming(m)
           \/ AcceptStream \/ TryRecvEvent
  BY <1>7, PendingUnchanged
  DEF RemoteSends, HandleIncoming, AcceptStream, TryRecvEvent, loopVars, swarmVars
<1>. QED
  BY <1>1, <1>2, <1>3, <1>4, <1>5, <1>6, <1>7 DEF Next

\* Nothing is ever left in pending_sends for a peer the node is connected to.
THEOREM NothingPendsForConnected == Spec => []PendingOnlyWhenDisconnected
BY PendingInit, PendingNext, TypeCorrect, PTL DEF Spec
-----------------------------------------------------------------------------
(* One answerer for each call.  The invariant that is inductive also says  *)
(* which call the sender belongs to, wherever it is.                       *)

\* CallHasOneAnswerer, with the four places spelt out.
OneAnswerer(queued, listen, relay, answered) ==
  IF call = NoCall THEN ~queued /\ ~listen /\ ~relay /\ ~answered
  ELSE \/ queued /\ ~listen /\ ~relay /\ ~answered
       \/ ~queued /\ listen /\ ~relay /\ ~answered
       \/ ~queued /\ ~listen /\ relay /\ ~answered
       \/ ~queued /\ ~listen /\ ~relay /\ answered

CallInv ==
  /\ OneAnswerer(QueuedCalls # {}, pendingListen, pendingRelay # NoAddr,
                 answer # NoAnswer)
  /\ \A i, j \in QueuedCalls : i = j
  /\ \A i \in QueuedCalls : cmdQ[i].kind = call.kind /\ cmdQ[i].addr = call.addr
  /\ pendingListen => call.kind = "listen"
  /\ pendingRelay # NoAddr => call.kind = "relay"
  /\ call.kind = "relay" /\ answer.res = "ok" => ContainsCircuit(answer.addr)
  /\ RelayAnswerIsCircuit

\* The strengthened invariant gives the property.
LEMMA CallInvImplies == CallInv => CallHasOneAnswerer
<1>. SUFFICES ASSUME CallInv PROVE CallHasOneAnswerer
  OBVIOUS
<1>1. /\ Holders \subseteq {"command", "pending_listen", "pending_relay", "answer"}
      /\ "command" \in Holders <=> QueuedCalls # {}
      /\ "pending_listen" \in Holders <=> pendingListen
      /\ "pending_relay" \in Holders <=> pendingRelay # NoAddr
      /\ "answer" \in Holders <=> answer # NoAnswer
  BY DEF Holders
<1>2. CASE call = NoCall
  <2>1. Holders = {}
    BY <1>1, <1>2 DEF CallInv, OneAnswerer
  <2>. QED
    BY <1>2, <2>1 DEF CallInv, CallHasOneAnswerer
<1>3. CASE call # NoCall
  <2>1. \/ Holders = {"command"} \/ Holders = {"pending_listen"}
        \/ Holders = {"pending_relay"} \/ Holders = {"answer"}
    BY <1>1, <1>3 DEF CallInv, OneAnswerer
  <2>. QED
    BY <1>3, <2>1 DEF CallInv, CallHasOneAnswerer
<1>. QED
  BY <1>2, <1>3

\* No call waits at the start.
LEMMA CallInit == Init => CallInv
BY DEF Init, CallInv, OneAnswerer, QueuedCalls, RelayAnswerIsCircuit, NoAnswer, NoCall

\* A new command at the end of the queue.
LEMMA QueuedCallsAppend ==
  ASSUME TypeOK, NEW c \in Command, cmdQ' = Append(cmdQ, c)
  PROVE  /\ c.kind = "send" => QueuedCalls' = QueuedCalls
         /\ c.kind # "send" => QueuedCalls' = QueuedCalls \cup {Len(cmdQ) + 1}
         /\ \A i \in QueuedCalls : cmdQ'[i] = cmdQ[i]
         /\ cmdQ'[Len(cmdQ) + 1] = c
<1>1. cmdQ \in Seq(Command)
  BY DEF TypeOK
<1>2. /\ Len(cmdQ') = Len(cmdQ) + 1
      /\ \A i \in 1 .. Len(cmdQ) : cmdQ'[i] = cmdQ[i]
      /\ cmdQ'[Len(cmdQ) + 1] = c
  BY <1>1, AppendProperties
<1>3. Len(cmdQ) \in Nat
  BY <1>1, LenProperties
<1>. QED
  BY <1>2, <1>3 DEF QueuedCalls

\* A command taken from the front of the queue.
LEMMA QueuedCallsTail ==
  ASSUME TypeOK, NEW kind, Take(kind)
  PROVE  /\ kind = "send" => /\ QueuedCalls = {} <=> QueuedCalls' = {}
                             /\ \A i \in QueuedCalls' : i + 1 \in QueuedCalls
                             /\ \A i \in QueuedCalls' : cmdQ'[i] = cmdQ[i + 1]
         /\ kind # "send" => /\ 1 \in QueuedCalls
                             /\ (\A i, j \in QueuedCalls : i = j) => QueuedCalls' = {}
<1>1. cmdQ \in Seq(Command) /\ cmdQ # <<>> /\ cmdQ' = Tail(cmdQ) /\ cmdQ[1].kind = kind
  BY HeadTailProperties DEF TypeOK, Take
<1>2. /\ Len(cmdQ) \in Nat /\ Len(cmdQ) # 0 /\ Len(cmdQ') = Len(cmdQ) - 1
      /\ \A i \in 1 .. Len(cmdQ') : cmdQ'[i] = cmdQ[i + 1]
  BY <1>1, HeadTailProperties, LenProperties, EmptySeq
<1>3. \A i \in QueuedCalls' : i + 1 \in QueuedCalls /\ cmdQ'[i] = cmdQ[i + 1] /\ i + 1 # 1
  BY <1>2 DEF QueuedCalls
<1>4. \A i \in QueuedCalls : i # 1 => i - 1 \in QueuedCalls'
  BY <1>2 DEF QueuedCalls
<1>5. kind # "send" <=> 1 \in QueuedCalls
  BY <1>1, <1>2 DEF QueuedCalls
<1>. QED
  BY <1>3, <1>4, <1>5

\* Steps that leave the calls alone, whether they take a message from the
\* front of the queue or put one at its end.
LEMMA CallKept ==
  ASSUME CallInv,
         UNCHANGED <<call, answer, replies, pendingListen, pendingRelay>>,
         QueuedCalls = {} <=> QueuedCalls' = {},
         NEW d \in {0, 1},
         \A i \in QueuedCalls' : i + d \in QueuedCalls /\ cmdQ'[i] = cmdQ[i + d]
  PROVE  CallInv'
<1>1. \A i \in QueuedCalls' : i \in Int
  BY DEF QueuedCalls
<1>2. \A i, j \in QueuedCalls' : i = j
  BY <1>1 DEF CallInv
<1>3. \A i \in QueuedCalls' : cmdQ'[i].kind = call'.kind /\ cmdQ'[i].addr = call'.addr
  BY DEF CallInv
<1>4. OneAnswerer(QueuedCalls # {}, pendingListen, pendingRelay # NoAddr,
                  answer # NoAnswer)'
  BY DEF CallInv, OneAnswerer
<1>5. RelayAnswerIsCircuit'
  BY DEF CallInv, RelayAnswerIsCircuit
<1>. QED
  BY <1>2, <1>3, <1>4, <1>5 DEF CallInv

\* The same for steps that do not touch the command queue.
LEMMA CallKeptSameQueue ==
  ASSUME CallInv, UNCHANGED <<call, answer, replies, pendingListen, pendingRelay, cmdQ>>
  PROVE  CallInv'
<1>1. QueuedCalls' = QueuedCalls
  BY DEF QueuedCalls
<1>2. \A i \in QueuedCalls' : i + 0 \in QueuedCalls /\ cmdQ'[i] = cmdQ[i + 0]
  BY <1>1 DEF QueuedCalls
<1>. QED
  BY <1>1, <1>2, CallKept

\* A call starts: its sender is in the queue and nowhere else.
LEMMA CallStarts ==
  ASSUME TypeOK, CallInv, NEW kind \in {"listen", "relay"},
         NEW a \in IF kind = "listen" THEN ListenAddr ELSE RelayAddr,
         StartCall(kind, a)
  PROVE  CallInv'
<1>. DEFINE c == [kind |-> kind, id |-> 0, addr |-> a]
<1>1. /\ call = NoCall /\ call' = [kind |-> kind, addr |-> a] /\ cmdQ' = Append(cmdQ, c)
      /\ UNCHANGED <<answer, replies, pendingListen, pendingRelay>>
  BY DEF StartCall, loopVars
<1>2. c \in Command /\ c.kind # "send"
  BY DEF Command
<1>3. QueuedCalls = {} /\ ~pendingListen /\ pendingRelay = NoAddr /\ answer = NoAnswer
  BY <1>1 DEF CallInv, OneAnswerer
<1>4. QueuedCalls' = {Len(cmdQ) + 1} /\ cmdQ'[Len(cmdQ) + 1] = c
  BY <1>1, <1>2, <1>3, QueuedCallsAppend
<1>5. call' # NoCall
  BY <1>1 DEF NoCall
<1>6. OneAnswerer(QueuedCalls # {}, pendingListen, pendingRelay # NoAddr,
                  answer # NoAnswer)'
  BY <1>1, <1>3, <1>4, <1>5 DEF OneAnswerer
<1>7. RelayAnswerIsCircuit'
  BY <1>1 DEF CallInv, RelayAnswerIsCircuit
<1>. QED
  BY <1>1, <1>3, <1>4, <1>6, <1>7 DEF CallInv, NoAnswer

\* A call ends: the answer was the only trace of it.
LEMMA CallEnds ==
  ASSUME TypeOK, CallInv, FinishCall
  PROVE  CallInv'
<1>1. /\ answer # NoAnswer /\ call' = NoCall /\ answer' = NoAnswer
      /\ UNCHANGED <<cmdQ, pendingListen, pendingRelay>>
  BY DEF FinishCall, loopVars
<1>2. QueuedCalls = {} /\ ~pendingListen /\ pendingRelay = NoAddr
  BY <1>1 DEF CallInv, OneAnswerer
<1>3. QueuedCalls' = {}
  BY <1>1, <1>2 DEF QueuedCalls
<1>4. RelayAnswerIsCircuit'
  <2>. DEFINE r == [kind |-> call.kind, asked |-> call.addr,
                    res |-> answer.res, got |-> answer.addr]
  <2>1. replies' = Append(replies, r)
    BY DEF FinishCall
  <2>2. r.kind = "relay" /\ r.res = "ok" => ContainsCircuit(r.got)
    BY DEF CallInv
  <2>3. /\ Len(replies') = Len(replies) + 1
        /\ \A i \in 1 .. Len(replies) : replies'[i] = replies[i]
        /\ replies'[Len(replies) + 1] = r
    <3>. HIDE DEF r
    <3>. QED
      BY <2>1 DEF TypeOK, FrontTypeOK
  <2>4. Len(replies) \in Nat
    BY DEF TypeOK, FrontTypeOK
  <2>. HIDE DEF r
  <2>5. \A i \in 1 .. Len(replies') : i \in 1 .. Len(replies) \/ i = Len(replies) + 1
    BY <2>3, <2>4
  <2>. QED
    BY <2>2, <2>3, <2>5 DEF CallInv, RelayAnswerIsCircuit
<1>. QED
  BY <1>1, <1>2, <1>3, <1>4 DEF CallInv, OneAnswerer, NoCall, NoAnswer

\* The loop takes the call's command: the sender is moved into a slot, or
\* used up by a Failure.
LEMMA CallHandled ==
  ASSUME TypeOK, CallInv, HandleListen \/ HandleListenViaRelay
  PROVE  CallInv'
<1>1. UNCHANGED <<call, replies>>
  BY DEF HandleListen, HandleListenViaRelay
<1>2. PICK kind \in {"listen", "relay"} :
         /\ Take(kind)
         /\ kind = "listen" => HandleListen
         /\ kind = "relay" => HandleListenViaRelay
  BY DEF HandleListen, HandleListenViaRelay
<1>3. 1 \in QueuedCalls /\ QueuedCalls' = {}
  BY <1>2, QueuedCallsTail DEF CallInv
<1>4. cmdQ[1].kind = kind /\ call.kind = kind /\ call # NoCall
  BY <1>2, <1>3, HeadTailProperties DEF Take, CallInv, NoCall, TypeOK
<1>5. ~pendingListen /\ pendingRelay = NoAddr /\ answer = NoAnswer
  BY <1>3, <1>4 DEF CallInv, OneAnswerer
<1>6. RelayAnswerIsCircuit'
  BY <1>1 DEF CallInv, RelayAnswerIsCircuit
<1>7. \/ /\ answer' = [res |-> "err", addr |-> NoAddr]
         /\ UNCHANGED <<pendingListen, pendingRelay>>
      \/ kind = "listen" /\ pendingListen' = TRUE /\ UNCHANGED <<answer, pendingRelay>>
      \/ /\ kind = "relay" /\ pendingRelay' # NoAddr
         /\ UNCHANGED <<answer, pendingListen>>
  <2>1. ~Parses(NoAddr)
    BY DEF Parses, NoAddr
  <2>2. CASE kind = "listen"
    BY <1>2, <2>2 DEF HandleListen, Reply
  <2>3. CASE kind = "relay"
    BY <1>2, <2>1, <2>3 DEF HandleListenViaRelay, Reply
  <2>. QED
    BY <2>2, <2>3
<1>8. answer' = [res |-> "err", addr |-> NoAddr] => answer' # NoAnswer /\ answer'.res # "ok"
  BY DEF NoAnswer
<1>9. OneAnswerer(QueuedCalls # {}, pendingListen, pendingRelay # NoAddr,
                  answer # NoAnswer)'
  BY <1>1, <1>3, <1>4, <1>5, <1>7, <1>8 DEF OneAnswerer
<1>. QED
  BY <1>1, <1>3, <1>4, <1>5, <1>6, <1>7, <1>8, <1>9 DEF CallInv, NoAnswer

\* An announcement takes the sender out of the slot it answers from.
LEMMA CallAnswers ==
  ASSUME TypeOK, CallInv, NewListenAddr
  PROVE  CallInv'
<1>1. UNCHANGED <<call, replies, cmdQ>> /\ QueuedCalls' = QueuedCalls
  BY DEF NewListenAddr, QueuedCalls
<1>2. PICK a \in announcing :
         \/ /\ AnswersRelay(a.addr) /\ pendingRelay' = NoAddr
            /\ Reply("ok", a.addr) /\ UNCHANGED pendingListen
         \/ /\ pendingListen /\ pendingListen' = FALSE
            /\ Reply("ok", a.addr) /\ UNCHANGED pendingRelay
         \/ UNCHANGED <<pendingListen, pendingRelay, answer>>
  BY DEF NewListenAddr, RelayTaken
<1>3. CASE AnswersRelay(a.addr) /\ pendingRelay' = NoAddr /\ Reply("ok", a.addr)
           /\ UNCHANGED pendingListen
  <2>1. /\ pendingRelay # NoAddr /\ ContainsCircuit(a.addr)
        /\ answer' = [res |-> "ok", addr |-> a.addr]
    BY <1>3 DEF AnswersRelay, Reply
  <2>2. answer' # NoAnswer
    BY <2>1 DEF NoAnswer
  <2>3. call # NoCall /\ QueuedCalls = {} /\ ~pendingListen
    BY <2>1 DEF CallInv, OneAnswerer
  <2>. QED
    BY <1>1, <1>3, <2>1, <2>2, <2>3 DEF CallInv, OneAnswerer, RelayAnswerIsCircuit
<1>4. CASE pendingListen /\ pendingListen' = FALSE /\ Reply("ok", a.addr)
           /\ UNCHANGED pendingRelay
  <2>1. answer' = [res |-> "ok", addr |-> a.addr] /\ call.kind = "listen"
    BY <1>4 DEF Reply, CallInv
  <2>2. answer' # NoAnswer
    BY <2>1 DEF NoAnswer
  <2>3. call # NoCall /\ QueuedCalls = {} /\ pendingRelay = NoAddr
    BY <1>4 DEF CallInv, OneAnswerer
  <2>. QED
    BY <1>1, <1>4, <2>1, <2>2, <2>3 DEF CallInv, OneAnswerer, RelayAnswerIsCircuit
<1>5. CASE UNCHANGED <<pendingListen, pendingRelay, answer>>
  BY <1>1, <1>5, CallKeptSameQueue
<1>. QED
  BY <1>2, <1>3, <1>4, <1>5

\* Every step of the node keeps the invariant of the calls.
LEMMA CallNext == TypeOK /\ CallInv /\ [Next]_vars => CallInv'
<1>. SUFFICES ASSUME TypeOK, CallInv, [Next]_vars PROVE CallInv'
  OBVIOUS
<1>1. CASE UNCHANGED vars
  BY <1>1, CallKeptSameQueue DEF vars, frontVars, loopVars
<1>2. ASSUME NEW a \in Target, SendMessage(a) PROVE CallInv'
  <2>. DEFINE c == [kind |-> "send", id |-> nextId, addr |-> TranslateAddress(a)]
  <2>1. c \in Command
    BY AddressTypes, NetworkAssumption
    DEF Command, NetworkAssumption, TypeOK, FrontTypeOK
  <2>2. /\ cmdQ' = Append(cmdQ, c) /\ c.kind = "send"
        /\ UNCHANGED <<call, answer, replies, pendingListen, pendingRelay>>
    BY <1>2 DEF SendMessage, loopVars
  <2>3. QueuedCalls' = QueuedCalls /\ \A i \in QueuedCalls : cmdQ'[i] = cmdQ[i]
    BY <2>1, <2>2, QueuedCallsAppend
  <2>4. \A i \in QueuedCalls' : i + 0 \in QueuedCalls /\ cmdQ'[i] = cmdQ[i + 0]
    BY <2>3 DEF QueuedCalls
  <2>. QED
    BY <2>2, <2>3, <2>4, CallKept
<1>3. CASE \/ \E a \in ListenAddr : StartCall("listen", a)
           \/ \E a \in RelayAddr : StartCall("relay", a)
  BY <1>3, CallStarts
<1>4. CASE DoSend
  <2>1. /\ Take("send")
        /\ UNCHANGED <<call, answer, replies, pendingListen, pendingRelay>>
    BY <1>4 DEF DoSend, SendUnparsable, SendWithoutPeer, SendConnected, SendAndDial,
                SendDialRefused, frontVars, loopVars
  <2>. QED
    BY <2>1, QueuedCallsTail, CallKept
<1>5. CASE HandleListen \/ HandleListenViaRelay
  BY <1>5, CallHandled
<1>6. CASE SendToPeer \/ ListenerClosed \/ DialFails \/ ConnectionClosed
  BY <1>6, CallKeptSameQueue
  DEF SendToPeer, ListenerClosed, DialFails, ConnectionClosed, frontVars, loopVars
<1>7. CASE Dialled \/ \E p \in Peer : Inbound(p)
  <2>1. PICK p \in Peer : OnConnected(p)
    BY <1>7 DEF Dialled, DialSucceeds, Inbound
  <2>. QED
    BY <2>1, CallKeptSameQueue DEF OnConnected, frontVars
<1>8. CASE \/ \E m \in InMsg : RemoteSends(m) \/ HandleIncoming(m)
           \/ AcceptStream \/ TryRecvEvent
  BY <1>8, CallKeptSameQueue
  DEF RemoteSends, HandleIncoming, AcceptStream, TryRecvEvent, frontVars, loopVars
<1>. QED
  BY <1>1, <1>2, <1>3, <1>4, <1>5, <1>6, <1>7, <1>8, CallEnds, CallAnswers
  DEF Next, HandleCommand

\* So it holds in every behaviour.
LEMMA CallInvariant == Spec => []CallInv
BY CallInit, CallNext, TypeCorrect, PTL DEF Spec

\* While a Listen or ListenViaRelay call waits, exactly one place holds the
\* sender that will answer it; when none waits, no place does.
THEOREM OneAnswererForEachCall == Spec => []CallHasOneAnswerer
BY CallInvariant, CallInvImplies, PTL

\* ListenViaRelay is never answered with an address that is not a circuit.
THEOREM RelayAnswersAreCircuits == Spec => []RelayAnswerIsCircuit
<1>1. CallInv => RelayAnswerIsCircuit
  BY DEF CallInv
<1>. QED
  BY <1>1, CallInvariant, PTL
-----------------------------------------------------------------------------
(* Messages on their way.  What the properties about order, reports and    *)
(* destinations share is an invariant about the sequences a message goes   *)
(* through; the lemmas first say what a step of a sequence does to the set *)
(* of its elements and to their order.                                     *)

Increasing(s) == \A i, j \in 1 .. Len(s) : i < j => s[i] < s[j]
Before(S, T)  == \A x \in S, y \in T : x < y

\* A sequence that grows at its end.
LEMMA ElementsAppend ==
  ASSUME NEW S, NEW s \in Seq(S), NEW x \in S
  PROVE  Elements(Append(s, x)) = Elements(s) \cup {x}
<1>1. /\ Len(s) \in Nat /\ Len(Append(s, x)) = Len(s) + 1
      /\ \A i \in 1 .. Len(s) : Append(s, x)[i] = s[i]
      /\ Append(s, x)[Len(s) + 1] = x
  BY AppendProperties, LenProperties
<1>. QED
  BY <1>1 DEF Elements

\* A sequence that loses its head.
LEMMA ElementsTail ==
  ASSUME NEW S, NEW s \in Seq(S), s # <<>>
  PROVE  /\ Elements(s) = {Head(s)} \cup Elements(Tail(s))
         /\ Head(s) \in S /\ Tail(s) \in Seq(S)
<1>1. /\ Len(s) \in Nat /\ Len(s) # 0 /\ Len(Tail(s)) = Len(s) - 1
      /\ \A i \in 1 .. Len(Tail(s)) : Tail(s)[i] = s[i + 1]
      /\ Head(s) = s[1] /\ Head(s) \in S /\ Tail(s) \in Seq(S)
  BY HeadTailProperties, LenProperties, EmptySeq
<1>2. \A i \in 1 .. Len(s) : i = 1 \/ (i - 1 \in 1 .. Len(Tail(s)) /\ s[i] = Tail(s)[i - 1])
  BY <1>1
<1>3. \A i \in 1 .. Len(Tail(s)) : i + 1 \in 1 .. Len(s)
  BY <1>1
<1>4. 1 \in 1 .. Len(s)
  BY <1>1
<1>5. Elements(s) \subseteq {Head(s)} \cup Elements(Tail(s))
  BY <1>1, <1>2 DEF Elements
<1>6. {Head(s)} \cup Elements(Tail(s)) \subseteq Elements(s)
  BY <1>1, <1>3, <1>4 DEF Elements
<1>. QED
  BY <1>1, <1>5, <1>6

\* Elements have the type of the sequence; the empty sequence has none.
LEMMA ElementsType ==
  /\ Elements(<<>>) = {}
  /\ \A S : \A s \in Seq(S) : Elements(s) \subseteq S
BY DEF Elements

\* One element: it is the only one, and in order.
LEMMA OneElement ==
  ASSUME NEW x
  PROVE  Elements(<<x>>) = {x} /\ Increasing(<<x>>) /\ Increasing(<<>>)
BY DEF Elements, Increasing

\* Order when a sequence grows by something larger, and when it loses its head.
LEMMA IncreasingAppend ==
  ASSUME NEW s \in Seq(Nat), NEW x \in Nat, Increasing(s), Before(Elements(s), {x})
  PROVE  Increasing(Append(s, x))
<1>1. /\ Len(s) \in Nat /\ Len(Append(s, x)) = Len(s) + 1
      /\ \A i \in 1 .. Len(s) : Append(s, x)[i] = s[i]
      /\ Append(s, x)[Len(s) + 1] = x
  BY AppendProperties, LenProperties
<1>2. \A i \in 1 .. Len(s) : s[i] < x
  BY DEF Before, Elements
<1>. QED
  BY <1>1, <1>2 DEF Increasing

LEMMA IncreasingTail ==
  ASSUME NEW s \in Seq(Nat), s # <<>>, Increasing(s)
  PROVE  Increasing(Tail(s)) /\ Before({Head(s)}, Elements(Tail(s)))
<1>1. /\ Len(s) \in Nat /\ Len(s) # 0 /\ Len(Tail(s)) = Len(s) - 1
      /\ \A i \in 1 .. Len(Tail(s)) : Tail(s)[i] = s[i + 1]
      /\ Head(s) = s[1]
  BY HeadTailProperties, LenProperties, EmptySeq
<1>2. \A i \in 1 .. Len(Tail(s)) : i + 1 \in 1 .. Len(s) /\ 1 \in 1 .. Len(s) /\ 1 < i + 1
  BY <1>1
<1>. QED
  BY <1>1, <1>2 DEF Increasing, Before, Elements
-----------------------------------------------------------------------------
(* The command queue.                                                      *)

Sends  == {i \in 1 .. Len(cmdQ) : cmdQ[i].kind = "send"}
CmdIds == {cmdQ[i].id : i \in Sends}

\* Ids are given out one after the other, and the queue keeps their order.
QueueInv ==
  /\ nextId = Len(sentTo) + 1
  /\ \A i \in Sends : /\ cmdQ[i].id \in 1 .. Len(sentTo)
                      /\ cmdQ[i].addr = TranslateAddress(sentTo[cmdQ[i].id])
  /\ \A i, j \in Sends : i < j => cmdQ[i].id < cmdQ[j].id

\* The commands that are left when one is taken.
LEMMA SendsTail ==
  ASSUME TypeOK, NEW kind, Take(kind)
  PROVE  /\ \A i \in Sends' : i \in Int /\ i + 1 \in Sends /\ cmdQ'[i] = cmdQ[i + 1]
         /\ \A i \in Sends : i \in Int /\ (i = 1 \/ (i > 1 /\ i - 1 \in Sends'))
         /\ (1 \in Sends <=> kind = "send") /\ Head(cmdQ) = cmdQ[1]
<1>1. /\ cmdQ \in Seq(Command) /\ cmdQ # <<>> /\ cmdQ' = Tail(cmdQ)
      /\ Head(cmdQ).kind = kind
  BY DEF TypeOK, Take
<1>2. /\ Len(cmdQ) \in Nat /\ Len(cmdQ) # 0 /\ Len(cmdQ') = Len(cmdQ) - 1
      /\ \A i \in 1 .. Len(cmdQ') : cmdQ'[i] = cmdQ[i + 1]
      /\ Head(cmdQ) = cmdQ[1]
  BY <1>1, HeadTailProperties, LenProperties, EmptySeq
<1>3. \A i \in 1 .. Len(cmdQ') : i \in Int /\ i + 1 \in 1 .. Len(cmdQ)
  BY <1>2
<1>4. \A i \in 1 .. Len(cmdQ) : i \in Int /\ (i = 1 \/ (i > 1 /\ i - 1 \in 1 .. Len(cmdQ')))
  BY <1>2
<1>5. \A i \in 1 .. Len(cmdQ) : i - 1 \in 1 .. Len(cmdQ') => cmdQ'[i - 1] = cmdQ[i]
  <2>1. \A i \in 1 .. Len(cmdQ) : (i - 1) + 1 = i
    BY <1>2
  <2>. QED
    BY <1>2, <2>1
<1>6. 1 \in 1 .. Len(cmdQ)
  BY <1>2
<1>. QED
  BY <1>1, <1>2, <1>3, <1>4, <1>5, <1>6 DEF Sends

\* Taking a command: the first id is the smallest.
LEMMA QueueTaken ==
  ASSUME TypeOK, QueueInv, NEW kind, Take(kind)
  PROVE  /\ UNCHANGED <<nextId, sentTo>> => QueueInv'
         /\ kind # "send" => CmdIds' = CmdIds
         /\ kind = "send" => LET h == Head(cmdQ) IN
              /\ CmdIds = {h.id} \cup CmdIds' /\ Before({h.id}, CmdIds')
              /\ h.id \in 1 .. Len(sentTo) /\ h.addr = TranslateAddress(sentTo[h.id])
<1>1. /\ \A i \in Sends' : i \in Int /\ i + 1 \in Sends /\ cmdQ'[i] = cmdQ[i + 1]
      /\ \A i \in Sends : i \in Int /\ (i = 1 \/ (i > 1 /\ i - 1 \in Sends'))
      /\ (1 \in Sends <=> kind = "send") /\ Head(cmdQ) = cmdQ[1]
  BY SendsTail
<1>2. CmdIds' \subseteq CmdIds
  BY <1>1 DEF CmdIds
<1>3. \A i \in Sends : i > 1 => cmdQ[i].id \in CmdIds'
  <2>. SUFFICES ASSUME NEW i \in Sends, i > 1 PROVE cmdQ[i].id \in CmdIds'
    OBVIOUS
  <2>1. i - 1 \in Sends' /\ (i - 1) + 1 = i
    BY <1>1
  <2>2. cmdQ'[i - 1] = cmdQ[i]
    BY <1>1, <2>1
  <2>. QED
    BY <2>1, <2>2 DEF CmdIds
<1>4. UNCHANGED <<nextId, sentTo>> => QueueInv'
  BY <1>1 DEF QueueInv
<1>5. kind # "send" => CmdIds' = CmdIds
  BY <1>1, <1>2, <1>3 DEF CmdIds
<1>6. ASSUME kind = "send"
      PROVE  /\ CmdIds = {Head(cmdQ).id} \cup CmdIds'
             /\ Before({Head(cmdQ).id}, CmdIds')
             /\ Head(cmdQ).id \in 1 .. Len(sentTo)
             /\ Head(cmdQ).addr = TranslateAddress(sentTo[Head(cmdQ).id])
  <2>1. 1 \in Sends /\ Head(cmdQ) = cmdQ[1]
    BY <1>1, <1>6
  <2>2. CmdIds = {Head(cmdQ).id} \cup CmdIds'
    BY <1>1, <1>2, <1>3, <2>1 DEF CmdIds
  <2>3. \A i \in Sends' : cmdQ[1].id < cmdQ'[i].id
    <3>. SUFFICES ASSUME NEW i \in Sends' PROVE cmdQ[1].id < cmdQ'[i].id
      OBVIOUS
    <3>1. i + 1 \in Sends /\ i \in Int /\ cmdQ'[i] = cmdQ[i + 1]
      BY <1>1
    <3>2. i >= 1
      BY DEF Sends
    <3>3. 1 < i + 1
      BY <3>1, <3>2
    <3>. QED
      BY <2>1, <3>1, <3>3 DEF QueueInv
  <2>. QED
    BY <2>1, <2>2, <2>3 DEF QueueInv, Before, CmdIds
<1>. QED
  BY <1>4, <1>5, <1>6

\* Putting a command: a message is put under the next id.
LEMMA QueuePut ==
  ASSUME TypeOK, NEW c \in Command, cmdQ' = Append(cmdQ, c)
  PROVE  /\ c.kind # "send" => Sends' = Sends /\ CmdIds' = CmdIds
         /\ c.kind = "send" => /\ Sends' = Sends \cup {Len(cmdQ) + 1}
                               /\ CmdIds' = CmdIds \cup {c.id}
         /\ \A i \in Sends : i \in Int /\ i <= Len(cmdQ) /\ cmdQ'[i] = cmdQ[i]
         /\ cmdQ'[Len(cmdQ) + 1] = c
<1>1. /\ Len(cmdQ) \in Nat /\ Len(cmdQ') = Len(cmdQ) + 1
      /\ \A i \in 1 .. Len(cmdQ) : cmdQ'[i] = cmdQ[i]
      /\ cmdQ'[Len(cmdQ) + 1] = c
  BY AppendProperties, LenProperties DEF TypeOK
<1>2. /\ c.kind # "send" => Sends' = Sends
      /\ c.kind = "send" => Sends' = Sends \cup {Len(cmdQ) + 1}
  BY <1>1 DEF Sends
<1>3. \A i \in Sends : i \in Int /\ i <= Len(cmdQ) /\ cmdQ'[i] = cmdQ[i]
  BY <1>1 DEF Sends
<1>4. /\ c.kind # "send" => CmdIds' = CmdIds
      /\ c.kind = "send" => CmdIds' = CmdIds \cup {c.id}
  <2>1. {cmdQ'[i].id : i \in Sends} = CmdIds
    BY <1>3 DEF CmdIds
  <2>2. ASSUME c.kind # "send" PROVE CmdIds' = CmdIds
    BY <1>2, <2>1, <2>2 DEF CmdIds
  <2>3. ASSUME c.kind = "send" PROVE CmdIds' = CmdIds \cup {c.id}
    <3>1. {cmdQ'[i].id : i \in Sends \cup {Len(cmdQ) + 1}}
            = {cmdQ'[i].id : i \in Sends} \cup {c.id}
      BY <1>1
    <3>. QED
      BY <1>2, <2>1, <2>3, <3>1 DEF CmdIds
  <2>. QED
    BY <2>2, <2>3
<1>. QED
  BY <1>1, <1>2, <1>3, <1>4

\* A message is accepted under an id larger than every other.
LEMMA QueueAccepts ==
  ASSUME TypeOK, QueueInv, NEW a \in Target, SendMessage(a)
  PROVE  QueueInv' /\ CmdIds' = CmdIds \cup {nextId}
<1>. DEFINE c == [kind |-> "send", id |-> nextId, addr |-> TranslateAddress(a)]
<1>1. c \in Command /\ cmdQ' = Append(cmdQ, c) /\ c.kind = "send"
  BY AddressTypes, NetworkAssumption
  DEF SendMessage, Command, NetworkAssumption, TypeOK, FrontTypeOK
<1>2. /\ Sends' = Sends \cup {Len(cmdQ) + 1} /\ CmdIds' = CmdIds \cup {nextId}
      /\ \A i \in Sends : i \in Int /\ i <= Len(cmdQ) /\ cmdQ'[i] = cmdQ[i]
      /\ cmdQ'[Len(cmdQ) + 1] = c
  BY <1>1, QueuePut
<1>3. /\ sentTo' = Append(sentTo, a) /\ nextId' = nextId + 1
      /\ sentTo \in Seq(Address) /\ a \in Address /\ Len(cmdQ) \in Nat
  BY NetworkAssumption DEF SendMessage, TypeOK, FrontTypeOK, NetworkAssumption
<1>4. /\ Len(sentTo') = Len(sentTo) + 1 /\ Len(sentTo) \in Nat
      /\ \A i \in 1 .. Len(sentTo) : sentTo'[i] = sentTo[i]
      /\ sentTo'[Len(sentTo) + 1] = a
  BY <1>3, AppendProperties, LenProperties
<1>5. /\ c.id = Len(sentTo) + 1 /\ c.addr = TranslateAddress(a)
      /\ nextId' = Len(sentTo') + 1
  BY <1>3, <1>4 DEF QueueInv
<1>. HIDE DEF c
<1>6. \A i \in Sends' : /\ cmdQ'[i].id \in 1 .. Len(sentTo')
                        /\ cmdQ'[i].addr = TranslateAddress(sentTo'[cmdQ'[i].id])
  BY <1>2, <1>4, <1>5 DEF QueueInv
<1>7. \A i, j \in Sends' : i < j => cmdQ'[i].id < cmdQ'[j].id
  <2>. SUFFICES ASSUME NEW i \in Sends', NEW j \in Sends', i < j
                PROVE  cmdQ'[i].id < cmdQ'[j].id
    OBVIOUS
  <2>1. i \in Sends
    BY <1>2, <1>3
  <2>2. CASE j \in Sends
    BY <1>2, <2>1, <2>2 DEF QueueInv
  <2>3. CASE j = Len(cmdQ) + 1
    BY <1>2, <1>4, <1>5, <2>1, <2>3 DEF QueueInv
  <2>. QED
    BY <1>2, <2>2, <2>3
<1>. QED
  BY <1>2, <1>5, <1>6, <1>7 DEF QueueInv
-----------------------------------------------------------------------------
(* From the queue to the wire.                                             *)

\* What the loop has taken for p and not forgotten.
Line(p) ==
  Elements(wire[p]) \cup Elements(pending[p])
    \cup (IF outbox.peer = p THEN Elements(outbox.msgs) ELSE {})

\* Each peer has a line of its own: the messages whose address names it, those
\* written before those being written, before those that wait for a connection,
\* before those the loop has not taken.
LineInv(p) ==
  /\ Increasing(wire[p]) /\ Increasing(pending[p])
  /\ Before(Elements(wire[p]), Elements(pending[p]))
  /\ outbox.peer = p => Before(Elements(wire[p]), Elements(outbox.msgs)) /\ conns[p] > 0
  /\ \A id \in Line(p) : id \in 1 .. Len(sentTo) /\ ExtractPeerId(sentTo[id]) = p
  /\ Before(Line(p), CmdIds)

FlowInv == Increasing(outbox.msgs) /\ \A p \in Peer : LineInv(p)

\* translate_address changes an address only to one that does not parse: the
\* loop dials what the manager named, or refuses it, and never takes a direct
\* address of a browser through its relay.
THEOREM TranslatedUnparsable ==
  ASSUME NEW a \in Address, Parses(TranslateAddress(a))
  PROVE  TranslateAddress(a) = a
<1>. SUFFICES ASSUME TranslateAddress(a) = RelayServer \o <<Circuit, Blank>> \o a
              PROVE  FALSE
  BY DEF TranslateAddress
<1>. DEFINE i == Len(RelayServer) + 2
<1>1. RelayServer \in Seq(Segment) /\ a \in Seq(Segment)
  BY NetworkAssumption DEF NetworkAssumption, Address
<1>2. <<Circuit, Blank>> \in Seq(Segment)
  BY SegmentTypes
<1>3. (RelayServer \o <<Circuit, Blank>> \o a)[i] = Blank
      /\ i \in 1 .. Len(RelayServer \o <<Circuit, Blank>> \o a)
  BY <1>1, <1>2
<1>. QED
  BY <1>3 DEF Parses

\* The message the loop takes goes to the peer its canonical address names.
LEMMA TakenFor ==
  ASSUME TypeOK, QueueInv, Take("send"), Routable
  PROVE  /\ Destination \in Peer /\ Head(cmdQ).id \in 1 .. Len(sentTo)
         /\ ExtractPeerId(sentTo[Head(cmdQ).id]) = Destination
<1>1. /\ Head(cmdQ).id \in 1 .. Len(sentTo)
      /\ Head(cmdQ).addr = TranslateAddress(sentTo[Head(cmdQ).id])
  BY QueueTaken
<1>2. sentTo[Head(cmdQ).id] \in Address
  BY <1>1 DEF TypeOK, FrontTypeOK
<1>. QED
  BY <1>1, <1>2, TranslatedUnparsable, TakeType DEF Routable, Destination

\* The sequences a message is in, and their elements.
LEMMA LineTypes ==
  ASSUME TypeOK, NEW p \in Peer
  PROVE  /\ wire[p] \in Seq(Nat) /\ pending[p] \in Seq(Nat) /\ outbox.msgs \in Seq(Nat)
         /\ Elements(wire[p]) \subseteq Nat /\ Elements(pending[p]) \subseteq Nat
         /\ Elements(outbox.msgs) \subseteq Nat
<1>1. wire[p] \in Seq(Nat) /\ pending[p] \in Seq(Nat) /\ outbox.msgs \in Seq(Nat)
  BY DEF TypeOK, LoopTypeOK, HistoryTypeOK
<1>. QED
  BY <1>1, ElementsType

\* While the loop is idle nothing is being written.
LEMMA IdleWritesNothing ==
  ASSUME Idle
  PROVE  outbox.msgs = <<>> /\ Elements(outbox.msgs) = {}
         /\ \A p \in Peer : outbox.peer # p
BY AddressAssumption, ElementsType DEF Idle, Nothing, AddressAssumption

\* Steps that touch no line and put nothing in the queue.
LEMMA FlowKept ==
  ASSUME FlowInv, UNCHANGED <<sentTo, pending, outbox, wire>>, CmdIds' \subseteq CmdIds,
         \A p \in Peer : outbox.peer = p => conns'[p] > 0
  PROVE  FlowInv'
<1>1. \A p \in Peer : Line(p)' = Line(p)
  BY DEF Line
<1>2. \A p \in Peer : LineInv(p)'
  BY <1>1 DEF FlowInv, LineInv, Before
<1>. QED
  BY <1>2 DEF FlowInv

\* A new message is larger than all that were taken.
LEMMA FlowAccepts ==
  ASSUME TypeOK, QueueInv, FlowInv, NEW a \in Target, SendMessage(a)
  PROVE  FlowInv'
<1>1. /\ UNCHANGED <<pending, outbox, wire, conns>> /\ sentTo' = Append(sentTo, a)
      /\ sentTo \in Seq(Address) /\ a \in Address
  BY NetworkAssumption
  DEF SendMessage, loopVars, swarmVars, TypeOK, FrontTypeOK, NetworkAssumption
<1>2. /\ Len(sentTo) \in Nat /\ Len(sentTo') = Len(sentTo) + 1
      /\ \A i \in 1 .. Len(sentTo) : sentTo'[i] = sentTo[i]
  BY <1>1, AppendProperties, LenProperties
<1>3. CmdIds' = CmdIds \cup {Len(sentTo) + 1}
  BY QueueAccepts DEF QueueInv
<1>4. \A p \in Peer : Line(p)' = Line(p)
  BY <1>1 DEF Line
<1>5. ASSUME NEW p \in Peer PROVE LineInv(p)'
  <2>1. \A id \in Line(p) : /\ id \in 1 .. Len(sentTo) /\ id \in 1 .. Len(sentTo')
                            /\ sentTo'[id] = sentTo[id] /\ id < Len(sentTo) + 1
    BY <1>2 DEF FlowInv, LineInv
  <2>2. Before(Line(p), CmdIds')
    BY <1>3, <2>1 DEF FlowInv, LineInv, Before
  <2>. QED
    BY <1>1, <1>4, <2>1, <2>2 DEF FlowInv, LineInv
<1>. QED
  BY <1>1, <1>5 DEF FlowInv

\* do_send to a peer that is connected.
LEMMA FlowSendConnected ==
  ASSUME TypeOK, QueueInv, FlowInv, SendConnected
  PROVE  FlowInv'
<1>. DEFINE h == Head(cmdQ).id
            d == Destination
<1>1. /\ Take("send") /\ Routable /\ outbox' = [peer |-> d, msgs |-> <<h>>]
      /\ UNCHANGED <<sentTo, pending, wire, conns>> /\ conns[d] > 0 /\ Idle
  BY DEF SendConnected, frontVars, swarmVars, Take
<1>2. /\ d \in Peer /\ h \in 1 .. Len(sentTo) /\ ExtractPeerId(sentTo[h]) = d
      /\ CmdIds = {h} \cup CmdIds' /\ Before({h}, CmdIds')
  BY <1>1, TakenFor, QueueTaken
<1>. HIDE DEF h, d
<1>3. Elements(outbox'.msgs) = {h} /\ Increasing(outbox'.msgs)
  BY <1>1, OneElement
<1>4. ASSUME NEW p \in Peer PROVE LineInv(p)'
  <2>1. Line(p)' = Line(p) \cup (IF d = p THEN {h} ELSE {})
    BY <1>1, <1>3, IdleWritesNothing DEF Line
  <2>2. Before(Line(p), {h}) /\ Before(Line(p)', CmdIds')
    BY <1>2, <2>1 DEF FlowInv, LineInv, Before
  <2>3. Before(Elements(wire[p]), {h})
    BY <2>2 DEF Line, Before
  <2>. QED
    BY <1>1, <1>2, <1>3, <2>1, <2>2, <2>3 DEF FlowInv, LineInv
<1>. QED
  BY <1>3, <1>4 DEF FlowInv

\* do_send to a peer that is not: the message goes behind those that wait.
LEMMA FlowSendAndDial ==
  ASSUME TypeOK, QueueInv, FlowInv, SendAndDial
  PROVE  FlowInv'
<1>. DEFINE h == Head(cmdQ).id
            d == Destination
<1>1. /\ Take("send") /\ Routable /\ pending' = [pending EXCEPT ![d] = Append(@, h)]
      /\ UNCHANGED <<sentTo, outbox, wire, conns>> /\ Idle
  BY DEF SendAndDial, frontVars, Queued, Take
<1>2. /\ d \in Peer /\ h \in 1 .. Len(sentTo) /\ ExtractPeerId(sentTo[h]) = d
      /\ CmdIds = {h} \cup CmdIds' /\ Before({h}, CmdIds') /\ h \in Nat
  BY <1>1, TakenFor, QueueTaken
<1>3. /\ pending'[d] = Append(pending[d], h)
      /\ \A p \in Peer \ {d} : pending'[p] = pending[p]
  BY <1>1, <1>2 DEF TypeOK, LoopTypeOK
<1>. HIDE DEF h, d
<1>4. Before(Line(d), {h})
  BY <1>2 DEF FlowInv, LineInv, Before
<1>5. Elements(pending'[d]) = Elements(pending[d]) \cup {h} /\ Increasing(pending'[d])
  <2>1. pending[d] \in Seq(Nat)
    BY <1>2, LineTypes
  <2>2. Before(Elements(pending[d]), {h}) /\ Increasing(pending[d])
    BY <1>2, <1>4 DEF Line, Before, FlowInv, LineInv
  <2>. QED
    BY <1>2, <1>3, <2>1, <2>2, ElementsAppend, IncreasingAppend
<1>6. ASSUME NEW p \in Peer PROVE LineInv(p)'
  <2>1. CASE p = d
    <3>1. Line(p)' = Line(p) \cup {h}
      BY <1>1, <1>5, <2>1 DEF Line
    <3>2. Before(Line(p)', CmdIds')
      BY <1>2, <2>1, <3>1 DEF FlowInv, LineInv, Before
    <3>3. Before(Elements(wire[d]), Elements(pending'[d]))
      BY <1>2, <1>4, <1>5 DEF FlowInv, LineInv, Line, Before
    <3>. QED
      BY <1>1, <1>2, <1>5, <2>1, <3>1, <3>2, <3>3 DEF FlowInv, LineInv
  <2>2. CASE p # d
    <3>1. Line(p)' = Line(p) /\ pending'[p] = pending[p]
      BY <1>1, <1>3, <2>2 DEF Line
    <3>2. Before(Line(p)', CmdIds')
      BY <1>2, <3>1 DEF FlowInv, LineInv, Before
    <3>. QED
      BY <1>1, <3>1, <3>2 DEF FlowInv, LineInv
  <2>. QED
    BY <2>1, <2>2
<1>. QED
  BY <1>1, <1>6 DEF FlowInv

\* A refused dial removes a queue, a connection moves it to the outbox, and a
\* write moves its head to the wire: lines only get shorter.
LEMMA FlowSendDialRefused ==
  ASSUME TypeOK, QueueInv, FlowInv, SendDialRefused
  PROVE  FlowInv'
<1>. DEFINE d == Destination
<1>1. /\ Take("send") /\ Routable /\ UNCHANGED <<sentTo, outbox, wire, conns>>
      /\ pending' = Removed(Queued(pending, d, Head(cmdQ).id), d)
  BY DEF SendDialRefused, frontVars, swarmVars
<1>2. d \in Peer /\ CmdIds' \subseteq CmdIds
  BY <1>1, TakenFor, QueueTaken
<1>3. pending'[d] = <<>> /\ \A p \in Peer \ {d} : pending'[p] = pending[p]
  BY <1>1, <1>2 DEF TypeOK, LoopTypeOK, Removed, Queued
<1>. HIDE DEF d
<1>4. Elements(pending'[d]) = {} /\ Increasing(pending'[d])
  BY <1>3, ElementsType, OneElement
<1>5. ASSUME NEW p \in Peer PROVE LineInv(p)'
  <2>1. Line(p)' \subseteq Line(p)
    BY <1>1, <1>3, <1>4 DEF Line
  <2>2. /\ Elements(pending'[p]) \subseteq Elements(pending[p])
        /\ Increasing(pending'[p])
    BY <1>3, <1>4 DEF FlowInv, LineInv
  <2>3. Before(Line(p)', CmdIds')
    BY <1>2, <2>1 DEF FlowInv, LineInv, Before
  <2>4. Before(Elements(wire[p]), Elements(pending'[p]))
    BY <2>2 DEF FlowInv, LineInv, Before
  <2>. QED
    BY <1>1, <2>1, <2>2, <2>3, <2>4 DEF FlowInv, LineInv
<1>. QED
  BY <1>1, <1>5 DEF FlowInv

\* A connection opens.
LEMMA FlowOpens ==
  ASSUME TypeOK, FlowInv, NEW p \in Peer, Idle, OnConnected(p)
  PROVE  FlowInv'
<1>1. /\ UNCHANGED <<sentTo, wire>> /\ CmdIds' = CmdIds
      /\ pending' = Removed(pending, p) /\ conns' = [conns EXCEPT ![p] = @ + 1]
      /\ outbox' = IF pending[p] = <<>> THEN Nothing ELSE [peer |-> p, msgs |-> pending[p]]
  BY DEF OnConnected, frontVars, CmdIds, Sends, BatchOf
<1>2. /\ pending'[p] = <<>> /\ \A q \in Peer \ {p} : pending'[q] = pending[q]
      /\ conns'[p] > 0
  BY <1>1 DEF TypeOK, LoopTypeOK, SwarmTypeOK, Removed
<1>3. Elements(pending'[p]) = {} /\ Increasing(pending'[p])
  BY <1>2, ElementsType, OneElement
<1>4. /\ Elements(outbox'.msgs) = Elements(pending[p]) /\ Increasing(outbox'.msgs)
      /\ \A q \in Peer : outbox'.peer = q => q = p
  <2>1. CASE pending[p] = <<>>
    BY <1>1, <2>1, AddressAssumption, OneElement DEF Nothing, AddressAssumption
  <2>2. CASE pending[p] # <<>>
    BY <1>1, <2>2 DEF FlowInv, LineInv
  <2>. QED
    BY <2>1, <2>2
<1>5. ASSUME NEW q \in Peer PROVE LineInv(q)'
  <2>1. CASE q = p
    <3>1. Line(p)' \subseteq Line(p)
      BY <1>1, <1>3, <1>4 DEF Line
    <3>2. Before(Line(p)', CmdIds')
      BY <1>1, <3>1 DEF FlowInv, LineInv, Before
    <3>3. Before(Elements(wire[p]), Elements(outbox'.msgs))
      BY <1>4 DEF FlowInv, LineInv
    <3>4. Before(Elements(wire[p]), Elements(pending'[p]))
      BY <1>3 DEF Before
    <3>. QED
      BY <1>1, <1>2, <1>3, <2>1, <3>1, <3>2, <3>3, <3>4 DEF FlowInv, LineInv
  <2>2. CASE q # p
    <3>1. Line(q)' = Line(q) /\ pending'[q] = pending[q] /\ outbox'.peer # q
      BY <1>1, <1>2, <1>4, <2>2, IdleWritesNothing DEF Line
    <3>. QED
      BY <1>1, <3>1 DEF FlowInv, LineInv
  <2>. QED
    BY <2>1, <2>2
<1>. QED
  BY <1>4, <1>5 DEF FlowInv

\* What a write leaves in the outbox.
LEMMA OutboxAfter ==
  ASSUME TypeOK, SendToPeer
  PROVE  LET h == Head(outbox.msgs) IN
         /\ outbox.peer \in Peer /\ h \in Nat
         /\ Elements(outbox.msgs) = {h} \cup Elements(outbox'.msgs)
         /\ outbox'.peer \in {outbox.peer, NoPeer}
         /\ Increasing(outbox.msgs) => /\ Increasing(outbox'.msgs)
                                       /\ Before({h}, Elements(outbox'.msgs))
<1>1. /\ outbox.peer \in Peer /\ outbox.msgs \in Seq(Nat) /\ outbox.msgs # <<>>
      /\ outbox' = AfterFirst(outbox)
      /\ outbox \in [peer : Peer \cup {NoPeer}, msgs : Seq(Nat)]
  BY DEF SendToPeer, TypeOK, LoopTypeOK
<1>2. /\ Elements(outbox.msgs) = {Head(outbox.msgs)} \cup Elements(Tail(outbox.msgs))
      /\ Head(outbox.msgs) \in Nat
  BY <1>1, ElementsTail
<1>3. outbox'.msgs = Tail(outbox.msgs) /\ outbox'.peer \in {outbox.peer, NoPeer}
  <2>1. CASE Len(outbox.msgs) = 1
    <3>1. Tail(outbox.msgs) = <<>>
      <4>1. Tail(outbox.msgs) \in Seq(Nat) /\ Len(Tail(outbox.msgs)) = 0
        BY <1>1, <2>1, HeadTailProperties
      <4>. QED
        BY <4>1, EmptySeq
    <3>. QED
      BY <1>1, <2>1, <3>1 DEF AfterFirst, Nothing
  <2>2. CASE Len(outbox.msgs) # 1
    BY <1>1, <2>2 DEF AfterFirst
  <2>. QED
    BY <2>1, <2>2
<1>4. Increasing(outbox.msgs) =>
        Increasing(Tail(outbox.msgs)) /\ Before({Head(outbox.msgs)}, Elements(Tail(outbox.msgs)))
  BY <1>1, IncreasingTail
<1>. QED
  BY <1>1, <1>2, <1>3, <1>4

\* A message is written or reported.
LEMMA FlowWrites ==
  ASSUME TypeOK, FlowInv, PendingOnlyWhenDisconnected, SendToPeer
  PROVE  FlowInv'
<1>. DEFINE h == Head(outbox.msgs)
            d == outbox.peer
<1>1. /\ d \in Peer /\ h \in Nat /\ Elements(outbox.msgs) = {h} \cup Elements(outbox'.msgs)
      /\ Increasing(outbox'.msgs) /\ Before({h}, Elements(outbox'.msgs))
      /\ outbox'.peer \in {d, NoPeer}
  BY OutboxAfter DEF FlowInv
<1>2. /\ UNCHANGED <<sentTo, pending, conns>> /\ CmdIds' = CmdIds
      /\ wire' = wire \/ wire' = [wire EXCEPT ![d] = Append(@, h)]
  BY DEF SendToPeer, frontVars, swarmVars, CmdIds, Sends
<1>3. wire'[d] \in {wire[d], Append(wire[d], h)} /\ \A p \in Peer \ {d} : wire'[p] = wire[p]
  BY <1>1, <1>2 DEF TypeOK, HistoryTypeOK
<1>. HIDE DEF h
<1>4. Before(Elements(wire[d]), Elements(outbox.msgs))
  BY <1>1 DEF FlowInv, LineInv
<1>5. Elements(wire'[d]) \subseteq Elements(wire[d]) \cup {h} /\ Increasing(wire'[d])
  <2>1. wire[d] \in Seq(Nat) /\ Increasing(wire[d])
    BY <1>1, LineTypes DEF FlowInv, LineInv
  <2>2. Before(Elements(wire[d]), {h})
    BY <1>1, <1>4 DEF Before
  <2>3. /\ Elements(Append(wire[d], h)) = Elements(wire[d]) \cup {h}
        /\ Increasing(Append(wire[d], h))
    BY <1>1, <2>1, <2>2, ElementsAppend, IncreasingAppend
  <2>. QED
    BY <1>3, <2>1, <2>3
<1>6. ASSUME NEW p \in Peer PROVE LineInv(p)'
  <2>1. CASE p = d
    <3>1. Line(p)' \subseteq Line(p)
      BY <1>1, <1>2, <1>5, <2>1 DEF Line
    <3>2. Before(Line(p)', CmdIds')
      BY <1>1, <1>2, <3>1 DEF FlowInv, LineInv, Before
    <3>3. Before(Elements(wire'[d]), Elements(outbox'.msgs))
      BY <1>1, <1>4, <1>5 DEF Before
    <3>4. Before(Elements(wire'[d]), Elements(pending'[d]))
      <4>1. pending[d] = <<>>
        BY <1>1 DEF FlowInv, LineInv, PendingOnlyWhenDisconnected
      <4>. QED
        BY <1>2, <4>1, ElementsType DEF Before
    <3>. QED
      BY <1>1, <1>2, <1>5, <2>1, <3>1, <3>2, <3>3, <3>4 DEF FlowInv, LineInv
  <2>2. CASE p # d
    <3>1. Line(p)' = Line(p) /\ wire'[p] = wire[p] /\ outbox'.peer # p
      BY <1>1, <1>2, <1>3, <2>2, AddressAssumption DEF Line, AddressAssumption
    <3>. QED
      BY <1>2, <3>1 DEF FlowInv, LineInv
  <2>. QED
    BY <2>1, <2>2
<1>. QED
  BY <1>1, <1>6 DEF FlowInv

\* No message is anywhere at the start.
LEMMA FlowInit == Init => QueueInv /\ FlowInv
<1>. SUFFICES ASSUME Init PROVE QueueInv /\ FlowInv
  OBVIOUS
<1>1. QueueInv /\ CmdIds = {}
  BY DEF Init, QueueInv, Sends, CmdIds
<1>2. ASSUME NEW p \in Peer PROVE LineInv(p)
  <2>1. wire[p] = <<>> /\ pending[p] = <<>> /\ outbox = Nothing
    BY DEF Init
  <2>2. outbox.peer # p /\ Line(p) = {}
    BY <2>1, ElementsType, AddressAssumption DEF Nothing, AddressAssumption, Line
  <2>. QED
    BY <2>1, <2>2, ElementsType, OneElement DEF LineInv, Before
<1>. QED
  BY <1>1, <1>2, OneElement DEF Init, Nothing, FlowInv

\* Every step keeps the queue in order.
LEMMA QueueNext == TypeOK /\ QueueInv /\ [Next]_vars => QueueInv'
<1>. SUFFICES ASSUME TypeOK, QueueInv, [Next]_vars PROVE QueueInv'
  OBVIOUS
<1>1. CASE UNCHANGED <<cmdQ, nextId, sentTo>>
  BY <1>1 DEF QueueInv, Sends
<1>2. CASE \E a \in Target : SendMessage(a)
  BY <1>2, QueueAccepts
<1>3. ASSUME NEW kind \in {"listen", "relay"},
             NEW a \in IF kind = "listen" THEN ListenAddr ELSE RelayAddr,
             StartCall(kind, a)
      PROVE  QueueInv'
  <2>. DEFINE c == [kind |-> kind, id |-> 0, addr |-> a]
  <2>1. c \in Command /\ c.kind # "send" /\ cmdQ' = Append(cmdQ, c)
    BY <1>3 DEF StartCall, Command
  <2>2. Sends' = Sends /\ \A i \in Sends : cmdQ'[i] = cmdQ[i]
    BY <2>1, QueuePut
  <2>3. UNCHANGED <<nextId, sentTo>>
    BY <1>3 DEF StartCall
  <2>. QED
    BY <2>2, <2>3 DEF QueueInv
<1>4. CASE HandleCommand
  <2>1. UNCHANGED <<nextId, sentTo>> /\ \E kind : Take(kind)
    BY <1>4 DEF HandleCommand, DoSend, SendUnparsable, SendWithoutPeer, SendConnected,
                SendAndDial, SendDialRefused, HandleListen, HandleListenViaRelay, frontVars
  <2>. QED
    BY <2>1, QueueTaken
<1>5. CASE FinishCall \/ SendToPeer \/ NewListenAddr \/ ListenerClosed
           \/ DialFails \/ ConnectionClosed
  BY <1>1, <1>5 DEF FinishCall, SendToPeer, NewListenAddr, ListenerClosed, DialFails,
                    ConnectionClosed, frontVars
<1>6. CASE Dialled \/ \E p \in Peer : Inbound(p)
  BY <1>1, <1>6 DEF Dialled, DialSucceeds, Inbound, OnConnected, frontVars
<1>7. CASE \/ \E m \in InMsg : RemoteSends(m) \/ HandleIncoming(m)
           \/ AcceptStream \/ TryRecvEvent
  BY <1>1, <1>7 DEF RemoteSends, HandleIncoming, AcceptStream, TryRecvEvent, frontVars
<1>8. CASE UNCHANGED vars
  BY <1>1, <1>8 DEF vars, frontVars
<1>. QED
  BY <1>2, <1>3, <1>4, <1>5, <1>6, <1>7, <1>8 DEF Next

\* The steps that touch neither a message nor a connection.
LEMMA FlowAside ==
  ASSUME TypeOK, QueueInv, FlowInv,
         \/ \E a \in ListenAddr : StartCall("listen", a)
         \/ \E a \in RelayAddr : StartCall("relay", a)
         \/ FinishCall \/ SendUnparsable \/ SendWithoutPeer
         \/ HandleListen \/ HandleListenViaRelay
         \/ NewListenAddr \/ ListenerClosed \/ DialFails
         \/ \E m \in InMsg : RemoteSends(m) \/ HandleIncoming(m)
         \/ AcceptStream \/ TryRecvEvent \/ UNCHANGED vars
  PROVE  FlowInv' /\ UNCHANGED <<sentTo, nextId, pending, outbox, wire, conns>>
<1>1. UNCHANGED <<sentTo, nextId, pending, outbox, wire, conns>>
  <2>1. CASE \/ \E a \in ListenAddr : StartCall("listen", a)
             \/ \E a \in RelayAddr : StartCall("relay", a)
             \/ FinishCall
    BY <2>1 DEF StartCall, FinishCall, loopVars, swarmVars
  <2>2. CASE SendUnparsable \/ SendWithoutPeer \/ HandleListen \/ HandleListenViaRelay
    BY <2>2 DEF SendUnparsable, SendWithoutPeer, HandleListen, HandleListenViaRelay,
                frontVars, loopVars, swarmVars
  <2>3. CASE NewListenAddr \/ ListenerClosed \/ DialFails
    BY <2>3 DEF NewListenAddr, ListenerClosed, DialFails, frontVars, loopVars
  <2>4. CASE \/ \E m \in InMsg : RemoteSends(m) \/ HandleIncoming(m)
             \/ AcceptStream \/ TryRecvEvent
    BY <2>4 DEF RemoteSends, HandleIncoming, AcceptStream, TryRecvEvent, frontVars,
                loopVars, swarmVars
  <2>5. CASE UNCHANGED vars
    BY <2>5 DEF vars, frontVars, loopVars, swarmVars
  <2>. QED
    BY <2>1, <2>2, <2>3, <2>4, <2>5
<1>2. CmdIds' \subseteq CmdIds
  <2>1. CASE UNCHANGED cmdQ
    BY <2>1 DEF CmdIds, Sends
  <2>2. ASSUME NEW kind \in {"listen", "relay"},
               NEW a \in IF kind = "listen" THEN ListenAddr ELSE RelayAddr,
               StartCall(kind, a)
        PROVE  CmdIds' \subseteq CmdIds
    <3>. DEFINE c == [kind |-> kind, id |-> 0, addr |-> a]
    <3>1. c \in Command /\ c.kind # "send" /\ cmdQ' = Append(cmdQ, c)
      BY <2>2 DEF StartCall, Command
    <3>. QED
      BY <3>1, QueuePut
  <2>3. CASE SendUnparsable \/ SendWithoutPeer \/ HandleListen \/ HandleListenViaRelay
    <3>1. \E kind : Take(kind)
      BY <2>3 DEF SendUnparsable, SendWithoutPeer, HandleListen, HandleListenViaRelay
    <3>. QED
      BY <3>1, QueueTaken
  <2>4. CASE FinishCall \/ NewListenAddr \/ ListenerClosed \/ DialFails
    BY <2>1, <2>4 DEF FinishCall, NewListenAddr, ListenerClosed, DialFails
  <2>5. CASE \/ \E m \in InMsg : RemoteSends(m) \/ HandleIncoming(m)
             \/ AcceptStream \/ TryRecvEvent
    BY <2>1, <2>5 DEF RemoteSends, HandleIncoming, AcceptStream, TryRecvEvent
  <2>6. CASE UNCHANGED vars
    BY <2>1, <2>6 DEF vars
  <2>. QED
    BY <2>2, <2>3, <2>4, <2>5, <2>6
<1>3. \A p \in Peer : outbox.peer = p => conns'[p] > 0
  BY <1>1 DEF FlowInv, LineInv
<1>. QED
  BY <1>1, <1>2, <1>3, FlowKept

\* Every step keeps the lines.
LEMMA FlowNext ==
  ASSUME TypeOK, QueueInv, FlowInv, PendingOnlyWhenDisconnected, [Next]_vars
  PROVE  FlowInv'
<1>1. CASE DoSend
  BY <1>1, FlowAside, FlowSendConnected, FlowSendAndDial, FlowSendDialRefused DEF DoSend
<1>2. CASE Dialled \/ \E p \in Peer : Inbound(p)
  BY <1>2, FlowOpens DEF Dialled, DialSucceeds, Inbound
<1>3. CASE ConnectionClosed
  <2>1. UNCHANGED <<sentTo, pending, outbox, wire, cmdQ>> /\ Idle
    BY <1>3 DEF ConnectionClosed, frontVars, loopVars
  <2>2. CmdIds' = CmdIds
    BY <2>1 DEF CmdIds, Sends
  <2>. QED
    BY <2>1, <2>2, IdleWritesNothing, FlowKept
<1>. QED
  BY <1>1, <1>2, <1>3, FlowAside, FlowAccepts, FlowWrites DEF Next, HandleCommand

\* So the lines are in order in every behaviour.
LEMMA FlowInvariant == Spec => [](TypeOK /\ PendingOnlyWhenDisconnected /\ QueueInv /\ FlowInv)
<1>1. TypeOK /\ PendingOnlyWhenDisconnected /\ QueueInv /\ FlowInv /\ [Next]_vars
        => QueueInv' /\ FlowInv'
  BY QueueNext, FlowNext
<1>. QED
  BY <1>1, FlowInit, TypeCorrect, NothingPendsForConnected, PTL DEF Spec

\* Each peer is written the messages for it in the order in which they were
\* handed to SendMessage, whatever they had to wait for.
THEOREM WrittenInOrder == Spec => []WireInOrder
<1>1. FlowInv => WireInOrder
  BY DEF FlowInv, LineInv, Increasing, WireInOrder
<1>. QED
  BY <1>1, FlowInvariant, PTL

\* An address that ends with the peer it names, and one that names none.
NamesItsEnd(a) == ExtractPeerId(a) \in Peer => a[Len(a)] = P2p(ExtractPeerId(a))

\* extract_peer_id gives the peer an address ends with, whatever relay it goes
\* through, and so NamesItsEnd is said of every address that ends with a peer.
THEOREM EndIsExtracted ==
  ASSUME NEW a \in Address, NEW p \in Peer, Len(a) > 0, a[Len(a)] = P2p(p)
  PROVE  ExtractPeerId(a) = p /\ NamesItsEnd(a)
<1>1. Len(a) \in Nat
  BY DEF Address
<1>2. IsPeerAt(a, Len(a)) /\ a[Len(a)].val = p
  BY DEF IsPeerAt, P2p
<1>3. \A i \in 1 .. Len(a) : IsLastPeerAt(a, i) <=> i = Len(a)
  BY <1>1, <1>2 DEF IsLastPeerAt
<1>4. ExtractPeerId(a) = p
  <2>. HIDE DEF IsLastPeerAt
  <2>1. Len(a) \in 1 .. Len(a)
    BY <1>1
  <2>2. (CHOOSE i \in 1 .. Len(a) : IsLastPeerAt(a, i)) = Len(a)
    BY <1>3, <2>1
  <2>. QED
    BY <1>2, <1>3, <2>1, <2>2 DEF ExtractPeerId
<1>. QED
  BY <1>4 DEF NamesItsEnd

\* It is said of every address without a peer, too.
LEMMA NobodyIsExtracted ==
  ASSUME NEW a \in Address, \A i \in 1 .. Len(a) : ~IsPeerAt(a, i)
  PROVE  ExtractPeerId(a) = NoPeer /\ NamesItsEnd(a)
BY AddressAssumption DEF ExtractPeerId, IsLastPeerAt, NamesItsEnd, AddressAssumption

\* The manager sends to targets only.
SentToTargets == \A i \in 1 .. Len(sentTo) : sentTo[i] \in Target

LEMMA TargetsInvariant == Spec => []SentToTargets
<1>1. Init => SentToTargets
  BY DEF Init, SentToTargets
<1>2. TypeOK /\ SentToTargets /\ [Next]_vars => SentToTargets'
  <2>. SUFFICES ASSUME TypeOK, SentToTargets, [Next]_vars PROVE SentToTargets'
    OBVIOUS
  <2>1. ASSUME NEW a \in Target, SendMessage(a) PROVE SentToTargets'
    <3>1. sentTo' = Append(sentTo, a) /\ sentTo \in Seq(Address) /\ a \in Address
      BY <2>1, NetworkAssumption
      DEF SendMessage, TypeOK, FrontTypeOK, NetworkAssumption
    <3>2. /\ Len(sentTo) \in Nat /\ Len(sentTo') = Len(sentTo) + 1
          /\ \A i \in 1 .. Len(sentTo) : sentTo'[i] = sentTo[i]
          /\ sentTo'[Len(sentTo) + 1] = a
      BY <3>1, AppendProperties, LenProperties
    <3>. QED
      BY <3>2 DEF SentToTargets
  <2>2. CASE UNCHANGED sentTo
    BY <2>2 DEF SentToTargets
  <2>3. \/ \E a \in Target : SendMessage(a)
        \/ UNCHANGED sentTo
    BY DEF Next, StartCall, FinishCall, HandleCommand, DoSend, SendUnparsable,
           SendWithoutPeer, SendConnected, SendAndDial, SendDialRefused, HandleListen,
           HandleListenViaRelay, SendToPeer, NewListenAddr, ListenerClosed, Dialled,
           DialSucceeds, OnConnected, DialFails, ConnectionClosed, Inbound, RemoteSends,
           HandleIncoming, AcceptStream, TryRecvEvent, frontVars, vars
  <2>. QED
    BY <2>1, <2>2, <2>3
<1>. QED
  BY <1>1, <1>2, TypeCorrect, PTL DEF Spec

\* A message is written to nobody but the peer its canonical address ends
\* with, if addresses that name a peer end with one: the code takes the last.
THEOREM WrittenToDestination ==
  ASSUME \A a \in Target : NamesItsEnd(a)
  PROVE  Spec => []GoesToDestination
<1>1. FlowInv /\ SentToTargets => GoesToDestination
  <2>. SUFFICES ASSUME FlowInv, SentToTargets, NEW p \in Peer, NEW id \in Elements(wire[p])
                PROVE  sentTo[id][Len(sentTo[id])] = P2p(p)
    BY DEF GoesToDestination
  <2>1. id \in 1 .. Len(sentTo) /\ ExtractPeerId(sentTo[id]) = p
    BY DEF FlowInv, LineInv, Line
  <2>. QED
    BY <2>1 DEF SentToTargets, NamesItsEnd
<1>. QED
  BY <1>1, FlowInvariant, TargetsInvariant, PTL
-----------------------------------------------------------------------------
(* Reports.                                                                *)

ReportIds == {evtQ[i].id : i \in Reports}

Told ==
  /\ \A i, j \in Reports : evtQ[i].id = evtQ[j].id => i = j
  /\ ReportIds \cap heard.failed = {}

LoopIds == Elements(outbox.msgs) \cup UNION {Elements(pending[p]) : p \in Peer}

\* A report is about one message, which is on its way no more.
ReportInv ==
  /\ Told /\ FailedIds \subseteq 1 .. Len(sentTo)
  /\ FailedIds \cap (LoopIds \cup CmdIds) = {}

\* The sets the properties speak of, by their parts.
LEMMA OnItsWayParts ==
  /\ OnItsWay = LoopIds \cup CmdIds /\ FailedIds = heard.failed \cup ReportIds
  /\ OnItsWay' = LoopIds' \cup CmdIds'
<1>1. OnItsWay = LoopIds \cup CmdIds
  BY DEF OnItsWay, LoopIds, CmdIds, Sends
<1>2. OnItsWay' = LoopIds' \cup CmdIds'
  BY DEF OnItsWay, LoopIds, CmdIds, Sends
<1>. QED
  BY <1>1, <1>2 DEF FailedIds, ReportIds

\* What the loop has taken is older than what it has not, and was not written.
LEMMA TakenBefore ==
  ASSUME TypeOK, FlowInv
  PROVE  /\ LoopIds \cup SentIds \subseteq 1 .. Len(sentTo)
         /\ Before(LoopIds \cup SentIds, CmdIds) /\ LoopIds \cap SentIds = {}
<1>1. \A id \in LoopIds : \E p \in Peer :
        /\ id \in Line(p)
        /\ id \in Elements(pending[p]) \/ (outbox.peer = p /\ id \in Elements(outbox.msgs))
  <2>. SUFFICES ASSUME NEW id \in Elements(outbox.msgs)
                PROVE  \E p \in Peer : outbox.peer = p /\ id \in Line(p)
    BY DEF LoopIds, Line
  <2>1. ~Idle
    BY IdleWritesNothing
  <2>. QED
    BY <2>1 DEF TypeOK, LoopTypeOK, Line
<1>2. \A id \in SentIds : \E p \in Peer : id \in Line(p) /\ id \in Elements(wire[p])
  BY DEF SentIds, Line
<1>3. \A p \in Peer : \A id \in Line(p) :
        /\ id \in 1 .. Len(sentTo) /\ id \in Nat /\ Before({id}, CmdIds)
        /\ ExtractPeerId(sentTo[id]) = p
  BY DEF FlowInv, LineInv, Before
<1>4. ASSUME NEW id \in LoopIds, id \in SentIds PROVE FALSE
  <2>1. PICK p \in Peer : /\ id \in Line(p)
                          /\ \/ id \in Elements(pending[p])
                             \/ outbox.peer = p /\ id \in Elements(outbox.msgs)
    BY <1>1
  <2>2. PICK q \in Peer : id \in Line(q) /\ id \in Elements(wire[q])
    BY <1>2, <1>4
  <2>3. p = q
    <3>1. ExtractPeerId(sentTo[id]) = p
      BY <1>3, <2>1
    <3>2. ExtractPeerId(sentTo[id]) = q
      BY <1>3, <2>2
    <3>. QED
      BY <3>1, <3>2
  <2>4. id < id
    BY <2>1, <2>2, <2>3 DEF FlowInv, LineInv, Before
  <2>5. id \in Nat
    BY <1>3, <2>1
  <2>. QED
    BY <2>4, <2>5
<1>. QED
  BY <1>1, <1>2, <1>3, <1>4 DEF Before

\* An event at the end of the channel.
LEMMA EventPut ==
  ASSUME TypeOK, NEW e \in Event, Emit(e)
  PROVE  /\ e.type # "SendFailed" => Reports' = Reports /\ ReportIds' = ReportIds
         /\ e.type = "SendFailed" => /\ Reports' = Reports \cup {Len(evtQ) + 1}
                                     /\ ReportIds' = ReportIds \cup {e.id}
         /\ \A i \in Reports : i \in Int /\ i <= Len(evtQ) /\ evtQ'[i] = evtQ[i]
         /\ evtQ'[Len(evtQ) + 1] = e /\ Len(evtQ) \in Nat
<1>1. /\ Len(evtQ) \in Nat /\ Len(evtQ') = Len(evtQ) + 1
      /\ \A i \in 1 .. Len(evtQ) : evtQ'[i] = evtQ[i]
      /\ evtQ'[Len(evtQ) + 1] = e
  BY AppendProperties, LenProperties DEF TypeOK, Emit
<1>2. /\ e.type # "SendFailed" => Reports' = Reports
      /\ e.type = "SendFailed" => Reports' = Reports \cup {Len(evtQ) + 1}
  BY <1>1 DEF Reports
<1>3. \A i \in Reports : i \in Int /\ i <= Len(evtQ) /\ evtQ'[i] = evtQ[i]
  BY <1>1 DEF Reports
<1>4. {evtQ'[i].id : i \in Reports} = ReportIds
  BY <1>3 DEF ReportIds
<1>5. ASSUME e.type # "SendFailed" PROVE ReportIds' = ReportIds
  BY <1>2, <1>4, <1>5 DEF ReportIds
<1>6. ASSUME e.type = "SendFailed" PROVE ReportIds' = ReportIds \cup {e.id}
  <2>1. {evtQ'[i].id : i \in Reports \cup {Len(evtQ) + 1}}
          = {evtQ'[i].id : i \in Reports} \cup {e.id}
    BY <1>1
  <2>. QED
    BY <1>2, <1>4, <1>6, <2>1 DEF ReportIds
<1>. QED
  BY <1>1, <1>2, <1>3, <1>5, <1>6

\* An event that is no report.
LEMMA EmitsOther ==
  ASSUME TypeOK, NEW e \in Event, e.type # "SendFailed", Emit(e), UNCHANGED heard
  PROVE  FailedIds' = FailedIds /\ (Told => Told')
<1>1. /\ Reports' = Reports /\ ReportIds' = ReportIds
      /\ \A i \in Reports : evtQ'[i] = evtQ[i]
  BY EventPut
<1>. QED
  BY <1>1 DEF Told, FailedIds, ReportIds

\* A report of a message that was not reported.
LEMMA EmitsReport ==
  ASSUME TypeOK, NEW id \in Nat, NEW err \in {"unreachable", "protocol"},
         Emit(Failed(id, err)), UNCHANGED heard
  PROVE  FailedIds' = FailedIds \cup {id} /\ (Told /\ id \notin FailedIds => Told')
<1>. DEFINE e == Failed(id, err)
<1>1. e \in Event /\ e.type = "SendFailed" /\ e.id = id
  BY EventTypes DEF Failed
<1>. HIDE DEF e
<1>2. /\ Reports' = Reports \cup {Len(evtQ) + 1} /\ ReportIds' = ReportIds \cup {id}
      /\ \A i \in Reports : evtQ'[i] = evtQ[i]
      /\ evtQ'[Len(evtQ) + 1].id = id
  BY <1>1, EventPut DEF e
<1>3. FailedIds' = FailedIds \cup {id}
  BY <1>2 DEF FailedIds, ReportIds
<1>4. ASSUME Told, id \notin FailedIds PROVE Told'
  <2>1. id \notin ReportIds /\ id \notin heard.failed
    BY <1>4, OnItsWayParts
  <2>2. \A i \in Reports : evtQ'[i].id # id
    BY <1>2, <2>1 DEF ReportIds
  <2>3. \A i, j \in Reports' : evtQ'[i].id = evtQ'[j].id => i = j
    BY <1>2, <1>4, <2>2 DEF Told
  <2>. QED
    BY <1>2, <1>4, <2>1, <2>3 DEF Told
<1>. QED
  BY <1>3, <1>4

\* The manager takes an event: what was in the channel is now heard.
LEMMA HearsOne ==
  ASSUME TypeOK, TryRecvEvent
  PROVE  FailedIds' = FailedIds /\ (Told => Told')
<1>. DEFINE e == Head(evtQ)
<1>1. evtQ \in Seq(Event) /\ evtQ # <<>> /\ evtQ' = Tail(evtQ) /\ heard' = Hear(heard, e)
  BY DEF TypeOK, TryRecvEvent
<1>2. /\ Len(evtQ) \in Nat /\ Len(evtQ) # 0 /\ Len(evtQ') = Len(evtQ) - 1
      /\ \A i \in 1 .. Len(evtQ') : evtQ'[i] = evtQ[i + 1]
      /\ e = evtQ[1]
  BY <1>1, HeadTailProperties, LenProperties, EmptySeq
<1>3. heard'.failed = IF e.type = "SendFailed" THEN heard.failed \cup {e.id}
                                               ELSE heard.failed
  BY <1>1 DEF Hear
<1>. HIDE DEF e
<1>4. /\ \A i \in Reports' : i \in Int /\ i + 1 \in Reports /\ evtQ'[i] = evtQ[i + 1]
                             /\ i + 1 # 1
      /\ 1 \in Reports <=> e.type = "SendFailed"
  BY <1>2 DEF Reports
<1>5. \A i \in Reports : i = 1 \/ evtQ[i].id \in ReportIds'
  <2>. SUFFICES ASSUME NEW i \in Reports, i # 1 PROVE evtQ[i].id \in ReportIds'
    OBVIOUS
  <2>1. i - 1 \in 1 .. Len(evtQ') /\ (i - 1) + 1 = i
    BY <1>2 DEF Reports
  <2>2. i - 1 \in Reports' /\ evtQ'[i - 1] = evtQ[i]
    BY <1>2, <2>1 DEF Reports
  <2>. QED
    BY <2>2 DEF ReportIds
<1>6. ReportIds' \subseteq ReportIds
  BY <1>4 DEF ReportIds
<1>7. ReportIds = ReportIds' \cup (IF e.type = "SendFailed" THEN {e.id} ELSE {})
  BY <1>2, <1>4, <1>5, <1>6 DEF ReportIds
<1>8. FailedIds' = FailedIds
  BY <1>3, <1>7 DEF FailedIds, ReportIds
<1>9. ASSUME Told PROVE Told'
  <2>1. \A i, j \in Reports' : evtQ'[i].id = evtQ'[j].id => i = j
    BY <1>4, <1>9 DEF Told
  <2>2. e.type = "SendFailed" => e.id \notin ReportIds'
    <3>. SUFFICES ASSUME e.type = "SendFailed", NEW i \in Reports', evtQ'[i].id = e.id
                  PROVE  FALSE
      BY DEF ReportIds
    <3>. QED
      BY <1>2, <1>4, <1>9 DEF Told
  <2>. QED
    BY <1>3, <1>6, <1>9, <2>1, <2>2 DEF Told
<1>. QED
  BY <1>8, <1>9
-----------------------------------------------------------------------------
(* What a step settles.                                                    *)

PendIds == UNION {Elements(pending[p]) : p \in Peer}

NothingSettles ==
  /\ nextId' = nextId /\ OnItsWay' = OnItsWay
  /\ SentIds' = SentIds /\ FailedIds' = FailedIds

TakesNew ==
  /\ nextId <= MaxMsgs /\ nextId' = nextId + 1 /\ OnItsWay' = OnItsWay \cup {nextId}
  /\ SentIds' = SentIds /\ FailedIds' = FailedIds

WritesOne(id) ==
  /\ nextId' = nextId /\ id \in OnItsWay /\ OnItsWay' = OnItsWay \ {id}
  /\ SentIds' = SentIds \cup {id} /\ FailedIds' = FailedIds

ReportsOne(id) ==
  /\ nextId' = nextId /\ id \in OnItsWay /\ OnItsWay' \subseteq OnItsWay \ {id}
  /\ SentIds' \in {SentIds, SentIds \cup {id}} /\ FailedIds' = FailedIds \cup {id}

\* A report that is about one message and no other.
FailsAlone(id) == ReportsOne(id) /\ OnItsWay' = OnItsWay \ {id}

Settles == NothingSettles \/ TakesNew \/ \E id \in Nat : WritesOne(id) \/ ReportsOne(id)

\* A step of pending_sends for one peer.
LEMMA PendStep ==
  ASSUME NEW d \in Peer, \A p \in Peer \ {d} : pending'[p] = pending[p]
  PROVE  /\ PendIds' \cup Elements(pending[d]) = PendIds \cup Elements(pending'[d])
         /\ Elements(pending[d]) \subseteq PendIds /\ Elements(pending'[d]) \subseteq PendIds'
<1>1. /\ Elements(pending[d]) \subseteq PendIds /\ Elements(pending'[d]) \subseteq PendIds'
  BY DEF PendIds
<1>2. PendIds' \subseteq PendIds \cup Elements(pending'[d])
  BY DEF PendIds
<1>3. PendIds \subseteq PendIds' \cup Elements(pending[d])
  BY DEF PendIds
<1>. QED
  BY <1>1, <1>2, <1>3

\* Steps that leave the messages where they are.
LEMMA NothingMoves ==
  ASSUME UNCHANGED <<nextId, wire, pending, outbox>>, CmdIds' = CmdIds,
         FailedIds' = FailedIds
  PROVE  NothingSettles
<1>1. LoopIds' = LoopIds /\ SentIds' = SentIds
  BY DEF LoopIds, SentIds
<1>2. OnItsWay' = LoopIds' \cup CmdIds'
  BY OnItsWayParts
<1>. QED
  BY <1>1, <1>2, OnItsWayParts DEF NothingSettles

\* Nothing new is reported where no event is emitted and none is taken.
LEMMA NothingReported ==
  ASSUME UNCHANGED <<evtQ, heard>>
  PROVE  FailedIds' = FailedIds /\ Told' = Told
BY DEF FailedIds, Told, ReportIds, Reports

\* The message that is taken from the queue is in no other place.
LEMMA TakenOnce ==
  ASSUME TypeOK, QueueInv, FlowInv, Take("send")
  PROVE  LET h == Head(cmdQ).id IN
         /\ h \in Nat /\ h \in OnItsWay /\ h \notin CmdIds' /\ h \notin LoopIds
         /\ OnItsWay = LoopIds \cup {h} \cup CmdIds'
<1>. DEFINE h == Head(cmdQ).id
<1>1. CmdIds = {h} \cup CmdIds' /\ Before({h}, CmdIds') /\ h \in Nat
  <2>1. /\ CmdIds = {h} \cup CmdIds' /\ Before({h}, CmdIds')
        /\ h \in 1 .. Len(sentTo)
    BY QueueTaken
  <2>. QED
    BY <2>1
<1>. HIDE DEF h
<1>2. Before(LoopIds, CmdIds)
  BY TakenBefore DEF Before
<1>3. h \notin CmdIds' /\ h \notin LoopIds
  BY <1>1, <1>2 DEF Before
<1>. QED
  BY <1>1, <1>3, OnItsWayParts DEF h

\* handle_command takes a message.
LEMMA SettlesAccepted ==
  ASSUME TypeOK, QueueInv, Told, NEW a \in Target, SendMessage(a)
  PROVE  TakesNew /\ Told'
<1>1. /\ UNCHANGED <<evtQ, heard, pending, outbox, wire>> /\ nextId' = nextId + 1
      /\ nextId <= MaxMsgs
  BY DEF SendMessage, loopVars
<1>2. LoopIds' = LoopIds /\ SentIds' = SentIds /\ CmdIds' = CmdIds \cup {nextId}
  BY <1>1, QueueAccepts DEF LoopIds, SentIds
<1>3. OnItsWay' = LoopIds' \cup CmdIds'
  BY OnItsWayParts
<1>4. OnItsWay' = OnItsWay \cup {nextId}
  BY <1>2, <1>3, OnItsWayParts
<1>. QED
  BY <1>1, <1>2, <1>4, NothingReported DEF TakesNew

\* do_send reports the message it took.
LEMMA SettlesRejected ==
  ASSUME TypeOK, QueueInv, FlowInv, ReportInv,
         SendUnparsable \/ SendWithoutPeer \/ SendDialRefused
  PROVE  Told' /\ \E id \in Nat : ReportsOne(id) /\ (FailsAlone(id) \/ SendDialRefused)
<1>. DEFINE h == Head(cmdQ).id
<1>1. /\ Take("send") /\ UNCHANGED <<nextId, heard, outbox, wire>>
      /\ Emit(Failed(h, "unreachable")) \/ Emit(Failed(h, "protocol"))
  BY DEF SendUnparsable, SendWithoutPeer, SendDialRefused, frontVars, loopVars
<1>2. /\ h \in Nat /\ h \in OnItsWay /\ h \notin CmdIds' /\ h \notin LoopIds
      /\ OnItsWay = LoopIds \cup {h} \cup CmdIds'
  BY <1>1, TakenOnce
<1>3. PendIds' \subseteq PendIds
  <2>1. CASE UNCHANGED pending
    BY <2>1 DEF PendIds
  <2>2. CASE SendDialRefused
    <3>1. /\ Destination \in Peer
          /\ pending' = Removed(Queued(pending, Destination, h), Destination)
      BY <1>1, <2>2, TakenFor DEF SendDialRefused
    <3>2. /\ pending'[Destination] = <<>>
          /\ \A p \in Peer \ {Destination} : pending'[p] = pending[p]
      BY <3>1 DEF TypeOK, LoopTypeOK, Removed, Queued
    <3>. QED
      BY <3>1, <3>2, PendStep, ElementsType
  <2>. QED
    BY <2>1, <2>2 DEF SendUnparsable, SendWithoutPeer, loopVars
<1>. HIDE DEF h
<1>4. LoopIds' \subseteq LoopIds /\ SentIds' = SentIds
  BY <1>1, <1>3 DEF LoopIds, SentIds, PendIds
<1>5. OnItsWay' = LoopIds' \cup CmdIds'
  BY OnItsWayParts
<1>6. OnItsWay' \subseteq OnItsWay \ {h}
  BY <1>2, <1>4, <1>5
<1>7. h \notin FailedIds
  BY <1>2, OnItsWayParts DEF ReportInv
<1>8. FailedIds' = FailedIds \cup {h} /\ Told'
  BY <1>1, <1>2, <1>7, EmitsReport DEF ReportInv
<1>9. OnItsWay' = OnItsWay \ {h} \/ SendDialRefused
  <2>1. CASE UNCHANGED pending
    <3>1. LoopIds' = LoopIds
      BY <1>1, <2>1 DEF LoopIds
    <3>. QED
      BY <1>2, <1>5, <3>1
  <2>. QED
    BY <2>1 DEF SendUnparsable, SendWithoutPeer, loopVars
<1>. QED
  BY <1>1, <1>2, <1>4, <1>6, <1>8, <1>9 DEF ReportsOne, FailsAlone

\* do_send keeps it, in the outbox or in pending_sends.
LEMMA SettlesKept ==
  ASSUME TypeOK, QueueInv, FlowInv, Told, SendConnected \/ SendAndDial
  PROVE  NothingSettles /\ Told'
<1>. DEFINE h == Head(cmdQ).id
            d == Destination
<1>1. Take("send") /\ Routable /\ Idle /\ UNCHANGED <<nextId, heard, evtQ, wire>>
  BY DEF SendConnected, SendAndDial, frontVars, Take
<1>2. /\ h \in Nat /\ OnItsWay = LoopIds \cup {h} \cup CmdIds' /\ d \in Peer
  BY <1>1, TakenOnce, TakenFor
<1>3. LoopIds = PendIds
  BY <1>1, IdleWritesNothing DEF LoopIds, PendIds
<1>4. LoopIds' = LoopIds \cup {h}
  <2>1. CASE SendConnected
    <3>1. Elements(outbox'.msgs) = {h} /\ PendIds' = PendIds
      BY <2>1, OneElement DEF SendConnected, PendIds
    <3>. QED
      BY <1>3, <3>1 DEF LoopIds, PendIds
  <2>2. CASE SendAndDial
    <3>1. pending' = [pending EXCEPT ![d] = Append(@, h)] /\ outbox' = outbox
      BY <2>2 DEF SendAndDial, Queued
    <3>2. /\ pending'[d] = Append(pending[d], h) /\ pending[d] \in Seq(Nat)
          /\ \A p \in Peer \ {d} : pending'[p] = pending[p]
      BY <1>2, <3>1 DEF TypeOK, LoopTypeOK
    <3>. HIDE DEF h, d
    <3>3. Elements(pending'[d]) = Elements(pending[d]) \cup {h}
      BY <1>2, <3>2, ElementsAppend
    <3>4. PendIds' = PendIds \cup {h}
      BY <1>2, <3>2, <3>3, PendStep
    <3>5. LoopIds' = PendIds'
      BY <1>1, <3>1, IdleWritesNothing DEF LoopIds, PendIds
    <3>. QED
      BY <1>3, <3>4, <3>5
  <2>. QED
    BY <2>1, <2>2
<1>5. OnItsWay' = LoopIds' \cup CmdIds' /\ SentIds' = SentIds
  BY <1>1, OnItsWayParts DEF SentIds
<1>. QED
  BY <1>1, <1>2, <1>4, <1>5, NothingReported DEF NothingSettles

\* A connection moves a queue to the outbox.
LEMMA SettlesOpens ==
  ASSUME TypeOK, Told, NEW p \in Peer, Idle, OnConnected(p)
  PROVE  NothingSettles /\ Told'
<1>1. /\ UNCHANGED <<nextId, wire, cmdQ, heard>> /\ Emit(Connected(p))
      /\ pending' = Removed(pending, p)
      /\ outbox' = IF pending[p] = <<>> THEN Nothing ELSE [peer |-> p, msgs |-> pending[p]]
  BY DEF OnConnected, frontVars, BatchOf, TellsOpened
<1>2. pending'[p] = <<>> /\ \A q \in Peer \ {p} : pending'[q] = pending[q]
  BY <1>1 DEF TypeOK, LoopTypeOK, Removed
<1>3. PendIds' \cup Elements(pending[p]) = PendIds
  BY <1>2, PendStep, ElementsType
<1>4. Elements(outbox'.msgs) = Elements(pending[p])
  BY <1>1 DEF Nothing
<1>5. LoopIds' = LoopIds
  BY <1>3, <1>4, IdleWritesNothing DEF LoopIds, PendIds
<1>6. CmdIds' = CmdIds /\ SentIds' = SentIds
  BY <1>1 DEF CmdIds, Sends, SentIds
<1>7. FailedIds' = FailedIds /\ Told'
  <2>1. Connected(p) \in Event /\ Connected(p).type # "SendFailed"
    BY EventTypes DEF Connected
  <2>. QED
    BY <1>1, <2>1, EmitsOther
<1>. QED
  BY <1>1, <1>5, <1>6, <1>7, OnItsWayParts DEF NothingSettles

\* send_to_peer settles the message it is about, and no other.
LEMMA SettlesWrites ==
  ASSUME TypeOK, FlowInv, ReportInv, PendingOnlyWhenDisconnected, SendToPeer
  PROVE  Told' /\ \E id \in Nat : WritesOne(id) \/ FailsAlone(id)
<1>. DEFINE h == Head(outbox.msgs)
            d == outbox.peer
<1>1. /\ d \in Peer /\ h \in Nat /\ Elements(outbox.msgs) = {h} \cup Elements(outbox'.msgs)
      /\ Before({h}, Elements(outbox'.msgs)) /\ Increasing(outbox.msgs)
  BY OutboxAfter DEF FlowInv
<1>2. /\ UNCHANGED <<nextId, pending, heard>> /\ CmdIds' = CmdIds
      /\ \/ wire' = [wire EXCEPT ![d] = Append(@, h)] /\ UNCHANGED evtQ
         \/ /\ wire' = wire \/ wire' = [wire EXCEPT ![d] = Append(@, h)]
            /\ Emit(Failed(h, "protocol"))
  BY DEF SendToPeer, frontVars, CmdIds, Sends
<1>. HIDE DEF h
<1>3. h \notin PendIds
  <2>. SUFFICES ASSUME NEW p \in Peer, h \in Elements(pending[p]) PROVE FALSE
    BY DEF PendIds
  <2>1. p # d
    <3>1. pending[d] = <<>>
      BY <1>1 DEF FlowInv, LineInv, PendingOnlyWhenDisconnected
    <3>. QED
      BY <3>1, ElementsType
  <2>2. h \in Line(p) /\ h \in Line(d)
    BY <1>1 DEF Line
  <2>3. ExtractPeerId(sentTo[h]) = p /\ ExtractPeerId(sentTo[h]) = d
    BY <1>1, <2>2 DEF FlowInv, LineInv
  <2>. QED
    BY <2>1, <2>3
<1>4. h \notin Elements(outbox'.msgs)
  BY <1>1 DEF Before
<1>5. h \notin CmdIds
  <2>1. Before(LoopIds, CmdIds) /\ h \in LoopIds
    BY <1>1, TakenBefore DEF Before, LoopIds
  <2>. QED
    BY <1>1, <2>1 DEF Before
<1>6. LoopIds = {h} \cup LoopIds' /\ h \notin LoopIds'
  BY <1>1, <1>2, <1>3, <1>4 DEF LoopIds, PendIds
<1>7. OnItsWay' = OnItsWay \ {h} /\ h \in OnItsWay
  BY <1>2, <1>5, <1>6, OnItsWayParts
<1>8. /\ wire' = wire => SentIds' = SentIds
      /\ wire' = [wire EXCEPT ![d] = Append(@, h)] => SentIds' = SentIds \cup {h}
  <2>1. ASSUME wire' = [wire EXCEPT ![d] = Append(@, h)]
        PROVE  SentIds' = SentIds \cup {h}
    <3>1. /\ wire'[d] = Append(wire[d], h) /\ wire[d] \in Seq(Nat)
          /\ \A p \in Peer \ {d} : wire'[p] = wire[p]
      BY <1>1, <2>1 DEF TypeOK, HistoryTypeOK
    <3>2. Elements(wire'[d]) = Elements(wire[d]) \cup {h}
      BY <1>1, <3>1, ElementsAppend
    <3>3. SentIds' \subseteq SentIds \cup {h}
      BY <3>1, <3>2 DEF SentIds
    <3>4. SentIds \subseteq SentIds'
      BY <3>1, <3>2 DEF SentIds
    <3>5. h \in SentIds'
      BY <1>1, <3>2 DEF SentIds
    <3>. QED
      BY <3>3, <3>4, <3>5
  <2>. QED
    BY <2>1 DEF SentIds
<1>9. h \notin FailedIds
  BY <1>7, OnItsWayParts DEF ReportInv
<1>10. CASE UNCHANGED evtQ
  <2>1. FailedIds' = FailedIds /\ Told'
    BY <1>2, <1>10, NothingReported DEF ReportInv
  <2>2. wire' = [wire EXCEPT ![d] = Append(@, h)]
    <3>1. Emit(Failed(h, "protocol")) => evtQ' # evtQ
      <4>1. /\ evtQ \in Seq(Event) /\ Len(evtQ) \in Nat
            /\ Emit(Failed(h, "protocol")) => Len(evtQ') = Len(evtQ) + 1
        BY <1>1, EventTypes, AppendProperties, LenProperties DEF TypeOK, Emit
      <4>. QED
        BY <1>10, <4>1
    <3>. QED
      BY <1>2, <1>10, <3>1
  <2>. QED
    BY <1>1, <1>2, <1>7, <1>8, <2>1, <2>2 DEF WritesOne
<1>11. CASE Emit(Failed(h, "protocol"))
  <2>1. FailedIds' = FailedIds \cup {h} /\ Told'
    BY <1>1, <1>2, <1>9, <1>11, EmitsReport DEF ReportInv
  <2>. QED
    BY <1>1, <1>2, <1>7, <1>8, <2>1 DEF ReportsOne, FailsAlone
<1>. QED
  BY <1>2, <1>10, <1>11

\* The steps that are about no message of the node.
LEMMA SettlesAside ==
  ASSUME TypeOK, QueueInv, Told,
         \/ \E a \in ListenAddr : StartCall("listen", a)
         \/ \E a \in RelayAddr : StartCall("relay", a)
         \/ FinishCall \/ HandleListen \/ HandleListenViaRelay
         \/ NewListenAddr \/ ListenerClosed \/ DialFails \/ ConnectionClosed
         \/ \E m \in InMsg : RemoteSends(m) \/ HandleIncoming(m)
         \/ AcceptStream \/ TryRecvEvent \/ UNCHANGED vars
  PROVE  NothingSettles /\ Told'
<1>1. UNCHANGED <<nextId, pending, outbox, wire>>
  <2>1. CASE \/ \E a \in ListenAddr : StartCall("listen", a)
             \/ \E a \in RelayAddr : StartCall("relay", a)
             \/ FinishCall
    BY <2>1 DEF StartCall, FinishCall, loopVars
  <2>2. CASE HandleListen \/ HandleListenViaRelay
    BY <2>2 DEF HandleListen, HandleListenViaRelay
  <2>3. CASE NewListenAddr \/ ListenerClosed \/ DialFails \/ ConnectionClosed
    BY <2>3 DEF NewListenAddr, ListenerClosed, DialFails, ConnectionClosed, frontVars, loopVars
  <2>4. CASE \/ \E m \in InMsg : RemoteSends(m) \/ HandleIncoming(m)
             \/ AcceptStream \/ TryRecvEvent
    BY <2>4 DEF RemoteSends, HandleIncoming, AcceptStream, TryRecvEvent, frontVars, loopVars
  <2>5. CASE UNCHANGED vars
    BY <2>5 DEF vars, frontVars, loopVars
  <2>. QED
    BY <2>1, <2>2, <2>3, <2>4, <2>5
<1>2. CmdIds' = CmdIds
  <2>1. CASE UNCHANGED cmdQ
    BY <2>1 DEF CmdIds, Sends
  <2>2. ASSUME NEW kind \in {"listen", "relay"},
               NEW a \in IF kind = "listen" THEN ListenAddr ELSE RelayAddr,
               StartCall(kind, a)
        PROVE  CmdIds' = CmdIds
    <3>. DEFINE c == [kind |-> kind, id |-> 0, addr |-> a]
    <3>1. c \in Command /\ c.kind # "send" /\ cmdQ' = Append(cmdQ, c)
      BY <2>2 DEF StartCall, Command
    <3>. QED
      BY <3>1, QueuePut
  <2>3. CASE HandleListen \/ HandleListenViaRelay
    <3>1. Take("listen") \/ Take("relay")
      BY <2>3 DEF HandleListen, HandleListenViaRelay
    <3>. QED
      BY <3>1, QueueTaken
  <2>4. CASE FinishCall \/ NewListenAddr \/ ListenerClosed \/ DialFails \/ ConnectionClosed
    BY <2>1, <2>4 DEF FinishCall, NewListenAddr, ListenerClosed, DialFails, ConnectionClosed
  <2>5. CASE \/ \E m \in InMsg : RemoteSends(m) \/ HandleIncoming(m)
             \/ AcceptStream \/ TryRecvEvent
    BY <2>1, <2>5 DEF RemoteSends, HandleIncoming, AcceptStream, TryRecvEvent
  <2>6. CASE UNCHANGED vars
    BY <2>1, <2>6 DEF vars
  <2>. QED
    BY <2>2, <2>3, <2>4, <2>5, <2>6
<1>3. FailedIds' = FailedIds /\ Told'
  <2>1. CASE UNCHANGED <<evtQ, heard>>
    BY <2>1, NothingReported
  <2>2. CASE \E e \in Event : e.type # "SendFailed" /\ Emit(e) /\ UNCHANGED heard
    BY <2>2, EmitsOther
  <2>3. CASE \/ \E a \in ListenAddr : StartCall("listen", a)
             \/ \E a \in RelayAddr : StartCall("relay", a)
             \/ FinishCall \/ HandleListen \/ HandleListenViaRelay
    BY <2>1, <2>3 DEF StartCall, FinishCall, HandleListen, HandleListenViaRelay
  <2>4. CASE NewListenAddr \/ ListenerClosed \/ DialFails \/ AcceptStream
    BY <2>1, <2>4 DEF NewListenAddr, ListenerClosed, DialFails, AcceptStream
  <2>5. CASE ConnectionClosed
    <3>1. PICK p \in Peer : Emit(Disconnected(p)) /\ UNCHANGED heard
      BY <2>5 DEF ConnectionClosed, TellsClosed
    <3>2. Disconnected(p) \in Event /\ Disconnected(p).type # "SendFailed"
      BY EventTypes DEF Disconnected
    <3>. QED
      BY <2>2, <3>1, <3>2
  <2>6. ASSUME NEW m \in InMsg, RemoteSends(m) \/ HandleIncoming(m)
        PROVE  FailedIds' = FailedIds /\ Told'
    <3>1. Received(m) \in Event /\ Received(m).type # "SendFailed"
      BY EventTypes DEF Received
    <3>2. UNCHANGED heard /\ (UNCHANGED evtQ \/ Emit(Received(m)))
      BY <2>6 DEF RemoteSends, HandleIncoming
    <3>. QED
      BY <2>1, <2>2, <3>1, <3>2
  <2>7. CASE TryRecvEvent
    BY <2>7, HearsOne
  <2>8. CASE UNCHANGED vars
    BY <2>1, <2>8 DEF vars
  <2>. QED
    BY <2>3, <2>4, <2>5, <2>6, <2>7, <2>8
<1>. QED
  BY <1>1, <1>2, <1>3, NothingMoves

\* A step takes one new message, writes one, reports one (and may lose others
\* with it), or settles nothing.
LEMMA SettlesNext ==
  ASSUME TypeOK, QueueInv, FlowInv, ReportInv, PendingOnlyWhenDisconnected, [Next]_vars
  PROVE  /\ Settles /\ Told'
         /\ \/ NothingSettles \/ TakesNew \/ SendDialRefused
            \/ \E id \in Nat : WritesOne(id) \/ FailsAlone(id)
<1>1. Told
  BY DEF ReportInv
<1>2. CASE \E a \in Target : SendMessage(a)
  BY <1>1, <1>2, SettlesAccepted DEF Settles
<1>3. CASE DoSend
  BY <1>1, <1>3, SettlesRejected, SettlesKept DEF DoSend, Settles, FailsAlone
<1>4. CASE SendToPeer
  BY <1>4, SettlesWrites DEF Settles, FailsAlone
<1>5. CASE Dialled \/ \E p \in Peer : Inbound(p)
  BY <1>1, <1>5, SettlesOpens DEF Dialled, DialSucceeds, Inbound, Settles
<1>. QED
  BY <1>1, <1>2, <1>3, <1>4, <1>5, SettlesAside DEF Next, HandleCommand, Settles

\* What is reported is on its way no more, and never again.
LEMMA ReportInit == Init => ReportInv
<1>. SUFFICES ASSUME Init PROVE ReportInv
  OBVIOUS
<1>1. Reports = {} /\ heard.failed = {}
  BY DEF Init, Reports
<1>2. ReportIds = {} /\ FailedIds = {}
  BY <1>1 DEF ReportIds, FailedIds
<1>. QED
  BY <1>1, <1>2 DEF ReportInv, Told

LEMMA OnItsWayIds ==
  ASSUME TypeOK, QueueInv, FlowInv
  PROVE  /\ OnItsWay \cup SentIds \subseteq 1 .. Len(sentTo)
         /\ OnItsWay \cap SentIds = {} /\ nextId = Len(sentTo) + 1 /\ Len(sentTo) \in Nat
<1>1. CmdIds \subseteq 1 .. Len(sentTo) /\ nextId = Len(sentTo) + 1
  BY DEF QueueInv, CmdIds
<1>2. SentIds \cap CmdIds = {}
  <2>. SUFFICES ASSUME NEW id \in SentIds, id \in CmdIds PROVE FALSE
    OBVIOUS
  <2>1. id < id /\ id \in 1 .. Len(sentTo)
    BY <1>1, TakenBefore DEF Before
  <2>. QED
    BY <2>1
<1>3. Len(sentTo) \in Nat
  BY LenProperties DEF TypeOK, FrontTypeOK
<1>. QED
  BY <1>1, <1>2, <1>3, TakenBefore, OnItsWayParts

LEMMA ReportNext ==
  ASSUME TypeOK, QueueInv, FlowInv, ReportInv, PendingOnlyWhenDisconnected,
         TypeOK', QueueInv', [Next]_vars
  PROVE  ReportInv'
<1>1. Settles /\ Told'
  BY SettlesNext
<1>2. /\ OnItsWay \subseteq 1 .. Len(sentTo)
      /\ nextId = Len(sentTo) + 1 /\ Len(sentTo) \in Nat
  BY OnItsWayIds
<1>3. FailedIds \subseteq 1 .. Len(sentTo) /\ FailedIds \cap OnItsWay = {}
  BY OnItsWayParts DEF ReportInv
<1>4. nextId' = Len(sentTo') + 1 /\ Len(sentTo') \in Nat
  <2>1. nextId' = Len(sentTo') + 1 /\ sentTo' \in Seq(Address)
    BY DEF QueueInv, TypeOK, FrontTypeOK
  <2>. QED
    BY <2>1, LenProperties
<1>5. FailedIds' \subseteq 1 .. Len(sentTo') /\ FailedIds' \cap OnItsWay' = {}
  <2>1. CASE NothingSettles
    <3>1. Len(sentTo') = Len(sentTo)
      BY <1>2, <1>4, <2>1 DEF NothingSettles
    <3>. QED
      BY <1>3, <2>1, <3>1 DEF NothingSettles
  <2>2. CASE TakesNew
    <3>1. Len(sentTo') = Len(sentTo) + 1
      BY <1>2, <1>4, <2>2 DEF TakesNew
    <3>2. nextId \notin FailedIds /\ 1 .. Len(sentTo) \subseteq 1 .. Len(sentTo')
      BY <1>2, <1>3, <3>1
    <3>. QED
      BY <1>3, <2>2, <3>2 DEF TakesNew
  <2>3. ASSUME NEW id, WritesOne(id) \/ ReportsOne(id)
        PROVE  FailedIds' \subseteq 1 .. Len(sentTo') /\ FailedIds' \cap OnItsWay' = {}
    <3>1. Len(sentTo') = Len(sentTo)
      BY <1>2, <1>4, <2>3 DEF WritesOne, ReportsOne
    <3>. QED
      BY <1>2, <1>3, <2>3, <3>1 DEF WritesOne, ReportsOne
  <2>. QED
    BY <1>1, <2>1, <2>2, <2>3 DEF Settles
<1>. QED
  BY <1>1, <1>5, OnItsWayParts DEF ReportInv

\* The invariants a message obeys from handle_command to its end.
MessageInv == TypeOK /\ PendingOnlyWhenDisconnected /\ QueueInv /\ FlowInv /\ ReportInv

LEMMA MessageInvariant == Spec => []MessageInv
<1>1. /\ TypeOK /\ PendingOnlyWhenDisconnected /\ QueueInv /\ FlowInv /\ ReportInv
      /\ TypeOK' /\ QueueInv' /\ [Next]_vars
      => ReportInv'
  BY ReportNext
<1>2. MessageInv <=> /\ TypeOK /\ PendingOnlyWhenDisconnected /\ QueueInv /\ FlowInv
                     /\ ReportInv
  BY DEF MessageInv
<1>. QED
  BY <1>1, <1>2, FlowInvariant, ReportInit, PTL DEF Spec

\* No message is reported twice, and none that may still be written or
\* reported: its report, in the channel or heard, is the last word on it.
THEOREM NoSecondReport == Spec => []ReportedOnce
<1>1. MessageInv => ReportedOnce
  <2>. SUFFICES ASSUME MessageInv PROVE ReportedOnce
    OBVIOUS
  <2>1. Told /\ FailedIds \cap OnItsWay = {} /\ FailedIds = heard.failed \cup ReportIds
    BY OnItsWayParts DEF MessageInv, ReportInv
  <2>2. \A i \in Reports : evtQ[i].id \in ReportIds
    BY DEF ReportIds
  <2>. QED
    BY <2>1, <2>2 DEF ReportedOnce, Told
<1>. QED
  BY <1>1, MessageInvariant, PTL
-----------------------------------------------------------------------------
(* The node implements MessageFate.                                        *)

FateOf(m) == IF m >= nextId THEN "unborn"
             ELSE IF m \in FailedIds THEN "failed"
             ELSE IF m \in SentIds THEN "sent"
             ELSE IF m \in OnItsWay THEN "accepted" ELSE "lost"

LEMMA FateByMessage ==
  /\ DOMAIN Fate = 1 .. MaxMsgs /\ Fate = [m \in 1 .. MaxMsgs |-> FateOf(m)]
  /\ Fate' = [m \in 1 .. MaxMsgs |-> FateOf(m)']
BY DEF Fate, FateOf

\* What the refinement needs of the ids: a message is in one of three places,
\* and ids do not run past the bound.
IdsInv ==
  /\ nextId \in Nat \ {0} /\ nextId <= MaxMsgs + 1
  /\ \A id \in OnItsWay \cup SentIds \cup FailedIds : id \in Nat \ {0} /\ id < nextId
  /\ OnItsWay \cap (SentIds \cup FailedIds) = {}

LEMMA IdsOf ==
  ASSUME MessageInv, nextId <= MaxMsgs + 1
  PROVE  IdsInv
<1>1. /\ OnItsWay \cup SentIds \cup FailedIds \subseteq 1 .. Len(sentTo)
      /\ OnItsWay \cap (SentIds \cup FailedIds) = {} /\ nextId = Len(sentTo) + 1
      /\ Len(sentTo) \in Nat
  BY OnItsWayIds, OnItsWayParts DEF MessageInv, ReportInv
<1>. QED
  BY <1>1 DEF IdsInv

\* Each kind of step is a step of the promise, or none.
LEMMA AcceptsOne ==
  ASSUME IdsInv, TakesNew, NEW id \in Nat, id = nextId
  PROVE  Abstract!Accept(id, "accepted") /\ id \in 1 .. MaxMsgs
<1>1. id \in 1 .. MaxMsgs /\ MaxMsgs \in Nat
  BY NetworkAssumption DEF IdsInv, TakesNew, NetworkAssumption
<1>2. FateOf(id) = "unborn"
  BY DEF FateOf
<1>3. \A k \in 1 .. MaxMsgs : k < id => FateOf(k) # "unborn"
  BY DEF IdsInv, FateOf
<1>4. FateOf(id)' = "accepted"
  BY DEF IdsInv, TakesNew, FateOf
<1>5. \A k \in 1 .. MaxMsgs : k # id => FateOf(k)' = FateOf(k)
  BY DEF IdsInv, TakesNew, FateOf
<1>6. Fate' = [Fate EXCEPT ![id] = "accepted"]
  BY <1>1, <1>4, <1>5, FateByMessage
<1>. QED
  BY <1>1, <1>2, <1>3, <1>6, FateByMessage DEF Abstract!Accept

LEMMA SendsOne ==
  ASSUME IdsInv, NEW id \in Nat, WritesOne(id)
  PROVE  Abstract!Send(id) /\ id \in 1 .. MaxMsgs
<1>1. id \in 1 .. MaxMsgs /\ MaxMsgs \in Nat
  BY NetworkAssumption DEF IdsInv, WritesOne, NetworkAssumption
<1>2. FateOf(id) = "accepted"
  BY DEF IdsInv, WritesOne, FateOf
<1>3. FateOf(id)' = "sent"
  BY DEF IdsInv, WritesOne, FateOf
<1>4. \A k \in 1 .. MaxMsgs : k # id => FateOf(k)' = FateOf(k)
  BY DEF IdsInv, WritesOne, FateOf
<1>5. Fate' = [Fate EXCEPT ![id] = "sent"]
  BY <1>1, <1>3, <1>4, FateByMessage
<1>. QED
  BY <1>1, <1>2, <1>5, FateByMessage DEF Abstract!Send

LEMMA FailsOne ==
  ASSUME IdsInv, NEW id \in Nat, ReportsOne(id)
  PROVE  id \in 1 .. MaxMsgs /\ \E lost \in SUBSET (1 .. MaxMsgs) : Abstract!Fail(id, lost)
<1>. DEFINE lost == OnItsWay \ (OnItsWay' \cup {id})
<1>1. /\ id \in 1 .. MaxMsgs /\ MaxMsgs \in Nat
      /\ lost \in SUBSET (1 .. MaxMsgs) /\ id \notin lost
  BY NetworkAssumption DEF IdsInv, ReportsOne, NetworkAssumption
<1>2. FateOf(id) = "accepted" /\ \A k \in lost : FateOf(k) = "accepted"
  BY DEF IdsInv, ReportsOne, FateOf
<1>3. FateOf(id)' = "failed"
  BY DEF IdsInv, ReportsOne, FateOf
<1>4. ASSUME NEW k \in lost PROVE FateOf(k)' = "lost"
  BY DEF IdsInv, ReportsOne, FateOf
<1>5. ASSUME NEW k \in 1 .. MaxMsgs, k # id, k \notin lost PROVE FateOf(k)' = FateOf(k)
  BY <1>5 DEF IdsInv, ReportsOne, FateOf
<1>. HIDE DEF lost
<1>6. Fate' = [k \in 1 .. MaxMsgs |-> IF k = id THEN "failed"
                                      ELSE IF k \in lost THEN "lost" ELSE Fate[k]]
  BY <1>1, <1>3, <1>4, <1>5, FateByMessage
<1>7. Abstract!Fail(id, lost)
  BY <1>1, <1>2, <1>6, FateByMessage DEF Abstract!Fail
<1>. QED
  BY <1>1, <1>7

LEMMA NoneSettles ==
  ASSUME NothingSettles
  PROVE  UNCHANGED Fate
<1>1. \A m \in 1 .. MaxMsgs : FateOf(m)' = FateOf(m)
  BY DEF NothingSettles, FateOf
<1>. QED
  BY <1>1, FateByMessage

\* A message is accepted once, under an id of its own, and settles at most
\* once; no step settles two, except a refused dial, which loses the messages
\* queued behind the one it reports.
THEOREM ImplementsMessageFate == Spec => KeepsMessageFate
<1>1. Init => Abstract!Init /\ nextId <= MaxMsgs + 1
  <2>1. Init => \A m \in 1 .. MaxMsgs : FateOf(m) = "unborn"
    BY DEF Init, FateOf
  <2>2. Init => nextId <= MaxMsgs + 1
    BY NetworkAssumption DEF Init, NetworkAssumption
  <2>. QED
    BY <2>1, <2>2, FateByMessage DEF Abstract!Init
<1>2. MessageInv /\ nextId <= MaxMsgs + 1 /\ [Next]_vars
        => [Abstract!Next]_Fate /\ (nextId <= MaxMsgs + 1)'
  <2>. SUFFICES ASSUME MessageInv, nextId <= MaxMsgs + 1, [Next]_vars
                PROVE  [Abstract!Next]_Fate /\ (nextId <= MaxMsgs + 1)'
    OBVIOUS
  <2>1. Settles /\ IdsInv
    BY SettlesNext, IdsOf DEF MessageInv
  <2>2. CASE NothingSettles
    BY <2>2, NoneSettles DEF NothingSettles
  <2>3. CASE TakesNew
    <3>1. Abstract!Next
      BY <2>1, <2>3, AcceptsOne DEF Abstract!Next, IdsInv
    <3>. QED
      BY <2>1, <2>3, <3>1, NetworkAssumption DEF TakesNew, IdsInv, NetworkAssumption
  <2>4. ASSUME NEW id \in Nat, WritesOne(id) \/ ReportsOne(id)
        PROVE  [Abstract!Next]_Fate /\ (nextId <= MaxMsgs + 1)'
    <3>1. Abstract!Next
      BY <2>1, <2>4, SendsOne, FailsOne DEF Abstract!Next
    <3>. QED
      BY <2>4, <3>1 DEF WritesOne, ReportsOne
  <2>. QED
    BY <2>1, <2>2, <2>3, <2>4 DEF Settles
<1>. QED
  BY <1>1, <1>2, MessageInvariant, PTL DEF Spec, KeepsMessageFate, Abstract!Spec
-----------------------------------------------------------------------------
(* What may become of a message in the end.                                *)

Lost == {m \in 1 .. MaxMsgs : Fate[m] = "lost"}

LEMMA LosesNothing ==
  ASSUME IdsInv, \/ NothingSettles \/ TakesNew
                 \/ \E id \in Nat : WritesOne(id) \/ FailsAlone(id)
  PROVE  Lost' \subseteq Lost
<1>. SUFFICES ASSUME NEW m \in 1 .. MaxMsgs, FateOf(m)' = "lost"
              PROVE  FateOf(m) = "lost"
  BY FateByMessage DEF Lost
<1>1. ~(m >= nextId') /\ m \notin FailedIds' /\ m \notin SentIds' /\ m \notin OnItsWay'
  BY DEF FateOf
<1>2. CASE NothingSettles
  BY <1>1, <1>2 DEF NothingSettles, FateOf
<1>3. CASE TakesNew
  <2>1. m # nextId /\ ~(m >= nextId)
    BY <1>1, <1>3 DEF TakesNew, IdsInv
  <2>. QED
    BY <1>1, <1>3, <2>1 DEF TakesNew, FateOf
<1>4. ASSUME NEW id \in Nat, WritesOne(id) \/ FailsAlone(id) PROVE FateOf(m) = "lost"
  BY <1>1, <1>4 DEF WritesOne, FailsAlone, ReportsOne, FateOf
<1>. QED
  BY <1>2, <1>3, <1>4

\* The node loses a message without a word in one place: do_send, when a dial
\* is refused, forgets what was queued for the same peer.  Writes that fail in
\* a batch, connections that come and go, and commands that are refused lose none.
THEOREM OnlyRefusalsLose == Spec => [][Lost' \subseteq Lost \/ SendDialRefused]_vars
<1>1. Init => nextId <= MaxMsgs + 1
  BY NetworkAssumption DEF Init, NetworkAssumption
<1>2. MessageInv /\ nextId <= MaxMsgs + 1 /\ [Next]_vars
        => /\ (nextId <= MaxMsgs + 1)'
           /\ [Lost' \subseteq Lost \/ SendDialRefused]_vars
  <2>. SUFFICES ASSUME MessageInv, nextId <= MaxMsgs + 1, [Next]_vars
                PROVE  /\ (nextId <= MaxMsgs + 1)'
                       /\ Lost' \subseteq Lost \/ SendDialRefused
    OBVIOUS
  <2>1. IdsInv
    BY IdsOf
  <2>2. /\ Settles
        /\ \/ NothingSettles \/ TakesNew \/ SendDialRefused
           \/ \E id \in Nat : WritesOne(id) \/ FailsAlone(id)
    BY SettlesNext DEF MessageInv
  <2>3. nextId' <= MaxMsgs + 1
    <3>1. nextId' = nextId \/ (nextId <= MaxMsgs /\ nextId' = nextId + 1)
      BY <2>2 DEF Settles, NothingSettles, TakesNew, WritesOne, ReportsOne
    <3>. QED
      BY <2>1, <3>1, NetworkAssumption DEF IdsInv, NetworkAssumption
  <2>. QED
    BY <2>1, <2>2, <2>3, LosesNothing
<1>. QED
  BY <1>1, <1>2, MessageInvariant, PTL DEF Spec

\* The node leaves a message waiting for ever in one place, too: the arm that
\* ignores a failed dial.  A connection that goes, a dial that ends in another
\* peer's connection, and a message that comes late strand none.
THEOREM OnlyFailedDialsStrand ==
  Spec => [][\A m \in Nat : Stranded(m)' => Stranded(m) \/ DialFails]_vars
<1>1. /\ TypeOK /\ QueueInv /\ PendingOnlyWhenDisconnected /\ [Next]_vars
      => [\A m \in Nat : Stranded(m)' => Stranded(m) \/ DialFails]_vars
  <2>. SUFFICES ASSUME TypeOK, QueueInv, PendingOnlyWhenDisconnected, [Next]_vars,
                       NEW m \in Nat, NEW p \in Peer, ~DialFails,
                       m \in Elements(pending'[p]), conns'[p] = 0, dials'[p] = 0
                PROVE  m \in Elements(pending[p]) /\ conns[p] = 0 /\ dials[p] = 0
    BY DEF Stranded
  <2>0. /\ pending \in [Peer -> Seq(Nat)] /\ conns \in [Peer -> Nat]
        /\ dials \in [Peer \cup {NoPeer} -> Nat]
    BY DEF TypeOK, LoopTypeOK, SwarmTypeOK
  <2>1. CASE UNCHANGED <<pending, conns, dials>>
    BY <2>1
  <2>2. CASE SendAndDial
    <3>1. /\ Destination \in Peer /\ dials' = [dials EXCEPT ![Destination] = @ + 1]
          /\ conns' = conns
          /\ pending' = [pending EXCEPT ![Destination] = Append(@, Head(cmdQ).id)]
      BY <2>2, TakenFor DEF SendAndDial, Dial, Queued, Destination
    <3>2. p # Destination
      BY <2>0, <3>1
    <3>. QED
      BY <2>0, <3>1, <3>2
  <2>3. CASE SendDialRefused
    <3>1. /\ Destination \in Peer /\ UNCHANGED <<conns, dials>>
          /\ pending' = Removed(Queued(pending, Destination, Head(cmdQ).id), Destination)
      BY <2>3, TakenFor DEF SendDialRefused, swarmVars
    <3>2. p # Destination
      BY <2>0, <3>1, ElementsType DEF Removed, Queued
    <3>. QED
      BY <2>0, <3>1, <3>2 DEF Removed, Queued
  <2>4. ASSUME NEW q \in Peer, NEW d \in Peer \cup {NoPeer},
               DialSucceeds(q, d) \/ (Inbound(q) /\ d = q)
        PROVE  m \in Elements(pending[p]) /\ conns[p] = 0 /\ dials[p] = 0
    <3>1. /\ pending' = [pending EXCEPT ![q] = <<>>] /\ conns' = [conns EXCEPT ![q] = @ + 1]
          /\ \/ dials' = dials
             \/ d \in {q, NoPeer} /\ dials' = [dials EXCEPT ![d] = @ - 1]
      BY <2>4 DEF DialSucceeds, Inbound, OnConnected, Removed
    <3>2. p # q
      BY <2>0, <3>1
    <3>3. p # d \/ dials' = dials
      BY <3>1, <3>2, AddressAssumption DEF AddressAssumption
    <3>. QED
      BY <2>0, <3>1, <3>2, <3>3
  <2>5. CASE ConnectionClosed
    <3>1. PICK q \in Peer : conns[q] > 0 /\ conns' = [conns EXCEPT ![q] = @ - 1]
      BY <2>5 DEF ConnectionClosed
    <3>2. UNCHANGED <<pending, dials>>
      BY <2>5 DEF ConnectionClosed, loopVars
    <3>3. p # q
      <4>1. pending[q] = <<>>
        BY <3>1 DEF PendingOnlyWhenDisconnected
      <4>. QED
        BY <3>2, <4>1, ElementsType
    <3>. QED
      BY <2>0, <3>1, <3>2, <3>3
  <2>6. CASE HandleListenViaRelay
    <3>1. /\ UNCHANGED <<pending, conns>>
          /\ \/ dials' = dials
             \/ dials' = [dials EXCEPT ![ExtractPeerId(Head(cmdQ).addr)] = @ + 1]
      BY <2>6 DEF HandleListenViaRelay, Dial
    <3>2. dials[p] = 0
      BY <2>0, <3>1
    <3>. QED
      BY <3>1, <3>2
  <2>7. CASE \/ \E a \in Target : SendMessage(a)
             \/ \E a \in ListenAddr : StartCall("listen", a)
             \/ \E a \in RelayAddr : StartCall("relay", a)
             \/ FinishCall \/ SendUnparsable \/ SendWithoutPeer \/ SendConnected
             \/ HandleListen \/ SendToPeer \/ NewListenAddr \/ ListenerClosed
             \/ \E i \in InMsg : RemoteSends(i) \/ HandleIncoming(i)
             \/ AcceptStream \/ TryRecvEvent \/ UNCHANGED vars
    BY <2>1, <2>7 DEF SendMessage, StartCall, FinishCall, SendUnparsable, SendWithoutPeer,
       SendConnected, HandleListen, SendToPeer, NewListenAddr, ListenerClosed, RemoteSends,
       HandleIncoming, AcceptStream, TryRecvEvent, frontVars, loopVars, swarmVars, vars
  <2>. QED
    BY <2>2, <2>3, <2>4, <2>5, <2>6, <2>7 DEF Next, HandleCommand, DoSend, Dialled
<1>. QED
  BY <1>1, FlowInvariant, PTL DEF Spec
-----------------------------------------------------------------------------
(* Addresses.                                                              *)

\* How often something occurs in a sequence that grows.
LEMMA CountAppend ==
  ASSUME NEW s \in Seq(Address), NEW b \in Address, NEW x
  PROVE  /\ Count(s, x) \in Nat
         /\ Count(Append(s, b), x) = Count(s, x) + (IF b = x THEN 1 ELSE 0)
<1>. DEFINE At(t) == {i \in 1 .. Len(t) : t[i] = x}
            n == Len(s) + 1
<1>1. /\ Len(s) \in Nat /\ Len(Append(s, b)) = n
      /\ \A i \in 1 .. Len(s) : Append(s, b)[i] = s[i]
      /\ Append(s, b)[n] = b
  BY AppendProperties, LenProperties
<1>2. n \notin 1 .. Len(s) /\ 1 .. n = (1 .. Len(s)) \cup {n}
  BY <1>1
<1>3. At(Append(s, b)) = IF b = x THEN At(s) \cup {n} ELSE At(s)
  BY <1>1, <1>2
<1>4. IsFiniteSet(At(s)) /\ n \notin At(s)
  <2>1. IsFiniteSet(1 .. Len(s)) /\ At(s) \in SUBSET (1 .. Len(s))
    BY <1>1, FS_Interval
  <2>. QED
    BY <1>2, <2>1, FS_Subset
<1>. HIDE DEF At, n
<1>5. /\ Cardinality(At(s)) \in Nat
      /\ Cardinality(At(s) \cup {n}) = Cardinality(At(s)) + 1
  BY <1>4, FS_CardinalityType, FS_AddElement
<1>6. Count(s, x) = Cardinality(At(s)) /\ Count(Append(s, b), x) = Cardinality(At(Append(s, b)))
  BY DEF Count, At
<1>. QED
  BY <1>3, <1>5, <1>6

\* What a call was answered with has been announced, and not for another call.
AnnouncedInv ==
  \A x \in Address :
    Count(localAddrs, x) + (IF answer = [res |-> "ok", addr |-> x] THEN 1 ELSE 0)
      <= Count(announced, x)

LEMMA AnnouncedNext ==
  ASSUME TypeOK, AnnouncedInv, [Next]_vars
  PROVE  AnnouncedInv'
<1>1. CASE UNCHANGED <<localAddrs, answer, announced>>
  BY <1>1 DEF AnnouncedInv
<1>2. CASE FinishCall
  <2>1. /\ UNCHANGED announced /\ answer' = NoAnswer
        /\ localAddrs' = IF answer.res = "ok" THEN Append(localAddrs, answer.addr)
                                              ELSE localAddrs
    BY <1>2 DEF FinishCall, ActualAddr, swarmVars
  <2>2. /\ localAddrs \in Seq(Address) /\ answer.addr \in Address
        /\ answer \in [res : {"none", "ok", "err"}, addr : Address]
    BY DEF TypeOK, FrontTypeOK
  <2>3. ASSUME NEW x \in Address
        PROVE  Count(localAddrs', x) = Count(localAddrs, x)
                 + (IF answer = [res |-> "ok", addr |-> x] THEN 1 ELSE 0)
    <3>1. Count(localAddrs, x) \in Nat
      BY <2>2, CountAppend
    <3>2. answer = [res |-> "ok", addr |-> x] <=> answer.res = "ok" /\ answer.addr = x
      BY <2>2
    <3>. QED
      BY <2>1, <2>2, <3>1, <3>2, CountAppend
  <2>4. \A x : answer' # [res |-> "ok", addr |-> x]
    BY <2>1 DEF NoAnswer
  <2>5. \A x \in Address : Count(localAddrs', x) \in Nat
    BY <2>1, <2>2, CountAppend
  <2>. QED
    BY <2>1, <2>3, <2>4, <2>5 DEF AnnouncedInv
<1>3. CASE NewListenAddr
  <2>1. PICK a \in announcing :
          /\ UNCHANGED localAddrs /\ announced' = Append(announced, a.addr)
          /\ UNCHANGED answer \/ Reply("ok", a.addr)
    BY <1>3 DEF NewListenAddr
  <2>2. /\ localAddrs \in Seq(Address) /\ announced \in Seq(Address) /\ a.addr \in Address
    BY DEF TypeOK, FrontTypeOK, SwarmTypeOK
  <2>3. ASSUME NEW x \in Address
        PROVE  /\ Count(localAddrs, x) \in Nat /\ Count(announced, x) \in Nat
               /\ Count(announced', x) = Count(announced, x) + (IF a.addr = x THEN 1 ELSE 0)
    BY <2>1, <2>2, CountAppend
  <2>4. answer' = answer \/ answer' = [res |-> "ok", addr |-> a.addr]
    BY <2>1 DEF Reply
  <2>. QED
    BY <2>1, <2>3, <2>4 DEF AnnouncedInv
<1>4. CASE HandleListen \/ HandleListenViaRelay
  <2>1. UNCHANGED <<localAddrs, announced>> /\ (UNCHANGED answer \/ Reply("err", NoAddr))
    BY <1>4 DEF HandleListen, HandleListenViaRelay, swarmVars
  <2>2. ASSUME NEW x \in Address
        PROVE  /\ Count(localAddrs, x) \in Nat /\ Count(announced, x) \in Nat
               /\ answer' = answer \/ answer' # [res |-> "ok", addr |-> x]
    <3>1. Count(localAddrs, x) \in Nat /\ Count(announced, x) \in Nat
      BY CountAppend DEF TypeOK, FrontTypeOK, SwarmTypeOK
    <3>2. answer' = answer \/ answer'.res = "err"
      BY <2>1 DEF Reply
    <3>. QED
      BY <3>1, <3>2
  <2>. QED
    BY <1>1, <2>1, <2>2 DEF AnnouncedInv
<1>5. CASE (\E a \in Target : SendMessage(a)) \/ DoSend \/ SendToPeer
  BY <1>1, <1>5 DEF SendMessage, DoSend, SendUnparsable, SendWithoutPeer, SendConnected,
                    SendAndDial, SendDialRefused, SendToPeer, frontVars, swarmVars
<1>6. CASE \/ \E a \in ListenAddr : StartCall("listen", a)
           \/ \E a \in RelayAddr : StartCall("relay", a)
  BY <1>1, <1>6 DEF StartCall, swarmVars
<1>7. CASE Dialled \/ \E p \in Peer : Inbound(p)
  BY <1>1, <1>7 DEF Dialled, DialSucceeds, Inbound, OnConnected, frontVars
<1>8. CASE ListenerClosed \/ DialFails \/ ConnectionClosed
  BY <1>1, <1>8 DEF ListenerClosed, DialFails, ConnectionClosed, frontVars
<1>9. CASE \/ \E m \in InMsg : RemoteSends(m) \/ HandleIncoming(m)
           \/ AcceptStream \/ TryRecvEvent
  BY <1>1, <1>9 DEF RemoteSends, HandleIncoming, AcceptStream, TryRecvEvent,
                    frontVars, swarmVars
<1>10. CASE UNCHANGED vars
  BY <1>1, <1>10 DEF vars, frontVars, swarmVars
<1>. QED
  BY <1>2, <1>3, <1>4, <1>5, <1>6, <1>7, <1>8, <1>9, <1>10 DEF Next, HandleCommand

\* GetLocalAddresses returns what was announced: however the loop's answer and
\* the front's record interleave, no announcement is recorded for two calls.
THEOREM LocalAddressesAreReal == Spec => []LocalAddrsWereAnnounced
<1>1. Init => AnnouncedInv
  <2>1. Init => localAddrs = <<>> /\ announced = <<>> /\ answer.res = "none"
    BY DEF Init, NoAnswer
  <2>2. \A x : Count(<<>>, x) = 0
    <3>1. \A x : {i \in 1 .. Len(<<>>) : <<>>[i] = x} = {}
      OBVIOUS
    <3>. QED
      BY <3>1, FS_EmptySet DEF Count
  <2>3. Init => \A x : answer # [res |-> "ok", addr |-> x]
    BY <2>1
  <2>. QED
    BY <2>1, <2>2, <2>3 DEF AnnouncedInv
<1>2. TypeOK /\ AnnouncedInv /\ [Next]_vars => AnnouncedInv'
  BY AnnouncedNext
<1>3. TypeOK /\ AnnouncedInv => LocalAddrsWereAnnounced
  <2>. SUFFICES ASSUME TypeOK, AnnouncedInv, NEW x \in Elements(localAddrs)
                PROVE  Count(localAddrs, x) <= Count(announced, x)
    BY DEF LocalAddrsWereAnnounced
  <2>1. localAddrs \in Seq(Address) /\ announced \in Seq(Address) /\ x \in Address
    BY LenProperties DEF TypeOK, FrontTypeOK, SwarmTypeOK, Elements
  <2>2. Count(localAddrs, x) \in Nat /\ Count(announced, x) \in Nat
    BY <2>1, CountAppend
  <2>. QED
    BY <2>1, <2>2 DEF AnnouncedInv
<1>. QED
  BY <1>1, <1>2, <1>3, TypeCorrect, PTL DEF Spec
-----------------------------------------------------------------------------
(* What the manager hears.                                                 *)

\* The event channel at its two ends.
LEMMA EventLast ==
  ASSUME TypeOK, NEW e \in Event, Emit(e)
  PROVE  /\ Len(evtQ) \in Nat /\ Len(evtQ') = Len(evtQ) + 1
         /\ \A i \in 1 .. Len(evtQ) : evtQ'[i] = evtQ[i]
         /\ evtQ'[Len(evtQ) + 1] = e
BY AppendProperties, LenProperties DEF TypeOK, Emit

LEMMA EventFirst ==
  ASSUME TypeOK, TryRecvEvent
  PROVE  /\ Len(evtQ) \in Nat /\ Len(evtQ) # 0 /\ Len(evtQ') = Len(evtQ) - 1
         /\ \A i \in 1 .. Len(evtQ') : evtQ'[i] = evtQ[i + 1]
         /\ \A i \in 1 .. Len(evtQ) : i # 1 => i - 1 \in 1 .. Len(evtQ') /\ evtQ'[i - 1] = evtQ[i]
         /\ evtQ[1] \in Event /\ heard' = Hear(heard, evtQ[1])
<1>1. /\ evtQ \in Seq(Event) /\ evtQ # <<>> /\ evtQ' = Tail(evtQ)
      /\ heard' = Hear(heard, Head(evtQ))
  BY DEF TypeOK, TryRecvEvent
<1>2. /\ Len(evtQ) \in Nat /\ Len(evtQ) # 0 /\ Len(evtQ') = Len(evtQ) - 1
      /\ \A i \in 1 .. Len(evtQ') : evtQ'[i] = evtQ[i + 1]
      /\ Head(evtQ) = evtQ[1] /\ Head(evtQ) \in Event
  BY <1>1, HeadTailProperties, LenProperties, EmptySeq
<1>3. \A i \in 1 .. Len(evtQ) : i # 1 => i - 1 \in 1 .. Len(evtQ') /\ (i - 1) + 1 = i
  BY <1>2
<1>. QED
  BY <1>1, <1>2, <1>3

\* The kinds of events are apart, and so are the events of two peers.
LEMMA EventsApart ==
  ASSUME NEW p \in Peer, NEW q \in Peer
  PROVE  /\ Connected(p).type = "PeerConnected" /\ Connected(p).peer = p
         /\ Disconnected(p).type = "PeerDisconnected" /\ Disconnected(p).peer = p
         /\ Connected(p) # Disconnected(q)
         /\ p # q => Connected(p) # Connected(q) /\ Disconnected(p) # Disconnected(q)
BY DEF Connected, Disconnected

\* How a step meets the channel.
EventStep ==
  \/ UNCHANGED <<evtQ, heard, conns>>
  \/ /\ \E e \in Event : Emit(e) /\ e.type = "SendFailed"
     /\ UNCHANGED <<heard, conns>>
  \/ \E m \in tasks : Emit(Received(m)) /\ UNCHANGED <<heard, conns>>
  \/ \E p \in Peer : /\ Emit(Connected(p)) /\ conns' = [conns EXCEPT ![p] = @ + 1]
                     /\ UNCHANGED heard
  \/ \E p \in Peer : /\ Emit(Disconnected(p)) /\ conns' = [conns EXCEPT ![p] = @ - 1]
                     /\ UNCHANGED heard
  \/ TryRecvEvent /\ UNCHANGED conns

LEMMA EventSteps ==
  ASSUME TypeOK, [Next]_vars
  PROVE  EventStep
<1>1. CASE SendUnparsable \/ SendWithoutPeer \/ SendDialRefused
  <2>1. Take("send")
    BY <1>1 DEF SendUnparsable, SendWithoutPeer, SendDialRefused
  <2>2. Head(cmdQ).id \in Nat
    BY <2>1, TakeType
  <2>3. \E err \in {"unreachable", "protocol"} : Emit(Failed(Head(cmdQ).id, err))
    BY <1>1 DEF SendUnparsable, SendWithoutPeer, SendDialRefused
  <2>4. \E e \in Event : Emit(e) /\ e.type = "SendFailed"
    BY <2>2, <2>3, EventTypes DEF Failed
  <2>. QED
    BY <1>1, <2>4 DEF EventStep, SendUnparsable, SendWithoutPeer, SendDialRefused, swarmVars
<1>2. CASE SendToPeer
  <2>1. Head(outbox.msgs) \in Nat
    BY <1>2, OutboxAfter
  <2>2. Failed(Head(outbox.msgs), "protocol") \in Event
        /\ Failed(Head(outbox.msgs), "protocol").type = "SendFailed"
    BY <2>1, EventTypes DEF Failed
  <2>. QED
    BY <1>2, <2>2 DEF SendToPeer, EventStep, swarmVars
<1>3. CASE Dialled \/ \E p \in Peer : Inbound(p)
  BY <1>3 DEF Dialled, DialSucceeds, Inbound, OnConnected, TellsOpened, EventStep
<1>4. CASE ConnectionClosed
  BY <1>4 DEF ConnectionClosed, TellsClosed, EventStep
<1>5. CASE \E m \in InMsg : RemoteSends(m) \/ HandleIncoming(m)
  BY <1>5 DEF RemoteSends, HandleIncoming, swarmVars, EventStep
<1>6. CASE TryRecvEvent
  BY <1>6 DEF TryRecvEvent, swarmVars, EventStep
<1>7. CASE (\E a \in Target : SendMessage(a)) \/ SendConnected \/ SendAndDial
  BY <1>7 DEF SendMessage, SendConnected, SendAndDial, swarmVars, EventStep
<1>8. CASE \/ \E a \in ListenAddr : StartCall("listen", a)
           \/ \E a \in RelayAddr : StartCall("relay", a)
           \/ FinishCall \/ HandleListen \/ HandleListenViaRelay
  BY <1>8 DEF StartCall, FinishCall, HandleListen, HandleListenViaRelay, swarmVars, EventStep
<1>9. CASE NewListenAddr \/ ListenerClosed \/ DialFails \/ AcceptStream \/ UNCHANGED vars
  BY <1>9 DEF NewListenAddr, ListenerClosed, DialFails, AcceptStream, vars, swarmVars, EventStep
<1>. QED
  BY <1>1, <1>2, <1>3, <1>4, <1>5, <1>6, <1>7, <1>8, <1>9 DEF Next, HandleCommand, DoSend

\* A peer without a connection is not taken for connected, or will not be once
\* the events that are on their way have been heard.
GoodbyeInv ==
  \A p \in Peer : conns[p] = 0 =>
    /\ \A i \in 1 .. Len(evtQ) : evtQ[i] = Connected(p) =>
         \E j \in 1 .. Len(evtQ) : i < j /\ evtQ[j] = Disconnected(p)
    /\ p \in heard.peers => \E j \in 1 .. Len(evtQ) : evtQ[j] = Disconnected(p)

\* An event that is no PeerConnected leaves the others behind it where they are.
LEMMA GoodbyeEmits ==
  ASSUME TypeOK, GoodbyeInv, NEW e \in Event, Emit(e), UNCHANGED heard,
         NEW p \in Peer, conns[p] = 0 \/ e = Disconnected(p), e # Connected(p)
  PROVE  /\ \A i \in 1 .. Len(evtQ') : evtQ'[i] = Connected(p) =>
              \E j \in 1 .. Len(evtQ') : i < j /\ evtQ'[j] = Disconnected(p)
         /\ p \in heard'.peers => \E j \in 1 .. Len(evtQ') : evtQ'[j] = Disconnected(p)
<1>1. /\ Len(evtQ) \in Nat /\ Len(evtQ') = Len(evtQ) + 1
      /\ \A i \in 1 .. Len(evtQ) : evtQ'[i] = evtQ[i]
      /\ evtQ'[Len(evtQ) + 1] = e
  BY EventLast
<1>2. /\ \A i \in 1 .. Len(evtQ') : i \in 1 .. Len(evtQ) \/ i = Len(evtQ) + 1
      /\ Len(evtQ) + 1 \in 1 .. Len(evtQ')
      /\ \A i \in 1 .. Len(evtQ) : i \in 1 .. Len(evtQ') /\ i < Len(evtQ) + 1
  BY <1>1
<1>. QED
  BY <1>1, <1>2 DEF GoodbyeInv

LEMMA GoodbyeHears ==
  ASSUME TypeOK, GoodbyeInv, TryRecvEvent, UNCHANGED conns
  PROVE  GoodbyeInv'
<1>. SUFFICES ASSUME NEW p \in Peer, conns[p] = 0
              PROVE  /\ \A i \in 1 .. Len(evtQ') : evtQ'[i] = Connected(p) =>
                          \E j \in 1 .. Len(evtQ') : i < j /\ evtQ'[j] = Disconnected(p)
                     /\ p \in heard'.peers =>
                          \E j \in 1 .. Len(evtQ') : evtQ'[j] = Disconnected(p)
  BY DEF GoodbyeInv
<1>1. /\ Len(evtQ) \in Nat /\ Len(evtQ) # 0 /\ Len(evtQ') = Len(evtQ) - 1
      /\ \A i \in 1 .. Len(evtQ') : evtQ'[i] = evtQ[i + 1]
      /\ \A i \in 1 .. Len(evtQ) : i # 1 => i - 1 \in 1 .. Len(evtQ') /\ evtQ'[i - 1] = evtQ[i]
      /\ evtQ[1] \in Event /\ heard' = Hear(heard, evtQ[1])
  BY EventFirst
<1>2. ASSUME NEW i \in 1 .. Len(evtQ'), evtQ'[i] = Connected(p)
      PROVE  \E j \in 1 .. Len(evtQ') : i < j /\ evtQ'[j] = Disconnected(p)
  <2>1. i + 1 \in 1 .. Len(evtQ) /\ evtQ[i + 1] = Connected(p)
    BY <1>1, <1>2
  <2>2. PICK j \in 1 .. Len(evtQ) : i + 1 < j /\ evtQ[j] = Disconnected(p)
    BY <2>1 DEF GoodbyeInv
  <2>3. j # 1 /\ i < j - 1
    BY <2>2
  <2>. QED
    BY <1>1, <2>2, <2>3
<1>3. ASSUME p \in heard'.peers
      PROVE  \E j \in 1 .. Len(evtQ') : evtQ'[j] = Disconnected(p)
  <2>1. \/ p \in heard.peers /\ evtQ[1] # Disconnected(p)
        \/ evtQ[1] = Connected(p)
    <3>1. CASE evtQ[1].type = "PeerConnected"
      BY <1>1, <1>3, <3>1 DEF Hear, Event, Connected, Disconnected
    <3>2. CASE evtQ[1].type = "PeerDisconnected"
      BY <1>1, <1>3, <3>2 DEF Hear, Disconnected
    <3>3. CASE evtQ[1].type \notin {"PeerConnected", "PeerDisconnected"}
      BY <1>1, <1>3, <3>3 DEF Hear, Disconnected
    <3>. QED
      BY <3>1, <3>2, <3>3
  <2>2. 1 \in 1 .. Len(evtQ)
    BY <1>1
  <2>3. PICK j \in 1 .. Len(evtQ) : evtQ[j] = Disconnected(p) /\ j # 1
    BY <2>1, <2>2 DEF GoodbyeInv
  <2>. QED
    BY <1>1, <2>3
<1>. QED
  BY <1>2, <1>3

LEMMA GoodbyeNext ==
  ASSUME TypeOK, GoodbyeInv, [Next]_vars
  PROVE  GoodbyeInv'
<1>1. CASE UNCHANGED <<evtQ, heard, conns>>
  BY <1>1 DEF GoodbyeInv
<1>2. ASSUME NEW e \in Event, Emit(e), UNCHANGED <<heard, conns>>,
             e.type \notin {"PeerConnected", "PeerDisconnected"}
      PROVE  GoodbyeInv'
  <2>1. \A p \in Peer : e # Connected(p)
    BY <1>2 DEF Connected
  <2>. QED
    BY <1>2, <2>1, GoodbyeEmits DEF GoodbyeInv
<1>3. ASSUME NEW p \in Peer, Emit(Connected(p)), conns' = [conns EXCEPT ![p] = @ + 1],
             UNCHANGED heard
      PROVE  GoodbyeInv'
  <2>1. Connected(p) \in Event /\ conns'[p] # 0 /\ \A q \in Peer \ {p} : conns'[q] = conns[q]
    BY <1>3, EventTypes DEF TypeOK, SwarmTypeOK
  <2>2. \A q \in Peer \ {p} : Connected(p) # Connected(q)
    BY EventsApart
  <2>. QED
    BY <1>3, <2>1, <2>2, GoodbyeEmits DEF GoodbyeInv
<1>4. ASSUME NEW p \in Peer, Emit(Disconnected(p)), conns' = [conns EXCEPT ![p] = @ - 1],
             UNCHANGED heard
      PROVE  GoodbyeInv'
  <2>1. Disconnected(p) \in Event /\ \A q \in Peer \ {p} : conns'[q] = conns[q]
    BY <1>4, EventTypes DEF TypeOK, SwarmTypeOK
  <2>2. \A q \in Peer : Disconnected(p) # Connected(q)
    BY EventsApart
  <2>. QED
    BY <1>4, <2>1, <2>2, GoodbyeEmits DEF GoodbyeInv
<1>5. CASE TryRecvEvent /\ UNCHANGED conns
  BY <1>5, GoodbyeHears
<1>6. ASSUME NEW m \in tasks, Emit(Received(m)), UNCHANGED <<heard, conns>>
      PROVE  GoodbyeInv'
  <2>1. Received(m) \in Event /\ Received(m).type = "MessageReceived"
    BY EventTypes DEF TypeOK, RecvTypeOK, Received
  <2>. QED
    BY <1>2, <1>6, <2>1
<1>. QED
  BY <1>1, <1>2, <1>3, <1>4, <1>5, <1>6, EventSteps DEF EventStep

\* A manager that has drained its events takes no peer for connected that is not.
THEOREM NoPeerIsAGhost == Spec => []NoGhostPeers
<1>1. Init => GoodbyeInv
  BY DEF Init, GoodbyeInv
<1>2. TypeOK /\ GoodbyeInv /\ [Next]_vars => GoodbyeInv'
  BY GoodbyeNext
<1>3. TypeOK /\ GoodbyeInv => NoGhostPeers
  <2>. SUFFICES ASSUME TypeOK, GoodbyeInv, evtQ = <<>>, NEW p \in heard.peers
                PROVE  conns[p] > 0
    BY DEF NoGhostPeers
  <2>1. p \in Peer /\ conns[p] \in Nat
    BY DEF TypeOK, HistoryTypeOK, SwarmTypeOK
  <2>2. conns[p] # 0
    BY <2>1 DEF GoodbyeInv
  <2>. QED
    BY <2>1, <2>2
<1>. QED
  BY <1>1, <1>2, <1>3, TypeCorrect, PTL DEF Spec

\* The manager knows p, or will once it has heard what is on its way.
MetEver(p) == p \in heard.met \/ \E i \in 1 .. Len(evtQ) : evtQ[i] = Connected(p)

\* Inbound streams from their arrival to their event.
Streams == tasks \cup Elements(incoming)

\* Whoever is connected, and whoever sent what is being read, is known.
MetInv ==
  /\ \A p \in Peer : conns[p] > 0 => MetEver(p)
  /\ \A m \in Streams : MetEver(From[m])
  /\ ConnectedBeforeReceived

\* Streams come from peers that are connected.
LEMMA StreamSteps ==
  ASSUME TypeOK, [Next]_vars
  PROVE  \A m \in Streams' : m \in InMsg /\ (m \in Streams \/ conns[From[m]] > 0)
<1>1. Streams \subseteq InMsg
  BY ElementsType DEF TypeOK, RecvTypeOK, Streams
<1>2. CASE UNCHANGED recvVars
  BY <1>1, <1>2 DEF recvVars, Streams
<1>3. ASSUME NEW m \in InMsg, RemoteSends(m) PROVE Streams' \subseteq Streams \cup {m}
  <2>1. incoming' = incoming \/ incoming' = Append(incoming, m)
    BY <1>3 DEF RemoteSends
  <2>2. Elements(Append(incoming, m)) = Elements(incoming) \cup {m}
    BY ElementsAppend DEF TypeOK, RecvTypeOK
  <2>. QED
    BY <1>3, <2>1, <2>2 DEF RemoteSends, Streams
<1>4. CASE AcceptStream
  <2>1. Elements(incoming) = {Head(incoming)} \cup Elements(Tail(incoming))
    BY <1>4, ElementsTail DEF AcceptStream, TypeOK, RecvTypeOK
  <2>2. Streams' \subseteq Streams
    BY <1>4, <2>1 DEF AcceptStream, Streams
  <2>. QED
    BY <1>1, <2>2
<1>5. CASE \E m \in InMsg : HandleIncoming(m)
  BY <1>1, <1>5 DEF HandleIncoming, Streams
<1>6. CASE \E m \in InMsg : RemoteSends(m)
  BY <1>1, <1>3, <1>6 DEF RemoteSends
<1>7. CASE \/ \E a \in Target : SendMessage(a)
           \/ \E a \in ListenAddr : StartCall("listen", a)
           \/ \E a \in RelayAddr : StartCall("relay", a)
           \/ FinishCall \/ UNCHANGED vars
  BY <1>2, <1>7 DEF SendMessage, StartCall, FinishCall, vars
<1>8. CASE HandleCommand \/ SendToPeer
  BY <1>2, <1>8 DEF HandleCommand, DoSend, SendUnparsable, SendWithoutPeer, SendConnected,
                    SendAndDial, SendDialRefused, HandleListen, HandleListenViaRelay,
                    SendToPeer
<1>9. CASE \/ NewListenAddr \/ ListenerClosed \/ Dialled \/ DialFails \/ ConnectionClosed
           \/ (\E p \in Peer : Inbound(p)) \/ TryRecvEvent
  BY <1>2, <1>9 DEF NewListenAddr, ListenerClosed, Dialled, DialSucceeds, DialFails,
                    ConnectionClosed, Inbound, OnConnected, TryRecvEvent
<1>. QED
  BY <1>4, <1>5, <1>6, <1>7, <1>8, <1>9 DEF Next

\* An event of a peer that is known.
LEMMA MetEmits ==
  ASSUME TypeOK, ConnectedBeforeReceived, NEW e \in Event, Emit(e), UNCHANGED heard,
         e.type = "MessageReceived" => MetEver(e.peer)
  PROVE  /\ ConnectedBeforeReceived'
         /\ \A p \in Peer : MetEver(p) \/ e = Connected(p) => MetEver(p)'
<1>1. /\ Len(evtQ) \in Nat /\ Len(evtQ') = Len(evtQ) + 1
      /\ \A i \in 1 .. Len(evtQ) : evtQ'[i] = evtQ[i]
      /\ evtQ'[Len(evtQ) + 1] = e
  BY EventLast
<1>2. /\ \A i \in 1 .. Len(evtQ') : i \in 1 .. Len(evtQ) \/ i = Len(evtQ) + 1
      /\ Len(evtQ) + 1 \in 1 .. Len(evtQ')
      /\ \A i \in 1 .. Len(evtQ) : i \in 1 .. Len(evtQ')
  BY <1>1
<1>3. \A p \in Peer : MetEver(p) \/ e = Connected(p) => MetEver(p)'
  BY <1>1, <1>2 DEF MetEver
<1>4. ASSUME NEW j \in 1 .. Len(evtQ'), evtQ'[j].type = "MessageReceived"
      PROVE  \/ evtQ'[j].peer \in heard'.met
             \/ \E i \in 1 .. (j - 1) : evtQ'[i] = Connected(evtQ'[j].peer)
  <2>1. CASE j \in 1 .. Len(evtQ)
    <3>1. \/ evtQ[j].peer \in heard.met
          \/ \E i \in 1 .. (j - 1) : evtQ[i] = Connected(evtQ[j].peer)
      BY <1>1, <1>4, <2>1 DEF ConnectedBeforeReceived
    <3>2. \A i \in 1 .. (j - 1) : evtQ'[i] = evtQ[i]
      BY <1>1, <2>1
    <3>. QED
      BY <1>1, <2>1, <3>1, <3>2
  <2>2. CASE j = Len(evtQ) + 1
    <3>1. evtQ'[j] = e /\ MetEver(e.peer) /\ 1 .. (j - 1) = 1 .. Len(evtQ)
      BY <1>1, <1>4, <2>2
    <3>. QED
      BY <1>1, <3>1 DEF MetEver
  <2>. QED
    BY <1>2, <2>1, <2>2
<1>. QED
  BY <1>3, <1>4 DEF ConnectedBeforeReceived

LEMMA MetHears ==
  ASSUME TypeOK, ConnectedBeforeReceived, TryRecvEvent
  PROVE  /\ ConnectedBeforeReceived'
         /\ \A p \in Peer : MetEver(p) => MetEver(p)'
<1>1. /\ Len(evtQ) \in Nat /\ Len(evtQ) # 0 /\ Len(evtQ') = Len(evtQ) - 1
      /\ \A i \in 1 .. Len(evtQ') : evtQ'[i] = evtQ[i + 1]
      /\ \A i \in 1 .. Len(evtQ) : i # 1 => i - 1 \in 1 .. Len(evtQ') /\ evtQ'[i - 1] = evtQ[i]
      /\ evtQ[1] \in Event /\ heard' = Hear(heard, evtQ[1])
  BY EventFirst
<1>2. /\ heard.met \subseteq heard'.met
      /\ \A p : evtQ[1] = Connected(p) => p \in heard'.met
  BY <1>1 DEF Hear, Connected
<1>3. \A p \in Peer : MetEver(p) => MetEver(p)'
  BY <1>1, <1>2 DEF MetEver
<1>4. ASSUME NEW j \in 1 .. Len(evtQ'), evtQ'[j].type = "MessageReceived"
      PROVE  \/ evtQ'[j].peer \in heard'.met
             \/ \E i \in 1 .. (j - 1) : evtQ'[i] = Connected(evtQ'[j].peer)
  <2>1. j + 1 \in 1 .. Len(evtQ) /\ evtQ'[j] = evtQ[j + 1]
    BY <1>1
  <2>2. \/ evtQ'[j].peer \in heard.met
        \/ \E i \in 1 .. ((j + 1) - 1) : evtQ[i] = Connected(evtQ'[j].peer)
    BY <1>4, <2>1 DEF ConnectedBeforeReceived
  <2>3. ASSUME NEW i \in 1 .. ((j + 1) - 1), i # 1, evtQ[i] = Connected(evtQ'[j].peer)
        PROVE  i - 1 \in 1 .. (j - 1) /\ evtQ'[i - 1] = Connected(evtQ'[j].peer)
    <3>1. i \in 1 .. Len(evtQ) /\ i - 1 \in 1 .. (j - 1)
      BY <1>1, <2>1, <2>3
    <3>. QED
      BY <1>1, <2>3, <3>1
  <2>. QED
    BY <1>2, <2>2, <2>3
<1>. QED
  BY <1>3, <1>4 DEF ConnectedBeforeReceived

LEMMA MetNext ==
  ASSUME TypeOK, MetInv, [Next]_vars
  PROVE  MetInv'
<1>. DEFINE Knows == \A p \in Peer : MetEver(p) => MetEver(p)'
<1>1. ASSUME Knows, ConnectedBeforeReceived', NEW q,
             \A p \in Peer \ {q} : conns'[p] > 0 => conns[p] > 0,
             q \in Peer /\ conns'[q] > 0 => MetEver(q) \/ MetEver(q)'
      PROVE  MetInv'
  <2>1. \A p \in Peer : conns'[p] > 0 => MetEver(p)'
    BY <1>1 DEF MetInv
  <2>2. \A m \in Streams' : From[m] \in Peer /\ MetEver(From[m])
    BY StreamSteps, NetworkAssumption DEF MetInv, NetworkAssumption
  <2>3. \A m \in Streams' : MetEver(From[m])'
    BY <1>1, <2>2
  <2>. QED
    BY <1>1, <2>1, <2>3 DEF MetInv
<1>2. CASE UNCHANGED <<evtQ, heard, conns>>
  <2>1. Knows /\ ConnectedBeforeReceived'
    BY <1>2 DEF MetInv, MetEver, ConnectedBeforeReceived
  <2>. QED
    BY <1>1, <1>2, <2>1 DEF MetInv
<1>3. ASSUME NEW e \in Event, Emit(e), e.type = "SendFailed", UNCHANGED <<heard, conns>>
      PROVE  MetInv'
  BY <1>1, <1>3, MetEmits DEF MetInv
<1>4. ASSUME NEW m \in tasks, Emit(Received(m)), UNCHANGED <<heard, conns>>
      PROVE  MetInv'
  <2>1. Received(m) \in Event /\ Received(m).peer = From[m] /\ MetEver(From[m])
    BY EventTypes DEF TypeOK, RecvTypeOK, Received, MetInv, Streams
  <2>. QED
    BY <1>1, <1>4, <2>1, MetEmits DEF MetInv
<1>5. ASSUME NEW p \in Peer, Emit(Connected(p)), conns' = [conns EXCEPT ![p] = @ + 1],
             UNCHANGED heard
      PROVE  MetInv'
  <2>1. /\ Connected(p) \in Event /\ Connected(p).type # "MessageReceived"
        /\ \A q \in Peer \ {p} : conns'[q] = conns[q]
    BY <1>5, EventTypes, EventsApart DEF TypeOK, SwarmTypeOK
  <2>2. Knows /\ ConnectedBeforeReceived' /\ MetEver(p)'
    BY <1>5, <2>1, MetEmits DEF MetInv
  <2>. QED
    BY <1>1, <2>1, <2>2
<1>6. ASSUME NEW p \in Peer, Emit(Disconnected(p)), conns' = [conns EXCEPT ![p] = @ - 1],
             UNCHANGED heard
      PROVE  MetInv'
  <2>1. /\ Disconnected(p) \in Event /\ Disconnected(p).type # "MessageReceived"
        /\ \A q \in Peer : conns'[q] > 0 => conns[q] > 0
    BY <1>6, EventTypes, EventsApart DEF TypeOK, SwarmTypeOK
  <2>2. Knows /\ ConnectedBeforeReceived'
    BY <1>6, <2>1, MetEmits DEF MetInv
  <2>. QED
    BY <1>1, <2>1, <2>2 DEF MetInv
<1>7. CASE TryRecvEvent /\ UNCHANGED conns
  BY <1>1, <1>7, MetHears DEF MetInv
<1>. QED
  BY <1>2, <1>3, <1>4, <1>5, <1>6, <1>7, EventSteps DEF EventStep

\* The manager hears of a peer before it hears from it.
THEOREM MetBeforeReceived == Spec => []ConnectedBeforeReceived
<1>1. Init => MetInv
  <2>. SUFFICES ASSUME Init PROVE MetInv
    OBVIOUS
  <2>1. Streams = {} /\ Len(evtQ) = 0
    BY ElementsType DEF Init, Streams
  <2>. QED
    BY <2>1 DEF Init, MetInv, ConnectedBeforeReceived
<1>2. TypeOK /\ MetInv /\ [Next]_vars => MetInv'
  BY MetNext
<1>3. MetInv => ConnectedBeforeReceived
  BY DEF MetInv
<1>. QED
  BY <1>1, <1>2, <1>3, TypeCorrect, PTL DEF Spec
=============================================================================
