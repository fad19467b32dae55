---------------------------- MODULE NetworkActor ----------------------------
(***************************************************************************)
(* One node of meerkat-net-v2: the NetworkActor in front (handle_command,  *)
(* one call at a time), the event loop behind it (one tokio::select! over  *)
(* commands, inbound streams and swarm events), the channels between them, *)
(* and the libp2p swarm below.  The swarm, the remote peers and the        *)
(* manager that drains the events are the environment: what they may do is *)
(* any interleaving of their actions, cut down by Env and by the bounds.   *)
(*                                                                         *)
(* The loop awaits send_to_peer inside an arm of its select!, so while a   *)
(* message is being written it takes no command, no inbound stream and no  *)
(* swarm event.  That is what outbox stands for: the messages the current  *)
(* arm still has to write.  Everything else the loop does is one step.     *)
(***************************************************************************)
EXTENDS Addresses, FiniteSets

CONSTANTS
  LocalPeer,     \* local_peer_id
  NodeType,      \* NodeType::Server or NodeType::BrowserClient
  RelayServer,   \* the relay_server address of a BrowserClient
  Target,        \* canonical addresses the manager sends to
  ListenAddr,    \* addresses the manager listens on
  Binds,         \* Binds[a]: what a listener on a announces, one or more
  RelayAddr,     \* addresses given to ListenViaRelay
  InMsg,         \* messages the remote peers send
  From,          \* From[m]: the peer that sends m
  Env,           \* what the surroundings may do, of EnvKind
  MaxMsgs, MaxCalls, MaxConns, MaxEvents, MaxListeners     \* bounds

EnvKind == {"Inbound", "Disconnect", "DialRefused", "DialFails",
            "ListenRefused", "ListenFails", "StreamFails", "StreamDropped"}

ASSUME NetworkAssumption ==
  /\ LocalPeer \in Peer /\ RelayServer \in Address
  /\ NodeType \in {"Server", "BrowserClient"}
  /\ Target \subseteq Address /\ RelayAddr \subseteq Address
  /\ ListenAddr \subseteq Address
  /\ Binds \in [ListenAddr -> SUBSET Address]
  /\ From \in [InMsg -> Peer]
  /\ Env \subseteq EnvKind
  /\ {MaxMsgs, MaxCalls, MaxConns, MaxEvents, MaxListeners} \subseteq Nat

\* NetworkActor::translate_address.  The canonical string begins with a
\* slash of its own, so the format string "{}/p2p-circuit/{}" leaves an empty
\* segment where the two meet.
TranslateAddress(canonical) ==
  IF \/ NodeType = "Server"
     \/ StartsWith(canonical, RelayServer) /\ ContainsCircuit(canonical)
     \/ ~StartsWithIp(canonical)
  THEN canonical
  ELSE RelayServer \o <<Circuit, Blank>> \o canonical

\* Multiaddr::with(Protocol::P2pCircuit), and the address under which a
\* reservation made through it is announced (external).
CircuitListenAddr(relay) == relay \o <<Circuit>>
CircuitAddr(relay) == CircuitListenAddr(relay) \o <<P2p(LocalPeer)>>
-----------------------------------------------------------------------------
VARIABLES
  nextId,        \* next_message_id
  call,          \* the Listen or ListenViaRelay call that awaits its oneshot
  answer,        \* what has been put into that oneshot
  localAddrs,    \* local_addrs
  cmdQ,          \* command_tx ... command_rx
  evtQ,          \* event_tx ... event_rx
  pending,       \* pending_sends
  pendingListen, \* pending_listen.is_some()
  pendingRelay,  \* the address in pending_relay, NoAddr when it is None
  outbox,        \* the messages the current arm of the loop still has to write
  conns,         \* established connections to each peer (swarm)
  dials,         \* dials under way, by the peer id in their address (swarm)
  announcing,    \* listener addresses not announced yet (swarm)
  listeners,     \* number of listen_on calls (swarm)
  remote,        \* messages the remote peers have still to send
  incoming,      \* inbound streams not accepted by the loop yet
  tasks,         \* spawned handle_incoming tasks
  announced,     \* history: the listener addresses announced, in order
  replies,       \* history: the calls that returned, with their replies
  sentTo,        \* history: the canonical address of each message, by id
  wire,          \* history: ids written to each peer, in order
  heard          \* the manager: what it knows from the events it took

frontVars == <<nextId, call, answer, localAddrs, replies, sentTo>>
loopVars  == <<pending, pendingListen, pendingRelay, outbox>>
swarmVars == <<conns, dials, announcing, announced, listeners>>
recvVars  == <<remote, incoming, tasks>>
vars == <<frontVars, cmdQ, evtQ, loopVars, swarmVars, recvVars, wire, heard>>

NoCall   == [kind |-> "none", addr |-> NoAddr]
NoAnswer == [res |-> "none", addr |-> NoAddr]
Nothing  == [peer |-> NoPeer, msgs |-> <<>>]

Command ==
  [kind : {"send"}, id : Nat, addr : Address]
    \cup [kind : {"listen"}, id : {0}, addr : ListenAddr]
    \cup [kind : {"relay"}, id : {0}, addr : RelayAddr]
Event ==
  [type : {"SendFailed"}, id : Nat, err : {"unreachable", "protocol"}]
    \cup [type : {"PeerConnected", "PeerDisconnected"}, peer : Peer]
    \cup [type : {"MessageReceived"}, peer : Peer, msg : InMsg]

Failed(id, err) == [type |-> "SendFailed", id |-> id, err |-> err]
Connected(p)    == [type |-> "PeerConnected", peer |-> p]
Disconnected(p) == [type |-> "PeerDisconnected", peer |-> p]
Received(m) == [type |-> "MessageReceived", peer |-> From[m], msg |-> m]

Init ==
  /\ nextId = 1 /\ call = NoCall /\ answer = NoAnswer
  /\ localAddrs = <<>> /\ replies = <<>> /\ sentTo = <<>>
  /\ cmdQ = <<>> /\ evtQ = <<>>
  /\ pending = [p \in Peer |-> <<>>] /\ outbox = Nothing
  /\ pendingListen = FALSE /\ pendingRelay = NoAddr
  /\ conns = [p \in Peer |-> 0] /\ dials = [p \in Peer \cup {NoPeer} |-> 0]
  /\ announcing = {} /\ announced = <<>> /\ listeners = 0
  /\ remote = InMsg /\ incoming = <<>> /\ tasks = {}
  /\ wire = [p \in Peer |-> <<>>]
  /\ heard = [peers |-> {}, met |-> {}, failed |-> {}]
-----------------------------------------------------------------------------
(* The actor: handle_command.                                              *)

\* SendMessage returns its id at once; the outcome, if any, is an event.
SendMessage(addr) ==
  /\ call = NoCall /\ nextId <= MaxMsgs
  /\ cmdQ' = Append(cmdQ, [kind |-> "send", id |-> nextId,
                           addr |-> TranslateAddress(addr)])
  /\ nextId' = nextId + 1 /\ sentTo' = Append(sentTo, addr)
  /\ UNCHANGED <<call, answer, localAddrs, replies, evtQ, loopVars, swarmVars,
                 recvVars, wire, heard>>

\* Listen and ListenViaRelay up to their reply_rx.await.
StartCall(kind, addr) ==
  /\ call = NoCall /\ Len(replies) < MaxCalls
  /\ call' = [kind |-> kind, addr |-> addr]
  /\ cmdQ' = Append(cmdQ, [kind |-> kind, id |-> 0, addr |-> addr])
  /\ UNCHANGED <<nextId, sentTo, answer, localAddrs, replies, evtQ, loopVars, swarmVars,
                 recvVars, wire, heard>>

\* An actor that remembers what it was asked for.
AskedAddr == call.addr
\* local_addrs.push(actual_addr): what the loop answered.
ActualAddr == answer.addr

\* The rest of either call, once the oneshot holds a result.
FinishCall ==
  /\ answer # NoAnswer
  /\ call' = NoCall /\ answer' = NoAnswer
  /\ localAddrs' = IF answer.res = "ok" THEN Append(localAddrs, ActualAddr)
                                        ELSE localAddrs
  /\ replies' = Append(replies, [kind |-> call.kind, asked |-> call.addr,
                                 res |-> answer.res, got |-> answer.addr])
  /\ UNCHANGED <<nextId, sentTo, cmdQ, evtQ, loopVars, swarmVars, recvVars, wire, heard>>
-----------------------------------------------------------------------------
(* The event loop: commands.                                               *)

Idle == outbox = Nothing

Take(kind) ==
  /\ Idle /\ cmdQ # <<>> /\ Head(cmdQ).kind = kind
  /\ cmdQ' = Tail(cmdQ)

Emit(e) == evtQ' = Append(evtQ, e)
\* One that keeps an error to itself and leaves the caller waiting.
ReplyOnlyOk(res, addr) ==
  answer' = IF res = "ok" THEN [res |-> res, addr |-> addr] ELSE answer
\* reply_tx.send(..)
Reply(res, addr) == answer' = [res |-> res, addr |-> addr]

\* A queue that lets a new message overtake the ones before it.
QueuedFirst(pend, p, id) == [pend EXCEPT ![p] = <<id>> \o @]
\* A removal that forgets to remove.
NotRemoved(pend, p) == pend

\* pending_sends.entry(p).or_default().push(id), pending_sends.remove(&p).
Queued(pend, p, id) == [pend EXCEPT ![p] = Append(@, id)]
Removed(pend, p)    == [pend EXCEPT ![p] = <<>>]

\* swarm.dial(addr): it carries the peer id of addr, if there is one.
Dial(addr) == dials' = [dials EXCEPT ![ExtractPeerId(addr)] = @ + 1]

Destination == ExtractPeerId(Head(cmdQ).addr)

\* do_send, one disjunct for each way out of it.
SendUnparsable ==
  /\ Take("send") /\ ~Parses(Head(cmdQ).addr)
  /\ Emit(Failed(Head(cmdQ).id, "unreachable"))
  /\ UNCHANGED <<frontVars, loopVars, swarmVars, recvVars, wire, heard>>

SendWithoutPeer ==
  /\ Take("send") /\ Parses(Head(cmdQ).addr) /\ Destination = NoPeer
  /\ Emit(Failed(Head(cmdQ).id, "protocol"))
  /\ UNCHANGED <<frontVars, loopVars, swarmVars, recvVars, wire, heard>>

Routable == Parses(Head(cmdQ).addr) /\ Destination # NoPeer

SendConnected ==
  /\ Take("send") /\ Routable /\ conns[Destination] > 0
  /\ outbox' = [peer |-> Destination, msgs |-> <<Head(cmdQ).id>>]
  /\ UNCHANGED <<frontVars, evtQ, pending, pendingListen, pendingRelay,
                 swarmVars, recvVars, wire, heard>>

SendAndDial ==
  /\ Take("send") /\ Routable /\ conns[Destination] = 0
  /\ pending' = Queued(pending, Destination, Head(cmdQ).id)
  /\ Dial(Head(cmdQ).addr)
  /\ UNCHANGED <<frontVars, evtQ, pendingListen, pendingRelay, outbox, conns,
                 announcing, announced, listeners, recvVars, wire, heard>>

\* swarm.dial returned Err: this message is reported, and with it everything
\* queued for the same peer is removed.
SendDialRefused ==
  /\ "DialRefused" \in Env
  /\ Take("send") /\ Routable /\ conns[Destination] = 0
  /\ pending' = Removed(Queued(pending, Destination, Head(cmdQ).id), Destination)
  /\ Emit(Failed(Head(cmdQ).id, "protocol"))
  /\ UNCHANGED <<frontVars, pendingListen, pendingRelay, outbox, swarmVars,
                 recvVars, wire, heard>>

DoSend == SendUnparsable \/ SendWithoutPeer \/ SendConnected \/ SendAndDial
            \/ SendDialRefused

\* SwarmCommand::Listen.  swarm.listen_on (external) hands out a listener that
\* will announce the addresses it binds.
ListenOn(addrs) ==
  /\ listeners' = listeners + 1
  /\ announcing' = announcing \cup {[no |-> listeners, addr |-> a] : a \in addrs}

HandleListen ==
  /\ Take("listen")
  /\ LET addr == Head(cmdQ).addr IN
       \/ /\ \/ ~Parses(addr)
             \/ "ListenRefused" \in Env
          /\ Reply("err", NoAddr)
          /\ UNCHANGED <<pendingListen, announcing, listeners>>
       \/ /\ Parses(addr)
          /\ ListenOn(Binds[addr]) /\ pendingListen' = TRUE
          /\ UNCHANGED answer
  /\ UNCHANGED <<nextId, sentTo, call, localAddrs, replies, evtQ, pending, pendingRelay,
                 outbox, conns, dials, announced, recvVars, wire, heard>>

\* SwarmCommand::ListenViaRelay: dial the relay and remember whom to answer.
HandleListenViaRelay ==
  /\ Take("relay")
  /\ LET addr == Head(cmdQ).addr IN
       \/ /\ \/ ~Parses(addr)
             \/ "DialRefused" \in Env
          /\ Reply("err", NoAddr)
          /\ UNCHANGED <<pendingRelay, dials>>
       \/ /\ Parses(addr)
          /\ Dial(addr) /\ pendingRelay' = addr
          /\ UNCHANGED answer
  /\ UNCHANGED <<nextId, sentTo, call, localAddrs, replies, evtQ, pending, pendingListen,
                 outbox, conns, announcing, announced, listeners, recvVars, wire,
                 heard>>

\* send_to_peer for the first message of the outbox.  It is written; or the
\* stream does not open; or a write, the flush say, fails after the remote
\* already has the bytes.  Every error is reported, and the loop goes on.
\* One that stays busy for ever, and one that loses a batch after one message.
StaysBusy(box) == [box EXCEPT !.msgs = Tail(@)]
DropsRest(box) == Nothing

AfterFirst(box) == IF Len(box.msgs) = 1 THEN Nothing
                   ELSE [box EXCEPT !.msgs = Tail(@)]

SendToPeer ==
  /\ ~Idle
  /\ outbox' = AfterFirst(outbox)
  /\ LET id == Head(outbox.msgs)
         written == wire' = [wire EXCEPT ![outbox.peer] = Append(@, id)]
     IN \/ written /\ UNCHANGED evtQ
        \/ /\ "StreamFails" \in Env
           /\ Emit(Failed(id, "protocol"))
           /\ written \/ UNCHANGED wire
  /\ UNCHANGED <<frontVars, cmdQ, pending, pendingListen, pendingRelay, swarmVars,
                 recvVars, heard>>
-----------------------------------------------------------------------------
(* The event loop: swarm events.                                           *)

\* pending_relay.as_ref() where the code has pending_relay.take().
RelayKept == pendingRelay
RelayTaken == NoAddr

\* An announcement handed to whichever call waits, circuit address or not.
AnswersFirst(addr) == pendingRelay # NoAddr

\* "/p2p-circuit" addresses belong to the ListenViaRelay call, if one waits.
AnswersRelay(addr) == ContainsCircuit(addr) /\ pendingRelay # NoAddr

NewListenAddr ==
  /\ Idle
  /\ \E a \in announcing :
       /\ announcing' = announcing \ {a}
       /\ announced' = Append(announced, a.addr)
       /\ \/ /\ AnswersRelay(a.addr)
             /\ pendingRelay' = RelayTaken /\ Reply("ok", a.addr)
             /\ UNCHANGED pendingListen
          \/ /\ ~AnswersRelay(a.addr) /\ pendingListen
             /\ pendingListen' = FALSE /\ Reply("ok", a.addr)
             /\ UNCHANGED pendingRelay
          \/ /\ ~AnswersRelay(a.addr) /\ ~pendingListen
             /\ UNCHANGED <<pendingListen, pendingRelay, answer>>
  /\ UNCHANGED <<nextId, sentTo, call, localAddrs, replies, cmdQ, evtQ, pending, outbox,
                 conns, dials, listeners, recvVars, wire, heard>>

\* A listener or a reservation is lost before it is announced.  The event
\* falls into the `_ => {}' arm: whoever waits goes on waiting.  A listener
\* that is lost later falls into it, too, and its address stays in local_addrs.
ListenerClosed ==
  /\ Idle /\ "ListenFails" \in Env
  /\ \E a \in announcing : announcing' = announcing \ {a}
  /\ UNCHANGED <<frontVars, cmdQ, evtQ, loopVars, conns, dials, announced, listeners,
                 recvVars, wire, heard>>

\* The peer that just connected is the relay a ListenViaRelay call waits for.
ReservesAt(p) == pendingRelay # NoAddr /\ ExtractPeerId(pendingRelay) = p

\* Only connections the node itself asked for are reported.
TellsIfAsked(p) == IF pending[p] = <<>> THEN UNCHANGED evtQ ELSE Emit(Connected(p))
TellsOpened(p)  == Emit(Connected(p))

\* One message for each peer instead of a batch.
OneOf(p) == [peer |-> p, msgs |-> <<Head(pending[p])>>]
\* `for (msg_id, msg) in messages'.
BatchOf(p) == [peer |-> p, msgs |-> pending[p]]

\* What a connection to p sets off, wherever it comes from: the manager is
\* told, a reservation is requested (an error of that listen_on is dropped,
\* .ok()), and what was queued for p is written.
OnConnected(p) ==
  /\ conns' = [conns EXCEPT ![p] = @ + 1]
  /\ TellsOpened(p)
  /\ \/ ReservesAt(p) /\ ListenOn({CircuitAddr(pendingRelay)})
     \/ /\ ReservesAt(p) => "ListenRefused" \in Env
        /\ UNCHANGED <<announcing, listeners>>
  /\ pending' = Removed(pending, p)
  /\ outbox' = IF pending[p] = <<>> THEN Nothing ELSE BatchOf(p)
  /\ UNCHANGED <<frontVars, cmdQ, pendingListen, pendingRelay, announced, recvVars,
                 wire, heard>>

\* ConnectionEstablished by a dial: to the peer its address names, or to
\* whoever answers when the address names none.  No dial reaches this node.
DialSucceeds(p, d) ==
  /\ Idle /\ p # LocalPeer
  /\ d \in {p, NoPeer} /\ dials[d] > 0
  /\ dials' = [dials EXCEPT ![d] = @ - 1]
  /\ OnConnected(p)

\* ConnectionEstablished by a remote peer.
Inbound(p) ==
  /\ Idle /\ "Inbound" \in Env /\ p # LocalPeer
  /\ conns[p] < MaxConns /\ Len(evtQ) < MaxEvents /\ listeners < MaxListeners
  /\ OnConnected(p)
  /\ UNCHANGED dials

\* OutgoingConnectionError: the `_ => {}' arm again.
DialFails ==
  /\ Idle /\ "DialFails" \in Env
  /\ \E d \in Peer \cup {NoPeer} :
       dials[d] > 0 /\ dials' = [dials EXCEPT ![d] = @ - 1]
  /\ UNCHANGED <<frontVars, cmdQ, evtQ, loopVars, conns, announcing, announced,
                 listeners, recvVars, wire, heard>>

\* A connection goes without a word.
TellsNobody(p) == UNCHANGED evtQ
TellsClosed(p) == Emit(Disconnected(p))

\* ConnectionClosed, for each of the connections to p.
ConnectionClosed ==
  /\ Idle /\ "Disconnect" \in Env /\ Len(evtQ) < MaxEvents
  /\ \E p \in Peer :
       /\ conns[p] > 0
       /\ conns' = [conns EXCEPT ![p] = @ - 1]
       /\ TellsClosed(p)
  /\ UNCHANGED <<frontVars, cmdQ, loopVars, dials, announcing, announced, listeners,
                 recvVars, wire, heard>>
-----------------------------------------------------------------------------
(* Inbound messages.                                                       *)

\* A remote peer opens a stream and writes m.  libp2p-stream (external) drops
\* the stream when the loop does not accept fast enough.
RemoteSends(m) ==
  /\ m \in remote /\ conns[From[m]] > 0
  /\ remote' = remote \ {m}
  /\ \/ incoming' = Append(incoming, m)
     \/ "StreamDropped" \in Env /\ UNCHANGED incoming
  /\ UNCHANGED <<frontVars, cmdQ, evtQ, loopVars, swarmVars, tasks, wire, heard>>

\* The incoming.next() arm: a task of its own for each stream.
AcceptStream ==
  /\ Idle /\ incoming # <<>>
  /\ incoming' = Tail(incoming) /\ tasks' = tasks \cup {Head(incoming)}
  /\ UNCHANGED <<frontVars, cmdQ, evtQ, loopVars, swarmVars, remote, wire, heard>>

\* handle_incoming, beside the loop and beside other tasks.
HandleIncoming(m) ==
  /\ m \in tasks /\ tasks' = tasks \ {m}
  /\ \/ Emit(Received(m))
     \/ "StreamFails" \in Env /\ UNCHANGED evtQ
  /\ UNCHANGED <<frontVars, cmdQ, loopVars, swarmVars, remote, incoming, wire, heard>>
-----------------------------------------------------------------------------
(* The manager.                                                            *)

Hear(h, e) ==
  [peers |-> CASE e.type = "PeerConnected" -> h.peers \cup {e.peer}
               [] e.type = "PeerDisconnected" -> h.peers \ {e.peer}
               [] OTHER -> h.peers,
   met |-> IF e.type = "PeerConnected" THEN h.met \cup {e.peer} ELSE h.met,
   failed |-> IF e.type = "SendFailed" THEN h.failed \cup {e.id} ELSE h.failed]

TryRecvEvent ==
  /\ evtQ # <<>>
  /\ evtQ' = Tail(evtQ) /\ heard' = Hear(heard, Head(evtQ))
  /\ UNCHANGED <<frontVars, cmdQ, loopVars, swarmVars, recvVars, wire>>
-----------------------------------------------------------------------------
HandleCommand == DoSend \/ HandleListen \/ HandleListenViaRelay

Dialled == \E p \in Peer, d \in Peer \cup {NoPeer} : DialSucceeds(p, d)

Next ==
  \/ \E a \in Target : SendMessage(a)
  \/ \E a \in ListenAddr : StartCall("listen", a)
  \/ \E a \in RelayAddr : StartCall("relay", a)
  \/ FinishCall
  \/ HandleCommand \/ SendToPeer
  \/ NewListenAddr \/ ListenerClosed
  \/ Dialled \/ DialFails \/ ConnectionClosed
  \/ \E p \in Peer : Inbound(p)
  \/ \E m \in InMsg : RemoteSends(m) \/ HandleIncoming(m)
  \/ AcceptStream \/ TryRecvEvent

Spec == Init /\ [][Next]_vars

\* What the runtime promises: a ready arm of select! is polled and chosen
\* (tokio chooses at random), an awaited oneshot and a spawned task run, a
\* dial and a listener come to some end, the manager drains its events.
\* Nothing promises that the manager calls, or that a remote peer acts.
Fairness ==
  /\ WF_vars(HandleCommand) /\ WF_vars(SendToPeer) /\ WF_vars(FinishCall)
  /\ WF_vars(NewListenAddr \/ ListenerClosed)
  /\ WF_vars(Dialled \/ DialFails)
  /\ WF_vars(AcceptStream) /\ WF_vars(TryRecvEvent)
  /\ \A m \in InMsg : WF_vars(HandleIncoming(m))

FairSpec == Spec /\ Fairness
-----------------------------------------------------------------------------
(* Properties.                                                             *)

FrontTypeOK ==
  /\ nextId \in Nat \ {0}
  /\ call \in [kind : {"none", "listen", "relay"}, addr : Address]
  /\ answer \in [res : {"none", "ok", "err"}, addr : Address]
  /\ localAddrs \in Seq(Address) /\ sentTo \in Seq(Address)
  /\ replies \in Seq([kind : {"none", "listen", "relay"}, asked : Address,
                      res : {"none", "ok", "err"}, got : Address])

LoopTypeOK ==
  /\ pending \in [Peer -> Seq(Nat)]
  /\ pendingListen \in BOOLEAN /\ pendingRelay \in Address
  /\ outbox \in [peer : Peer \cup {NoPeer}, msgs : Seq(Nat)]
  /\ Idle \/ (outbox.peer # NoPeer /\ outbox.msgs # <<>>)

SwarmTypeOK ==
  /\ conns \in [Peer -> Nat] /\ dials \in [Peer \cup {NoPeer} -> Nat]
  /\ announcing \subseteq [no : Nat, addr : Address]
  /\ announced \in Seq(Address) /\ listeners \in Nat

RecvTypeOK ==
  remote \subseteq InMsg /\ incoming \in Seq(InMsg) /\ tasks \subseteq InMsg

HistoryTypeOK ==
  /\ wire \in [Peer -> Seq(Nat)]
  /\ heard \in [peers : SUBSET Peer, met : SUBSET Peer, failed : SUBSET Nat]

TypeOK ==
  /\ FrontTypeOK /\ LoopTypeOK /\ SwarmTypeOK /\ RecvTypeOK /\ HistoryTypeOK
  /\ cmdQ \in Seq(Command) /\ evtQ \in Seq(Event)

Elements(s) == {s[i] : i \in 1 .. Len(s)}
Count(s, x) == Cardinality({i \in 1 .. Len(s) : s[i] = x})

\* Nothing waits in pending_sends for a peer the node is connected to: a
\* message put there after the connection's flush would wait for ever, since
\* only the next ConnectionEstablished looks at it.
PendingOnlyWhenDisconnected ==
  \A p \in Peer : conns[p] > 0 => pending[p] = <<>>

\* While a Listen or ListenViaRelay call waits for its oneshot, the sender is
\* in exactly one place: in the command on its way, in the slot of its kind,
\* or used up by an answer; and when no call waits it is nowhere.  A slot is
\* never overwritten, so no call fails with "Event loop dropped".
QueuedCalls == {i \in 1 .. Len(cmdQ) : cmdQ[i].kind # "send"}

Holders == {h \in {"command", "pending_listen", "pending_relay", "answer"} :
              CASE h = "command"        -> QueuedCalls # {}
                [] h = "pending_listen" -> pendingListen
                [] h = "pending_relay"  -> pendingRelay # NoAddr
                [] h = "answer"         -> answer # NoAnswer}

CallHasOneAnswerer ==
  /\ \A i, j \in QueuedCalls : i = j
  /\ IF call = NoCall THEN Holders = {} ELSE \E h \in Holders : Holders = {h}

Reports == {i \in 1 .. Len(evtQ) : evtQ[i].type = "SendFailed"}

\* One peer gets the messages in the order of their ids, none twice, although
\* some waited for a dial and others found the connection open.
WireInOrder ==
  \A p \in Peer : \A i, j \in 1 .. Len(wire[p]) : i < j => wire[p][i] < wire[p][j]

\* A message is written to the peer its canonical address ends with, whether
\* it was translated or not, queued for a dial or sent at once.
GoesToDestination ==
  \A peer \in Peer : \A id \in Elements(wire[peer]) :
     sentTo[id][Len(sentTo[id])] = P2p(peer)

\* The outcome of a message is reported at most once, and a message that is
\* still on its way has not been reported.
OnItsWay ==
  Elements(outbox.msgs) \cup (UNION {Elements(pending[p]) : p \in Peer})
    \cup {cmdQ[i].id : i \in {j \in 1 .. Len(cmdQ) : cmdQ[j].kind = "send"}}

ReportedOnce ==
  /\ \A i \in Reports : evtQ[i].id \notin OnItsWay \cup heard.failed
  /\ \A i, j \in Reports : evtQ[i].id = evtQ[j].id => i = j
  /\ heard.failed \cap OnItsWay = {}

\* What the manager believes once it has drained its events: it takes no peer
\* for connected that is not.
NoGhostPeers ==
  evtQ = <<>> => \A p \in heard.peers : conns[p] > 0

\* The manager hears of a connection before it hears a message from it,
\* although messages come through tasks of their own beside the loop.
ConnectedBeforeReceived ==
  \A j \in 1 .. Len(evtQ) : evtQ[j].type = "MessageReceived" =>
     \/ evtQ[j].peer \in heard.met
     \/ \E i \in 1 .. (j - 1) : evtQ[i] = Connected(evtQ[j].peer)

\* ListenViaRelay succeeds with a circuit address only, even though listeners
\* of other calls announce theirs while it waits.
RelayAnswerIsCircuit ==
  \A i \in 1 .. Len(replies) :
     replies[i].kind = "relay" /\ replies[i].res = "ok" =>
        ContainsCircuit(replies[i].got)

\* GetLocalAddresses returns addresses that were announced while the node ran,
\* and one as often at most as it was announced: no announcement answers two
\* calls.  It need not be an announcement of the listener the call asked for,
\* nor one that is still there.
LocalAddrsWereAnnounced ==
  \A a \in Elements(localAddrs) : Count(localAddrs, a) <= Count(announced, a)
-----------------------------------------------------------------------------
(* What has become of each message, and the abstract promise about it.     *)

FailedIds == heard.failed \cup {evtQ[i].id : i \in Reports}
SentIds   == UNION {Elements(wire[p]) : p \in Peer}

Fate == [m \in 1 .. MaxMsgs |->
           IF m >= nextId THEN "unborn"
           ELSE IF m \in FailedIds THEN "failed"
           ELSE IF m \in SentIds THEN "sent"
           ELSE IF m \in OnItsWay THEN "accepted" ELSE "lost"]

Abstract == INSTANCE MessageFate
              WITH MsgId <- 1 .. MaxMsgs, AtOnce <- {"accepted"}, fate <- Fate

\* The node implements MessageFate: each message is accepted once, settles at
\* most once and is never taken up again; no step settles two messages except
\* a refused dial, which loses the ones queued behind the message it reports.
KeepsMessageFate == Abstract!Spec

\* The one way for a message to wait for ever: its dial is over and it is
\* still queued.  Nobody looks at pending_sends before the next connection.
Stranded(m) ==
  \E p \in Peer : m \in Elements(pending[p]) /\ conns[p] = 0 /\ dials[p] = 0

\* While no dial is refused outright, and whatever else fails, a message that
\* handle_command returned an id for is written, reported, or left behind by a
\* dial that failed: no other step of the loop loses sight of it.
SettlesUnlessStranded ==
  \A m \in 1 .. MaxMsgs :
     Fate[m] = "accepted" ~> Fate[m] \in {"sent", "failed"} \/ Stranded(m)

\* A call whose slot is set when no announcement and no dial that could answer
\* it is left.
Orphaned ==
  /\ announcing = {}
  /\ \/ pendingListen
     \/ pendingRelay # NoAddr /\ dials[ExtractPeerId(pendingRelay)] = 0

\* Whatever is refused or fails, a call returns unless its listener or its
\* relay failed after listen_on or dial had returned Ok.
ReturnsUnlessOrphaned == call # NoCall ~> call = NoCall \/ Orphaned

\* "The network layer handles address translation automatically": no message
\* to an address that parses is reported unreachable because the address the
\* node translated it to does not.
TranslationParses ==
  \A i \in Reports :
     evtQ[i].err = "unreachable" => ~Parses(sentTo[evtQ[i].id])
=============================================================================
