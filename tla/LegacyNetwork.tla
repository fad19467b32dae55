---------------------------- MODULE LegacyNetwork ----------------------------
(***************************************************************************)
(* One node of meerkat-net, the predecessor of meerkat-net-v2              *)
(* (libp2p_net.rs): LibP2PNetwork in front, one call at a time (&mut self),*)
(* and an event loop that calls the manager's callbacks itself instead of  *)
(* putting events into a channel.  local_addrs is shared by the two.       *)
(* As in v2 the loop awaits send_to_peer inside an arm of its select!, and *)
(* takes nothing else meanwhile: outbox holds what it has left to write.   *)
(***************************************************************************)
EXTENDS Addresses, FiniteSets

CONSTANTS
  LocalPeer,     \* local_peer_id
  Target,        \* addresses the manager sends to
  ListenAddr,    \* addresses the manager listens on
  Binds,         \* Binds[a]: what a listener on a announces
  InMsg,         \* messages the remote peers send
  From,          \* From[m]: the peer that sends m
  MaxMsgs, MaxCalls, MaxConns     \* bounds

ASSUME LegacyAssumption ==
  /\ LocalPeer \in Peer
  /\ Target \subseteq Address /\ ListenAddr \subseteq Address
  /\ Binds \in [ListenAddr -> SUBSET Address]
  /\ From \in [InMsg -> Peer]
  /\ {MaxMsgs, MaxCalls, MaxConns} \subseteq Nat

VARIABLES
  nextId,        \* next_message_id
  call,          \* listen: "none", "waits" in rx.await, "ok" or "err" answered
  answeredBy,    \* history: the announcement that answered it, NoAddr if none
  returned,      \* history: the results of the listen calls that returned
  localAddrs,    \* local_addrs, behind its mutex
  cmdQ,          \* command_tx ... command_rx
  pending,       \* pending_sends
  pendingListen, \* pending_listen.is_some()
  outbox,        \* the messages the current arm of the loop still has to write
  conns, dials,  \* established connections, dials under way (swarm)
  announcing,    \* listener addresses not announced yet (swarm)
  listeners,     \* number of listen_on calls (swarm)
  remote, incoming, tasks,  \* inbound messages: unsent, in streams, being read
  wire,          \* history: ids written to each peer, in order
  errors,        \* history: ids on_send_error was called with
  met, parted,   \* history: on_peer_connected, on_peer_disconnected were called
  got            \* history: on_message was called

frontVars == <<nextId, call, answeredBy, returned>>
told      == <<met, parted>>
swarmVars == <<conns, dials, announcing, listeners>>
recvVars  == <<remote, incoming, tasks, got>>
vars == <<frontVars, localAddrs, cmdQ, pending, pendingListen, outbox, swarmVars,
          recvVars, wire, errors, told>>

Nothing == [peer |-> NoPeer, msgs |-> <<>>]

Command == [kind : {"send"}, id : Nat, addr : Target]
             \cup [kind : {"listen"}, id : {0}, addr : ListenAddr]

Init ==
  /\ nextId = 1 /\ call = "none" /\ answeredBy = NoAddr /\ returned = <<>>
  /\ localAddrs = <<>> /\ cmdQ = <<>>
  /\ pending = [p \in Peer |-> <<>>] /\ pendingListen = FALSE /\ outbox = Nothing
  /\ conns = [p \in Peer |-> 0] /\ dials = [p \in Peer |-> 0]
  /\ announcing = {} /\ listeners = 0
  /\ remote = InMsg /\ incoming = <<>> /\ tasks = {} /\ got = {}
  /\ wire = [p \in Peer |-> <<>>] /\ errors = <<>>
  /\ met = {} /\ parted = {}
-----------------------------------------------------------------------------
(* The front.                                                              *)

\* NetworkLayer::send returns its id at once; only an error is ever reported.
Send(addr) ==
  /\ call = "none" /\ nextId <= MaxMsgs
  /\ cmdQ' = Append(cmdQ, [kind |-> "send", id |-> nextId, addr |-> addr])
  /\ nextId' = nextId + 1
  /\ UNCHANGED <<call, answeredBy, returned, localAddrs, pending, pendingListen, outbox,
                 swarmVars, recvVars, wire, errors, told>>

\* NetworkLayer::listen up to rx.await, and from there.
StartListen(addr) ==
  /\ call = "none" /\ Len(returned) < MaxCalls
  /\ cmdQ' = Append(cmdQ, [kind |-> "listen", id |-> 0, addr |-> addr])
  /\ call' = "waits"
  /\ UNCHANGED <<nextId, answeredBy, returned, localAddrs, pending, pendingListen, outbox,
                 swarmVars, recvVars, wire, errors, told>>

\* It returns Ok(()) whatever address rx delivers.
FinishListen ==
  /\ call \in {"ok", "err"}
  /\ returned' = Append(returned, [res |-> call, by |-> answeredBy])
  /\ call' = "none" /\ answeredBy' = NoAddr
  /\ UNCHANGED <<nextId, localAddrs, cmdQ, pending, pendingListen, outbox,
                 swarmVars, recvVars, wire, errors, told>>
-----------------------------------------------------------------------------
(* The event loop: commands.                                               *)

Idle == outbox = Nothing

Take(kind) ==
  /\ Idle /\ cmdQ # <<>> /\ Head(cmdQ).kind = kind
  /\ cmdQ' = Tail(cmdQ)

\* A removal that forgets to remove.
NotRemoved(pend, p) == pend
\* pending_sends.remove(&p)
Removed(pend, p) == [pend EXCEPT ![p] = <<>>]

\* (callbacks.on_send_error)(id, ..)
OnSendError(id) == errors' = Append(errors, id)

\* handle_send.  Its extract_peer_id takes the first peer of the address.
Destination == FirstPeerId(Head(cmdQ).addr)

SendRejected ==
  /\ Take("send")
  /\ ~Parses(Head(cmdQ).addr) \/ Destination = NoPeer
  /\ OnSendError(Head(cmdQ).id)
  /\ UNCHANGED <<frontVars, localAddrs, pending, pendingListen, outbox, swarmVars,
                 recvVars, wire, told>>

SendConnected ==
  /\ Take("send") /\ Parses(Head(cmdQ).addr) /\ Destination # NoPeer
  /\ conns[Destination] > 0
  /\ outbox' = [peer |-> Destination, msgs |-> <<Head(cmdQ).id>>]
  /\ UNCHANGED <<frontVars, localAddrs, pending, pendingListen, swarmVars,
                 recvVars, wire, errors, told>>

SendAndDial ==
  /\ Take("send") /\ Parses(Head(cmdQ).addr) /\ Destination # NoPeer
  /\ conns[Destination] = 0
  /\ LET p == Destination
         queued == [pending EXCEPT ![p] = Append(@, Head(cmdQ).id)]
     IN \/ /\ dials' = [dials EXCEPT ![p] = @ + 1] /\ pending' = queued
           /\ UNCHANGED errors
        \/ /\ OnSendError(Head(cmdQ).id) /\ pending' = Removed(queued, p)
           /\ UNCHANGED dials
  /\ UNCHANGED <<frontVars, localAddrs, pendingListen, outbox, conns, announcing,
                 listeners, recvVars, wire, told>>

\* NetworkCommand::Listen: an address that does not parse and one that cannot
\* be bound are answered at once.
HandleListen ==
  /\ Take("listen")
  /\ LET addr == Head(cmdQ).addr IN
       \/ call' = "err" /\ UNCHANGED <<announcing, listeners, pendingListen>>
       \/ /\ Parses(addr) /\ pendingListen' = TRUE
          /\ announcing' = announcing \cup {[no |-> listeners, addr |-> a] : a \in Binds[addr]}
          /\ listeners' = listeners + 1
          /\ UNCHANGED call
  /\ UNCHANGED <<nextId, answeredBy, returned, localAddrs, pending, outbox, conns, dials,
                 recvVars, wire, errors, told>>

\* A loop that loses a batch after one message.
DropsRest(box) == Nothing

\* `for (msg_id, msg) in messages'
AfterFirst(box) == IF Len(box.msgs) = 1 THEN Nothing
                   ELSE [box EXCEPT !.msgs = Tail(@)]

\* send_to_peer, written, failed, or failed after the bytes had left.
SendToPeer ==
  /\ ~Idle
  /\ outbox' = AfterFirst(outbox)
  /\ LET id == Head(outbox.msgs)
         written == wire' = [wire EXCEPT ![outbox.peer] = Append(@, id)]
     IN \/ written /\ UNCHANGED errors
        \/ OnSendError(id) /\ (written \/ UNCHANGED wire)
  /\ UNCHANGED <<frontVars, localAddrs, cmdQ, pending, pendingListen, swarmVars,
                 recvVars, told>>
-----------------------------------------------------------------------------
(* The event loop: swarm events and streams.                               *)

\* Only addresses nobody asked for are recorded.
RecordedIfUnasked(addr) ==
  IF pendingListen THEN localAddrs ELSE Append(localAddrs, addr)
\* local_addrs.lock().await.push(global_addr)
Recorded(addr) == Append(localAddrs, addr)

\* NewListenAddr: every address is recorded, then the waiting call answered,
\* whichever listener the address is of.
NewListenAddr ==
  /\ Idle
  /\ \E a \in announcing :
       /\ announcing' = announcing \ {a} /\ localAddrs' = Recorded(a.addr)
       /\ IF pendingListen THEN call' = "ok" /\ answeredBy' = a.addr
          ELSE UNCHANGED <<call, answeredBy>>
  /\ pendingListen' = FALSE
  /\ UNCHANGED <<nextId, returned, cmdQ, pending, outbox, conns, dials, listeners,
                 recvVars, wire, errors, told>>

\* A listener is lost before it is announced, in the `_ => {}' arm.
ListenerClosed ==
  /\ Idle /\ \E a \in announcing : announcing' = announcing \ {a}
  /\ UNCHANGED <<frontVars, localAddrs, cmdQ, pending, pendingListen, outbox, conns,
                 dials, listeners, recvVars, wire, errors, told>>

\* Only connections the node itself asked for are reported.
TellsIfAsked(p) == IF pending[p] = <<>> THEN met ELSE met \cup {p}
\* on_peer_connected
TellsOpened(p) == met \cup {p}

\* ConnectionEstablished, by a dial or from outside.
ConnectionEstablished(p) ==
  /\ Idle /\ p # LocalPeer
  /\ \/ dials[p] > 0 /\ dials' = [dials EXCEPT ![p] = @ - 1]
     \/ conns[p] < MaxConns /\ UNCHANGED dials
  /\ conns' = [conns EXCEPT ![p] = @ + 1]
  /\ met' = TellsOpened(p) /\ UNCHANGED parted
  /\ pending' = Removed(pending, p)
  /\ outbox' = IF pending[p] = <<>> THEN Nothing ELSE [peer |-> p, msgs |-> pending[p]]
  /\ UNCHANGED <<frontVars, localAddrs, cmdQ, pendingListen, announcing, listeners,
                 recvVars, wire, errors>>

\* ConnectionClosed: on_peer_disconnected, for each connection.
ConnectionClosed(p) ==
  /\ Idle /\ conns[p] > 0
  /\ conns' = [conns EXCEPT ![p] = @ - 1]
  /\ parted' = parted \cup {p}
  /\ UNCHANGED <<frontVars, localAddrs, cmdQ, pending, pendingListen, outbox, dials,
                 announcing, listeners, recvVars, wire, errors, met>>

\* OutgoingConnectionError, in the `_ => {}' arm.
DialFails(p) ==
  /\ Idle /\ dials[p] > 0
  /\ dials' = [dials EXCEPT ![p] = @ - 1]
  /\ UNCHANGED <<frontVars, localAddrs, cmdQ, pending, pendingListen, outbox, conns,
                 announcing, listeners, recvVars, wire, errors, told>>

\* A remote peer opens a stream and writes m.
RemoteSends(m) ==
  /\ m \in remote /\ conns[From[m]] > 0
  /\ remote' = remote \ {m} /\ incoming' = Append(incoming, m)
  /\ UNCHANGED <<frontVars, localAddrs, cmdQ, pending, pendingListen, outbox,
                 swarmVars, tasks, got, wire, errors, told>>

\* incoming.next(): a task of its own for each stream.
AcceptStream ==
  /\ Idle /\ incoming # <<>>
  /\ incoming' = Tail(incoming) /\ tasks' = tasks \cup {Head(incoming)}
  /\ UNCHANGED <<frontVars, localAddrs, cmdQ, pending, pendingListen, outbox,
                 swarmVars, remote, got, wire, errors, told>>

\* handle_incoming_stream, beside the loop: on_message, or an error printed
\* when the message did not arrive whole.
HandleIncomingStream(m) ==
  /\ m \in tasks /\ tasks' = tasks \ {m}
  /\ got' = got \cup {m} \/ UNCHANGED got
  /\ UNCHANGED <<frontVars, localAddrs, cmdQ, pending, pendingListen, outbox,
                 swarmVars, remote, incoming, wire, errors, told>>
-----------------------------------------------------------------------------
Next ==
  \/ \E a \in Target : Send(a)
  \/ \E a \in ListenAddr : StartListen(a)
  \/ FinishListen
  \/ SendRejected \/ SendConnected \/ SendAndDial \/ HandleListen \/ SendToPeer
  \/ NewListenAddr \/ ListenerClosed \/ AcceptStream
  \/ \E p \in Peer : ConnectionEstablished(p) \/ ConnectionClosed(p) \/ DialFails(p)
  \/ \E m \in InMsg : RemoteSends(m) \/ HandleIncomingStream(m)

Spec == Init /\ [][Next]_vars
-----------------------------------------------------------------------------
(* Properties.                                                             *)

Elements(s) == {s[i] : i \in 1 .. Len(s)}
Count(s, x) == Cardinality({i \in 1 .. Len(s) : s[i] = x})

OnItsWay ==
  Elements(outbox.msgs) \cup (UNION {Elements(pending[p]) : p \in Peer})
    \cup {cmdQ[i].id : i \in {j \in 1 .. Len(cmdQ) : cmdQ[j].kind = "send"}}

\* "Called when a message fails to send": on_send_error is called at most once
\* for a message, and never for one that may still be written.
ErrorsOnce ==
  /\ Elements(errors) \cap OnItsWay = {}
  /\ \A i, j \in 1 .. Len(errors) : errors[i] = errors[j] => i = j

\* The announcement that a successful listen returned on is in
\* local_addresses by then, and answers no other call: an address is there as
\* often, at least, as listens returned on it.  It may be an announcement of
\* another listener than the one the call asked for.
ListenedIsLocal ==
  \A r \in Elements(returned) :
     r.res = "ok" => Count(returned, r) <= Count(localAddrs, r.by)

\* The manager hears that a peer is there before it gets a message of it,
\* although on_message is called from tasks beside the loop, and before it
\* hears that the peer is gone.
MetBeforeMessage ==
  (\A m \in got : From[m] \in met) /\ parted \subseteq met

Fate == [m \in 1 .. MaxMsgs |->
           IF m >= nextId THEN "unborn"
           ELSE IF m \in Elements(errors) THEN "failed"
           ELSE IF m \in UNION {Elements(wire[p]) : p \in Peer} THEN "sent"
           ELSE IF m \in OnItsWay THEN "accepted" ELSE "lost"]

Abstract == INSTANCE MessageFate
              WITH MsgId <- 1 .. MaxMsgs, AtOnce <- {"accepted"}, fate <- Fate

\* The predecessor makes, and keeps, the same promise about messages as
\* NetworkActor, the silent losses of a refused dial included.
KeepsMessageFate == Abstract!Spec
=============================================================================
