# A verification project for ping_pong_libp2p

TLA+ models of the network layers of the repository (`src/meerkat-net-v2/` and its
predecessor `src/meerkat-net/`) and of its ping-pong demo, TLC configurations that
check them on small instances, and machine-checked proofs (TLAPS) of the
properties that matter most. Paths below are relative to the
repository; line numbers are those of the modelled commit.

## 1. Inventory of the system

The repository holds three generations of the same idea: a node sends small
messages to peers named by libp2p multiaddresses.

### meerkat-net-v2, `NetworkActor` (`actor.rs`)

*State.* In front: `next_message_id`, `local_addrs`, `node_type`, the sending end
of the command channel and the receiving end of the event channel. In the
spawned event loop: the libp2p swarm, `pending_sends` (messages that wait for a
dial, by peer), `pending_listen` (the oneshot of the `Listen` call that waits),
`pending_relay` (relay address and oneshot of the `ListenViaRelay` call that
waits).

*Operations.* `handle_command`: `SendMessage` (returns an id at once, the outcome
is an event), `Listen` and `ListenViaRelay` (await a oneshot that the loop
answers), `GetLocalAddresses`. `try_recv_event`. The loop: one `tokio::select!`
over commands (`do_send`, `listen_on`, dial the relay), inbound streams (a task
for each, `handle_incoming`) and swarm events (`NewListenAddr`,
`ConnectionEstablished`, `ConnectionClosed`, `Identify::Received`; everything
else falls into `_ => {}`).

*Interaction.* Front and loop share nothing but two unbounded channels and the
oneshots. The loop and the inbound tasks share the event channel. The loop
awaits `send_to_peer` inside an arm, so while it writes it takes no command, no
stream and no swarm event.

*Hard behaviour.* A message may find its peer connected, wait for a dial, or be
refused with others that waited; a dial may succeed or fail long after; a
connection may come from the other side and go at any time; listener
announcements arrive for whoever waits, with no link to the call that caused
them.

*Correct when* every message is settled at most once and goes to the peer its
address ends with, in order; no message stays queued for a connected peer; every
call has exactly one place that will answer it, and an answer that belongs to
it; the manager's picture of the peers follows the events.

### meerkat-net-v2, addresses and translation (`actor.rs:233-253, 508-523`)

Pure functions. A browser client prefixes direct addresses with its own relay;
`extract_peer_id` takes the last `/p2p/<id>`. Correct when the result parses and
names the same destination.

### meerkat-net-v2, `MockNetwork` (`mock.rs`)

*State.* A registry shared by all mock nodes (mutex around a map from peer id to
event sender); in each node the peer id, the addresses, the message counter and
the event channel. *Operations*: creation, `Listen`, `SendMessage`,
`ListenViaRelay` (always `Failure`), `GetLocalAddresses`, `try_recv_event`.
*Hard*: `SendMessage` to an unknown peer takes the lock twice; nothing removes a
dropped node; two nodes may have one name. *Correct when* it can stand for a
`NetworkActor` in tests: at least the same promise about messages, and, since its
comment says "delivered instantly", a message that is settled when `SendMessage`
returns.

### meerkat-net-v2, the wire protocol (`protocol.rs`, the same in both crates)

*State.* None but the stream: `send_message` writes a four-byte length and a JSON
message, `recv_message` reads them. *Hard*: both sides work in pieces of any size
against a window; the length is cut to 32 bits; either side may find the stream
broken at any byte; the writer's `Ok` says nothing of the reader. *Correct when*
the reader gets the message that was written or an error, and neither side waits
for ever.

### meerkat-net-v2, event loops together (`actor.rs:272-432`)

`do_send` and the flush of `pending_sends` await `send_to_peer` inside an arm of the
`select!`, and a loop inside an arm accepts no inbound stream. *Hard*: a message
larger than the window of a stream is written only when the other loop accepts
it, so loops wait for each other; streams that nobody accepts fill the bounded
channel of libp2p-stream, which drops the next one. *Correct when* a loop always
comes back to its `select!` and no message is lost without a word: neither holds
without exceptions, and the module says which these are.

### meerkat-net-v2, relay and clients (`actor.rs:301-316, 444-506`)

*State.* At the relay its external addresses (from identify) and reservations; at
each client `pending_relay`, its connections and `pending_sends`. *Operations*:
`ListenViaRelay`, connecting, identify, the reservation, its announcement, circuit
dials in both directions. *Hard*: a reservation granted before identify has told
the relay an address is useless; two clients may dial each other at once; a
circuit lasts only until its limit of bytes or time. *Correct when* an address
that `ListenViaRelay` returned can be dialled, and each message over a circuit
ends.

### meerkat-net-v2, the rest

`build_swarm` (`actor.rs:47-154`) configures libp2p and keeps no state.

### meerkat-net (legacy, `src/meerkat-net/`)

`LibP2PNetwork` (`libp2p_net.rs`): the predecessor, with callbacks instead of
events and without relays. *State*: message counter, `local_addrs` behind a mutex
that front and loop share, `pending_sends`, `pending_listen`. *Operations*: `send`,
`listen`, `local_addresses`. *Hard*: as in v2, with callbacks that come from the loop
and from the inbound tasks at once. *Correct when* it promises what v2 promises,
`on_send_error` comes once at most for a message, and a `listen` that returned has
its address in `local_addresses`, which its tests rely on.

Its mock (`meerkat-net/src/mock.rs`) keeps a registry of callbacks behind a mutex that
all nodes share. It starts a thread for every message, sleeps, and runs the
receiver's callback under the lock: messages overtake each other, while a
callback runs nobody receives or listens, and a callback that panics poisons the
mutex for all. *Correct when* a message goes to the owner of its address, once.

### Ping-pong demo (`src/server`, `src/client`, `src/wasm-client`, `src/shared`)

A request and a response over one stream. *State*: a counter of the native client,
two statics (`PEER_ID`, `CONTROL`) of the browser client. *Operations*: the server
accepts streams in a loop and answers each in a task; the native client pings
every two seconds and goes on after most errors; the browser client exports
`connect_to_server` and `send_ping`, which the page may call at any time. *Hard*: calls
that overlap, connections that go while the statics keep them, streams the
server drops, no timeout anywhere. *Correct when* the statics belong together, no
ping is answered twice, and every ping ends.

## 2. The modules

| module | models | lines of code |
|---|---|---|
| `Addresses` | multiaddresses as sequences of segments, prefix and substring tests, `extract_peer_id`, the mock's variant of it | `actor.rs` 233-253, 508-523, `mock.rs` 122-131 |
| `NetworkActor` | one v2 node: front, channels, loop, inbound tasks, with the swarm, the remote peers and the manager as environment | `actor.rs` 156-538 |
| `MessageFate` | abstract: what any network layer promises about a message | |
| `MockNetwork` | mock nodes on one registry, one thread each | `mock.rs` 25-154 |
| `LegacyNetwork` | one node of the predecessor | `meerkat-net/src/libp2p_net.rs` 17-299 |
| `Framing` | one message over one stream, bytes by count | `protocol.rs` 8-32, legacy `protocol.rs` 8-43, `actor.rs` 389-432 |
| `EventLoops` | several v2 loops that write to each other | `actor.rs` 261-432 |
| `RelaySystem` | a relay and its clients | `actor.rs` 301-316, 375-387, 434-506 |
| `LegacyMock` | mock nodes of the predecessor, a thread for each message | `meerkat-net/src/mock.rs` 14-91 |
| `PingPong` | servers, native client and browser client of the demo | `server/src/main.rs` 51-111, `client/src/main.rs` 59-115, `wasm-client/src/lib.rs` 10-133 |
| `NetworkActorProofs`, `MockNetworkProofs`, `LegacyNetworkProofs`, `LegacyMockProofs`, `FramingProofs`, `EventLoopsProofs`, `RelaySystemProofs`, `PingPongProofs` | theorems about the module each is named after | |
| `MC...` | the small instances | |

`NetworkActor`, `MockNetwork` and `LegacyNetwork` extend `Addresses`, and each
instantiates `MessageFate` with a refinement mapping (`Fate`). `NetworkActor` and
`LegacyNetwork` keep the same promise (`AtOnce` is `{"accepted"}`). `MockNetwork` keeps
a stricter one, for a node whose name is its own: a message is settled or its
report is due when it is taken, and none is lost.

The v2 node is seen from four sides, because all of it at once for several nodes
is out of reach of a model checker: `NetworkActor` has every arm of one loop with
everything around it free, `EventLoops` several loops and their streams without
dials, `RelaySystem` the arms of a relay and its clients that reservations run
through, and `Framing` the bytes of one stream. What one leaves to chance another
explains: a stream that fails in `NetworkActor` (`StreamFails`) is one that breaks in
`Framing` or was dropped in `EventLoops`, and a connection that comes from outside
there (`Inbound`) is the other end of a circuit in `RelaySystem`.

### NetworkActor, state and actions

| code | model |
|---|---|
| `next_message_id`, `local_addrs` | `nextId`, `localAddrs` |
| the call suspended in `reply_rx.await`, the oneshot's value | `call`, `answer` |
| `command_tx`/`command_rx`, `event_tx`/`event_rx` | `cmdQ`, `evtQ` |
| `pending_sends`, `pending_listen`, `pending_relay` | `pending`, `pendingListen`, `pendingRelay` |
| the arm of the loop that is writing, with the messages it has left | `outbox` |
| libp2p: established connections, dials under way, listeners | `conns`, `dials`, `announcing`, `listeners` |
| inbound streams, tasks of `handle_incoming` | `remote`, `incoming`, `tasks` |
| history, read by properties only | `announced` (every announcement, in order), `replies`, `sentTo`, `wire`, `heard` |

| code | action |
|---|---|
| `SendMessage` with `translate_address` | `SendMessage` |
| `Listen`, `ListenViaRelay` before and after their await | `StartCall`, `FinishCall` |
| `do_send`, by its exits | `SendUnparsable`, `SendWithoutPeer`, `SendConnected`, `SendAndDial`, `SendDialRefused` |
| `send_to_peer` | `SendToPeer` |
| `SwarmCommand::Listen`, `SwarmCommand::ListenViaRelay` | `HandleListen`, `HandleListenViaRelay` |
| `NewListenAddr` | `NewListenAddr` |
| `ConnectionEstablished`, by a dial and from outside | `DialSucceeds`, `Inbound`, both through `OnConnected` |
| `ConnectionClosed` | `ConnectionClosed` |
| the `_ => {}` arm: failed dials, closed listeners | `DialFails`, `ListenerClosed` |
| the `incoming.next()` arm and its tasks | `RemoteSends`, `AcceptStream`, `HandleIncoming` |
| `try_recv_event` of the manager | `TryRecvEvent` |

Choices that a reader should know of:

- *Atomicity.* Whatever the loop does between two awaits is one step. The only
  await inside an arm is `send_to_peer`, which the `outbox` makes a sequence of
  steps in which the front, the inbound tasks and the manager may act, but the
  loop takes nothing else (`Idle`).
- *One call at a time.* `handle_command` takes `&mut self`, so nothing else is
  called while `Listen` or `ListenViaRelay` waits. Cancelling the future of a
  call is not modelled.
- *Dials.* `swarm.dial(addr)` with a `Multiaddr` has no peer condition, so a
  second dial to a peer is allowed while the first is under way, and both may
  connect. `dials` counts them by the peer id in the address.
- *Sending errors.* `send_to_peer` may fail before any byte has left or after all
  of them have (a failing flush, say); both are outcomes of `SendToPeer`, so a
  message reported as failed may nevertheless have arrived.
- *`Env`* is the set of things the surroundings may do: connections from outside,
  disconnections, refused or failing dials, refused or failing listens, failing
  streams, dropped streams. The runs allow all that their question
  touches.
- *Double slash.* `translate_address` formats `"{}/p2p-circuit/{}"` with an
  address that begins with a slash. The model keeps the empty segment (`Blank`),
  because `Parses` (libp2p's parser) rejects it.
- *External parts.* `Parses`, the announcement of a reservation, what a listener
  binds (`Binds`) and the backpressure of libp2p-stream are modelled from the way
  the code uses them.

### MockNetwork

`New`, `Drop`, `Listen`, `SendMessage`, `ReportFailure` (the second lock section of a
send to an unknown peer) and `TryRecvEvent`, for each node, in any interleaving.
`ListenViaRelay` and `GetLocalAddresses` change nothing and have no action.

*Names.* `uuid_simple` takes the nanoseconds of the clock without its seconds, so two
nodes may get one name. `Clock` says which names a node may get; in the run both may
get both, and `New` then replaces the registry's entry as `insert` does. From then on
the earlier node is deaf: messages and reports for its name go to the later one,
which has not sent them. The properties are stated so that they tell this apart
from anything else. `ReportsReachTheName` lets a report reach a node of the
sender's name and no other, `SettledOnReturn` lets a message or report vanish only
at a dropped node of the name it went to, and `KeepsMessageFate` is about the steps
in which a node's name is its own (`OwnsName`).

*The mapping.* A message in the channel of a dropped node (`Discarded`) is `sent`: the
channel took it, as a stream takes what its reader never reads.

### LegacyNetwork

Shaped like `NetworkActor`: `Send`, `StartListen`, `FinishListen` in front;
`SendRejected`, `SendConnected`, `SendAndDial` (with its refusal), `HandleListen`,
`SendToPeer`, `NewListenAddr`, `ConnectionEstablished`, `ConnectionClosed`, `AcceptStream`
and the two events that fall into `_ => {}` (`DialFails`, `ListenerClosed`) in the loop;
`HandleIncomingStream` in the inbound tasks. The differences are the code's: the
first peer id of an address counts, not the last; every announced address is
recorded, by the loop, before the call is answered; callbacks run inside the
step that causes them and appear as history: `errors`, `met` and `parted`
(`on_peer_connected` and `on_peer_disconnected`), `got`. `answeredBy` keeps the
announcement that a `listen` was answered with, which `listen` itself throws away.
All faults of the surroundings are always possible.

### Framing

`WriteSome`, `Flush`, `WriteFails`, `CloseWriter` are `send_message` in `send_to_peer`,
from await to await; `Accept`, `ReadSome`, `PrefixRead`, `MessageRead`, `ReadFails`,
`CloseReader` are `handle_incoming` with `recv_message`; `Deliver` and `Break` are the
stream. A stream neither reorders nor invents bytes, so three counts tell all of
it (`sent`, `arrived`, `taken`), and the bytes themselves matter only where the code
looks at them: `ToBeBytes` and `FromBeBytes` for the prefix, `FromSlice` for the JSON.
That no message is the beginning of another (`FramingAssumption`) is what JSON
objects give; without it a message whose length was cut could pass as another.
`Base` is the number of values of a byte: 256 in the code, any number in the
proofs, 2 in the run, which makes the "32 bits" of the prefix 4.

### EventLoops

`TakeArm` is the loop entering an arm with one message (`do_send`) or a batch
(`ConnectionEstablished`), `OpenStream`, `WriteEnds`, `WriteRefused`, `StreamBreaks` are
`send_to_peer` for each message of it, `AcceptStream` the `incoming.next()` arm,
`HandleIncoming` the task it spawns. `Offer` is libp2p-stream, which puts an inbound
stream into its bounded channel or drops it. `Taken` is flow control: a small
message is written whether or not anybody reads, a `Large` one when a task reads it.

### RelaySystem

One action for each arm that matters: `ListenViaRelay`, `RelayConnected`, `Introduce`
(Identify, at the relay), `NewListenAddr`, `ListenerClosed`, `Send` (`do_send`),
`Established` and `Closed` with a client, `Receive`. Circuit relay v2 and identify are
external: `Reserve` grants, with addresses or without; `DialRelay` and `DialCircuit`
set up a circuit if the relay has a reservation and its owner knows of it; `Exceed`
and `Expire` are the limits of `relay::Config::default()`; `LoseLink` and
`RelayDialFails` are the connections. Each end of a circuit learns of it in its own
loop, and may find it gone by then (`opening`, `closing`).

### LegacyMock

`Listen`, `Send`, and the thread of a message: `Wake` (lock and lookup), `Callback` or
`CallbackPanics`, and `WakePoisoned`. `listen` neither awaits nor unlocks before it
returns and is one step.

### PingPong

`NextPing` and `Unsupported` are the loop of the native client (the next ping waits
for the end of the one before, and `Unsupported` is the error after which none
comes), `ConnectCalled`, `Connected`, `ConnectFails` and `SendPing` the two functions of the browser client
between their awaits, `Open`, `Write`, `ReadPong` and `Fails` an exchange of either,
`Accept`, `HandlePing` and `HandleFails` the server. `FallsSilent` is a network that
neither delivers nor reports. The messages on a stream come whole or not at all,
which `Framing` shows of the same encoding.

### MessageFate and the refinement

The fate of a message goes from `unborn` to `accepted`, then to `sent`, `failed` or
`lost`, and never back; ids are given out in order; one step settles one message,
except that a failure may take others to `lost` with it. `AtOnce` says which fates
a message may have at the moment it is taken: only `accepted` for
`NetworkActor` and `LegacyNetwork`; `accepted` (a report is due), `sent` and `failed` for
the mock, which has no queue and may lose nothing. The mapping reads
the fate off the state: reported if a `SendFailed` is in the event channel or was
heard, sent if it was written, accepted if it is in the command channel, in
`pending_sends` or in the `outbox`, and lost if it is nowhere. `lost` is in the
promise because the code loses messages (a refused dial, section 5); the
refinement shows that it does so only in the step in which it reports another
message, and only messages that were waiting.

## 3. The runs

With two workers each run ends within two minutes.

| run | question | bounds |
|---|---|---|
| `send` | types; nothing queued for a connected peer; ids in order for each peer; no outcome reported twice or early; messages go to the last peer of the address; refinement of `MessageFate` | 3 messages of a browser, 4 kinds of address (behind the own relay, with a name, without a peer, unparsable), 2 peers, all faults of dials, connections and streams |
| `calls` | one answerer for every call; a relay answer is a circuit address; a recorded address was announced, once for each time it is recorded; a call returns unless its listener or relay failed late | 3 calls, a wildcard with 2 interfaces, an unparsable address, a relay that comes, goes and refuses, 3 listeners |
| `events` | no ghost peers; connection before message; an accepted message settles unless its dial failed | 2 messages out, 2 in, 1 peer with 2 connections, 3 events |
| `mock_order` | settled on return; order of each sender; an error reaches the sender's name and no other; refinement of `MessageFate`, without losses | 2 nodes, 2 names that either may get, 2 messages each to either name or to none, 1 listen each, both may be dropped |
| `legacy` | one error for a message at most; the address that answered is recorded before `listen` returns, once for each answer; connection before message and disconnection; refinement of `MessageFate` | 2 messages, 2 listens on a wildcard or an unparsable address, an inbound message |
| `framing` | counts; the message written or an error; no error without a cause; both ends end | lengths 3, 5, 16 and 18 with a 4-bit prefix, window 6, any fragmentation, a break anywhere |
| `loops` | types; losses have causes; loops that are caught stay so; all others come round | 3 nodes, 3 large messages of which two make a ring, 1 small one, channels of 1 |
| `relay` | types; an answer is dialable; nobody reached without one; calls answered once identify came; messages over circuits end or are stranded; queues flushed from either side | 2 clients, 1 listener, a message each way, one too long, 2 breaks |
| `legacy_mock` | an address has one owner, who gets each message once at most; messages sent after a listen arrive | 2 nodes, 2 addresses, 3 messages, callbacks may panic |
| `ping_pong` | statics belong together; complete means answered, once; every ping ends | 2 servers, 2 native pings, 2 connects, 1 browser ping |

Two more runs each check one sentence of the documentation that the code does
not keep; see section 5.

*Why the bounds are enough.* A queue of two messages for one peer is the smallest
in which order, batch and loss can go wrong; a third lets one message go by
another way than the two before it. Two connections to a peer are the smallest
number that tells "a connection" from "the connection"; two dials may make them
even where `MaxConns`, which bounds connections from outside, is one. Three calls let a third
one meet the late announcement of the first through the second. In
`mock_order` two names let the nodes differ, collide, and address each other, themselves
or nobody yet, and a node may come between the two lock sections of the other. In
`framing` there is a length on each side of the prefix's limit and one that is cut
to 0, and the window is smaller than most frames. In `loops` a ring of two is the
smallest that can be caught, and the third node waits behind it and competes for
the channel. In `relay` two clients may dial each other at once, and two breaks
allow a circuit to go and come back; with both clients as
listeners and one break they hold too, in some minutes more. `MaxConns`,
`MaxEvents` and `MaxListeners` only hold back moves of the environment (a
connection from outside, a disconnection), never a step of the code.

*Deadlock* is not checked (`CHECK_DEADLOCK FALSE`): a node that has no command,
no event and no stream waits for input, and with the bounds on input used up every
behaviour ends there. That the node does not stop *with* work to do is what the
liveness properties say; the one way for it to do so, loops that wait for each
other, is `Caught` in `EventLoops`. The runs of terminating systems (`framing`,
`legacy_mock`, `ping_pong`) end when all is done.

*Fairness* (`NetworkActor!Fairness`). Weak fairness of the loop's command arm, of
`SendToPeer`, of the announcement or loss of listeners, of the end of a dial
(either way), of accepting streams, of each inbound task, of the suspended call
and of the manager's draining. `tokio::select!` polls its branches in random
order, so no ready arm is passed over for ever; a task that was spawned and a
oneshot that was answered are scheduled by the runtime; libp2p ends every dial.
Nothing is assumed about remote peers or about the manager making calls. Weak
fairness is enough: a command or an announcement, once there, stays there, and
while the loop is busy with `outbox` it is `SendToPeer` that is enabled, which
empties it.

`EventLoops` assumes the same of each loop and task, and that no stream has to
break; `RelaySystem` that the loops take the events of their swarms and that
reservation and circuit requests get an end, but nothing about identify, calls
or failures; `Framing` that both ends run and that a stream delivers what it
accepted while it is whole; `LegacyMock` that the operating system runs each
thread (weak fairness will do, since callbacks are as many as messages and the
mutex is free for good after the last); `PingPong` that the executors run each task,
where a ping fails of necessity only when its control reaches nobody or the
server has dropped or ended its stream. The liveness properties name the
exceptions the code has rather than assume them away: a message is left behind
by a failed dial (`Stranded`), a call by a listener or relay that failed late
(`Orphaned`), a loop by a ring of large writes (`Caught`), a ping by a network that
falls silent.

*Mutants.* For each property of a passing run a plausible bug in the modelled code
(the operators named `NotRemoved`, `QueuedFirst`, `RelayKept`, `FirstPeerId`, `OneOf`
and so on, each next to the definition it stands in for) makes TLC find the
property violated.

## 4. The proofs

Every invariant and every action property that a passing run checks is also a
theorem, for every value of the constants, and so are the three refinements of
`MessageFate`.

### NetworkActor

`NetworkActorProofs` proves, for every set of peers, hosts, addresses and messages,
every `Env` and all values of the bounds, under `AddressAssumption` and
`NetworkAssumption` (the constants have their types):

- `TypeCorrect`: `Spec => []TypeOK`. One lemma for each action; `TypeOK` is
  inductive by itself.
- `NothingPendsForConnected`: `Spec => []PendingOnlyWhenDisconnected`. Inductive
  once the types are known: a message is queued only when its peer has no
  connection, and the step that opens a connection empties the queue.
- `OneAnswererForEachCall`: `Spec => []CallHasOneAnswerer`.
- `RelayAnswersAreCircuits`: `Spec => []RelayAnswerIsCircuit`.
- `WrittenInOrder`: `Spec => []WireInOrder`.
- `WrittenToDestination`: `Spec => []GoesToDestination`, if the addresses the manager
  sends to name the peer they end with (`NamesItsEnd`).
- `NoSecondReport`: `Spec => []ReportedOnce`.
- `ImplementsMessageFate`: `Spec => KeepsMessageFate`, the refinement.
- `OnlyRefusalsLose`: `Spec => [][Lost' \subseteq Lost \/ SendDialRefused]_vars`.
- `OnlyFailedDialsStrand`: in every step, what gets `Stranded` does so by `DialFails`.
- `LocalAddressesAreReal`: `Spec => []LocalAddrsWereAnnounced`.
- `NoPeerIsAGhost`: `Spec => []NoGhostPeers`.
- `MetBeforeReceived`: `Spec => []ConnectedBeforeReceived`.
- `TranslatedUnparsable`, `EndIsExtracted`: what `translate_address` and
  `extract_peer_id` do to any address.

*Calls.* `OneAnswererForEachCall` and `RelayAnswersAreCircuits` share the inductive
invariant `CallInv`. Neither property is
inductive: that a slot is free when a command is handled depends on the
command being the trace of the one call that waits, so `CallInv` states for each
kind of call where its sender may be (the queue, its own slot, the answer), that
a slot belongs to a call of its own kind, and that the answer of a relay call is a
circuit address before it is recorded as a reply. The preservation proof groups
the actions: steps that leave the calls alone (`CallKept`), the start of a call, its
end, the handling of its command, and the announcement that answers it.

*Order.* `WireInOrder` speaks of what was written, and is not inductive: a message
may reach the wire from the `outbox`, which is filled from `pending_sends`, which is
filled from the command queue. The invariant looks at the *line* of a peer, which
is what was written to it, then what the loop is writing, then what waits for a
dial. `LineInv` says that a line increases, holds only ids of messages whose
address names this peer, and is older than every command that is still queued;
`QueueInv` that the queue keeps the order of the ids and carries the translated
address of each. A step moves ids along the line or appends the oldest command to
it. `PendingOnlyWhenDisconnected` is needed to know that a message which finds its
peer connected does not overtake one that waits. Destinations follow, because
the line remembers the address the id was given out with and
`TranslatedUnparsable` says that an address which was changed goes nowhere.

`NamesItsEnd` is a condition on addresses, not on the code: `EndIsExtracted` shows it
of every address that ends with a peer, directly or through a relay, and
`NobodyIsExtracted` of those without a peer. An address that goes on after its
last peer has no destination to speak of.

*Reports.* `ReportInv` adds that a reported message is in no queue, no line that
is still to be written and no other report. `MessageInv`, all of this together, is
what a message obeys from the call to its end.

*The refinement* is proved from the four things a step of the node can do to
messages, whichever action it is: nothing (`NothingSettles`), accept the next id
(`TakesNew`), write one that was on its way (`WritesOne`), or report one and stop
others from being on their way (`ReportsOne`). Each action is shown to be one of
them, and each of them a step of `MessageFate` or a stutter.

*What goes wrong, and only there.* `MessageFate` allows a report to take other
messages to `lost`. Here the reports of all other arms are shown to be about one
message alone (`FailsAlone`), so that `OnlyRefusalsLose` names the one line of
`do_send` (`actor.rs:384`, `pending_sends.remove`) that loses. `OnlyFailedDialsStrand` does the
same for what waits for ever: it is the safety half of `SettlesUnlessStranded`.

*Events.* `AnnouncedInv` counts: an address is in `local_addrs`, or on its way there in
the answer, no more often than the swarm announced it. That is all that
`LocalAddrsWereAnnounced` says: the address was real once and answered one call. It
does not say that the listener is the one the call asked for, nor that it still
listens; the code promises neither (section 5).
`GoodbyeInv` says that to each `PeerConnected` of a peer without a connection there
is a later `PeerDisconnected` in the channel, and `MetInv` that the peers of all
connections and of all streams in tasks or on their way are known to the manager
or announced to it: `MessageReceived` comes from a task, which the loop started after
the connection.

### MockNetwork

`MockNetworkProofs` proves, for any nodes, names, addresses and bounds, under
`AddressAssumption` and `MockAssumption`:

- `TypeCorrect`: `Spec => []TypeOK`.
- `SendersStayInOrder`: `Spec => []SenderOrder`.
- `ReportsComeHome`: `Spec => []ReportsReachTheName`.
- `SettledWhenReturned`: `Spec => []SettledOnReturn`.
- `ImplementsMessageFate`: `Spec => KeepsMessageFate`.

None of them assumes that names differ. The inductive invariant says what a call
keeps between its two lock sections (`CallInv`), that an entry of the registry leads
to a node of its name, and each name that was given out to some node (`RegistryInv`),
and that no event is about a message whose report is still due (`LogInv`); every step
is a quiet one, a send, or a report (`Quiet`, `Sends`, `Tells`). `ReportInv` then follows a
report: it goes where the registry leads from the sender's name, to a node that has
it, and names do not change. `SettledInv` says for each message that its report is
due, it is in a channel, its addressee was dropped, or another node with the
sender's name was (`NamesakeGone`). While a node's name is its own the last cannot be
(`HomeIsOwn`), so no message of it is `lost` (`NoneLost`), which the refinement rests on.
`DistinctClocks` shows when a node has its name to itself for ever: when the clocks
of the nodes have no value in common.

### LegacyNetwork and LegacyMock

`LegacyNetworkProofs` proves, for any peers, addresses, listeners and bounds, under
the assumptions of its module:

- `TypeCorrect`: `Spec => []TypeOK`.
- `OneErrorAMessage`: `Spec => []ErrorsOnce`.
- `ImplementsMessageFate`: `Spec => KeepsMessageFate`.
- `OnlyRefusalsLose`: `Spec => [][Lost' \subseteq Lost \/ DialRefused]_vars`.
- `ListenIsRecorded`: `Spec => []ListenedIsLocal`.
- `MetBeforeHeard`: `Spec => []MetBeforeMessage`.

The predecessor does not share the lines of its successor, and its proof is
shaped by what it needs: nothing in the loop twice (`OneCopy`), ids that left the
queue older than those in it (`IdsInv`), and five step kinds (`Stays`, `Accepts`, `Takes`,
`Writes`, `Reports`) from which both `ErrorsOnce` and the refinement follow. `ListenInv`
counts, for each address: the successes that it answered, returned or about to
return, are never more than its entries in `local_addrs`. `MetInv` says that whoever
is connected, has parted, or has a stream on its way was met.

`LegacyMockProofs` proves `FirstListenerGetsIt`, `Spec => []GoesToFirstListener`, for any
nodes, addresses and messages: its invariant says that a callback runs under the
mutex, for a node that listens, so that nobody can listen between the look-up and
the hand-over.

### Framing, EventLoops, RelaySystem, PingPong

`FramingProofs` proves, for every base of the digits, every set of messages (of any
length, the limit of the prefix and beyond) and every window, under
`FramingAssumption`:

- `TypeCorrect`: `Spec => []TypeOK`, the order of the counts included.
- `NeverAnother`: `Spec => []ReadsWhatWasWritten`.
- `ErrorsAreCaused`: `Spec => []ErrorsHaveCauses`.

They rest on arithmetic that is proved first: `PrefixRoundTrip` (the four digits
of a number below the limit are read back as this number) and `LengthRead` (so the
reader believes the length modulo the limit). The inductive invariant adds what
each position of writer and reader says about the counts (`WriterInv`,
`ReaderInv`). A length that fits makes the reader take exactly the frame; one that
does not makes it take a proper beginning of the message, which is no message.

`EventLoopsProofs` proves, for any nodes, messages, capacity and set of large
messages, under `LoopsAssumption`:

- `TypeCorrect`: `Spec => []TypeOK`; channels keep their capacity.
- `LossesHaveCauses`: `Spec => []LossHasCause`.
- `CaughtStaysCaught`: `Spec => CaughtForGood`, an action property: no step but a
  stream that breaks frees loops that wait for each other, in rings of any length.

The inductive invariant records where a message is while its loop writes it
(`FreshInv`, `WritingInv`), that a large message reported as sent is being read
(`SentInv`), and that what waits in a channel is for its node and marked so
(`ChannelInv`): without the last a loop could free its neighbour by accepting a
stream that is not its own.

`RelaySystemProofs` proves, for any clients, messages and number of breaks, under
`RelayAssumption`:

- `TypeCorrect`: `Spec => []TypeOK`, by itself inductive; what the relay knows of
  a client, and the circuits over its connection, go with the connection.
- `AnswersAreDialable`: `Spec => []AnswerIsDialable`.
- `ReachedAfterSuccess`: `Spec => []ReachedOnlyAfterSuccess`.

The inductive invariant follows a call from the reservation request to the answer:
a request belongs to a connected client that made a call, a granted one is
reserved at the relay (`AskInv`), and a client that announced its address has its
call answered (`ListenInv`). A circuit is set up only to a client that announced.

`PingPongProofs` proves, for any servers, calls and number of pings, under
`PingPongAssumption`:

- `StaticsAgree`: `Spec => []StaticsBelongTogether`, inductive with the types of
  the statics: one step fills both.
- `AnsweredOnce`: `Spec => []CompleteMeansAnsweredOnce`. The invariant `ExchangeInv`
  says that a ping is counted exactly when its stream is answered, and that the
  numbers above the counter have had no ping: that makes the next one fresh.

### What is only model-checked

The liveness properties (`ReturnsUnlessOrphaned`, `SettlesUnlessStranded`, `BothEnd`,
`ComesRoundUnlessCaught`, `ServedOnceIntroduced`, `EndsOrStranded`, `FlushedByEitherSide`,
`SentAfterListenArrives`, `EveryPingEnds`): the prover has no rule for fairness and
`ENABLED`. The two violations of section 5 are counterexamples, which TLC finds.
`TypeOK` of `MockNetwork`, `LegacyNetwork` and `LegacyMock` is defined beside its proof and
is no property of a run.

## 5. Where code and documentation part

Two have a run that reaches them; `PROJECT.json` quotes the lines.

1. `browser_direct`: the double slash makes every direct address of a browser
   client unreachable (`actor.rs:243`).
2. `early_reservation`: the client requests its reservation when it is connected to
   the relay, not after identify (`actor.rs:467-474`), so the relay may grant one
   without an address, and the call stays without an answer.

What the code loses or leaves waiting is stated by properties that name it as
the only exception:

- A dial that fails after `swarm.dial` returned `Ok` is ignored; its messages wait
  for ever and nothing is reported (`SettlesUnlessStranded`, `EndsOrStranded`).
- `ListenViaRelay` through a relay that cannot be reached, and `Listen` on a
  listener that closes before it is announced, never return, and the actor takes
  no other command (`ReturnsUnlessOrphaned`).
- A refused dial reports one message and silently discards the others queued for
  the same peer (`lost` in `MessageFate`; predecessor and successor alike).
- Nodes that write large messages to each other stop for good, and a small
  message may be dropped at a full channel without a word (`EventLoops`).
- A message longer than the relay's `max_circuit_bytes` may be cut off after its sender
  had its `Ok` (`lost` in `RelaySystem`).
- A callback that panics in the legacy mock ends all delivery
  (`SentAfterListenArrives`).

Read in the code and not stated as properties: `Listen` may be answered with an
address of an earlier wildcard listener, since `pending_listen` is answered by the
next announcement of any listener; an address stays in `local_addrs` when its
listener closes later; `PeerDisconnected` is emitted when one of several connections
closes (`NoGhostPeers` is about the other direction only); inbound streams are handled
with `tokio::spawn` (`actor.rs:322`) in every build, although a wasm build starts the
loop itself with `spawn_local` (`actor.rs:152`), so that a browser node without a tokio
runtime panics at its first inbound stream; a relay address without a peer id makes `ListenViaRelay` wait
for ever; `GetLocalAddresses` lists one address of a wildcard listener; the mock's
`extract_peer_id_from_addr` takes the first peer id where its comment says last; two
mock nodes created at the same nanosecond of two seconds share a name, and the
earlier one hears nothing any more, not even of its own failures (`MockNetwork`,
*Names*).

## 6. What is not modelled, and why

- The end of the loop: it ends with its runtime only. A manager that drops the actor
  is the end of all behaviour of interest. A listener that closes after it was
  announced falls into `_ => {}` and changes no state, so it has no step of its own,
  and no property claims that an announced address still listens.
- The wasm build, but for what the native one shares with it (`translate_address`, the
  queueing and flushing of a browser's messages): in the run `send` the browser gets
  no inbound stream, whose `tokio::spawn` section 5 describes.
- The contents of messages, JSON, logging and error texts. Memory: `recv_message`
  allocates what the prefix says, and here every allocation succeeds.
- `build_swarm`: configuration. Timeouts of idle connections appear as
  `ConnectionClosed`, the limits of circuits as `Exceed` and `Expire`; the limits on the
  number of reservations and circuits (1000, 1000, 100) do not appear.
- Reservations that expire and are renewed, several relays, and the byte level of
  circuits: inside libp2p.
- The programs of the demo around their loops: arguments, swarm setup, the page
  that calls the browser functions.

## 7. What is done, and what is left

Done: `Addresses`, `NetworkActor`, `MessageFate`, `MockNetwork`, `LegacyNetwork`,
`Framing`, `EventLoops`, `RelaySystem`, `LegacyMock`, `PingPong` and their runs; the
theorems of section 4, which state every safety property and every refinement of
the runs.

Left: the safety halves of more liveness properties, as theorems, in the manner of
`OnlyFailedDialsStrand`: which steps orphan a call (`ReturnsUnlessOrphaned`), and that a
loop which waits has a reader or a ring before it (`ComesRoundUnlessCaught`).
