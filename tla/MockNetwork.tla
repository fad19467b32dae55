----------------------------- MODULE MockNetwork -----------------------------
(***************************************************************************)
(* The in-memory network of meerkat-net-v2 (mock.rs): mock nodes that      *)
(* share a registry, a mutex around a map from peer id to event sender.    *)
(* Each node is driven by its own thread.  A SendMessage takes the lock    *)
(* once when it finds its target, and once more, in a second step, to find *)
(* the sender's own channel when it does not.                              *)
(*                                                                         *)
(* A node's peer id is made of the nanoseconds of the clock, without the   *)
(* seconds: two nodes can get the same one (Clock bounds the values), and  *)
(* the registry then leads to the later one.  A node that is dropped stays *)
(* in the registry, with a channel nobody reads.                           *)
(***************************************************************************)
EXTENDS Addresses, FiniteSets

CONSTANTS
  Node,        \* mock nodes
  NoNode,      \* "no entry" in the registry
  Clock,       \* Clock[n]: the peer ids uuid_simple may give to n
  Target,      \* addresses messages are sent to
  Base,        \* address a node listens on
  MayDrop,     \* BOOLEAN: a node may be dropped while others go on
  MaxMsgs, MaxListens     \* bounds, for each node

ASSUME MockAssumption ==
  /\ NoNode \notin Node
  /\ Clock \in [Node -> SUBSET Peer]
  /\ Target \subseteq Address /\ Base \in Address
  /\ MayDrop \in BOOLEAN /\ MaxMsgs \in Nat /\ MaxListens \in Nat

VARIABLES
  status,      \* status[n]: "none", "up" or "dropped"
  name,        \* name[n]: peer_id
  registry,    \* registry: from a name to the node whose channel it holds
  nextId,      \* next_message_id
  localAddrs,  \* local_addrs
  failing,     \* the message whose SendFailed is still to be sent, 0 if none
  inbox,       \* event_tx ... event_rx
  seen,        \* history: the events a node took from its channel
  sentTo       \* history: the address of each message, by id

vars == <<status, name, registry, nextId, localAddrs, failing, inbox, seen, sentTo>>

Init ==
  /\ status = [n \in Node |-> "none"]
  /\ name = [n \in Node |-> NoPeer]
  /\ registry = [id \in Peer |-> NoNode]
  /\ nextId = [n \in Node |-> 1]
  /\ localAddrs = [n \in Node |-> <<>>]
  /\ failing = [n \in Node |-> 0]
  /\ inbox = [n \in Node |-> <<>>]
  /\ seen = [n \in Node |-> <<>>]
  /\ sentTo = [n \in Node |-> <<>>]

Received(n, id) == [type |-> "MessageReceived", by |-> n, id |-> id]
Failed(n, id)   == [type |-> "SendFailed", by |-> n, id |-> id]
-----------------------------------------------------------------------------
\* new_with_registry, the name from uuid_simple: an entry of the same name is
\* replaced.
New(n, id) ==
  /\ status[n] = "none" /\ id \in Clock[n]
  /\ status' = [status EXCEPT ![n] = "up"]
  /\ name' = [name EXCEPT ![n] = id]
  /\ registry' = [registry EXCEPT ![id] = n]
  /\ UNCHANGED <<nextId, localAddrs, failing, inbox, seen, sentTo>>

\* The end of a node: nothing takes its entry out of the registry.
Drop(n) ==
  /\ MayDrop /\ status[n] = "up" /\ failing[n] = 0
  /\ status' = [status EXCEPT ![n] = "dropped"]
  /\ UNCHANGED <<name, registry, nextId, localAddrs, failing, inbox, seen, sentTo>>

\* Each node makes one call at a time (&mut self).
Ready(n) == status[n] = "up" /\ failing[n] = 0

\* Listen: nothing is bound, the address is recorded with the peer id.
Listen(n) ==
  /\ Ready(n) /\ Len(localAddrs[n]) < MaxListens
  /\ localAddrs' = [localAddrs EXCEPT ![n] = Append(@, Base \o <<P2p(name[n])>>)]
  /\ UNCHANGED <<status, name, registry, nextId, failing, inbox, seen, sentTo>>

\* A channel of one place instead of an unbounded one, its error ignored.
DeliverIfEmpty(n, e) ==
  inbox' = IF status[n] = "up" /\ inbox[n] = <<>> THEN [inbox EXCEPT ![n] = <<e>>]
           ELSE inbox

\* A channel that hands out the newest event first.
DeliverFirst(n, e) ==
  inbox' = IF status[n] = "up" THEN [inbox EXCEPT ![n] = <<e>> \o @] ELSE inbox

\* An unbounded channel takes an event as long as its receiver lives; the
\* error of a send to a dropped one is ignored.
Deliver(n, e) ==
  inbox' = IF status[n] = "up" THEN [inbox EXCEPT ![n] = Append(@, e)] ELSE inbox

\* SendMessage, up to its return, or to the second lock when nobody has the
\* name the address gives.
SendMessage(n, addr) ==
  /\ Ready(n) /\ nextId[n] <= MaxMsgs
  /\ nextId' = [nextId EXCEPT ![n] = @ + 1]
  /\ sentTo' = [sentTo EXCEPT ![n] = Append(@, addr)]
  /\ LET target == FirstPeerId(addr)
         id     == nextId[n]
     IN \/ /\ target # NoPeer /\ registry[target] # NoNode
           /\ Deliver(registry[target], Received(n, id))
           /\ UNCHANGED failing
        \/ /\ target # NoPeer /\ registry[target] = NoNode
           /\ failing' = [failing EXCEPT ![n] = id]
           /\ UNCHANGED inbox
        \/ /\ target = NoPeer
           /\ Deliver(registry[name[n]], Failed(n, id))
           /\ UNCHANGED failing
  /\ UNCHANGED <<status, name, registry, localAddrs, seen>>

\* An unknown peer is nobody's concern, as in the mock of meerkat-net.
ForgetFailure(n) ==
  /\ failing[n] # 0 /\ failing' = [failing EXCEPT ![n] = 0]
  /\ UNCHANGED <<status, name, registry, nextId, localAddrs, inbox, seen, sentTo>>

\* A report for whoever has the name of the target by now.
ReportToTarget(n) ==
  /\ failing[n] # 0 /\ failing' = [failing EXCEPT ![n] = 0]
  /\ LET k == registry[FirstPeerId(sentTo[n][failing[n]])]
     IN IF k = NoNode THEN UNCHANGED inbox ELSE Deliver(k, Failed(n, failing[n]))
  /\ UNCHANGED <<status, name, registry, nextId, localAddrs, seen, sentTo>>

\* The rest of a SendMessage to an unknown peer: the channel to report on is
\* looked up by name, too.
ReportFailure(n) ==
  /\ failing[n] # 0 /\ failing' = [failing EXCEPT ![n] = 0]
  /\ Deliver(registry[name[n]], Failed(n, failing[n]))
  /\ UNCHANGED <<status, name, registry, nextId, localAddrs, seen, sentTo>>

TryRecvEvent(n) ==
  /\ status[n] = "up" /\ inbox[n] # <<>>
  /\ inbox' = [inbox EXCEPT ![n] = Tail(@)]
  /\ seen' = [seen EXCEPT ![n] = Append(@, Head(inbox[n]))]
  /\ UNCHANGED <<status, name, registry, nextId, localAddrs, failing, sentTo>>

Next ==
  \E n \in Node :
    \/ \E id \in Peer : New(n, id)
    \/ \E addr \in Target : SendMessage(n, addr)
    \/ Drop(n) \/ Listen(n) \/ ReportFailure(n) \/ TryRecvEvent(n)

Spec == Init /\ [][Next]_vars
-----------------------------------------------------------------------------
(* Properties.                                                             *)

Log(n)  == seen[n] \o inbox[n]
Logged  == UNION {{Log(n)[i] : i \in 1 .. Len(Log(n))} : n \in Node}

\* The message went into the channel of a node that nobody reads any more.
Discarded(n, m) ==
  \E k \in Node : status[k] = "dropped" /\ name[k] = FirstPeerId(sentTo[n][m])

\* A channel takes a message as a stream does: it is sent, read or not.
Fate(n) == [m \in 1 .. MaxMsgs |->
              IF m >= nextId[n] THEN "unborn"
              ELSE IF Failed(n, m) \in Logged THEN "failed"
              ELSE IF Received(n, m) \in Logged THEN "sent"
              ELSE IF m = failing[n] THEN "accepted"
              ELSE IF Discarded(n, m) THEN "sent" ELSE "lost"]

Abstract(n) == INSTANCE MessageFate
                 WITH MsgId <- 1 .. MaxMsgs, fate <- Fate(n),
                      AtOnce <- {"accepted", "sent", "failed"}

\* No other node has taken the name of n.
OwnsName(n) == \A k \in Node : status[k] # "none" /\ name[k] = name[n] => k = n

\* As long as a mock node has its name to itself it keeps the promise of
\* MessageFate, in a stricter form than NetworkActor: SendMessage settles a
\* message or owes its report, and loses none.
KeepsMessageFate ==
  /\ \A n \in Node : Abstract(n)!Init
  /\ [][\A n \in Node : OwnsName(n) => [Abstract(n)!Next]_(Fate(n))]_vars

\* "Send - delivered instantly, no sleep needed": when SendMessage has
\* returned, the message or its SendFailed is in a node's channel, unless it
\* went by name to a node that had been dropped: the message to an addressee,
\* or the SendFailed to another node that had the sender's own name.
SettledOnReturn ==
  \A n \in Node : failing[n] = 0 =>
     \A m \in 1 .. nextId[n] - 1 :
        \/ Received(n, m) \in Logged \/ Failed(n, m) \in Logged \/ Discarded(n, m)
        \/ \E k \in Node \ {n} : status[k] = "dropped" /\ name[k] = name[n]

\* A node gets the messages of one sender in the order of their ids, however
\* the senders' threads interleave, and none twice.
SenderOrder ==
  \A n \in Node : \A i, j \in 1 .. Len(Log(n)) :
     i < j /\ Log(n)[i].by = Log(n)[j].by /\ Log(n)[i].type = Log(n)[j].type
       => Log(n)[i].id < Log(n)[j].id

\* A SendFailed, whose channel is looked up under a second lock, reaches the
\* node that sent the message or one that took the sender's name, and never
\* one that took the name of the target between the two locks.
ReportsReachTheName ==
  \A k \in Node : \A i \in 1 .. Len(Log(k)) :
     Log(k)[i].type = "SendFailed" => name[Log(k)[i].by] = name[k]
=============================================================================
