------------------------------ MODULE EventLoops ------------------------------
(***************************************************************************)
(* The event loops of several nodes of meerkat-net-v2 at once, and the     *)
(* streams between them.  A loop awaits send_to_peer inside an arm of its  *)
(* select!, and while it does it accepts no stream: this module is about   *)
(* what loops that wait do to each other.  NetworkActor has one node with  *)
(* all its arms, Framing one stream with all its bytes.                    *)
(*                                                                         *)
(* External are the connections, which exist, and their tasks, which run   *)
(* beside the loops: they open streams, put an inbound one into the        *)
(* channel of libp2p-stream or drop it when that is full, and take no more *)
(* than a window of bytes that nobody reads.                               *)
(***************************************************************************)
EXTENDS Naturals, Sequences

CONSTANTS
  Node, Message, NoMessage,
  Source, Destination,   \* the two nodes of each message
  Large,                 \* messages that do not fit into the window of a stream
  Capacity               \* streams that wait in the channel of a node

ASSUME LoopsAssumption ==
  /\ Source \in [Message -> Node] /\ Destination \in [Message -> Node]
  /\ \A m \in Message : Source[m] # Destination[m]
  /\ Large \subseteq Message /\ NoMessage \notin Message
  /\ Capacity \in Nat \ {0}

VARIABLES
  todo,      \* messages no loop has taken up
  arm,       \* arm[n]: the messages the arm of n's select! has still to open
  writing,   \* writing[n]: the message whose stream n's loop writes to
  verdict,   \* verdict[m]: what send_to_peer made of m
  place,     \* place[m]: where the stream of m is
  channel    \* channel[n]: inbound streams n's loop has not accepted

vars == <<todo, arm, writing, verdict, place, channel>>

Init ==
  /\ todo = Message /\ arm = [n \in Node |-> {}]
  /\ writing = [n \in Node |-> NoMessage]
  /\ verdict = [m \in Message |-> "none"] /\ place = [m \in Message |-> "none"]
  /\ channel = [n \in Node |-> <<>>]

\* A loop that leaves its writes to tasks of their own.
NeverBusy(n) == FALSE
\* The loop is inside an arm.
Busy(n) == arm[n] # {} \/ writing[n] # NoMessage
-----------------------------------------------------------------------------
(* The loop of n.                                                          *)

\* do_send to a connected peer: one message.  ConnectionEstablished: all that
\* pending_sends holds for the peer.
TakeArm(n) ==
  /\ arm[n] = {} /\ writing[n] = NoMessage
  /\ \E S \in (SUBSET todo) \ {{}} :
       /\ \A m \in S : Source[m] = n
       /\ \A m, k \in S : Destination[m] = Destination[k]
       /\ arm' = [arm EXCEPT ![n] = S] /\ todo' = todo \ S
  /\ UNCHANGED <<writing, verdict, place, channel>>

\* control.open_stream: a stream, or an error that is reported.
OpenStream(n) ==
  /\ writing[n] = NoMessage
  /\ \E m \in arm[n] :
       /\ arm' = [arm EXCEPT ![n] = @ \ {m}]
       /\ \/ /\ writing' = [writing EXCEPT ![n] = m]
             /\ place' = [place EXCEPT ![m] = "offered"]
             /\ UNCHANGED verdict
          \/ /\ verdict' = [verdict EXCEPT ![m] = "err"]
             /\ UNCHANGED <<writing, place>>
  /\ UNCHANGED <<todo, channel>>

\* A stream that takes a message of any size ahead of its reader, and one that
\* has taken nothing until the reader is through.
AnySize(m) == place[m] # "dropped"
WhenRead(m) == place[m] = "read"
\* The stream takes all of m: it fits into the window, or it is being read.
Taken(m) == m \notin Large \/ place[m] \in {"task", "read"}

Settle(n, v) ==
  /\ verdict' = [verdict EXCEPT ![writing[n]] = v]
  /\ writing' = [writing EXCEPT ![n] = NoMessage]

\* send_message returns Ok.
WriteEnds(n) ==
  /\ writing[n] # NoMessage /\ Taken(writing[n]) /\ Settle(n, "ok")
  /\ UNCHANGED <<todo, arm, place, channel>>

\* send_message returns Err: the other end has dropped the stream.
WriteRefused(n) ==
  /\ writing[n] # NoMessage /\ place[writing[n]] = "dropped" /\ Settle(n, "err")
  /\ UNCHANGED <<todo, arm, place, channel>>

\* The same, because the stream broke.
StreamBreaks(n) ==
  /\ writing[n] # NoMessage /\ Settle(n, "err")
  /\ UNCHANGED <<todo, arm, place, channel>>

\* incoming.next(): a task for the stream.
AcceptStream(n) ==
  /\ ~Busy(n) /\ channel[n] # <<>>
  /\ place' = [place EXCEPT ![Head(channel[n])] = "task"]
  /\ channel' = [channel EXCEPT ![n] = Tail(@)]
  /\ UNCHANGED <<todo, arm, writing, verdict>>
-----------------------------------------------------------------------------
(* Beside the loops.                                                       *)

\* A channel with room for everything.
NeverFull(n) == FALSE
HasNoRoom(n) == Len(channel[n]) >= Capacity

\* The connection task of the receiver hands the stream to its loop, or drops
\* it without a word to its own node.
Offer(m) ==
  /\ place[m] = "offered"
  /\ LET n == Destination[m] IN
       \/ /\ ~HasNoRoom(n)
          /\ channel' = [channel EXCEPT ![n] = Append(@, m)]
          /\ place' = [place EXCEPT ![m] = "channel"]
       \/ /\ HasNoRoom(n)
          /\ place' = [place EXCEPT ![m] = "dropped"]
          /\ UNCHANGED channel
  /\ UNCHANGED <<todo, arm, writing, verdict>>

\* handle_incoming: the message, or the error of a stream that broke.
HandleIncoming(m) ==
  /\ place[m] = "task" /\ verdict[m] # "none"
  /\ place' = [place EXCEPT ![m] = IF verdict[m] = "ok" THEN "read" ELSE "unread"]
  /\ UNCHANGED <<todo, arm, writing, verdict, channel>>
-----------------------------------------------------------------------------
LoopStep(n) == OpenStream(n) \/ WriteEnds(n) \/ WriteRefused(n) \/ AcceptStream(n)
TaskStep(m) == Offer(m) \/ HandleIncoming(m)

Next ==
  \/ \E n \in Node : TakeArm(n) \/ StreamBreaks(n) \/ LoopStep(n)
  \/ \E m \in Message : TaskStep(m)

Spec == Init /\ [][Next]_vars

\* Every loop and every task is on an executor, and select! chooses among its
\* ready arms at random.  No manager needs to send, and no stream to break.
FairSpec ==
  /\ Spec
  /\ \A n \in Node : WF_vars(LoopStep(n))
  /\ \A m \in Message : WF_vars(TaskStep(m))
-----------------------------------------------------------------------------
(* Properties.                                                             *)

TypeOK ==
  /\ todo \subseteq Message /\ arm \in [Node -> SUBSET Message]
  /\ writing \in [Node -> Message \cup {NoMessage}]
  /\ verdict \in [Message -> {"none", "ok", "err"}]
  /\ place \in [Message ->
       {"none", "offered", "channel", "dropped", "task", "read", "unread"}]
  /\ channel \in [Node -> Seq(Message)]
  /\ \A n \in Node : Len(channel[n]) <= Capacity

\* The loop of n waits for the loop of another node to accept its stream.
WaitsOn(n, k) ==
  /\ writing[n] \in Large /\ place[writing[n]] = "channel"
  /\ Destination[writing[n]] = k

\* The loop of n is in a set of loops of which each waits for another.
Caught(n) ==
  \E C \in SUBSET Node :
    n \in C /\ \A i \in C : \E j \in C : WaitsOn(i, j)

\* A loop inside an arm comes back to its select!, however many messages the
\* arm has to write, unless it is caught among loops that each write a message
\* larger than the window to the next: nothing else stops a node for good.
ComesRoundUnlessCaught ==
  \A n \in Node : Busy(n) ~> ~Busy(n) \/ Caught(n)

\* Nothing the nodes do frees a loop that is caught: only a stream that breaks.
CaughtForGood ==
  [][\A n \in Node : Caught(n) => Caught(n)' \/ \E k \in Node : StreamBreaks(k)]_vars

\* A message whose sender was told it had been sent.
SilentLossIsSmall ==
  \A m \in Message : place[m] = "dropped" /\ verdict[m] = "ok" => m \notin Large

\* A stream that others of the same loop left no room for.
DropHasRival ==
  \A m \in Message : place[m] = "dropped" =>
    \E k \in Message \ {m} :
      /\ Destination[k] = Destination[m]
      /\ place[k] \in {"channel", "task", "read", "unread"}

\* A stream is dropped only for others that the same loop has still to accept
\* or has accepted since, so the first stream a node is offered is never lost;
\* and a message that is lost without a word to its sender fits into the window:
\* once send_message returns Ok for a larger one, its receiver is reading it.
LossHasCause == SilentLossIsSmall /\ DropHasRival
=============================================================================
