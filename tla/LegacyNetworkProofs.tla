------------------------- MODULE LegacyNetworkProofs -------------------------
(***************************************************************************)
(* Theorems about LegacyNetwork, for any peers, addresses, environment and *)
(* bounds.                                                                 *)
(***************************************************************************)
EXTENDS LegacyNetwork, SequenceTheorems, FiniteSetTheorems, TLAPS

Result == [res : {"ok", "err"}, by : Address]

TypeOK ==
  /\ nextId \in Nat \ {0} /\ call \in {"none", "waits", "ok", "err"}
  /\ answeredBy \in Address /\ returned \in Seq(Result) /\ localAddrs \in Seq(Address)
  /\ cmdQ \in Seq(Command) /\ pendingListen \in BOOLEAN
  /\ pending \in [Peer -> Seq(Nat)] /\ wire \in [Peer -> Seq(Nat)]
  /\ outbox \in {Nothing} \cup [peer : Peer, msgs : Seq(Nat) \ {<<>>}]
  /\ conns \in [Peer -> Nat] /\ dials \in [Peer -> Nat]
  /\ announcing \subseteq [no : Nat, addr : Address] /\ listeners \in Nat
  /\ remote \subseteq InMsg /\ incoming \in Seq(InMsg)
  /\ tasks \subseteq InMsg /\ got \subseteq InMsg
  /\ errors \in Seq(Nat) /\ met \subseteq Peer /\ parted \subseteq Peer

\* The first peer of an address is a peer.
LEMMA FirstPeerType ==
  ASSUME NEW a \in Address
  PROVE  FirstPeerId(a) \in Peer \cup {NoPeer}
<1>1. ASSUME NEW s \in Segment, s.proto = "p2p" PROVE s.val \in Peer
  <2>1. \A h \in Host : s # Ip(h) /\ s # Dns(h)
    BY <1>1 DEF Ip, Dns
  <2>2. Circuit.proto # "p2p"
    BY DEF Circuit
  <2>3. Blank.proto # "p2p"
    BY DEF Blank
  <2>4. PICK p \in Peer : s = P2p(p)
    BY <1>1, <2>1, <2>2, <2>3 DEF Segment
  <2>. QED
    BY <2>4 DEF P2p
<1>2. \A i \in 1 .. Len(a) : IsFirstPeerAt(a, i) => a[i].val \in Peer
  BY <1>1 DEF IsFirstPeerAt, IsPeerAt, Address
<1>. QED
  BY <1>2 DEF FirstPeerId

\* The command at the head of the queue, and what is left.
LEMMA TakeType ==
  ASSUME TypeOK, NEW kind, Take(kind)
  PROVE  /\ Head(cmdQ) \in Command /\ Head(cmdQ).kind = kind
         /\ Head(cmdQ).id \in Nat /\ Head(cmdQ).addr \in Address
         /\ cmdQ' = Tail(cmdQ) /\ cmdQ' \in Seq(Command) /\ Idle
         /\ Destination \in Peer \cup {NoPeer}
<1>1. cmdQ \in Seq(Command) /\ cmdQ # <<>> /\ cmdQ' = Tail(cmdQ) /\ Idle
      /\ Head(cmdQ).kind = kind
  BY DEF TypeOK, Take
<1>2. Head(cmdQ) \in Command /\ Tail(cmdQ) \in Seq(Command)
  BY <1>1, HeadTailProperties
<1>3. Head(cmdQ).id \in Nat /\ Head(cmdQ).addr \in Address
  BY <1>2, LegacyAssumption DEF Command, LegacyAssumption
<1>. QED
  BY <1>1, <1>2, <1>3, FirstPeerType DEF Destination

\* An address of the environment is one of the addresses there are.
LEMMA BoundAddresses ==
  ASSUME NEW addr \in ListenAddr, NEW n \in Nat
  PROVE  {[no |-> n, addr |-> a] : a \in Binds[addr]} \subseteq [no : Nat, addr : Address]
<1>1. Binds[addr] \subseteq Address
  BY LegacyAssumption DEF LegacyAssumption
<1>. QED
  BY <1>1
-----------------------------------------------------------------------------
(* Sequences and the sets of their elements.                               *)

Distinct(s) == \A i, j \in 1 .. Len(s) : s[i] = s[j] => i = j

\* A sequence that grows at its end.
LEMMA ElementsAppend ==
  ASSUME NEW S, NEW s \in Seq(S), NEW x \in S
  PROVE  Elements(Append(s, x)) = Elements(s) \cup {x}
<1>1. /\ Len(s) \in Nat /\ Len(Append(s, x)) = Len(s) + 1
      /\ \A i \in 1 .. Len(s) : Append(s, x)[i] = s[i]
      /\ Append(s, x)[Len(s) + 1] = x
  BY AppendProperties, LenProperties
<1>. QED
  BY <1>1 DEF Elements

\* A sequence that loses its head.
LEMMA ElementsTail ==
  ASSUME NEW S, NEW s \in Seq(S), s # <<>>
  PROVE  /\ Elements(s) = {Head(s)} \cup Elements(Tail(s))
         /\ Head(s) \in S /\ Tail(s) \in Seq(S)
<1>1. /\ Len(s) \in Nat /\ Len(s) # 0 /\ Len(Tail(s)) = Len(s) - 1
      /\ \A i \in 1 .. Len(Tail(s)) : Tail(s)[i] = s[i + 1]
      /\ Head(s) = s[1] /\ Head(s) \in S /\ Tail(s) \in Seq(S)
  BY HeadTailProperties, LenProperties, EmptySeq
<1>2. \A i \in 1 .. Len(s) : i = 1 \/ (i - 1 \in 1 .. Len(Tail(s)) /\ s[i] = Tail(s)[i - 1])
  BY <1>1
<1>3. \A i \in 1 .. Len(Tail(s)) : i + 1 \in 1 .. Len(s)
  BY <1>1
<1>4. 1 \in 1 .. Len(s)
  BY <1>1
<1>5. Elements(s) \subseteq {Head(s)} \cup Elements(Tail(s))
  BY <1>1, <1>2 DEF Elements
<1>6. {Head(s)} \cup Elements(Tail(s)) \subseteq Elements(s)
  BY <1>1, <1>3, <1>4 DEF Elements
<1>. QED
  BY <1>1, <1>5, <1>6

\* Elements have the type of the sequence; the empty sequence has none.
LEMMA ElementsType ==
  /\ Elements(<<>>) = {}
  /\ \A S : \A s \in Seq(S) : Elements(s) \subseteq S
BY DEF Elements

\* One element: it is the only one, and occurs once.
LEMMA OneElement ==
  ASSUME NEW x
  PROVE  Elements(<<x>>) = {x} /\ Distinct(<<x>>) /\ Distinct(<<>>)
BY DEF Elements, Distinct

\* A sequence without repetitions that grows by something it does not have,
\* and one that loses its head.
LEMMA DistinctAppend ==
  ASSUME NEW S, NEW s \in Seq(S), NEW x \in S, Distinct(s), x \notin Elements(s)
  PROVE  Distinct(Append(s, x))
<1>1. /\ Len(s) \in Nat /\ Len(Append(s, x)) = Len(s) + 1
      /\ \A i \in 1 .. Len(s) : Append(s, x)[i] = s[i]
      /\ Append(s, x)[Len(s) + 1] = x
  BY AppendProperties, LenProperties
<1>2. \A i \in 1 .. Len(s) : s[i] # x
  BY DEF Elements
<1>3. \A i \in 1 .. Len(Append(s, x)) : i \in 1 .. Len(s) \/ i = Len(s) + 1
  BY <1>1
<1>. QED
  BY <1>1, <1>2, <1>3 DEF Distinct

LEMMA DistinctTail ==
  ASSUME NEW S, NEW s \in Seq(S), s # <<>>, Distinct(s)
  PROVE  Distinct(Tail(s)) /\ Head(s) \notin Elements(Tail(s))
<1>1. /\ Len(s) \in Nat /\ Len(s) # 0 /\ Len(Tail(s)) = Len(s) - 1
      /\ \A i \in 1 .. Len(Tail(s)) : Tail(s)[i] = s[i + 1]
      /\ Head(s) = s[1]
  BY HeadTailProperties, LenProperties, EmptySeq
<1>2. \A i \in 1 .. Len(Tail(s)) :
        i \in Int /\ i + 1 \in 1 .. Len(s) /\ 1 \in 1 .. Len(s) /\ 1 # i + 1
  BY <1>1
<1>3. Distinct(Tail(s))
  BY <1>1, <1>2 DEF Distinct
<1>4. \A i \in 1 .. Len(Tail(s)) : Tail(s)[i] # Head(s)
  BY <1>1, <1>2 DEF Distinct
<1>. QED
  BY <1>3, <1>4 DEF Elements
-----------------------------------------------------------------------------
(* Types.                                                                  *)

LEMMA TypeInit == Init => TypeOK
<1>. SUFFICES ASSUME Init PROVE TypeOK
  OBVIOUS
<1>1. /\ pending \in [Peer -> Seq(Nat)] /\ wire \in [Peer -> Seq(Nat)]
      /\ conns \in [Peer -> Nat] /\ dials \in [Peer -> Nat]
  BY DEF Init
<1>2. /\ nextId \in Nat \ {0} /\ returned \in Seq(Result)
      /\ localAddrs \in Seq(Address) /\ cmdQ \in Seq(Command) /\ listeners \in Nat
      /\ incoming \in Seq(InMsg) /\ errors \in Seq(Nat)
  BY DEF Init
<1>3. NoAddr \in Address
  BY DEF NoAddr, Address, Segment
<1>. QED
  BY <1>1, <1>2, <1>3 DEF Init, TypeOK

\* The two outcomes of a dial in handle_send.
LEMMA DialOutcomes ==
  ASSUME SendAndDial
  PROVE  /\ Take("send") /\ Destination # NoPeer
         /\ UNCHANGED <<nextId, wire, outbox>>
         /\ \/ /\ pending' = [pending EXCEPT ![Destination] = Append(@, Head(cmdQ).id)]
               /\ dials' = [dials EXCEPT ![Destination] = @ + 1] /\ UNCHANGED errors
            \/ /\ pending' = [[pending EXCEPT ![Destination] = Append(@, Head(cmdQ).id)]
                               EXCEPT ![Destination] = <<>>]
               /\ errors' = Append(errors, Head(cmdQ).id) /\ UNCHANGED dials
BY DEF SendAndDial, Removed, OnSendError, frontVars

\* The two outcomes of a write: the message is written, or it is reported,
\* written or not.
LEMMA WriteOutcomes ==
  ASSUME SendToPeer
  PROVE  /\ ~Idle /\ outbox' = AfterFirst(outbox) /\ UNCHANGED <<nextId, cmdQ, pending>>
         /\ \/ /\ wire' = [wire EXCEPT ![outbox.peer] = Append(@, Head(outbox.msgs))]
               /\ UNCHANGED errors
            \/ /\ errors' = Append(errors, Head(outbox.msgs))
               /\ \/ wire' = [wire EXCEPT ![outbox.peer] = Append(@, Head(outbox.msgs))]
                  \/ UNCHANGED wire
BY DEF SendToPeer, OnSendError, frontVars

LEMMA TypeNext == TypeOK /\ [Next]_vars => TypeOK'
<1>. SUFFICES ASSUME TypeOK, [Next]_vars PROVE TypeOK'
  OBVIOUS
<1>. USE DEF frontVars, swarmVars, recvVars, told
<1>1. ASSUME NEW a \in Target, Send(a) PROVE TypeOK'
  <2>1. [kind |-> "send", id |-> nextId, addr |-> a] \in Command
    BY DEF TypeOK, Command
  <2>2. cmdQ' \in Seq(Command)
    BY <1>1, <2>1, AppendProperties DEF Send, TypeOK
  <2>. QED
    BY <1>1, <2>2 DEF Send, TypeOK
<1>2. ASSUME NEW a \in ListenAddr, StartListen(a) PROVE TypeOK'
  <2>1. [kind |-> "listen", id |-> 0, addr |-> a] \in Command
    BY DEF Command
  <2>2. cmdQ' \in Seq(Command)
    BY <1>2, <2>1, AppendProperties DEF StartListen, TypeOK
  <2>. QED
    BY <1>2, <2>2 DEF StartListen, TypeOK
<1>3. CASE FinishListen
  <2>1. [res |-> call, by |-> answeredBy] \in Result
    BY <1>3 DEF FinishListen, Result, TypeOK
  <2>2. returned' \in Seq(Result)
    BY <1>3, <2>1, AppendProperties DEF FinishListen, TypeOK
  <2>3. NoAddr \in Address
    BY DEF NoAddr, Address, Segment
  <2>. QED
    BY <1>3, <2>2, <2>3 DEF FinishListen, TypeOK
<1>4. CASE SendRejected
  <2>1. cmdQ' \in Seq(Command) /\ Head(cmdQ).id \in Nat
    BY <1>4, TakeType DEF SendRejected
  <2>2. errors' \in Seq(Nat)
    BY <1>4, <2>1, AppendProperties DEF SendRejected, OnSendError, TypeOK
  <2>. QED
    BY <1>4, <2>1, <2>2 DEF SendRejected, TypeOK
<1>5. CASE SendConnected
  <2>1. cmdQ' \in Seq(Command) /\ Head(cmdQ).id \in Nat /\ Destination \in Peer
    BY <1>5, TakeType DEF SendConnected
  <2>2. <<Head(cmdQ).id>> \in Seq(Nat) \ {<<>>}
    BY <2>1
  <2>. QED
    BY <1>5, <2>1, <2>2 DEF SendConnected, TypeOK
<1>6. CASE SendAndDial
  <2>1. cmdQ' \in Seq(Command) /\ Head(cmdQ).id \in Nat /\ Destination \in Peer
    BY <1>6, TakeType DEF SendAndDial
  <2>2. [pending EXCEPT ![Destination] = Append(@, Head(cmdQ).id)] \in [Peer -> Seq(Nat)]
    BY <2>1, AppendProperties DEF TypeOK
  <2>3. pending' \in [Peer -> Seq(Nat)]
    <3>1. \A f \in [Peer -> Seq(Nat)] : [f EXCEPT ![Destination] = <<>>] \in [Peer -> Seq(Nat)]
      <4>1. <<>> \in Seq(Nat)
        OBVIOUS
      <4>. QED
        BY <4>1, Zenon
    <3>. QED
      BY <1>6, <2>2, <3>1, DialOutcomes
  <2>4. errors' \in Seq(Nat)
    <3>1. errors \in Seq(Nat) /\ Append(errors, Head(cmdQ).id) \in Seq(Nat)
      BY <2>1, AppendProperties DEF TypeOK
    <3>. QED
      BY <1>6, <3>1, DialOutcomes
  <2>5. dials' \in [Peer -> Nat]
    <3>1. dials \in [Peer -> Nat] /\ [dials EXCEPT ![Destination] = @ + 1] \in [Peer -> Nat]
      BY <2>1 DEF TypeOK
    <3>. QED
      BY <1>6, <3>1, DialOutcomes
  <2>. QED
    BY <1>6, <2>1, <2>3, <2>4, <2>5 DEF SendAndDial, TypeOK
<1>7. CASE HandleListen
  <2>1. cmdQ' \in Seq(Command) /\ Head(cmdQ) \in Command /\ Head(cmdQ).kind = "listen"
    BY <1>7, TakeType DEF HandleListen
  <2>2. Head(cmdQ).addr \in ListenAddr
    BY <2>1 DEF Command
  <2>3. announcing' \subseteq [no : Nat, addr : Address]
    BY <1>7, <2>2, BoundAddresses DEF HandleListen, TypeOK
  <2>4. listeners' \in Nat /\ call' \in {"none", "waits", "ok", "err"}
    <3>1. /\ listeners' \in {listeners, listeners + 1} /\ call' \in {call, "err"}
      BY <1>7 DEF HandleListen
    <3>. QED
      BY <3>1 DEF TypeOK
  <2>6. pendingListen' \in BOOLEAN
    <3>1. pendingListen' = TRUE \/ pendingListen' = pendingListen
      BY <1>7 DEF HandleListen
    <3>. QED
      BY <3>1, Zenon DEF TypeOK
  <2>5. UNCHANGED <<nextId, answeredBy, returned, localAddrs, pending, outbox, conns,
                    dials, recvVars, wire, errors, told>>
    BY <1>7 DEF HandleListen
  <2>. QED
    BY <2>1, <2>3, <2>4, <2>5, <2>6 DEF TypeOK
<1>8. CASE SendToPeer
  <2>1. /\ outbox.peer \in Peer /\ outbox.msgs \in Seq(Nat) /\ outbox.msgs # <<>>
        /\ outbox \in [peer : Peer, msgs : Seq(Nat) \ {<<>>}]
    BY <1>8 DEF SendToPeer, Idle, TypeOK
  <2>2. Head(outbox.msgs) \in Nat /\ Tail(outbox.msgs) \in Seq(Nat)
        /\ (Len(outbox.msgs) # 1 => Tail(outbox.msgs) # <<>>)
    <3>1. /\ Len(outbox.msgs) \in Nat /\ Len(Tail(outbox.msgs)) = Len(outbox.msgs) - 1
          /\ Head(outbox.msgs) \in Nat /\ Tail(outbox.msgs) \in Seq(Nat)
      BY <2>1, HeadTailProperties, LenProperties
    <3>2. Tail(outbox.msgs) = <<>> => Len(Tail(outbox.msgs)) = 0
      BY <3>1, EmptySeq
    <3>. QED
      BY <3>1, <3>2
  <2>3. outbox' \in {Nothing} \cup [peer : Peer, msgs : Seq(Nat) \ {<<>>}]
    BY <1>8, <2>1, <2>2 DEF SendToPeer, AfterFirst
  <2>4. errors' \in Seq(Nat)
    <3>1. errors \in Seq(Nat) /\ Append(errors, Head(outbox.msgs)) \in Seq(Nat)
      BY <2>2, AppendProperties DEF TypeOK
    <3>. QED
      BY <1>8, <3>1, WriteOutcomes
  <2>5. wire' \in [Peer -> Seq(Nat)]
    <3>1. [wire EXCEPT ![outbox.peer] = Append(@, Head(outbox.msgs))] \in [Peer -> Seq(Nat)]
      BY <2>1, <2>2, AppendProperties DEF TypeOK
    <3>. QED
      BY <1>8, <3>1, WriteOutcomes DEF TypeOK
  <2>. QED
    BY <1>8, <2>3, <2>4, <2>5 DEF SendToPeer, TypeOK
<1>9. CASE NewListenAddr
  <2>1. PICK a \in announcing : announcing' = announcing \ {a} /\ localAddrs' = Recorded(a.addr)
    BY <1>9 DEF NewListenAddr
  <2>2. localAddrs' \in Seq(Address)
    BY <2>1, AppendProperties DEF Recorded, TypeOK
  <2>3. answeredBy' \in Address
    BY <1>9 DEF NewListenAddr, TypeOK
  <2>. QED
    BY <1>9, <2>1, <2>2, <2>3 DEF NewListenAddr, TypeOK
<1>10. CASE ListenerClosed
  BY <1>10 DEF ListenerClosed, TypeOK
<1>11. CASE AcceptStream
  <2>1. incoming' \in Seq(InMsg) /\ Head(incoming) \in InMsg
    BY <1>11, HeadTailProperties DEF AcceptStream, TypeOK
  <2>. QED
    BY <1>11, <2>1 DEF AcceptStream, TypeOK
<1>12. ASSUME NEW p \in Peer, ConnectionEstablished(p) PROVE TypeOK'
  <2>1. pending' \in [Peer -> Seq(Nat)]
    BY <1>12 DEF ConnectionEstablished, Removed, TypeOK
  <2>2. outbox' \in {Nothing} \cup [peer : Peer, msgs : Seq(Nat) \ {<<>>}]
    <3>1. pending[p] \in Seq(Nat)
      BY DEF TypeOK
    <3>. QED
      BY <1>12, <3>1 DEF ConnectionEstablished
  <2>3. dials' \in [Peer -> Nat] /\ conns' \in [Peer -> Nat]
    <3>1. /\ conns' = [conns EXCEPT ![p] = @ + 1]
          /\ (dials[p] > 0 /\ dials' = [dials EXCEPT ![p] = @ - 1]) \/ dials' = dials
      BY <1>12 DEF ConnectionEstablished
    <3>2. conns \in [Peer -> Nat] /\ dials \in [Peer -> Nat]
      BY DEF TypeOK
    <3>. QED
      BY <3>1, <3>2
  <2>. QED
    BY <1>12, <2>1, <2>2, <2>3 DEF ConnectionEstablished, TellsOpened, TypeOK
<1>13. ASSUME NEW p \in Peer, ConnectionClosed(p) PROVE TypeOK'
  <2>1. conns' \in [Peer -> Nat]
    BY <1>13 DEF ConnectionClosed, TypeOK
  <2>. QED
    BY <1>13, <2>1 DEF ConnectionClosed, TypeOK
<1>14. ASSUME NEW p \in Peer, DialFails(p) PROVE TypeOK'
  <2>1. dials' \in [Peer -> Nat]
    BY <1>14 DEF DialFails, TypeOK
  <2>. QED
    BY <1>14, <2>1 DEF DialFails, TypeOK
<1>15. ASSUME NEW m \in InMsg, RemoteSends(m) PROVE TypeOK'
  <2>1. incoming' \in Seq(InMsg)
    BY <1>15, AppendProperties DEF RemoteSends, TypeOK
  <2>. QED
    BY <1>15, <2>1 DEF RemoteSends, TypeOK
<1>16. ASSUME NEW m \in InMsg, HandleIncomingStream(m) PROVE TypeOK'
  BY <1>16 DEF HandleIncomingStream, TypeOK
<1>17. CASE UNCHANGED vars
  BY <1>17 DEF vars, TypeOK
<1>. QED
  BY <1>1, <1>2, <1>3, <1>4, <1>5, <1>6, <1>7, <1>8, <1>9, <1>10, <1>11, <1>12, <1>13,
     <1>14, <1>15, <1>16, <1>17 DEF Next

\* The legacy node never leaves its types: no queue, no count of connections
\* and no answer is ever something its handlers do not expect.
THEOREM TypeCorrect == Spec => []TypeOK
BY TypeInit, TypeNext, PTL DEF Spec
-----------------------------------------------------------------------------
(* Messages.  A message that was accepted is in the command queue, or in   *)
(* the loop: in the outbox or waiting for a connection.  What it becomes is *)
(* decided where it leaves.                                                *)

PendIds   == UNION {Elements(pending[p]) : p \in Peer}
LoopIds   == Elements(outbox.msgs) \cup PendIds
Sends     == {i \in 1 .. Len(cmdQ) : cmdQ[i].kind = "send"}
CmdIds    == {cmdQ[i].id : i \in Sends}
SentIds   == UNION {Elements(wire[p]) : p \in Peer}
FailedIds == Elements(errors)

Older(S, T) == \A x \in S, y \in T : x < y

\* The queue has the messages in the order of their ids.
QueueInv == \A i, j \in Sends : i < j => cmdQ[i].id < cmdQ[j].id

\* Nothing is in the loop twice.
OneCopy ==
  /\ Distinct(outbox.msgs) /\ Elements(outbox.msgs) \cap PendIds = {}
  /\ \A p \in Peer : Distinct(pending[p])
  /\ \A p, q \in Peer : p # q => Elements(pending[p]) \cap Elements(pending[q]) = {}

\* Ids were given out before; what left the queue is older than what is in
\* it, and what was written or reported is not in the loop any more.
IdsInv ==
  /\ \A id \in CmdIds \cup LoopIds \cup SentIds \cup FailedIds :
       id \in Nat \ {0} /\ id < nextId
  /\ Older(LoopIds \cup SentIds \cup FailedIds, CmdIds)
  /\ LoopIds \cap (SentIds \cup FailedIds) = {}

MessageInv == QueueInv /\ OneCopy /\ IdsInv /\ Distinct(errors)

\* What a step does to the messages.
Stays ==
  /\ nextId' = nextId /\ CmdIds' = CmdIds /\ LoopIds' = LoopIds
  /\ SentIds' = SentIds /\ errors' = errors

Accepts ==
  /\ nextId <= MaxMsgs /\ nextId' = nextId + 1 /\ CmdIds' = CmdIds \cup {nextId}
  /\ LoopIds' = LoopIds /\ SentIds' = SentIds /\ errors' = errors

Takes(id) ==
  /\ nextId' = nextId /\ CmdIds = CmdIds' \cup {id} /\ Older({id}, CmdIds')
  /\ LoopIds' = LoopIds \cup {id} /\ SentIds' = SentIds /\ errors' = errors

Writes(id) ==
  /\ nextId' = nextId /\ CmdIds' = CmdIds /\ id \in LoopIds
  /\ LoopIds' = LoopIds \ {id} /\ SentIds' = SentIds \cup {id} /\ errors' = errors

Reports(id) ==
  /\ nextId' = nextId /\ id \in LoopIds \cup CmdIds
  /\ CmdIds' = CmdIds \ {id} /\ Older({id}, CmdIds')
  /\ LoopIds' \subseteq LoopIds \ {id}
  /\ SentIds' \in {SentIds, SentIds \cup {id}} /\ errors' = Append(errors, id)

Settles ==
  Stays \/ Accepts \/ \E id \in Nat : Takes(id) \/ Writes(id) \/ Reports(id)

\* A report that is about one message and no other; and the one that is not.
FailsAlone(id) == Reports(id) /\ LoopIds' = LoopIds \ {id}
KeepsRest ==
  Stays \/ Accepts \/ \E id \in Nat : Takes(id) \/ Writes(id) \/ FailsAlone(id)

DialRefused == SendAndDial /\ OnSendError(Head(cmdQ).id)

\* Whatever a step does to the messages, their ids stay in order and apart,
\* and no message is reported twice.
LEMMA IdsNext ==
  ASSUME TypeOK, IdsInv, Distinct(errors), Settles
  PROVE  IdsInv' /\ Distinct(errors)'
<1>0. nextId \in Nat \ {0} /\ errors \in Seq(Nat)
  BY DEF TypeOK
<1>1. CASE Stays
  BY <1>1 DEF Stays, IdsInv, Older, FailedIds
<1>2. CASE Accepts
  BY <1>0, <1>2 DEF Accepts, IdsInv, Older, FailedIds
<1>3. ASSUME NEW id \in Nat, Takes(id) PROVE IdsInv' /\ Distinct(errors)'
  <2>1. id \notin SentIds \cup FailedIds /\ id < nextId /\ id # 0
    BY <1>3 DEF Takes, IdsInv, Older
  <2>2. FailedIds' = FailedIds
    BY <1>3 DEF Takes, FailedIds
  <2>. QED
    BY <1>3, <2>1, <2>2 DEF Takes, IdsInv, Older
<1>4. ASSUME NEW id \in Nat, Writes(id) PROVE IdsInv' /\ Distinct(errors)'
  BY <1>4 DEF Writes, IdsInv, Older, FailedIds
<1>5. ASSUME NEW id \in Nat, Reports(id) PROVE IdsInv' /\ Distinct(errors)'
  <2>1. FailedIds' = FailedIds \cup {id}
    BY <1>0, <1>5, ElementsAppend DEF Reports, FailedIds
  <2>2. id \notin FailedIds /\ id < nextId /\ id # 0
    BY <1>5 DEF Reports, IdsInv, Older
  <2>3. Distinct(errors)'
    BY <1>0, <1>5, <2>2, DistinctAppend DEF Reports, FailedIds
  <2>. QED
    BY <1>5, <2>1, <2>2, <2>3 DEF Reports, IdsInv, Older
<1>. QED
  BY <1>1, <1>2, <1>3, <1>4, <1>5 DEF Settles
-----------------------------------------------------------------------------
(* The command queue.                                                      *)

\* The commands that are left when one is taken: the first id is the oldest.
LEMMA QueueTaken ==
  ASSUME TypeOK, QueueInv, NEW kind, Take(kind)
  PROVE  /\ QueueInv'
         /\ kind # "send" => CmdIds' = CmdIds
         /\ kind = "send" => LET h == Head(cmdQ).id IN
              CmdIds = CmdIds' \cup {h} /\ Older({h}, CmdIds')
<1>1. /\ cmdQ \in Seq(Command) /\ cmdQ # <<>> /\ cmdQ' = Tail(cmdQ)
      /\ Head(cmdQ).kind = kind
  BY DEF TypeOK, Take
<1>2. /\ Len(cmdQ) \in Nat /\ Len(cmdQ) # 0 /\ Len(cmdQ') = Len(cmdQ) - 1
      /\ \A i \in 1 .. Len(cmdQ') : cmdQ'[i] = cmdQ[i + 1]
      /\ Head(cmdQ) = cmdQ[1]
  BY <1>1, HeadTailProperties, LenProperties, EmptySeq
<1>3. \A i \in 1 .. Len(cmdQ') : i \in Int /\ i + 1 \in 1 .. Len(cmdQ) /\ 1 < i + 1
  BY <1>2
<1>4. \A i \in 1 .. Len(cmdQ) :
        i = 1 \/ (i - 1 \in 1 .. Len(cmdQ') /\ cmdQ'[i - 1] = cmdQ[i])
  <2>1. \A i \in 1 .. Len(cmdQ) : /\ i = 1 \/ i - 1 \in 1 .. Len(cmdQ')
                                  /\ (i - 1) + 1 = i
    BY <1>2
  <2>. QED
    BY <1>2, <2>1
<1>5. 1 \in 1 .. Len(cmdQ)
  BY <1>2
<1>6. /\ \A i \in Sends' : i \in Int /\ i + 1 \in Sends /\ cmdQ'[i] = cmdQ[i + 1] /\ 1 < i + 1
      /\ \A i \in Sends : i = 1 \/ (i - 1 \in Sends' /\ cmdQ'[i - 1] = cmdQ[i])
      /\ (1 \in Sends <=> kind = "send")
  BY <1>1, <1>2, <1>3, <1>4, <1>5 DEF Sends
<1>7. QueueInv'
  <2>1. \A i, j \in Sends' : i < j => i + 1 < j + 1
    BY <1>6
  <2>. QED
    BY <1>6, <2>1 DEF QueueInv
<1>8. CmdIds' \subseteq CmdIds
  BY <1>6 DEF CmdIds
<1>9. ASSUME kind # "send" PROVE CmdIds' = CmdIds
  <2>1. \A i \in Sends : i - 1 \in Sends' /\ cmdQ'[i - 1] = cmdQ[i]
    BY <1>6, <1>9
  <2>2. CmdIds \subseteq CmdIds'
    BY <2>1 DEF CmdIds
  <2>. QED
    BY <1>8, <2>2
<1>10. ASSUME kind = "send"
       PROVE  CmdIds = CmdIds' \cup {Head(cmdQ).id} /\ Older({Head(cmdQ).id}, CmdIds')
  <2>1. 1 \in Sends
    BY <1>6, <1>10
  <2>2. \A x \in CmdIds : x = cmdQ[1].id \/ x \in CmdIds'
    BY <1>6 DEF CmdIds
  <2>3. cmdQ[1].id \in CmdIds
    BY <2>1 DEF CmdIds
  <2>4. \A i \in Sends' : cmdQ[1].id < cmdQ'[i].id
    BY <1>6, <2>1 DEF QueueInv
  <2>5. Older({cmdQ[1].id}, CmdIds')
    BY <2>4 DEF Older, CmdIds
  <2>. QED
    BY <1>2, <1>8, <2>2, <2>3, <2>5
<1>. QED
  BY <1>7, <1>9, <1>10

\* A command at the end of the queue.
LEMMA QueuePut ==
  ASSUME TypeOK, QueueInv, NEW c \in Command, cmdQ' = Append(cmdQ, c)
  PROVE  /\ c.kind # "send" => QueueInv' /\ CmdIds' = CmdIds
         /\ c.kind = "send" => /\ CmdIds' = CmdIds \cup {c.id}
                               /\ Older(CmdIds, {c.id}) => QueueInv'
<1>1. cmdQ \in Seq(Command)
  BY DEF TypeOK
<1>2. /\ Len(cmdQ) \in Nat /\ Len(cmdQ') = Len(cmdQ) + 1
      /\ \A i \in 1 .. Len(cmdQ) : cmdQ'[i] = cmdQ[i]
      /\ cmdQ'[Len(cmdQ) + 1] = c
  BY <1>1, AppendProperties, LenProperties
<1>3. \A i \in Sends : i \in Int /\ i <= Len(cmdQ) /\ cmdQ'[i] = cmdQ[i]
  BY <1>2 DEF Sends
<1>4. Sends' = IF c.kind = "send" THEN Sends \cup {Len(cmdQ) + 1} ELSE Sends
  BY <1>2 DEF Sends
<1>5. ASSUME c.kind # "send" PROVE QueueInv' /\ CmdIds' = CmdIds
  BY <1>3, <1>4, <1>5 DEF QueueInv, CmdIds
<1>6. ASSUME c.kind = "send" PROVE CmdIds' = CmdIds \cup {c.id}
  <2>1. {cmdQ'[i].id : i \in Sends} = CmdIds
    BY <1>3 DEF CmdIds
  <2>2. CmdIds' = {cmdQ'[i].id : i \in Sends} \cup {cmdQ'[Len(cmdQ) + 1].id}
    BY <1>4, <1>6 DEF CmdIds
  <2>. QED
    BY <1>2, <2>1, <2>2
<1>7. ASSUME c.kind = "send", Older(CmdIds, {c.id}) PROVE QueueInv'
  <2>1. \A i \in Sends : cmdQ[i].id < c.id
    BY <1>7 DEF Older, CmdIds
  <2>2. \A i, j \in Sends' : i < j => i \in Sends /\ (j \in Sends \/ j = Len(cmdQ) + 1)
    BY <1>2, <1>3, <1>4, <1>7
  <2>. QED
    BY <1>2, <1>3, <2>1, <2>2 DEF QueueInv
<1>. QED
  BY <1>5, <1>6, <1>7
-----------------------------------------------------------------------------
(* What each step does to the messages.                                    *)

\* While the loop is idle nothing is being written.
LEMMA IdleWritesNothing ==
  ASSUME Idle
  PROVE  outbox.msgs = <<>> /\ Elements(outbox.msgs) = {} /\ LoopIds = PendIds
BY ElementsType DEF Idle, Nothing, LoopIds

\* A step of pending_sends for one peer.
LEMMA PendStep ==
  ASSUME NEW d \in Peer, \A p \in Peer \ {d} : pending'[p] = pending[p]
  PROVE  /\ PendIds' \cup Elements(pending[d]) = PendIds \cup Elements(pending'[d])
         /\ Elements(pending[d]) \subseteq PendIds /\ Elements(pending'[d]) \subseteq PendIds'
<1>1. /\ Elements(pending[d]) \subseteq PendIds /\ Elements(pending'[d]) \subseteq PendIds'
  BY DEF PendIds
<1>2. PendIds' \subseteq PendIds \cup Elements(pending'[d])
  BY DEF PendIds
<1>3. PendIds \subseteq PendIds' \cup Elements(pending[d])
  BY DEF PendIds
<1>. QED
  BY <1>1, <1>2, <1>3

\* Where the queue of one peer is removed, the others' messages stay.
LEMMA PendRemoved ==
  ASSUME NEW d \in Peer, \A p \in Peer \ {d} : pending'[p] = pending[p],
         pending'[d] = <<>>, OneCopy
  PROVE  /\ PendIds' = PendIds \ Elements(pending[d])
         /\ \A p \in Peer : Distinct(pending'[p])
         /\ \A p, q \in Peer : p # q => Elements(pending'[p]) \cap Elements(pending'[q]) = {}
<1>1. Elements(pending'[d]) = {} /\ Distinct(pending'[d])
  BY ElementsType, OneElement
<1>2. \A p \in Peer \ {d} : Elements(pending'[p]) \cap Elements(pending[d]) = {}
  BY DEF OneCopy
<1>3. PendIds' \cap Elements(pending[d]) = {}
  BY <1>1, <1>2 DEF PendIds
<1>. QED
  BY <1>1, <1>3, PendStep DEF OneCopy

\* Steps that leave the messages where they are.
LEMMA NothingMoves ==
  ASSUME UNCHANGED <<nextId, wire, pending, outbox, errors>>, CmdIds' = CmdIds, QueueInv',
         OneCopy
  PROVE  Stays /\ QueueInv' /\ OneCopy'
BY DEF Stays, LoopIds, PendIds, SentIds, OneCopy

\* NetworkLayer::send gives the message an id nobody has.
LEMMA SettlesSend ==
  ASSUME TypeOK, MessageInv, NEW a \in Target, Send(a)
  PROVE  Accepts /\ QueueInv' /\ OneCopy'
<1>. DEFINE c == [kind |-> "send", id |-> nextId, addr |-> a]
<1>1. c \in Command /\ c.kind = "send" /\ c.id = nextId
  BY DEF Command, TypeOK
<1>2. /\ cmdQ' = Append(cmdQ, c) /\ nextId <= MaxMsgs /\ nextId' = nextId + 1
      /\ UNCHANGED <<wire, pending, outbox, errors>>
  BY DEF Send
<1>. HIDE DEF c
<1>3. Older(CmdIds, {c.id})
  BY <1>1 DEF MessageInv, IdsInv, Older
<1>4. CmdIds' = CmdIds \cup {nextId} /\ QueueInv'
  BY <1>1, <1>2, <1>3, QueuePut DEF MessageInv
<1>. QED
  BY <1>2, <1>4 DEF Accepts, LoopIds, PendIds, SentIds, OneCopy, MessageInv

\* What handle_send takes from the queue is in no other place.
LEMMA TakenOnce ==
  ASSUME TypeOK, MessageInv, Take("send"), NEW h, h = Head(cmdQ).id
  PROVE  /\ h \in Nat /\ CmdIds = CmdIds' \cup {h} /\ Older({h}, CmdIds') /\ QueueInv'
         /\ h \in CmdIds /\ CmdIds' = CmdIds \ {h} /\ h \notin LoopIds
<1>1. CmdIds = CmdIds' \cup {h} /\ Older({h}, CmdIds') /\ QueueInv' /\ h \in Nat
  BY QueueTaken, TakeType DEF MessageInv
<1>2. h \notin CmdIds' /\ h \notin LoopIds
  BY <1>1 DEF MessageInv, IdsInv, Older
<1>. QED
  BY <1>1, <1>2

\* handle_send rejects an address.
LEMMA SettlesRejected ==
  ASSUME TypeOK, MessageInv, SendRejected
  PROVE  KeepsRest /\ QueueInv' /\ OneCopy'
<1>. DEFINE h == Head(cmdQ).id
<1>1. /\ Take("send") /\ errors' = Append(errors, h)
      /\ UNCHANGED <<nextId, wire, pending, outbox>>
  BY DEF SendRejected, OnSendError, frontVars
<1>. HIDE DEF h
<1>2. /\ h \in Nat /\ Older({h}, CmdIds') /\ QueueInv' /\ h \in CmdIds
      /\ CmdIds' = CmdIds \ {h} /\ h \notin LoopIds
  BY <1>1, TakenOnce DEF h
<1>3. LoopIds' = LoopIds /\ SentIds' = SentIds /\ OneCopy'
  BY <1>1 DEF LoopIds, PendIds, SentIds, OneCopy, MessageInv
<1>4. FailsAlone(h)
  BY <1>1, <1>2, <1>3 DEF Reports, FailsAlone
<1>. QED
  BY <1>2, <1>3, <1>4 DEF KeepsRest

\* handle_send writes to a peer that is connected.
LEMMA SettlesConnected ==
  ASSUME TypeOK, MessageInv, SendConnected
  PROVE  KeepsRest /\ QueueInv' /\ OneCopy'
<1>. DEFINE h == Head(cmdQ).id
<1>1. /\ Take("send") /\ outbox'.msgs = <<h>> /\ Idle
      /\ UNCHANGED <<nextId, wire, pending, errors>>
  BY DEF SendConnected, frontVars, Take
<1>. HIDE DEF h
<1>2. /\ h \in Nat /\ CmdIds = CmdIds' \cup {h} /\ Older({h}, CmdIds') /\ QueueInv'
      /\ h \notin LoopIds
  BY <1>1, TakenOnce DEF h
<1>3. Elements(outbox'.msgs) = {h} /\ Distinct(outbox'.msgs)
  BY <1>1, OneElement
<1>4. PendIds' = PendIds /\ SentIds' = SentIds /\ LoopIds = PendIds
  BY <1>1, IdleWritesNothing DEF PendIds, SentIds
<1>5. LoopIds' = LoopIds \cup {h}
  BY <1>3, <1>4 DEF LoopIds
<1>6. Takes(h)
  BY <1>1, <1>2, <1>4, <1>5 DEF Takes
<1>7. OneCopy'
  BY <1>1, <1>2, <1>3, <1>4 DEF OneCopy, MessageInv
<1>. QED
  BY <1>2, <1>6, <1>7 DEF KeepsRest

\* handle_send dials a peer: the message waits behind the others, or they are
\* all dropped and this one is reported.
LEMMA SettlesDial ==
  ASSUME TypeOK, MessageInv, SendAndDial
  PROVE  Settles /\ (KeepsRest \/ DialRefused) /\ QueueInv' /\ OneCopy'
<1>. DEFINE h == Head(cmdQ).id
            d == Destination
<1>1. /\ Take("send") /\ d # NoPeer /\ Idle /\ UNCHANGED <<nextId, wire, outbox>>
      /\ \/ pending' = [pending EXCEPT ![d] = Append(@, h)] /\ UNCHANGED errors
         \/ /\ pending' = [[pending EXCEPT ![d] = Append(@, h)] EXCEPT ![d] = <<>>]
            /\ errors' = Append(errors, h)
  BY DialOutcomes DEF Take
<1>2. /\ h \in Nat /\ CmdIds = CmdIds' \cup {h} /\ Older({h}, CmdIds') /\ QueueInv'
      /\ h \in CmdIds /\ CmdIds' = CmdIds \ {h} /\ h \notin LoopIds
  BY <1>1, TakenOnce
<1>3. d \in Peer
  BY <1>1, TakeType
<1>. HIDE DEF h, d
<1>4. /\ SentIds' = SentIds /\ LoopIds = PendIds /\ LoopIds' = PendIds'
      /\ Distinct(outbox'.msgs) /\ Elements(outbox'.msgs) = {}
  BY <1>1, IdleWritesNothing, ElementsType, OneElement DEF LoopIds, SentIds
<1>5. pending \in [Peer -> Seq(Nat)] /\ pending[d] \in Seq(Nat)
  BY <1>3 DEF TypeOK
<1>6. CASE pending' = [pending EXCEPT ![d] = Append(@, h)] /\ UNCHANGED errors
  <2>1. pending'[d] = Append(pending[d], h) /\ \A p \in Peer \ {d} : pending'[p] = pending[p]
    BY <1>3, <1>5, <1>6
  <2>2. Elements(pending'[d]) = Elements(pending[d]) \cup {h} /\ h \notin PendIds
    BY <1>2, <1>4, <1>5, <2>1, ElementsAppend
  <2>3. Distinct(pending'[d])
    <3>1. h \notin Elements(pending[d]) /\ Distinct(pending[d])
      BY <1>3, <2>2 DEF PendIds, OneCopy, MessageInv
    <3>. QED
      BY <1>2, <1>5, <2>1, <3>1, DistinctAppend
  <2>4. PendIds' = PendIds \cup {h}
    BY <1>3, <2>1, <2>2, PendStep
  <2>5. \A p \in Peer \ {d} : h \notin Elements(pending[p])
    BY <2>2 DEF PendIds
  <2>6. OneCopy'
    <3>1. \A p \in Peer : Distinct(pending'[p])
      BY <2>1, <2>3 DEF OneCopy, MessageInv
    <3>2. \A p, q \in Peer : p # q => Elements(pending'[p]) \cap Elements(pending'[q]) = {}
      <4>1. \A p, q \in Peer : p # q => Elements(pending[p]) \cap Elements(pending[q]) = {}
        BY DEF OneCopy, MessageInv
      <4>2. \A p \in Peer \ {d} : Elements(pending'[p]) = Elements(pending[p])
        BY <2>1
      <4>3. \A p \in Peer \ {d} : Elements(pending'[p]) \cap Elements(pending'[d]) = {}
        BY <1>3, <2>2, <2>5, <4>1, <4>2
      <4>. QED
        BY <4>1, <4>2, <4>3
    <3>. QED
      BY <1>4, <3>1, <3>2 DEF OneCopy
  <2>7. Takes(h)
    BY <1>1, <1>2, <1>4, <1>6, <2>4 DEF Takes
  <2>. QED
    BY <1>2, <2>6, <2>7 DEF Settles, KeepsRest
<1>7. CASE /\ pending' = [[pending EXCEPT ![d] = Append(@, h)] EXCEPT ![d] = <<>>]
           /\ errors' = Append(errors, h)
  <2>1. pending'[d] = <<>> /\ \A p \in Peer \ {d} : pending'[p] = pending[p]
    BY <1>3, <1>5, <1>7
  <2>2. /\ PendIds' = PendIds \ Elements(pending[d])
        /\ \A p \in Peer : Distinct(pending'[p])
        /\ \A p, q \in Peer : p # q => Elements(pending'[p]) \cap Elements(pending'[q]) = {}
    BY <1>3, <2>1, PendRemoved DEF MessageInv
  <2>3. OneCopy'
    BY <1>4, <2>2 DEF OneCopy
  <2>4. Reports(h)
    BY <1>1, <1>2, <1>4, <1>7, <2>2 DEF Reports
  <2>5. DialRefused
    BY <1>7 DEF DialRefused, OnSendError, h
  <2>. QED
    BY <1>2, <2>3, <2>4, <2>5 DEF Settles
<1>. QED
  BY <1>1, <1>6, <1>7

\* A connection opens: what waited for it moves to the outbox.
LEMMA SettlesOpens ==
  ASSUME TypeOK, MessageInv, NEW p \in Peer, ConnectionEstablished(p)
  PROVE  Stays /\ QueueInv' /\ OneCopy'
<1>1. /\ Idle /\ pending' = [pending EXCEPT ![p] = <<>>]
      /\ outbox' = IF pending[p] = <<>> THEN Nothing ELSE [peer |-> p, msgs |-> pending[p]]
      /\ UNCHANGED <<nextId, cmdQ, wire, errors>>
  BY DEF ConnectionEstablished, Removed, frontVars
<1>2. outbox'.msgs = pending[p]
  BY <1>1 DEF Nothing
<1>3. pending'[p] = <<>> /\ \A q \in Peer \ {p} : pending'[q] = pending[q]
  BY <1>1 DEF TypeOK
<1>4. /\ PendIds' = PendIds \ Elements(pending[p])
      /\ \A q \in Peer : Distinct(pending'[q])
      /\ \A q, r \in Peer : q # r => Elements(pending'[q]) \cap Elements(pending'[r]) = {}
      /\ Elements(pending[p]) \subseteq PendIds
  BY <1>3, PendRemoved, PendStep DEF MessageInv
<1>5. LoopIds' = LoopIds
  BY <1>1, <1>2, <1>4, IdleWritesNothing DEF LoopIds
<1>6. OneCopy'
  BY <1>2, <1>4 DEF OneCopy, MessageInv
<1>7. CmdIds' = CmdIds /\ QueueInv' /\ SentIds' = SentIds
  BY <1>1 DEF CmdIds, Sends, QueueInv, SentIds, MessageInv
<1>. QED
  BY <1>1, <1>5, <1>6, <1>7 DEF Stays

\* What a write leaves in the outbox.
LEMMA OutboxAfter ==
  ASSUME TypeOK, SendToPeer
  PROVE  /\ outbox.peer \in Peer /\ outbox.msgs \in Seq(Nat) /\ outbox.msgs # <<>>
         /\ outbox'.msgs = Tail(outbox.msgs)
<1>1. /\ outbox \in [peer : Peer, msgs : Seq(Nat) \ {<<>>}] /\ outbox' = AfterFirst(outbox)
  BY DEF SendToPeer, Idle, TypeOK
<1>2. outbox.peer \in Peer /\ outbox.msgs \in Seq(Nat) /\ outbox.msgs # <<>>
  BY <1>1
<1>3. CASE Len(outbox.msgs) = 1
  <2>1. Tail(outbox.msgs) \in Seq(Nat) /\ Len(Tail(outbox.msgs)) = 0
    BY <1>2, <1>3, HeadTailProperties
  <2>2. Tail(outbox.msgs) = <<>>
    BY <2>1, EmptySeq
  <2>. QED
    BY <1>1, <1>2, <1>3, <2>2 DEF AfterFirst, Nothing
<1>4. CASE Len(outbox.msgs) # 1
  BY <1>1, <1>2, <1>4 DEF AfterFirst
<1>. QED
  BY <1>3, <1>4, <1>2

\* One more message on the wire.
LEMMA SentAppend ==
  ASSUME TypeOK, NEW d \in Peer, NEW h \in Nat, wire' = [wire EXCEPT ![d] = Append(@, h)]
  PROVE  SentIds' = SentIds \cup {h}
<1>1. wire \in [Peer -> Seq(Nat)] /\ wire[d] \in Seq(Nat)
  BY DEF TypeOK
<1>2. wire'[d] = Append(wire[d], h) /\ \A p \in Peer \ {d} : wire'[p] = wire[p]
  BY <1>1
<1>3. Elements(wire'[d]) = Elements(wire[d]) \cup {h}
  BY <1>1, <1>2, ElementsAppend
<1>4. SentIds' \subseteq SentIds \cup {h}
  BY <1>2, <1>3 DEF SentIds
<1>5. SentIds \cup {h} \subseteq SentIds'
  BY <1>2, <1>3 DEF SentIds
<1>. QED
  BY <1>4, <1>5

\* send_to_peer settles the first message of the outbox.
LEMMA SettlesWrite ==
  ASSUME TypeOK, MessageInv, SendToPeer
  PROVE  KeepsRest /\ QueueInv' /\ OneCopy'
<1>. DEFINE h == Head(outbox.msgs)
<1>1. /\ outbox.peer \in Peer /\ outbox.msgs \in Seq(Nat) /\ outbox.msgs # <<>>
      /\ outbox'.msgs = Tail(outbox.msgs) /\ Distinct(outbox.msgs)
  BY OutboxAfter DEF MessageInv, OneCopy
<1>2. /\ h \in Nat /\ Elements(outbox.msgs) = {h} \cup Elements(outbox'.msgs)
      /\ Distinct(outbox'.msgs) /\ h \notin Elements(outbox'.msgs)
  BY <1>1, ElementsTail, DistinctTail
<1>3. /\ UNCHANGED <<nextId, cmdQ, pending>>
      /\ \/ wire' = [wire EXCEPT ![outbox.peer] = Append(@, h)] /\ UNCHANGED errors
         \/ /\ errors' = Append(errors, h)
            /\ \/ wire' = [wire EXCEPT ![outbox.peer] = Append(@, h)]
               \/ UNCHANGED wire
  BY WriteOutcomes
<1>. HIDE DEF h
<1>4. PendIds' = PendIds /\ CmdIds' = CmdIds /\ QueueInv'
  BY <1>3 DEF PendIds, CmdIds, Sends, QueueInv, MessageInv
<1>5. /\ h \in LoopIds /\ h \notin PendIds /\ LoopIds' = LoopIds \ {h}
  BY <1>2, <1>4 DEF LoopIds, MessageInv, OneCopy
<1>6. OneCopy'
  BY <1>2, <1>3, <1>4 DEF OneCopy, MessageInv
<1>7. Older({h}, CmdIds) /\ h \notin CmdIds
  BY <1>2, <1>5 DEF MessageInv, IdsInv, Older
<1>8. CASE wire' = [wire EXCEPT ![outbox.peer] = Append(@, h)] /\ UNCHANGED errors
  <2>1. SentIds' = SentIds \cup {h}
    BY <1>1, <1>2, <1>8, SentAppend
  <2>2. Writes(h)
    BY <1>3, <1>4, <1>5, <1>8, <2>1 DEF Writes
  <2>. QED
    BY <1>2, <1>4, <1>6, <2>2 DEF KeepsRest
<1>9. CASE /\ errors' = Append(errors, h)
           /\ \/ wire' = [wire EXCEPT ![outbox.peer] = Append(@, h)]
              \/ UNCHANGED wire
  <2>1. SentIds' \in {SentIds, SentIds \cup {h}}
    <3>1. CASE UNCHANGED wire
      BY <3>1 DEF SentIds
    <3>2. CASE wire' = [wire EXCEPT ![outbox.peer] = Append(@, h)]
      BY <1>1, <1>2, <3>2, SentAppend
    <3>. QED
      BY <1>9, <3>1, <3>2
  <2>2. FailsAlone(h)
    BY <1>3, <1>4, <1>5, <1>7, <1>9, <2>1 DEF Reports, FailsAlone
  <2>. QED
    BY <1>2, <1>4, <1>6, <2>2 DEF KeepsRest
<1>. QED
  BY <1>3, <1>8, <1>9

\* The other steps touch no message: calls, listeners, connections that close,
\* dials that fail, and everything inbound.
LEMMA SettlesAside ==
  ASSUME TypeOK, MessageInv,
         \/ \E a \in ListenAddr : StartListen(a)
         \/ FinishListen \/ HandleListen \/ NewListenAddr \/ ListenerClosed \/ AcceptStream
         \/ \E p \in Peer : ConnectionClosed(p) \/ DialFails(p)
         \/ \E m \in InMsg : RemoteSends(m) \/ HandleIncomingStream(m)
         \/ UNCHANGED vars
  PROVE  Stays /\ QueueInv' /\ OneCopy'
<1>. USE DEF frontVars
<1>1. ASSUME NEW a \in ListenAddr, StartListen(a)
      PROVE  UNCHANGED <<nextId, wire, pending, outbox, errors>> /\ CmdIds' = CmdIds /\ QueueInv'
  <2>. DEFINE c == [kind |-> "listen", id |-> 0, addr |-> a]
  <2>1. c \in Command /\ c.kind # "send"
    BY DEF Command
  <2>2. cmdQ' = Append(cmdQ, c)
    BY <1>1 DEF StartListen
  <2>. HIDE DEF c
  <2>3. CmdIds' = CmdIds /\ QueueInv'
    BY <2>1, <2>2, QueuePut DEF MessageInv
  <2>. QED
    BY <1>1, <2>3 DEF StartListen
<1>2. ASSUME HandleListen
      PROVE  UNCHANGED <<nextId, wire, pending, outbox, errors>> /\ CmdIds' = CmdIds /\ QueueInv'
  <2>1. Take("listen") /\ UNCHANGED <<nextId, wire, pending, outbox, errors>>
    BY <1>2 DEF HandleListen
  <2>2. CmdIds' = CmdIds /\ QueueInv'
    BY <2>1, QueueTaken DEF MessageInv
  <2>. QED
    BY <2>1, <2>2
<1>3. ASSUME \/ FinishListen \/ NewListenAddr \/ ListenerClosed \/ AcceptStream
             \/ \E p \in Peer : ConnectionClosed(p) \/ DialFails(p)
             \/ \E m \in InMsg : RemoteSends(m) \/ HandleIncomingStream(m)
             \/ UNCHANGED vars
      PROVE  UNCHANGED <<nextId, wire, pending, outbox, errors>> /\ CmdIds' = CmdIds /\ QueueInv'
  <2>1. UNCHANGED <<nextId, wire, pending, outbox, errors, cmdQ>>
    BY <1>3 DEF FinishListen, NewListenAddr, ListenerClosed, AcceptStream, ConnectionClosed,
                DialFails, RemoteSends, HandleIncomingStream, vars
  <2>. QED
    BY <2>1 DEF CmdIds, Sends, QueueInv, MessageInv
<1>. QED
  BY <1>1, <1>2, <1>3, NothingMoves DEF MessageInv

\* Every step is one of the kinds.
LEMMA SettlesNext ==
  ASSUME TypeOK, MessageInv, [Next]_vars
  PROVE  Settles /\ (KeepsRest \/ DialRefused) /\ QueueInv' /\ OneCopy'
<1>1. CASE \/ \E a \in ListenAddr : StartListen(a)
           \/ FinishListen \/ HandleListen \/ NewListenAddr \/ ListenerClosed \/ AcceptStream
           \/ \E p \in Peer : ConnectionClosed(p) \/ DialFails(p)
           \/ \E m \in InMsg : RemoteSends(m) \/ HandleIncomingStream(m)
           \/ UNCHANGED vars
  BY <1>1, SettlesAside DEF Settles, KeepsRest
<1>2. CASE \E a \in Target : Send(a)
  BY <1>2, SettlesSend DEF Settles, KeepsRest
<1>3. CASE \E p \in Peer : ConnectionEstablished(p)
  BY <1>3, SettlesOpens DEF Settles, KeepsRest
<1>4. CASE SendRejected \/ SendConnected \/ SendAndDial \/ SendToPeer
  BY <1>4, SettlesRejected, SettlesConnected, SettlesDial, SettlesWrite
  DEF Settles, KeepsRest, FailsAlone
<1>. QED
  BY <1>1, <1>2, <1>3, <1>4 DEF Next

LEMMA MessageInit == Init => MessageInv
<1>. SUFFICES ASSUME Init PROVE MessageInv
  OBVIOUS
<1>1. /\ outbox.msgs = <<>> /\ errors = <<>> /\ cmdQ = <<>>
      /\ \A p \in Peer : pending[p] = <<>> /\ wire[p] = <<>>
  BY DEF Init, Nothing
<1>2. /\ Elements(outbox.msgs) = {} /\ FailedIds = {} /\ Distinct(errors)
      /\ Distinct(outbox.msgs)
      /\ \A p \in Peer : /\ Elements(pending[p]) = {} /\ Elements(wire[p]) = {}
                         /\ Distinct(pending[p])
  BY <1>1, ElementsType, OneElement DEF FailedIds
<1>3. PendIds = {} /\ SentIds = {} /\ LoopIds = {}
  BY <1>2 DEF PendIds, SentIds, LoopIds
<1>4. Sends = {} /\ CmdIds = {}
  BY <1>1 DEF Sends, CmdIds
<1>. QED
  BY <1>2, <1>3, <1>4 DEF MessageInv, QueueInv, OneCopy, IdsInv, Older

LEMMA MessageInvariant == Spec => [](TypeOK /\ MessageInv)
<1>1. TypeOK /\ MessageInv /\ [Next]_vars => MessageInv'
  BY SettlesNext, IdsNext DEF MessageInv
<1>. QED
  BY <1>1, TypeInit, TypeNext, MessageInit, PTL DEF Spec

LEMMA OnItsWayParts ==
  /\ OnItsWay = LoopIds \cup CmdIds /\ OnItsWay' = LoopIds' \cup CmdIds'
<1>1. OnItsWay = LoopIds \cup CmdIds
  BY DEF OnItsWay, LoopIds, PendIds, CmdIds, Sends
<1>2. OnItsWay' = LoopIds' \cup CmdIds'
  BY DEF OnItsWay, LoopIds, PendIds, CmdIds, Sends
<1>. QED
  BY <1>1, <1>2

\* The manager hears of a message that failed once, and of none that may still
\* be written, whatever connections and dials do to the queues in between.
THEOREM OneErrorAMessage == Spec => []ErrorsOnce
<1>1. TypeOK /\ MessageInv => ErrorsOnce
  <2>. SUFFICES ASSUME TypeOK, MessageInv PROVE ErrorsOnce
    OBVIOUS
  <2>1. FailedIds \cap CmdIds = {}
    BY DEF MessageInv, IdsInv, Older
  <2>. QED
    BY <2>1, OnItsWayParts DEF ErrorsOnce, MessageInv, IdsInv, FailedIds, Distinct
<1>. QED
  BY <1>1, MessageInvariant, PTL
-----------------------------------------------------------------------------
(* The promise about messages.                                             *)

FateOf(m) == IF m >= nextId THEN "unborn"
             ELSE IF m \in FailedIds THEN "failed"
             ELSE IF m \in SentIds THEN "sent"
             ELSE IF m \in LoopIds \cup CmdIds THEN "accepted" ELSE "lost"

LEMMA FateByMessage ==
  /\ DOMAIN Fate = 1 .. MaxMsgs /\ Fate = [m \in 1 .. MaxMsgs |-> FateOf(m)]
  /\ Fate' = [m \in 1 .. MaxMsgs |-> FateOf(m)']
BY OnItsWayParts DEF Fate, FateOf, FailedIds, SentIds

\* Each kind of step is a step of the promise, or none.
LEMMA AcceptsOne ==
  ASSUME nextId \in Nat \ {0}, IdsInv, Accepts, NEW id \in Nat, id = nextId
  PROVE  Abstract!Accept(id, "accepted") /\ id \in 1 .. MaxMsgs
<1>1. id \in 1 .. MaxMsgs /\ MaxMsgs \in Nat
  BY LegacyAssumption DEF Accepts, LegacyAssumption
<1>2. FateOf(id) = "unborn"
  BY DEF FateOf
<1>3. \A k \in 1 .. MaxMsgs : k < id => FateOf(k) # "unborn"
  BY DEF FateOf
<1>4. FateOf(id)' = "accepted"
  BY DEF IdsInv, Accepts, FateOf, FailedIds
<1>5. \A k \in 1 .. MaxMsgs : k # id => FateOf(k)' = FateOf(k)
  BY DEF IdsInv, Accepts, FateOf, FailedIds
<1>6. Fate' = [Fate EXCEPT ![id] = "accepted"]
  BY <1>1, <1>4, <1>5, FateByMessage
<1>. QED
  BY <1>1, <1>2, <1>3, <1>6, FateByMessage DEF Abstract!Accept

LEMMA SendsOne ==
  ASSUME nextId \in Nat \ {0}, nextId <= MaxMsgs + 1, IdsInv, NEW id \in Nat, Writes(id)
  PROVE  Abstract!Send(id) /\ id \in 1 .. MaxMsgs
<1>1. id \in 1 .. MaxMsgs /\ id < nextId /\ MaxMsgs \in Nat
  BY LegacyAssumption DEF IdsInv, Writes, LegacyAssumption
<1>2. id \in LoopIds /\ id \notin FailedIds /\ id \notin SentIds
  BY DEF IdsInv, Writes
<1>3. FateOf(id) = "accepted"
  BY <1>1, <1>2 DEF FateOf
<1>4. FateOf(id)' = "sent"
  BY <1>1, <1>2 DEF Writes, FateOf, FailedIds
<1>5. \A k \in 1 .. MaxMsgs : k # id => FateOf(k)' = FateOf(k)
  BY DEF Writes, FateOf, FailedIds
<1>6. Fate' = [Fate EXCEPT ![id] = "sent"]
  BY <1>1, <1>4, <1>5, FateByMessage
<1>. QED
  BY <1>1, <1>3, <1>6, FateByMessage DEF Abstract!Send

LEMMA FailsOne ==
  ASSUME TypeOK, nextId <= MaxMsgs + 1, IdsInv, NEW id \in Nat, Reports(id)
  PROVE  id \in 1 .. MaxMsgs /\ \E lost \in SUBSET (1 .. MaxMsgs) : Abstract!Fail(id, lost)
<1>. DEFINE lost == LoopIds \ (LoopIds' \cup {id})
<1>0. /\ nextId \in Nat \ {0} /\ MaxMsgs \in Nat /\ errors \in Seq(Nat)
      /\ id \in LoopIds \cup CmdIds
  BY LegacyAssumption DEF TypeOK, Reports, LegacyAssumption
<1>1. /\ id \in 1 .. MaxMsgs /\ id < nextId /\ MaxMsgs \in Nat
      /\ lost \in SUBSET (1 .. MaxMsgs) /\ id \notin lost
  <2>1. \A k \in LoopIds \cup CmdIds : k \in 1 .. MaxMsgs /\ k < nextId
    BY <1>0 DEF IdsInv
  <2>. QED
    BY <1>0, <2>1
<1>2. /\ id \in LoopIds \cup CmdIds /\ id \notin FailedIds /\ id \notin SentIds
      /\ LoopIds \cap CmdIds = {}
  <2>1. \A x \in LoopIds \cup SentIds \cup FailedIds : x \notin CmdIds
    <3>1. \A x \in CmdIds : x \in Nat
      BY DEF IdsInv
    <3>. QED
      BY <3>1 DEF IdsInv, Older
  <2>2. \A x \in LoopIds : x \notin SentIds /\ x \notin FailedIds
    BY DEF IdsInv
  <2>. QED
    BY <1>0, <2>1, <2>2
<1>3. FailedIds' = FailedIds \cup {id} /\ nextId' = nextId
  BY <1>0, ElementsAppend DEF Reports, FailedIds
<1>4. FateOf(id) = "accepted"
  <2>1. ~(id >= nextId)
    BY <1>0, <1>1
  <2>. QED
    BY <1>2, <2>1 DEF FateOf
<1>5. ASSUME NEW k \in lost PROVE FateOf(k) = "accepted" /\ FateOf(k)' = "lost"
  <2>1. k \in LoopIds /\ k \notin LoopIds' /\ k # id /\ ~(k >= nextId)
    BY <1>0 DEF IdsInv
  <2>2. k \notin FailedIds /\ k \notin SentIds /\ k \notin CmdIds
    BY <1>2, <2>1 DEF IdsInv
  <2>3. k \notin FailedIds' /\ k \notin SentIds' /\ k \notin CmdIds'
    BY <1>3, <2>1, <2>2 DEF Reports
  <2>. QED
    BY <1>3, <2>1, <2>2, <2>3 DEF FateOf
<1>6. FateOf(id)' = "failed"
  <2>1. ~(id >= nextId')
    BY <1>0, <1>1, <1>3
  <2>. QED
    BY <1>3, <2>1 DEF FateOf
<1>7. ASSUME NEW k \in 1 .. MaxMsgs, k # id, k \notin lost PROVE FateOf(k)' = FateOf(k)
  <2>1. (k \in LoopIds' <=> k \in LoopIds) /\ (k \in CmdIds' <=> k \in CmdIds)
    BY <1>7 DEF Reports
  <2>2. (k \in FailedIds' <=> k \in FailedIds) /\ (k \in SentIds' <=> k \in SentIds)
    BY <1>3, <1>7 DEF Reports
  <2>. QED
    BY <1>3, <2>1, <2>2 DEF FateOf
<1>. HIDE DEF lost
<1>8. Fate' = [k \in 1 .. MaxMsgs |-> IF k = id THEN "failed"
                                      ELSE IF k \in lost THEN "lost" ELSE Fate[k]]
  BY <1>1, <1>5, <1>6, <1>7, FateByMessage
<1>9. Abstract!Fail(id, lost)
  BY <1>1, <1>4, <1>5, <1>8, FateByMessage DEF Abstract!Fail
<1>. QED
  BY <1>1, <1>9

\* Staying where it is, or passing from the queue to the loop, changes no fate.
LEMMA NoneSettles ==
  ASSUME TypeOK, IdsInv, Stays \/ \E id \in Nat : Takes(id)
  PROVE  UNCHANGED Fate /\ nextId' = nextId
<1>1. /\ nextId' = nextId /\ LoopIds' \cup CmdIds' = LoopIds \cup CmdIds
      /\ SentIds' = SentIds /\ FailedIds' = FailedIds
  BY DEF Stays, Takes, FailedIds
<1>2. \A m \in 1 .. MaxMsgs : FateOf(m)' = FateOf(m)
  BY <1>1 DEF FateOf
<1>. QED
  BY <1>1, <1>2, FateByMessage

\* The predecessor implements MessageFate, the promise NetworkActor implements:
\* a message is accepted once, under an id of its own, and settles at most
\* once; only a refused dial loses others with the one it reports.
THEOREM ImplementsMessageFate == Spec => KeepsMessageFate
<1>1. Init => Abstract!Init /\ nextId <= MaxMsgs + 1
  <2>1. Init => \A m \in 1 .. MaxMsgs : FateOf(m) = "unborn"
    BY DEF Init, FateOf
  <2>2. Init => nextId <= MaxMsgs + 1
    BY LegacyAssumption DEF Init, LegacyAssumption
  <2>. QED
    BY <2>1, <2>2, FateByMessage DEF Abstract!Init
<1>2. TypeOK /\ MessageInv /\ nextId <= MaxMsgs + 1 /\ [Next]_vars
        => [Abstract!Next]_Fate /\ (nextId <= MaxMsgs + 1)'
  <2>. SUFFICES ASSUME TypeOK, MessageInv, nextId <= MaxMsgs + 1, [Next]_vars
                PROVE  [Abstract!Next]_Fate /\ (nextId <= MaxMsgs + 1)'
    OBVIOUS
  <2>1. Settles /\ IdsInv /\ nextId \in Nat \ {0} /\ MaxMsgs \in Nat
    BY SettlesNext, LegacyAssumption DEF MessageInv, TypeOK, LegacyAssumption
  <2>2. CASE Stays \/ \E id \in Nat : Takes(id)
    BY <2>1, <2>2, NoneSettles
  <2>3. CASE Accepts
    <3>1. Abstract!Next
      BY <2>1, <2>3, AcceptsOne DEF Abstract!Next
    <3>. QED
      BY <2>1, <2>3, <3>1 DEF Accepts
  <2>4. ASSUME NEW id \in Nat, Writes(id) \/ Reports(id)
        PROVE  [Abstract!Next]_Fate /\ (nextId <= MaxMsgs + 1)'
    <3>1. Abstract!Next
      BY <2>1, <2>4, SendsOne, FailsOne DEF Abstract!Next
    <3>. QED
      BY <2>4, <3>1 DEF Writes, Reports
  <2>. QED
    BY <2>1, <2>2, <2>3, <2>4 DEF Settles
<1>. QED
  BY <1>1, <1>2, MessageInvariant, PTL DEF Spec, KeepsMessageFate, Abstract!Spec
-----------------------------------------------------------------------------
(* What may become of a message in the end.                                *)

Lost == {m \in 1 .. MaxMsgs : Fate[m] = "lost"}

LEMMA LosesNothing ==
  ASSUME TypeOK, KeepsRest
  PROVE  Lost' \subseteq Lost
<1>. SUFFICES ASSUME NEW m \in 1 .. MaxMsgs, FateOf(m)' = "lost"
              PROVE  FateOf(m) = "lost"
  BY FateByMessage DEF Lost
<1>1. /\ ~(m >= nextId') /\ m \notin FailedIds' /\ m \notin SentIds'
      /\ m \notin LoopIds' /\ m \notin CmdIds'
  BY DEF FateOf
<1>2. nextId \in Nat /\ m \in Nat /\ errors \in Seq(Nat)
  BY DEF TypeOK
<1>3. CASE Stays
  BY <1>1, <1>3 DEF Stays, FateOf, FailedIds
<1>4. CASE Accepts
  <2>1. m # nextId /\ ~(m >= nextId)
    BY <1>1, <1>2, <1>4 DEF Accepts
  <2>. QED
    BY <1>1, <1>4, <2>1 DEF Accepts, FateOf, FailedIds
<1>5. ASSUME NEW id \in Nat, Takes(id) \/ Writes(id) PROVE FateOf(m) = "lost"
  BY <1>1, <1>5 DEF Takes, Writes, FateOf, FailedIds
<1>6. ASSUME NEW id \in Nat, FailsAlone(id) PROVE FateOf(m) = "lost"
  <2>1. FailedIds' = FailedIds \cup {id}
    BY <1>2, <1>6, ElementsAppend DEF FailsAlone, Reports, FailedIds
  <2>. QED
    BY <1>1, <1>6, <2>1 DEF FailsAlone, Reports, FateOf
<1>. QED
  BY <1>3, <1>4, <1>5, <1>6 DEF KeepsRest

\* The predecessor loses a message without a callback in one place, the one
\* its successor has kept: a refused dial forgets what waited for the peer.
THEOREM OnlyRefusalsLose == Spec => [][Lost' \subseteq Lost \/ DialRefused]_vars
<1>1. TypeOK /\ MessageInv /\ [Next]_vars => [Lost' \subseteq Lost \/ DialRefused]_vars
  BY SettlesNext, LosesNothing
<1>. QED
  BY <1>1, MessageInvariant, PTL DEF Spec
-----------------------------------------------------------------------------
(* Listening, and meeting.                                                 *)

\* How often something occurs in a sequence that grows.
LEMMA CountAppend ==
  ASSUME NEW S, NEW s \in Seq(S), NEW b \in S, NEW x
  PROVE  /\ Count(s, x) \in Nat
         /\ Count(Append(s, b), x) = Count(s, x) + (IF b = x THEN 1 ELSE 0)
<1>. DEFINE At(t) == {i \in 1 .. Len(t) : t[i] = x}
            n == Len(s) + 1
<1>1. /\ Len(s) \in Nat /\ Len(Append(s, b)) = n
      /\ \A i \in 1 .. Len(s) : Append(s, b)[i] = s[i]
      /\ Append(s, b)[n] = b
  BY AppendProperties, LenProperties
<1>2. n \notin 1 .. Len(s) /\ 1 .. n = (1 .. Len(s)) \cup {n}
  BY <1>1
<1>3. At(Append(s, b)) = IF b = x THEN At(s) \cup {n} ELSE At(s)
  BY <1>1, <1>2
<1>4. IsFiniteSet(At(s)) /\ n \notin At(s)
  <2>1. IsFiniteSet(1 .. Len(s)) /\ At(s) \in SUBSET (1 .. Len(s))
    BY <1>1, FS_Interval
  <2>. QED
    BY <1>2, <2>1, FS_Subset
<1>. HIDE DEF At, n
<1>5. /\ Cardinality(At(s)) \in Nat
      /\ Cardinality(At(s) \cup {n}) = Cardinality(At(s)) + 1
  BY <1>4, FS_CardinalityType, FS_AddElement
<1>6. Count(s, x) = Cardinality(At(s)) /\ Count(Append(s, b), x) = Cardinality(At(Append(s, b)))
  BY DEF Count, At
<1>. QED
  BY <1>3, <1>5, <1>6

Ok(x)   == [res |-> "ok", by |-> x]
Owed(x) == IF call = "ok" /\ answeredBy = x THEN 1 ELSE 0

\* Every success, returned or about to, has the announcement that answered it
\* in local_addrs, and no announcement answers two.
ListenInv ==
  \A x \in Address : Count(returned, Ok(x)) + Owed(x) <= Count(localAddrs, x)

LEMMA CountTypes ==
  ASSUME TypeOK, NEW x \in Address
  PROVE  Count(returned, Ok(x)) \in Nat /\ Count(localAddrs, x) \in Nat
<1>1. returned \in Seq(Result) /\ localAddrs \in Seq(Address) /\ Ok(x) \in Result
  BY DEF TypeOK, Result, Ok
<1>. QED
  BY <1>1, CountAppend

LEMMA ListenNext ==
  ASSUME TypeOK, ListenInv, [Next]_vars
  PROVE  ListenInv'
<1>. SUFFICES ASSUME NEW x \in Address
              PROVE  Count(returned', Ok(x)) + Owed(x)' <= Count(localAddrs', x)
  BY DEF ListenInv, Ok
<1>0. /\ Count(returned, Ok(x)) \in Nat /\ Count(localAddrs, x) \in Nat
      /\ Count(returned, Ok(x)) + Owed(x) <= Count(localAddrs, x)
  BY CountTypes DEF ListenInv
<1>1. ASSUME UNCHANGED <<returned, localAddrs>>,
             call' # "ok" \/ UNCHANGED <<call, answeredBy>>
      PROVE  Count(returned', Ok(x)) + Owed(x)' <= Count(localAddrs', x)
  BY <1>0, <1>1 DEF Owed
<1>2. CASE FinishListen
  <2>1. /\ call \in {"ok", "err"} /\ call' = "none" /\ UNCHANGED localAddrs
        /\ returned' = Append(returned, [res |-> call, by |-> answeredBy])
    BY <1>2 DEF FinishListen
  <2>2. returned \in Seq(Result) /\ [res |-> call, by |-> answeredBy] \in Result
    BY <2>1 DEF TypeOK, Result
  <2>3. [res |-> call, by |-> answeredBy] = Ok(x) <=> call = "ok" /\ answeredBy = x
    BY DEF Ok
  <2>4. Count(returned', Ok(x)) = Count(returned, Ok(x)) + Owed(x)
    BY <2>1, <2>2, <2>3, CountAppend DEF Owed
  <2>5. Owed(x)' = 0
    BY <2>1 DEF Owed
  <2>. QED
    BY <1>0, <2>1, <2>4, <2>5 DEF Owed
<1>3. CASE NewListenAddr
  <2>1. PICK a \in announcing :
          /\ localAddrs' = Append(localAddrs, a.addr)
          /\ \/ call' = "ok" /\ answeredBy' = a.addr
             \/ UNCHANGED <<call, answeredBy>>
    BY <1>3 DEF NewListenAddr, Recorded
  <2>2. localAddrs \in Seq(Address) /\ a.addr \in Address /\ UNCHANGED returned
    BY <1>3 DEF NewListenAddr, TypeOK
  <2>3. Count(localAddrs', x) = Count(localAddrs, x) + (IF a.addr = x THEN 1 ELSE 0)
    BY <2>1, <2>2, CountAppend
  <2>4. Owed(x)' <= Owed(x) + (IF a.addr = x THEN 1 ELSE 0)
    BY <2>1 DEF Owed
  <2>. QED
    BY <1>0, <2>2, <2>3, <2>4 DEF Owed
<1>4. ASSUME \/ \E a \in Target : Send(a)
             \/ \E a \in ListenAddr : StartListen(a)
             \/ SendRejected \/ SendConnected \/ SendAndDial \/ SendToPeer
             \/ ListenerClosed \/ AcceptStream
             \/ \E p \in Peer : ConnectionEstablished(p) \/ ConnectionClosed(p) \/ DialFails(p)
             \/ \E m \in InMsg : RemoteSends(m) \/ HandleIncomingStream(m)
             \/ UNCHANGED vars
      PROVE  /\ UNCHANGED <<returned, localAddrs>>
             /\ call' # "ok" \/ UNCHANGED <<call, answeredBy>>
  BY <1>4 DEF Send, StartListen, SendRejected, SendConnected, SendAndDial, SendToPeer,
              ListenerClosed, AcceptStream, ConnectionEstablished, ConnectionClosed,
              DialFails, RemoteSends, HandleIncomingStream, frontVars, vars
<1>5. ASSUME HandleListen
      PROVE  /\ UNCHANGED <<returned, localAddrs>>
             /\ call' # "ok" \/ UNCHANGED <<call, answeredBy>>
  BY <1>5 DEF HandleListen
<1>. QED
  BY <1>1, <1>2, <1>3, <1>4, <1>5 DEF Next

\* Whoever is told that a listen succeeded finds the address it succeeded
\* with in local_addresses, once for each call that returned on it, although
\* the loop pushes and the caller reads.
THEOREM ListenIsRecorded == Spec => []ListenedIsLocal
<1>1. Init => ListenInv
  <2>. SUFFICES ASSUME Init PROVE ListenInv
    OBVIOUS
  <2>1. \A x : Count(<<>>, x) = 0
    <3>1. \A x : {i \in 1 .. Len(<<>>) : <<>>[i] = x} = {}
      OBVIOUS
    <3>. QED
      BY <3>1, FS_EmptySet DEF Count
  <2>2. returned = <<>> /\ localAddrs = <<>> /\ call = "none"
    BY DEF Init
  <2>. QED
    BY <2>1, <2>2 DEF ListenInv, Owed
<1>2. TypeOK /\ ListenInv => ListenedIsLocal
  <2>. SUFFICES ASSUME TypeOK, ListenInv, NEW i \in 1 .. Len(returned), returned[i].res = "ok"
                PROVE  Count(returned, returned[i]) <= Count(localAddrs, returned[i].by)
    BY DEF ListenedIsLocal, Elements
  <2>1. returned[i] \in Result
    BY DEF TypeOK
  <2>2. returned[i].by \in Address /\ returned[i] = Ok(returned[i].by)
    BY <2>1 DEF Result, Ok
  <2>3. Count(returned, Ok(returned[i].by)) + Owed(returned[i].by)
          <= Count(localAddrs, returned[i].by)
    BY <2>2 DEF ListenInv
  <2>4. /\ Count(returned, Ok(returned[i].by)) \in Nat
        /\ Count(localAddrs, returned[i].by) \in Nat
    BY <2>2, CountTypes
  <2>. QED
    BY <2>2, <2>3, <2>4 DEF Owed
<1>. QED
  BY <1>1, <1>2, ListenNext, TypeCorrect, PTL DEF Spec

\* Who is connected was met, and so was who has parted; whatever arrives is
\* from somebody who was.
MetInv ==
  /\ \A p \in Peer : conns[p] > 0 => p \in met
  /\ \A m \in Elements(incoming) \cup tasks \cup got : From[m] \in met
  /\ parted \subseteq met

LEMMA MetNext ==
  ASSUME TypeOK, MetInv, [Next]_vars
  PROVE  MetInv'
<1>1. CASE UNCHANGED <<conns, met, parted, incoming, tasks, got>>
  BY <1>1 DEF MetInv
<1>2. ASSUME NEW p \in Peer, ConnectionEstablished(p) PROVE MetInv'
  <2>1. /\ conns' = [conns EXCEPT ![p] = @ + 1] /\ met' = met \cup {p}
        /\ UNCHANGED <<parted, incoming, tasks, got>>
    BY <1>2 DEF ConnectionEstablished, TellsOpened, recvVars
  <2>2. \A q \in Peer \ {p} : conns'[q] = conns[q]
    BY <2>1 DEF TypeOK
  <2>. QED
    BY <2>1, <2>2 DEF MetInv
<1>3. ASSUME NEW p \in Peer, ConnectionClosed(p) PROVE MetInv'
  <2>1. /\ conns' = [conns EXCEPT ![p] = @ - 1] /\ conns[p] > 0
        /\ parted' = parted \cup {p} /\ UNCHANGED <<met, incoming, tasks, got>>
    BY <1>3 DEF ConnectionClosed, recvVars
  <2>2. \A q \in Peer : conns'[q] > 0 => conns[q] > 0
    BY <2>1 DEF TypeOK
  <2>. QED
    BY <2>1, <2>2 DEF MetInv
<1>4. ASSUME NEW m \in InMsg, RemoteSends(m) PROVE MetInv'
  <2>1. /\ conns[From[m]] > 0 /\ incoming' = Append(incoming, m)
        /\ UNCHANGED <<conns, told, tasks, got>>
    BY <1>4 DEF RemoteSends, swarmVars
  <2>2. Elements(incoming') = Elements(incoming) \cup {m}
    BY <2>1, ElementsAppend DEF TypeOK
  <2>3. From[m] \in met
    BY <2>1, LegacyAssumption DEF MetInv, LegacyAssumption
  <2>. QED
    BY <2>1, <2>2, <2>3 DEF MetInv, told
<1>5. CASE AcceptStream
  <2>1. /\ incoming # <<>> /\ incoming' = Tail(incoming)
        /\ tasks' = tasks \cup {Head(incoming)} /\ UNCHANGED <<conns, told, got>>
    BY <1>5 DEF AcceptStream, swarmVars
  <2>2. Elements(incoming) = {Head(incoming)} \cup Elements(incoming')
    BY <2>1, ElementsTail DEF TypeOK
  <2>. QED
    BY <2>1, <2>2 DEF MetInv, told
<1>6. ASSUME NEW m \in InMsg, HandleIncomingStream(m) PROVE MetInv'
  <2>1. /\ m \in tasks /\ tasks' \subseteq tasks /\ got' \subseteq got \cup {m}
        /\ UNCHANGED <<conns, told, incoming>>
    BY <1>6 DEF HandleIncomingStream, swarmVars
  <2>. QED
    BY <2>1 DEF MetInv, told
<1>7. ASSUME \/ \E a \in Target : Send(a)
             \/ \E a \in ListenAddr : StartListen(a)
             \/ FinishListen \/ SendRejected \/ SendConnected \/ SendAndDial
             \/ SendToPeer \/ NewListenAddr \/ ListenerClosed
             \/ \E p \in Peer : DialFails(p)
             \/ UNCHANGED vars
      PROVE  UNCHANGED <<conns, met, parted, incoming, tasks, got>>
  BY <1>7 DEF Send, StartListen, FinishListen, SendRejected, SendConnected, SendAndDial,
              SendToPeer, NewListenAddr, ListenerClosed, DialFails, swarmVars, recvVars, told, vars
<1>8. ASSUME HandleListen PROVE UNCHANGED <<conns, met, parted, incoming, tasks, got>>
  BY <1>8 DEF HandleListen, recvVars, told
<1>. QED
  BY <1>1, <1>2, <1>3, <1>4, <1>5, <1>6, <1>7, <1>8 DEF Next

\* on_message is called from a task that races the loop, yet never for a peer
\* whose on_peer_connected is still to come; nor is on_peer_disconnected.
THEOREM MetBeforeHeard == Spec => []MetBeforeMessage
<1>1. Init => MetInv
  BY ElementsType DEF Init, MetInv
<1>2. MetInv => MetBeforeMessage
  BY DEF MetInv, MetBeforeMessage
<1>. QED
  BY <1>1, <1>2, MetNext, TypeCorrect, PTL DEF Spec
=============================================================================
