-------------------------- MODULE MockNetworkProofs --------------------------
(***************************************************************************)
(* Theorems about MockNetwork, for any nodes, addresses and bounds.        *)
(***************************************************************************)
EXTENDS MockNetwork, SequenceTheorems, TLAPS

LogEvent == [type : {"MessageReceived", "SendFailed"}, by : Node, id : Nat]

TypeOK ==
  /\ status \in [Node -> {"none", "up", "dropped"}]
  /\ name \in [Node -> Peer \cup {NoPeer}]
  /\ registry \in [Peer -> Node \cup {NoNode}]
  /\ nextId \in [Node -> Nat \ {0}] /\ failing \in [Node -> Nat]
  /\ inbox \in [Node -> Seq(LogEvent)] /\ seen \in [Node -> Seq(LogEvent)]
  /\ sentTo \in [Node -> Seq(Address)]

\* What the nodes' calls keep, whatever their names.
CallInv ==
  \A n \in Node :
    /\ nextId[n] = Len(sentTo[n]) + 1 /\ nextId[n] <= MaxMsgs + 1
    /\ failing[n] # 0 => status[n] = "up" /\ failing[n] = nextId[n] - 1
    /\ nextId[n] # 1 => status[n] # "none"

\* A name in the registry is the name of the node it leads to.
RegistryInv ==
  /\ \A n \in Node : status[n] # "none" => name[n] \in Clock[n] /\ registry[name[n]] # NoNode
  /\ \A id \in Peer : registry[id] # NoNode =>
       status[registry[id]] # "none" /\ name[registry[id]] = id

\* Events are about messages that were sent and, while a report is due, not
\* about the message it is due for.
LogInv ==
  \A k \in Node : \A i \in 1 .. Len(Log(k)) : LET e == Log(k)[i] IN
    e \in LogEvent /\ e.id \in 1 .. nextId[e.by] - 1 /\ e.id # failing[e.by]

\* The first peer of an address is a peer.
LEMMA FirstPeerType ==
  ASSUME NEW a \in Address
  PROVE  FirstPeerId(a) \in Peer \cup {NoPeer}
<1>1. ASSUME NEW s \in Segment, s.proto = "p2p" PROVE s.val \in Peer
  <2>1. \A h \in Host : s # Ip(h) /\ s # Dns(h)
    BY <1>1 DEF Ip, Dns
  <2>2. Circuit.proto # "p2p"
    BY DEF Circuit
  <2>3. Blank.proto # "p2p"
    BY DEF Blank
  <2>4. PICK p \in Peer : s = P2p(p)
    BY <1>1, <2>1, <2>2, <2>3 DEF Segment
  <2>. QED
    BY <2>4 DEF P2p
<1>2. \A i \in 1 .. Len(a) : IsFirstPeerAt(a, i) => a[i].val \in Peer
  BY <1>1 DEF IsFirstPeerAt, IsPeerAt, Address
<1>. QED
  BY <1>2 DEF FirstPeerId

\* What a node has been told, taken or not.
LEMMA LogType ==
  ASSUME TypeOK, NEW n \in Node
  PROVE  Log(n) \in Seq(LogEvent) /\ Len(Log(n)) \in Nat
BY ConcatProperties, LenProperties DEF TypeOK, Log

LEMMA EventTypes ==
  ASSUME NEW n \in Node, NEW id \in Nat
  PROVE  /\ Received(n, id) \in LogEvent /\ Received(n, id).by = n /\ Received(n, id).id = id
         /\ Failed(n, id) \in LogEvent /\ Failed(n, id).by = n /\ Failed(n, id).id = id
         /\ Received(n, id).type = "MessageReceived" /\ Failed(n, id).type = "SendFailed"
BY DEF LogEvent, Received, Failed

\* Joining three pieces of a log, either way.
LEMMA Regroup ==
  \A r, s, t \in Seq(LogEvent) : (r \o s) \o t = r \o (s \o t)
BY ConcatAssociative

\* Steps by what they put into the logs.
LogKept == \A k \in Node : Log(k)' = Log(k)

LogPut(k, e) ==
  Log(k)' = Append(Log(k), e) /\ \A j \in Node \ {k} : Log(j)' = Log(j)

\* An event for a node that is up goes to the end of its log; for a node that
\* was dropped it goes nowhere.
LEMMA Delivers ==
  ASSUME TypeOK, NEW k \in Node, NEW e \in LogEvent, Deliver(k, e), UNCHANGED seen
  PROVE  /\ inbox' \in [Node -> Seq(LogEvent)]
         /\ IF status[k] = "up" THEN LogPut(k, e) ELSE LogKept
<1>1. CASE status[k] = "up"
  <2>1. inbox' = [inbox EXCEPT ![k] = Append(@, e)] /\ inbox \in [Node -> Seq(LogEvent)]
    BY <1>1 DEF Deliver, TypeOK
  <2>2. inbox[k] \in Seq(LogEvent) /\ seen[k] \in Seq(LogEvent)
    BY DEF TypeOK
  <2>3. inbox'[k] = Append(inbox[k], e) /\ \A j \in Node \ {k} : inbox'[j] = inbox[j]
    BY <2>1
  <2>4. Append(inbox[k], e) \in Seq(LogEvent)
    BY <2>2
  <2>5. Log(k)' = Append(Log(k), e)
    <3>1. Append(inbox[k], e) = inbox[k] \o <<e>> /\ <<e>> \in Seq(LogEvent)
      BY <2>2, AppendIsConcat
    <3>2. seen[k] \o (inbox[k] \o <<e>>) = (seen[k] \o inbox[k]) \o <<e>>
      BY <2>2, <3>1, Regroup
    <3>3. Append(Log(k), e) = Log(k) \o <<e>>
      <4>1. Log(k) \in Seq(LogEvent)
        BY LogType
      <4>. QED
        BY <4>1, AppendIsConcat
    <3>4. Log(k)' = seen[k] \o Append(inbox[k], e) /\ Log(k) = seen[k] \o inbox[k]
      BY <2>3 DEF Log
    <3>. QED
      BY <3>1, <3>2, <3>3, <3>4
  <2>6. inbox' \in [Node -> Seq(LogEvent)]
    BY <2>1, <2>4
  <2>. QED
    BY <1>1, <2>3, <2>5, <2>6 DEF LogPut, Log
<1>2. CASE status[k] # "up"
  BY <1>2 DEF Deliver, TypeOK, LogKept, Log
<1>. QED
  BY <1>1, <1>2

\* An event that is taken stays in the log.
LEMMA Takes ==
  ASSUME TypeOK, NEW n \in Node, TryRecvEvent(n)
  PROVE  /\ inbox' \in [Node -> Seq(LogEvent)] /\ seen' \in [Node -> Seq(LogEvent)]
         /\ LogKept
<1>1. /\ inbox[n] \in Seq(LogEvent) /\ seen[n] \in Seq(LogEvent) /\ inbox[n] # <<>>
      /\ inbox' = [inbox EXCEPT ![n] = Tail(@)]
      /\ seen' = [seen EXCEPT ![n] = Append(@, Head(inbox[n]))]
  BY DEF TypeOK, TryRecvEvent
<1>. DEFINE h == Head(inbox[n])
            t == Tail(inbox[n])
<1>2. h \in LogEvent /\ t \in Seq(LogEvent)
  BY <1>1, HeadTailProperties
<1>3. inbox[n] = <<h>> \o t
  <2>1. <<h>> \o t \in Seq(LogEvent) /\ Len(<<h>> \o t) = 1 + Len(t)
        /\ \A i \in 1 .. 1 + Len(t) : (<<h>> \o t)[i] = IF i <= 1 THEN <<h>>[i] ELSE t[i - 1]
    BY <1>2, ConcatProperties
  <2>2. /\ Len(t) = Len(inbox[n]) - 1 /\ Len(inbox[n]) \in Nat \ {0}
        /\ \A i \in 1 .. Len(t) : t[i] = inbox[n][i + 1]
        /\ h = inbox[n][1]
    BY <1>1, HeadTailProperties, EmptySeq
  <2>3. \A i \in 1 .. Len(inbox[n]) : i # 1 => i - 1 \in 1 .. Len(t) /\ (i - 1) + 1 = i
    BY <2>2
  <2>4. Len(<<h>> \o t) = Len(inbox[n])
    BY <2>1, <2>2
  <2>5. \A i \in 1 .. Len(inbox[n]) : (<<h>> \o t)[i] = inbox[n][i]
    <3>. SUFFICES ASSUME NEW i \in 1 .. Len(inbox[n])
                  PROVE  (<<h>> \o t)[i] = inbox[n][i]
      OBVIOUS
    <3>. HIDE DEF h, t
    <3>1. i \in 1 .. 1 + Len(t)
      BY <2>2
    <3>2. CASE i = 1
      BY <2>1, <2>2, <3>1, <3>2
    <3>3. CASE i # 1
      <4>1. t[i - 1] = inbox[n][(i - 1) + 1] /\ (i - 1) + 1 = i /\ ~(i <= 1)
        BY <2>2, <2>3, <3>3
      <4>. QED
        BY <2>1, <3>1, <4>1
    <3>. QED
      BY <3>2, <3>3
  <2>. DEFINE s == <<h>> \o t
  <2>6. s \in Seq(LogEvent) /\ Len(inbox[n]) = Len(s)
        /\ \A i \in 1 .. Len(inbox[n]) : inbox[n][i] = s[i]
    BY <2>1, <2>4, <2>5
  <2>. HIDE DEF s
  <2>7. inbox[n] = s
    BY <1>1, <2>6, SeqEqual
  <2>. QED
    BY <2>7 DEF s
<1>4. /\ inbox'[n] = t /\ seen'[n] = Append(seen[n], h)
      /\ \A k \in Node \ {n} : inbox'[k] = inbox[k] /\ seen'[k] = seen[k]
  BY <1>1 DEF TypeOK
<1>5. inbox' \in [Node -> Seq(LogEvent)] /\ seen' \in [Node -> Seq(LogEvent)]
  <2>1. Append(seen[n], h) \in Seq(LogEvent)
    BY <1>1, <1>2
  <2>. QED
    BY <1>1, <1>2, <2>1 DEF TypeOK
<1>. HIDE DEF h, t
<1>6. Log(n)' = Log(n)
  <2>1. Append(seen[n], h) = seen[n] \o <<h>> /\ <<h>> \in Seq(LogEvent)
    BY <1>1, <1>2, AppendIsConcat
  <2>2. (seen[n] \o <<h>>) \o t = seen[n] \o (<<h>> \o t)
    BY <1>1, <1>2, <2>1, Regroup
  <2>3. Log(n)' = Append(seen[n], h) \o t /\ Log(n) = seen[n] \o inbox[n]
    BY <1>4 DEF Log
  <2>. QED
    BY <1>3, <2>1, <2>2, <2>3
<1>. QED
  BY <1>4, <1>5, <1>6 DEF LogKept, Log
-----------------------------------------------------------------------------
(* What a step means for the logs and the calls.                           *)

IInv == TypeOK /\ CallInv /\ RegistryInv /\ LogInv

PutIfUp(k, e) == IF status[k] = "up" THEN LogPut(k, e) ELSE LogKept

Home(n) == registry[name[n]]

\* A step that is about no message.  A node that was dropped stays so.
Quiet ==
  /\ LogKept /\ UNCHANGED <<nextId, failing, sentTo>>
  /\ \A k \in Node : status[k] = "dropped" => status'[k] = "dropped"
  /\ \A k \in Node : status[k] # "none" => status'[k] # "none" /\ name'[k] = name[k]
  /\ \A k \in Node : failing[k] # 0 => status'[k] = status[k]

\* A call of SendMessage, with its event if it has one at once.
Sends(n, addr) ==
  /\ nextId[n] <= MaxMsgs /\ failing[n] = 0 /\ status[n] = "up"
  /\ nextId' = [nextId EXCEPT ![n] = @ + 1]
  /\ sentTo' = [sentTo EXCEPT ![n] = Append(@, addr)]
  /\ UNCHANGED <<status, name, registry>>
  /\ \/ /\ UNCHANGED failing
        /\ \E k \in Node : /\ name[k] = FirstPeerId(addr) /\ status[k] # "none"
                           /\ PutIfUp(k, Received(n, nextId[n]))
     \/ LogKept /\ failing' = [failing EXCEPT ![n] = nextId[n]]
     \/ UNCHANGED failing /\ PutIfUp(Home(n), Failed(n, nextId[n]))

\* The report that was due.
Tells(n) ==
  /\ failing[n] # 0 /\ failing' = [failing EXCEPT ![n] = 0]
  /\ UNCHANGED <<status, name, registry, nextId, sentTo>>
  /\ PutIfUp(Home(n), Failed(n, failing[n]))

\* A node that has a name has a home in the registry.
LEMMA HomeType ==
  ASSUME TypeOK, RegistryInv, NEW n \in Node, status[n] # "none"
  PROVE  /\ Home(n) \in Node /\ status[Home(n)] # "none" /\ name[Home(n)] = name[n]
         /\ name[n] \in Peer
BY MockAssumption DEF TypeOK, RegistryInv, Home, MockAssumption

LEMMA SendMessageStep ==
  ASSUME TypeOK, RegistryInv, NEW n \in Node, NEW addr \in Target, SendMessage(n, addr)
  PROVE  Sends(n, addr) /\ inbox' \in [Node -> Seq(LogEvent)]
<1>. DEFINE id == nextId[n]
            target == FirstPeerId(addr)
<1>1. /\ id \in Nat /\ target \in Peer \cup {NoPeer} /\ UNCHANGED <<status, name, registry, seen>>
      /\ id <= MaxMsgs /\ failing[n] = 0 /\ status[n] = "up"
      /\ nextId' = [nextId EXCEPT ![n] = @ + 1]
      /\ sentTo' = [sentTo EXCEPT ![n] = Append(@, addr)]
  BY FirstPeerType, MockAssumption DEF TypeOK, SendMessage, Ready, MockAssumption
<1>2. Received(n, id) \in LogEvent /\ Failed(n, id) \in LogEvent
  BY <1>1, EventTypes
<1>3. Home(n) \in Node
  BY <1>1, HomeType
<1>4. CASE target # NoPeer /\ registry[target] # NoNode /\ UNCHANGED failing
           /\ Deliver(registry[target], Received(n, id))
  <2>1. /\ registry[target] \in Node /\ status[registry[target]] # "none"
        /\ name[registry[target]] = target
    BY <1>1, <1>4 DEF TypeOK, RegistryInv
  <2>2. /\ inbox' \in [Node -> Seq(LogEvent)]
        /\ PutIfUp(registry[target], Received(n, id))
    BY <1>1, <1>2, <1>4, <2>1, Delivers DEF PutIfUp
  <2>. QED
    BY <1>1, <1>4, <2>1, <2>2 DEF Sends
<1>5. CASE failing' = [failing EXCEPT ![n] = id] /\ UNCHANGED inbox
  BY <1>1, <1>5 DEF Sends, LogKept, Log, TypeOK
<1>6. CASE Deliver(registry[name[n]], Failed(n, id)) /\ UNCHANGED failing
  <2>1. inbox' \in [Node -> Seq(LogEvent)] /\ PutIfUp(Home(n), Failed(n, id))
    BY <1>1, <1>2, <1>3, <1>6, Delivers DEF PutIfUp, Home
  <2>. QED
    BY <1>1, <1>6, <2>1 DEF Sends
<1>. QED
  BY <1>4, <1>5, <1>6 DEF SendMessage

LEMMA ReportFailureStep ==
  ASSUME TypeOK, CallInv, RegistryInv, NEW n \in Node, ReportFailure(n)
  PROVE  Tells(n) /\ inbox' \in [Node -> Seq(LogEvent)]
<1>1. /\ failing[n] # 0 /\ failing[n] \in Nat /\ status[n] = "up"
      /\ failing' = [failing EXCEPT ![n] = 0]
      /\ UNCHANGED <<status, name, registry, nextId, sentTo, seen>>
      /\ Deliver(Home(n), Failed(n, failing[n]))
  BY DEF ReportFailure, CallInv, TypeOK, Home
<1>2. Home(n) \in Node /\ Failed(n, failing[n]) \in LogEvent
  BY <1>1, HomeType, EventTypes
<1>. QED
  BY <1>1, <1>2, Delivers DEF Tells, PutIfUp

LEMMA QuietSteps ==
  ASSUME TypeOK, CallInv, NEW n \in Node,
         (\E id \in Peer : New(n, id)) \/ Drop(n) \/ Listen(n) \/ TryRecvEvent(n)
  PROVE  Quiet /\ inbox' \in [Node -> Seq(LogEvent)] /\ seen' \in [Node -> Seq(LogEvent)]
<1>1. CASE \E id \in Peer : New(n, id)
  <2>1. /\ UNCHANGED <<inbox, seen, nextId, failing, sentTo>> /\ status[n] = "none"
        /\ \A k \in Node \ {n} : status'[k] = status[k] /\ name'[k] = name[k]
    BY <1>1 DEF New, TypeOK
  <2>. QED
    BY <2>1 DEF Quiet, LogKept, Log, TypeOK, CallInv
<1>2. CASE Drop(n)
  <2>1. /\ UNCHANGED <<inbox, seen, nextId, failing, sentTo, name>> /\ failing[n] = 0
        /\ status'[n] = "dropped" /\ \A k \in Node \ {n} : status'[k] = status[k]
    BY <1>2 DEF Drop, TypeOK
  <2>. QED
    BY <2>1 DEF Quiet, LogKept, Log, TypeOK
<1>3. CASE Listen(n)
  BY <1>3 DEF Listen, Quiet, LogKept, Log, TypeOK
<1>4. CASE TryRecvEvent(n)
  BY <1>4, Takes DEF TryRecvEvent, Quiet
<1>. QED
  BY <1>1, <1>2, <1>3, <1>4

StepKind == \/ Quiet
            \/ \E n \in Node : Tells(n) \/ \E addr \in Target : Sends(n, addr)

LEMMA StepKinds ==
  ASSUME TypeOK, CallInv, RegistryInv, [Next]_vars
  PROVE  StepKind /\ inbox' \in [Node -> Seq(LogEvent)] /\ seen' \in [Node -> Seq(LogEvent)]
<1>1. CASE UNCHANGED vars
  BY <1>1 DEF vars, StepKind, Quiet, LogKept, Log, TypeOK
<1>2. ASSUME NEW n \in Node, NEW addr \in Target, SendMessage(n, addr)
      PROVE  Sends(n, addr) /\ inbox' \in [Node -> Seq(LogEvent)] /\ UNCHANGED seen
  BY <1>2, SendMessageStep DEF SendMessage
<1>3. ASSUME NEW n \in Node, ReportFailure(n)
      PROVE  Tells(n) /\ inbox' \in [Node -> Seq(LogEvent)] /\ UNCHANGED seen
  BY <1>3, ReportFailureStep DEF ReportFailure
<1>4. seen \in [Node -> Seq(LogEvent)]
  BY DEF TypeOK
<1>. QED
  BY <1>1, <1>2, <1>3, <1>4, QuietSteps DEF Next, StepKind

LEMMA TypeNext ==
  ASSUME TypeOK, CallInv, RegistryInv, [Next]_vars
  PROVE  TypeOK'
<1>1. inbox' \in [Node -> Seq(LogEvent)] /\ seen' \in [Node -> Seq(LogEvent)]
  BY StepKinds
<1>2. /\ status' \in [Node -> {"none", "up", "dropped"}]
      /\ name' \in [Node -> Peer \cup {NoPeer}] /\ registry' \in [Peer -> Node \cup {NoNode}]
  <2>1. CASE UNCHANGED <<status, name, registry>>
    BY <2>1 DEF TypeOK
  <2>2. ASSUME NEW n \in Node, NEW id \in Peer, New(n, id)
        PROVE  /\ status' \in [Node -> {"none", "up", "dropped"}]
               /\ name' \in [Node -> Peer \cup {NoPeer}]
               /\ registry' \in [Peer -> Node \cup {NoNode}]
    BY <2>2 DEF New, TypeOK
  <2>3. ASSUME NEW n \in Node, Drop(n)
        PROVE  status' \in [Node -> {"none", "up", "dropped"}] /\ UNCHANGED <<name, registry>>
    BY <2>3 DEF Drop, TypeOK
  <2>4. name \in [Node -> Peer \cup {NoPeer}] /\ registry \in [Peer -> Node \cup {NoNode}]
    BY DEF TypeOK
  <2>. QED
    BY <2>1, <2>2, <2>3, <2>4
    DEF Next, Listen, SendMessage, ReportFailure, TryRecvEvent, vars
<1>3. /\ nextId' \in [Node -> Nat \ {0}] /\ failing' \in [Node -> Nat]
      /\ sentTo' \in [Node -> Seq(Address)]
  <2>1. CASE UNCHANGED <<nextId, failing, sentTo>>
    BY <2>1 DEF TypeOK
  <2>2. ASSUME NEW n \in Node, NEW addr \in Target, Sends(n, addr)
        PROVE  /\ nextId' \in [Node -> Nat \ {0}] /\ failing' \in [Node -> Nat]
               /\ sentTo' \in [Node -> Seq(Address)]
    <3>1. addr \in Address /\ sentTo[n] \in Seq(Address) /\ nextId[n] \in Nat \ {0}
      BY MockAssumption DEF TypeOK, MockAssumption
    <3>2. Append(sentTo[n], addr) \in Seq(Address) /\ nextId[n] + 1 \in Nat \ {0}
      BY <3>1, AppendProperties
    <3>3. failing' = failing \/ failing' = [failing EXCEPT ![n] = nextId[n]]
      BY <2>2 DEF Sends
    <3>. QED
      BY <2>2, <3>1, <3>2, <3>3 DEF Sends, TypeOK
  <2>3. ASSUME NEW n \in Node, Tells(n)
        PROVE  /\ nextId' \in [Node -> Nat \ {0}] /\ failing' \in [Node -> Nat]
               /\ sentTo' \in [Node -> Seq(Address)]
    BY <2>3 DEF Tells, TypeOK
  <2>. QED
    BY <2>1, <2>2, <2>3, StepKinds DEF StepKind, Quiet
<1>. QED
  BY <1>1, <1>2, <1>3 DEF TypeOK

LEMMA CallNext ==
  ASSUME TypeOK, CallInv, RegistryInv, [Next]_vars
  PROVE  CallInv'
<1>1. CASE Quiet
  BY <1>1 DEF Quiet, CallInv
<1>2. ASSUME NEW n \in Node, NEW addr \in Target, Sends(n, addr) PROVE CallInv'
  <2>1. addr \in Address /\ sentTo[n] \in Seq(Address) /\ nextId[n] \in Nat \ {0}
    BY MockAssumption DEF TypeOK, MockAssumption
  <2>2. /\ Len(Append(sentTo[n], addr)) = Len(sentTo[n]) + 1 /\ Len(sentTo[n]) \in Nat
    BY <2>1, AppendProperties, LenProperties
  <2>3. /\ nextId'[n] = nextId[n] + 1 /\ sentTo'[n] = Append(sentTo[n], addr)
        /\ failing'[n] \in {0, nextId[n]}
        /\ \A k \in Node \ {n} : /\ nextId'[k] = nextId[k] /\ sentTo'[k] = sentTo[k]
                                 /\ failing'[k] = failing[k]
    BY <1>2 DEF Sends, TypeOK
  <2>4. nextId[n] <= MaxMsgs /\ status[n] = "up" /\ UNCHANGED status /\ MaxMsgs \in Nat
    BY <1>2, MockAssumption DEF Sends, MockAssumption
  <2>5. /\ nextId'[n] = Len(sentTo'[n]) + 1 /\ nextId'[n] <= MaxMsgs + 1
        /\ failing'[n] # 0 => status'[n] = "up" /\ failing'[n] = nextId'[n] - 1
        /\ nextId'[n] # 1 => status'[n] # "none"
    BY <2>1, <2>2, <2>3, <2>4 DEF CallInv
  <2>6. ASSUME NEW k \in Node \ {n}
        PROVE  /\ nextId'[k] = Len(sentTo'[k]) + 1 /\ nextId'[k] <= MaxMsgs + 1
               /\ failing'[k] # 0 => status'[k] = "up" /\ failing'[k] = nextId'[k] - 1
               /\ nextId'[k] # 1 => status'[k] # "none"
    BY <2>3, <2>4 DEF CallInv
  <2>. QED
    BY <2>5, <2>6 DEF CallInv
<1>3. ASSUME NEW n \in Node, Tells(n) PROVE CallInv'
  BY <1>3 DEF Tells, TypeOK, CallInv
<1>. QED
  BY <1>1, <1>2, <1>3, StepKinds DEF StepKind

LEMMA RegistryNext ==
  ASSUME TypeOK, RegistryInv, [Next]_vars
  PROVE  RegistryInv'
<1>1. ASSUME NEW n \in Node, NEW id \in Peer, New(n, id) PROVE RegistryInv'
  <2>1. /\ status[n] = "none" /\ id \in Clock[n]
        /\ status'[n] = "up" /\ name'[n] = id /\ registry'[id] = n /\ n # NoNode
        /\ \A k \in Node \ {n} : status'[k] = status[k] /\ name'[k] = name[k]
        /\ \A p \in Peer \ {id} : registry'[p] = registry[p]
    BY <1>1, MockAssumption DEF New, TypeOK, MockAssumption
  <2>2. \A k \in Node : status'[k] # "none" => name'[k] \in Clock[k] /\ registry'[name'[k]] # NoNode
    BY <2>1, MockAssumption DEF RegistryInv, MockAssumption
  <2>3. \A p \in Peer : registry'[p] # NoNode =>
          status'[registry'[p]] # "none" /\ name'[registry'[p]] = p
    <3>. SUFFICES ASSUME NEW p \in Peer, p # id, registry[p] # NoNode
                  PROVE  status'[registry[p]] # "none" /\ name'[registry[p]] = p
      BY <2>1
    <3>1. registry[p] \in Node /\ status[registry[p]] # "none" /\ name[registry[p]] = p
      BY DEF TypeOK, RegistryInv
    <3>. QED
      BY <2>1, <3>1
  <2>. QED
    BY <2>2, <2>3 DEF RegistryInv
<1>2. ASSUME NEW n \in Node, Drop(n) PROVE RegistryInv'
  <2>1. /\ UNCHANGED <<name, registry>> /\ status[n] = "up" /\ status'[n] = "dropped"
        /\ \A k \in Node \ {n} : status'[k] = status[k]
    BY <1>2 DEF Drop, TypeOK
  <2>. QED
    BY <2>1 DEF RegistryInv, TypeOK
<1>3. CASE UNCHANGED <<status, name, registry>>
  BY <1>3 DEF RegistryInv
<1>. QED
  BY <1>1, <1>2, <1>3 DEF Next, Listen, SendMessage, ReportFailure, TryRecvEvent, vars
-----------------------------------------------------------------------------
(* The logs.                                                               *)

\* An event newer than all those about the same sender.
Newest(e) ==
  \A k \in Node : \A i \in 1 .. Len(Log(k)) : Log(k)[i].by = e.by => Log(k)[i].id < e.id

LEMMA Appended ==
  ASSUME TypeOK, NEW k \in Node, NEW e \in LogEvent, LogPut(k, e)
  PROVE  /\ Len(Log(k)) \in Nat /\ Len(Log(k)') = Len(Log(k)) + 1
         /\ \A i \in 1 .. Len(Log(k)) : Log(k)'[i] = Log(k)[i]
         /\ Log(k)'[Len(Log(k)) + 1] = e
<1>1. Log(k) \in Seq(LogEvent) /\ Log(k)' = Append(Log(k), e)
  BY LogType DEF LogPut
<1>. QED
  BY <1>1, AppendProperties, LenProperties

LEMMA LoggedStep ==
  ASSUME TypeOK
  PROVE  /\ LogKept => Logged' = Logged
         /\ \A k \in Node, e \in LogEvent : LogPut(k, e) => Logged' = Logged \cup {e}
<1>1. LogKept => Logged' = Logged
  BY DEF LogKept, Logged
<1>2. ASSUME NEW k \in Node, NEW e \in LogEvent, LogPut(k, e)
      PROVE  Logged' = Logged \cup {e}
  <2>1. /\ Len(Log(k)) \in Nat /\ Len(Log(k)') = Len(Log(k)) + 1
        /\ \A i \in 1 .. Len(Log(k)) : Log(k)'[i] = Log(k)[i]
        /\ Log(k)'[Len(Log(k)) + 1] = e
    BY <1>2, Appended
  <2>2. {Log(k)'[i] : i \in 1 .. Len(Log(k)')} = {Log(k)[i] : i \in 1 .. Len(Log(k))} \cup {e}
    <3>1. \A i \in 1 .. Len(Log(k)') : i \in 1 .. Len(Log(k)) \/ i = Len(Log(k)) + 1
      BY <2>1
    <3>2. /\ \A i \in 1 .. Len(Log(k)) : i \in 1 .. Len(Log(k)')
          /\ Len(Log(k)) + 1 \in 1 .. Len(Log(k)')
      BY <2>1
    <3>. QED
      BY <2>1, <3>1, <3>2
  <2>3. \A j \in Node \ {k} : Log(j)' = Log(j)
    BY <1>2 DEF LogPut
  <2>4. Logged' \subseteq Logged \cup {e}
    BY <2>2, <2>3 DEF Logged
  <2>5. Logged \subseteq Logged' /\ e \in Logged'
    BY <2>2, <2>3 DEF Logged
  <2>. QED
    BY <2>4, <2>5
<1>. QED
  BY <1>1, <1>2

\* A step puts at most one event into one log, the newest about its sender,
\* who has no other report due for it.
PutStep ==
  \/ LogKept
  \/ \E k \in Node : \E e \in LogEvent :
       LogPut(k, e) /\ Newest(e) /\ e.id \in 1 .. nextId'[e.by] - 1 /\ e.id # failing'[e.by]

LEMMA PutSteps ==
  ASSUME IInv, StepKind
  PROVE  /\ PutStep
         /\ \A n \in Node : /\ nextId'[n] \in {nextId[n], nextId[n] + 1}
                            /\ failing'[n] \in {0, failing[n], nextId[n]}
<1>. USE DEF IInv
<1>1. CASE Quiet
  BY <1>1 DEF Quiet, PutStep
<1>2. ASSUME NEW n \in Node, NEW addr \in Target, Sends(n, addr)
      PROVE  /\ PutStep
             /\ \A k \in Node : /\ nextId'[k] \in {nextId[k], nextId[k] + 1}
                                /\ failing'[k] \in {0, failing[k], nextId[k]}
  <2>1. /\ nextId[n] \in Nat \ {0} /\ nextId' = [nextId EXCEPT ![n] = @ + 1]
        /\ nextId'[n] = nextId[n] + 1
        /\ failing[n] = 0 /\ status[n] = "up"
        /\ failing' = failing \/ failing' = [failing EXCEPT ![n] = nextId[n]]
    BY <1>2 DEF Sends, TypeOK
  <2>2. \A k \in Node : /\ nextId'[k] \in {nextId[k], nextId[k] + 1}
                        /\ failing'[k] \in {0, failing[k], nextId[k]}
    BY <2>1 DEF TypeOK
  <2>3. \A k \in Node : \A i \in 1 .. Len(Log(k)) : Log(k)[i].by = n => Log(k)[i].id < nextId[n]
    BY <2>1 DEF LogInv
  <2>4. ASSUME NEW k \in Node, NEW e \in {Received(n, nextId[n]), Failed(n, nextId[n])},
               PutIfUp(k, e), UNCHANGED failing
        PROVE  PutStep
    <3>1. e \in LogEvent /\ e.by = n /\ e.id = nextId[n]
      BY <2>1, EventTypes
    <3>2. Newest(e)
      BY <2>3, <3>1 DEF Newest
    <3>3. e.id \in 1 .. nextId'[e.by] - 1 /\ e.id # failing'[e.by]
      BY <2>1, <2>4, <3>1
    <3>. QED
      BY <2>4, <3>1, <3>2, <3>3 DEF PutStep, PutIfUp
  <2>5. Home(n) \in Node
    BY <2>1, HomeType
  <2>. QED
    BY <1>2, <2>2, <2>4, <2>5 DEF Sends, PutStep
<1>3. ASSUME NEW n \in Node, Tells(n)
      PROVE  /\ PutStep
             /\ \A k \in Node : /\ nextId'[k] \in {nextId[k], nextId[k] + 1}
                                /\ failing'[k] \in {0, failing[k], nextId[k]}
  <2>. DEFINE e == Failed(n, failing[n])
  <2>1. /\ failing[n] \in Nat \ {0} /\ failing' = [failing EXCEPT ![n] = 0]
        /\ UNCHANGED nextId /\ failing'[n] = 0
        /\ status[n] = "up" /\ failing[n] = nextId[n] - 1 /\ nextId[n] \in Nat
    BY <1>3 DEF Tells, CallInv, TypeOK
  <2>2. Home(n) \in Node
    BY <2>1, HomeType
  <2>3. e \in LogEvent /\ e.by = n /\ e.id = failing[n]
    BY <2>1, EventTypes
  <2>4. PutIfUp(Home(n), e)
    BY <1>3 DEF Tells
  <2>. HIDE DEF e
  <2>5. Newest(e)
    <3>. SUFFICES ASSUME NEW k \in Node, NEW i \in 1 .. Len(Log(k)), Log(k)[i].by = n
                  PROVE  Log(k)[i].id < failing[n]
      BY <2>3 DEF Newest
    <3>1. Log(k)[i].id \in 1 .. nextId[n] - 1 /\ Log(k)[i].id # failing[n]
      BY DEF LogInv
    <3>. QED
      BY <2>1, <3>1
  <2>6. PutStep
    BY <2>1, <2>2, <2>3, <2>4, <2>5 DEF PutStep, PutIfUp
  <2>. QED
    BY <2>1, <2>6 DEF TypeOK
<1>. QED
  BY <1>1, <1>2, <1>3 DEF StepKind

LEMMA LogNext ==
  ASSUME IInv, StepKind
  PROVE  LogInv'
<1>1. /\ PutStep
      /\ \A n \in Node : /\ nextId'[n] \in {nextId[n], nextId[n] + 1}
                         /\ failing'[n] \in {0, failing[n], nextId[n]}
  BY PutSteps
<1>2. ASSUME NEW k \in Node, NEW i \in 1 .. Len(Log(k))
      PROVE  LET e == Log(k)[i] IN
             e \in LogEvent /\ e.id \in 1 .. nextId'[e.by] - 1 /\ e.id # failing'[e.by]
  <2>. DEFINE e == Log(k)[i]
  <2>1. e \in LogEvent /\ e.id \in 1 .. nextId[e.by] - 1 /\ e.id # failing[e.by] /\ e.by \in Node
    BY DEF IInv, LogInv, LogEvent
  <2>2. nextId[e.by] \in Nat
    BY <2>1 DEF IInv, TypeOK
  <2>. HIDE DEF e
  <2>3. e.id \in 1 .. nextId'[e.by] - 1 /\ e.id # failing'[e.by]
    BY <1>1, <2>1, <2>2
  <2>. QED
    BY <2>1, <2>3 DEF e
<1>3. CASE LogKept
  BY <1>2, <1>3 DEF LogKept, LogInv
<1>4. ASSUME NEW k \in Node, NEW e \in LogEvent, LogPut(k, e),
             e.id \in 1 .. nextId'[e.by] - 1, e.id # failing'[e.by]
      PROVE  LogInv'
  <2>1. /\ Len(Log(k)) \in Nat /\ Len(Log(k)') = Len(Log(k)) + 1
        /\ \A i \in 1 .. Len(Log(k)) : Log(k)'[i] = Log(k)[i]
        /\ Log(k)'[Len(Log(k)) + 1] = e
    BY <1>4, Appended DEF IInv
  <2>2. \A i \in 1 .. Len(Log(k)') : i \in 1 .. Len(Log(k)) \/ i = Len(Log(k)) + 1
    BY <2>1
  <2>3. \A j \in Node \ {k} : Log(j)' = Log(j)
    BY <1>4 DEF LogPut
  <2>4. \A i \in 1 .. Len(Log(k)') : LET d == Log(k)'[i] IN
          d \in LogEvent /\ d.id \in 1 .. nextId'[d.by] - 1 /\ d.id # failing'[d.by]
    BY <1>2, <1>4, <2>1, <2>2
  <2>5. \A j \in Node \ {k} : \A i \in 1 .. Len(Log(j)') : LET d == Log(j)'[i] IN
          d \in LogEvent /\ d.id \in 1 .. nextId'[d.by] - 1 /\ d.id # failing'[d.by]
    BY <1>2, <2>3
  <2>. QED
    BY <2>4, <2>5 DEF LogInv
<1>. QED
  BY <1>1, <1>3, <1>4 DEF PutStep

LEMMA MockInit == Init => IInv
<1>. SUFFICES ASSUME Init PROVE IInv
  OBVIOUS
<1>1. TypeOK
  BY DEF Init, TypeOK
<1>2. CallInv /\ RegistryInv
  BY MockAssumption DEF Init, CallInv, RegistryInv, MockAssumption
<1>3. \A k \in Node : Log(k) = <<>>
  BY DEF Init, Log
<1>. QED
  BY <1>1, <1>2, <1>3 DEF IInv, LogInv

LEMMA MockInvariant == Spec => []IInv
<1>1. IInv /\ [Next]_vars => IInv'
  BY StepKinds, TypeNext, CallNext, RegistryNext, LogNext DEF IInv
<1>. QED
  BY <1>1, MockInit, PTL DEF Spec

\* The values have their types, whatever the names.
THEOREM TypeCorrect == Spec => []TypeOK
<1>1. IInv => TypeOK
  BY DEF IInv
<1>. QED
  BY <1>1, MockInvariant, PTL

\* Each node gets the events about one sender in the order of their ids, even
\* when two nodes took the same name.
THEOREM SendersStayInOrder == Spec => []SenderOrder
<1>1. Init => SenderOrder
  <2>1. Init => \A k \in Node : Log(k) = <<>>
    BY DEF Init, Log
  <2>. QED
    BY <2>1 DEF SenderOrder
<1>2. IInv /\ SenderOrder /\ [Next]_vars => SenderOrder'
  <2>. SUFFICES ASSUME IInv, SenderOrder, [Next]_vars PROVE SenderOrder'
    OBVIOUS
  <2>1. PutStep
    BY StepKinds, PutSteps DEF IInv
  <2>2. CASE LogKept
    BY <2>2 DEF LogKept, SenderOrder
  <2>3. ASSUME NEW k \in Node, NEW e \in LogEvent, LogPut(k, e), Newest(e)
        PROVE  SenderOrder'
    <3>1. /\ Len(Log(k)) \in Nat /\ Len(Log(k)') = Len(Log(k)) + 1
          /\ \A i \in 1 .. Len(Log(k)) : Log(k)'[i] = Log(k)[i]
          /\ Log(k)'[Len(Log(k)) + 1] = e
      BY <2>3, Appended DEF IInv
    <3>2. \A j \in Node \ {k} : Log(j)' = Log(j)
      BY <2>3 DEF LogPut
    <3>3. ASSUME NEW i \in 1 .. Len(Log(k)'), NEW j \in 1 .. Len(Log(k)'), i < j,
                 Log(k)'[i].by = Log(k)'[j].by, Log(k)'[i].type = Log(k)'[j].type
          PROVE  Log(k)'[i].id < Log(k)'[j].id
      <4>1. i \in 1 .. Len(Log(k))
        BY <3>1, <3>3
      <4>2. CASE j \in 1 .. Len(Log(k))
        BY <3>1, <3>3, <4>1, <4>2 DEF SenderOrder
      <4>3. CASE j = Len(Log(k)) + 1
        BY <2>3, <3>1, <3>3, <4>1, <4>3 DEF Newest
      <4>. QED
        BY <3>1, <4>2, <4>3
    <3>4. ASSUME NEW n \in Node \ {k}, NEW i \in 1 .. Len(Log(n)'), NEW j \in 1 .. Len(Log(n)'),
                 i < j, Log(n)'[i].by = Log(n)'[j].by, Log(n)'[i].type = Log(n)'[j].type
          PROVE  Log(n)'[i].id < Log(n)'[j].id
      BY <3>2, <3>4 DEF SenderOrder
    <3>. QED
      BY <3>3, <3>4 DEF SenderOrder
  <2>. QED
    BY <2>1, <2>2, <2>3 DEF PutStep
<1>. QED
  BY <1>1, <1>2, MockInvariant, PTL DEF Spec
-----------------------------------------------------------------------------
(* What the second lookup, by name, may find.                              *)

\* A node never gives its name away.
LEMMA NamesStay ==
  ASSUME StepKind, NEW k \in Node
  PROVE  /\ status[k] # "none" => status'[k] # "none" /\ name'[k] = name[k]
         /\ status[k] = "dropped" => status'[k] = "dropped"
BY DEF StepKind, Quiet, Sends, Tells

\* Reports are in the logs of nodes that exist, about nodes that exist.
ReportInv ==
  \A k \in Node : \A i \in 1 .. Len(Log(k)) : LET e == Log(k)[i] IN
    e.type = "SendFailed" =>
      status[k] # "none" /\ status[e.by] # "none" /\ name[e.by] = name[k]

LEMMA ReportKept ==
  ASSUME IInv, ReportInv, StepKind, NEW k \in Node, NEW i \in 1 .. Len(Log(k)),
         Log(k)[i].type = "SendFailed"
  PROVE  /\ status'[k] # "none" /\ status'[Log(k)[i].by] # "none"
         /\ name'[Log(k)[i].by] = name'[k]
<1>1. Log(k)[i].by \in Node
  BY DEF IInv, LogInv, LogEvent
<1>. QED
  BY <1>1, NamesStay DEF ReportInv

\* A report that is put where the name of its sender leads keeps ReportInv.
LEMMA ReportPut ==
  ASSUME IInv, ReportInv, StepKind, UNCHANGED <<status, name>>,
         NEW k \in Node, NEW e \in LogEvent, LogPut(k, e),
         e.type = "SendFailed" =>
           status[k] # "none" /\ status[e.by] # "none" /\ name[e.by] = name[k]
  PROVE  ReportInv'
<1>1. /\ Len(Log(k)) \in Nat /\ Len(Log(k)') = Len(Log(k)) + 1
      /\ \A i \in 1 .. Len(Log(k)) : Log(k)'[i] = Log(k)[i]
      /\ Log(k)'[Len(Log(k)) + 1] = e
  BY Appended DEF IInv
<1>2. \A j \in Node \ {k} : Log(j)' = Log(j)
  BY DEF LogPut
<1>3. \A i \in 1 .. Len(Log(k)') : i \in 1 .. Len(Log(k)) \/ i = Len(Log(k)) + 1
  BY <1>1
<1>. QED
  BY <1>1, <1>2, <1>3 DEF ReportInv

LEMMA ReportNext ==
  ASSUME IInv, ReportInv, StepKind
  PROVE  ReportInv'
<1>1. CASE LogKept
  BY <1>1, ReportKept DEF LogKept, ReportInv
<1>2. ASSUME NEW n \in Node, NEW addr \in Target, Sends(n, addr) PROVE ReportInv'
  <2>1. /\ nextId[n] \in Nat /\ status[n] = "up" /\ UNCHANGED <<status, name>>
        /\ Home(n) \in Node /\ status[Home(n)] # "none" /\ name[Home(n)] = name[n]
    BY <1>2, HomeType DEF Sends, IInv, TypeOK
  <2>2. \/ LogKept
        \/ \E k \in Node : LogPut(k, Received(n, nextId[n]))
        \/ LogPut(Home(n), Failed(n, nextId[n]))
    BY <1>2 DEF Sends, PutIfUp
  <2>. QED
    BY <1>1, <2>1, <2>2, ReportPut, EventTypes
<1>3. ASSUME NEW n \in Node, Tells(n) PROVE ReportInv'
  <2>1. /\ failing[n] \in Nat /\ status[n] = "up" /\ UNCHANGED <<status, name>>
    BY <1>3 DEF Tells, IInv, TypeOK, CallInv
  <2>2. Home(n) \in Node /\ status[Home(n)] # "none" /\ name[Home(n)] = name[n]
    BY <2>1, HomeType DEF IInv
  <2>3. LogKept \/ LogPut(Home(n), Failed(n, failing[n]))
    BY <1>3 DEF Tells, PutIfUp
  <2>. QED
    BY <1>1, <2>1, <2>2, <2>3, ReportPut, EventTypes
<1>. QED
  BY <1>1, <1>2, <1>3 DEF StepKind, Quiet

\* A SendFailed reaches the node that sent the message or one of its name,
\* whoever came or went between the two locks of SendMessage.
THEOREM ReportsComeHome == Spec => []ReportsReachTheName
<1>1. Init => ReportInv
  <2>1. Init => \A k \in Node : Log(k) = <<>>
    BY DEF Init, Log
  <2>. QED
    BY <2>1 DEF ReportInv
<1>2. IInv /\ ReportInv /\ [Next]_vars => ReportInv'
  BY StepKinds, ReportNext DEF IInv
<1>3. ReportInv => ReportsReachTheName
  BY DEF ReportInv, ReportsReachTheName
<1>. QED
  BY <1>1, <1>2, <1>3, MockInvariant, PTL DEF Spec
-----------------------------------------------------------------------------
(* What has become of a message when its call has returned.                *)

\* Another node of the same name was dropped.
NamesakeGone(n) == \E k \in Node \ {n} : status[k] = "dropped" /\ name[k] = name[n]

\* Where a message of n can be that its sender need not wait for.
Settled(n, m) ==
  \/ Received(n, m) \in Logged \/ Failed(n, m) \in Logged \/ Discarded(n, m)
  \/ NamesakeGone(n)

SettledInv ==
  \A n \in Node : \A m \in 1 .. nextId[n] - 1 : m = failing[n] \/ Settled(n, m)

LEMMA SettledKept ==
  ASSUME IInv, StepKind, NEW n \in Node, NEW m \in 1 .. nextId[n] - 1, Settled(n, m)
  PROVE  /\ Settled(n, m)'
         /\ Discarded(n, m) => Discarded(n, m)'
         /\ NamesakeGone(n) => NamesakeGone(n)'
<1>. USE DEF IInv
<1>1. Logged \subseteq Logged'
  BY PutSteps, LoggedStep DEF PutStep
<1>2. sentTo'[n][m] = sentTo[n][m]
  <2>1. CASE UNCHANGED sentTo
    BY <2>1
  <2>2. ASSUME NEW k \in Node, NEW addr \in Target, Sends(k, addr)
        PROVE  sentTo'[n][m] = sentTo[n][m]
    <3>1. addr \in Address /\ sentTo[n] \in Seq(Address) /\ m \in 1 .. Len(sentTo[n])
      BY MockAssumption, LenProperties DEF TypeOK, MockAssumption, CallInv
    <3>2. Append(sentTo[n], addr)[m] = sentTo[n][m]
      BY <3>1, AppendProperties
    <3>3. sentTo'[n] \in {sentTo[n], Append(sentTo[n], addr)}
      BY <2>2 DEF Sends, TypeOK
    <3>. QED
      BY <3>2, <3>3
  <2>. QED
    BY <2>1, <2>2 DEF StepKind, Quiet, Tells
<1>3. \A k \in Node : /\ status[k] # "none" => name'[k] = name[k]
                      /\ status[k] = "dropped" => status'[k] = "dropped"
  BY NamesStay
<1>4. status[n] # "none"
  <2>1. nextId[n] # 1
    BY DEF TypeOK
  <2>. QED
    BY <2>1 DEF CallInv
<1>5. Discarded(n, m) => Discarded(n, m)'
  BY <1>2, <1>3 DEF Discarded
<1>6. NamesakeGone(n) => NamesakeGone(n)'
  BY <1>3, <1>4 DEF NamesakeGone
<1>. QED
  BY <1>1, <1>5, <1>6 DEF Settled, Received, Failed

LEMMA SettledNext ==
  ASSUME IInv, SettledInv, StepKind
  PROVE  SettledInv'
<1>. USE DEF IInv
<1>1. ASSUME UNCHANGED <<nextId, failing>> PROVE SettledInv'
  BY <1>1, SettledKept DEF SettledInv
<1>2. ASSUME NEW n \in Node, NEW addr \in Target, Sends(n, addr) PROVE SettledInv'
  <2>. DEFINE id == nextId[n]
  <2>1. /\ id \in Nat \ {0} /\ status[n] = "up" /\ failing[n] = 0
        /\ nextId'[n] = id + 1 /\ sentTo'[n] = Append(sentTo[n], addr)
        /\ \A k \in Node \ {n} : nextId'[k] = nextId[k] /\ failing'[k] = failing[k]
        /\ id = Len(sentTo[n]) + 1 /\ sentTo[n] \in Seq(Address) /\ addr \in Address
        /\ UNCHANGED <<status, name>>
    BY <1>2, MockAssumption DEF Sends, TypeOK, CallInv, MockAssumption
  <2>2. sentTo'[n][id] = addr
    BY <2>1, AppendProperties
  <2>3. Home(n) \in Node /\ status[Home(n)] # "none" /\ name[Home(n)] = name[n]
    BY <2>1, HomeType
  <2>4. Received(n, id) \in LogEvent /\ Failed(n, id) \in LogEvent
    BY <2>1, EventTypes
  <2>. HIDE DEF id
  <2>5. \A m \in 1 .. id : m = id => m = failing'[n] \/ Settled(n, m)'
    <3>1. CASE \E k \in Node : /\ name[k] = FirstPeerId(addr) /\ status[k] # "none"
                               /\ PutIfUp(k, Received(n, id))
      <4>1. PICK k \in Node : /\ name[k] = FirstPeerId(addr) /\ status[k] # "none"
                              /\ PutIfUp(k, Received(n, id))
        BY <3>1
      <4>2. CASE status[k] = "up"
        <5>1. Received(n, id) \in Logged'
          BY <2>4, <4>1, <4>2, LoggedStep DEF PutIfUp
        <5>. QED
          BY <5>1 DEF Settled
      <4>3. CASE status[k] = "dropped"
        BY <2>1, <2>2, <4>1, <4>3 DEF Settled, Discarded
      <4>. QED
        BY <4>1, <4>2, <4>3 DEF TypeOK
    <3>2. CASE failing' = [failing EXCEPT ![n] = id]
      BY <3>2 DEF TypeOK
    <3>3. CASE PutIfUp(Home(n), Failed(n, id))
      <4>1. CASE status[Home(n)] = "up"
        <5>1. Failed(n, id) \in Logged'
          BY <2>3, <2>4, <3>3, <4>1, LoggedStep DEF PutIfUp
        <5>. QED
          BY <5>1 DEF Settled
      <4>2. CASE status[Home(n)] = "dropped"
        BY <2>1, <2>3, <4>2 DEF Settled, NamesakeGone
      <4>. QED
        BY <2>3, <4>1, <4>2 DEF TypeOK
    <3>. QED
      BY <1>2, <3>1, <3>2, <3>3 DEF Sends, id
  <2>6. \A m \in 1 .. id - 1 : Settled(n, m)'
    <3>1. \A m \in 1 .. id - 1 : m # failing[n]
      BY <2>1
    <3>. QED
      BY <3>1, SettledKept DEF SettledInv, id
  <2>7. \A m \in 1 .. nextId'[n] - 1 : m = failing'[n] \/ Settled(n, m)'
    <3>1. \A m \in 1 .. nextId'[n] - 1 : m \in 1 .. id /\ (m = id \/ m \in 1 .. id - 1)
      BY <2>1
    <3>. QED
      BY <2>5, <2>6, <3>1
  <2>8. \A k \in Node \ {n} : \A m \in 1 .. nextId'[k] - 1 : m = failing'[k] \/ Settled(k, m)'
    BY <2>1, SettledKept DEF SettledInv
  <2>. QED
    BY <2>7, <2>8 DEF SettledInv
<1>3. ASSUME NEW n \in Node, Tells(n) PROVE SettledInv'
  <2>1. /\ failing[n] \in Nat /\ status[n] = "up" /\ UNCHANGED nextId
        /\ \A k \in Node \ {n} : failing'[k] = failing[k]
    BY <1>3 DEF Tells, TypeOK, CallInv
  <2>2. /\ Home(n) \in Node /\ status[Home(n)] # "none" /\ name[Home(n)] = name[n]
        /\ UNCHANGED <<status, name>> /\ PutIfUp(Home(n), Failed(n, failing[n]))
        /\ Failed(n, failing[n]) \in LogEvent
    BY <1>3, <2>1, HomeType, EventTypes DEF Tells
  <2>3. Failed(n, failing[n]) \in Logged' \/ NamesakeGone(n)'
    <3>1. CASE status[Home(n)] = "up"
      BY <2>2, <3>1, LoggedStep DEF PutIfUp
    <3>2. CASE status[Home(n)] = "dropped"
      BY <2>1, <2>2, <3>2 DEF NamesakeGone
    <3>. QED
      BY <2>2, <3>1, <3>2 DEF TypeOK
  <2>4. \A m \in 1 .. nextId[n] - 1 : m = failing[n] => Settled(n, m)'
    BY <2>3 DEF Settled
  <2>. QED
    BY <2>1, <2>4, SettledKept DEF SettledInv
<1>. QED
  BY <1>1, <1>2, <1>3 DEF StepKind, Quiet

LEMMA SettledInit == Init => SettledInv
<1>. SUFFICES ASSUME Init PROVE SettledInv
  OBVIOUS
<1>1. \A n \in Node : nextId[n] = 1
  BY DEF Init
<1>2. \A n \in Node : 1 .. nextId[n] - 1 = {}
  BY <1>1
<1>. QED
  BY <1>2 DEF SettledInv

LEMMA SettledInvariant == Spec => []SettledInv
<1>1. IInv /\ SettledInv /\ [Next]_vars => SettledInv'
  BY StepKinds, SettledNext DEF IInv
<1>. QED
  BY <1>1, SettledInit, MockInvariant, PTL DEF Spec

\* When SendMessage has returned, the message or its report is in a channel,
\* unless it went by name to a node that had been dropped.
THEOREM SettledWhenReturned == Spec => []SettledOnReturn
<1>1. IInv /\ SettledInv => SettledOnReturn
  <2>. SUFFICES ASSUME IInv, SettledInv, NEW n \in Node, failing[n] = 0,
                       NEW m \in 1 .. nextId[n] - 1
                PROVE  Settled(n, m)
    BY DEF SettledOnReturn, Settled, NamesakeGone
  <2>1. m # failing[n]
    BY DEF IInv, TypeOK
  <2>. QED
    BY <2>1 DEF SettledInv
<1>. QED
  BY <1>1, MockInvariant, SettledInvariant, PTL
-----------------------------------------------------------------------------
(* The promise about messages, node by node.                               *)

FateOf(n, m) == IF m >= nextId[n] THEN "unborn"
                ELSE IF Failed(n, m) \in Logged THEN "failed"
                ELSE IF Received(n, m) \in Logged THEN "sent"
                ELSE IF m = failing[n] THEN "accepted"
                ELSE IF Discarded(n, m) THEN "sent" ELSE "lost"

LEMMA FateByMessage ==
  ASSUME NEW n \in Node
  PROVE  /\ DOMAIN Fate(n) = 1 .. MaxMsgs
         /\ Fate(n) = [m \in 1 .. MaxMsgs |-> FateOf(n, m)]
         /\ Fate(n)' = [m \in 1 .. MaxMsgs |-> FateOf(n, m)']
BY DEF Fate, FateOf

\* A message has its own events, and another sender's have nothing to do with it.
LEMMA EventsApart ==
  ASSUME NEW n \in Node, NEW m, NEW k \in Node, NEW id, n # k \/ m # id
  PROVE  /\ Failed(n, m) # Failed(k, id) /\ Failed(n, m) # Received(k, id)
         /\ Received(n, m) # Failed(k, id) /\ Received(n, m) # Received(k, id)
<1>1. /\ Failed(n, m).by = n /\ Failed(n, m).id = m
      /\ Received(n, m).by = n /\ Received(n, m).id = m
      /\ Failed(k, id).by = k /\ Failed(k, id).id = id
      /\ Received(k, id).by = k /\ Received(k, id).id = id
  BY DEF Failed, Received
<1>. QED
  BY <1>1

\* It has its name to itself for ever when the clocks have no value in common.
LEMMA DistinctClocks ==
  ASSUME \A n, k \in Node : n # k => Clock[n] \cap Clock[k] = {}
  PROVE  Spec => [](\A n \in Node : status[n] # "none" => OwnsName(n))
<1>1. IInv => \A n \in Node : status[n] # "none" => OwnsName(n)
  BY DEF IInv, RegistryInv, OwnsName
<1>. QED
  BY <1>1, MockInvariant, PTL

\* Then a report goes to itself, and no namesake of it can be gone.
LEMMA HomeIsOwn ==
  ASSUME NEW n \in Node, OwnsName(n)
  PROVE  /\ TypeOK /\ RegistryInv /\ status[n] # "none" => Home(n) = n
         /\ ~NamesakeGone(n)
BY HomeType DEF OwnsName, NamesakeGone

\* A message that is neither logged nor due for a report was discarded.
LEMMA NoneLost ==
  ASSUME IInv, SettledInv, NEW n \in Node, OwnsName(n), NEW m \in 1 .. nextId[n] - 1,
         m # failing[n]
  PROVE  Received(n, m) \in Logged \/ Failed(n, m) \in Logged \/ Discarded(n, m)
BY HomeIsOwn DEF SettledInv, Settled

\* Where a step has no event about a message, leaves its id given out or not,
\* and its report due or not, its fate is what it was.
LEMMA FateKept ==
  ASSUME IInv, SettledInv, StepKind, NEW n \in Node, OwnsName(n), NEW m \in 1 .. MaxMsgs,
         (m >= nextId'[n]) = (m >= nextId[n]), (m = failing'[n]) = (m = failing[n]),
         (Failed(n, m) \in Logged') = (Failed(n, m) \in Logged),
         (Received(n, m) \in Logged') = (Received(n, m) \in Logged)
  PROVE  FateOf(n, m)' = FateOf(n, m)
<1>1. FateOf(n, m)' = IF m >= nextId'[n] THEN "unborn"
                      ELSE IF Failed(n, m) \in Logged' THEN "failed"
                      ELSE IF Received(n, m) \in Logged' THEN "sent"
                      ELSE IF m = failing'[n] THEN "accepted"
                      ELSE IF Discarded(n, m)' THEN "sent" ELSE "lost"
  BY DEF FateOf, Failed, Received
<1>2. CASE \/ m >= nextId[n] \/ m = failing[n]
           \/ Failed(n, m) \in Logged \/ Received(n, m) \in Logged
  BY <1>1, <1>2 DEF FateOf
<1>3. CASE /\ ~(m >= nextId[n]) /\ m # failing[n]
           /\ Failed(n, m) \notin Logged /\ Received(n, m) \notin Logged
  <2>1. nextId[n] \in Nat /\ m \in Nat /\ m >= 1
    BY MockAssumption DEF IInv, TypeOK, MockAssumption
  <2>2. m \in 1 .. nextId[n] - 1
    BY <1>3, <2>1
  <2>3. Discarded(n, m)
    BY <1>3, <2>2, NoneLost
  <2>4. Discarded(n, m)'
    BY <2>2, <2>3, SettledKept DEF Settled
  <2>. QED
    BY <1>1, <1>3, <2>3, <2>4 DEF FateOf
<1>. QED
  BY <1>2, <1>3

\* What is logged was sent, and is not what a report is still due for.
LEMMA LoggedIds ==
  ASSUME IInv, NEW n \in Node, NEW m, Failed(n, m) \in Logged \/ Received(n, m) \in Logged
  PROVE  m \in 1 .. nextId[n] - 1 /\ m # failing[n]
<1>1. PICK k \in Node : \E i \in 1 .. Len(Log(k)) : Log(k)[i] \in {Failed(n, m), Received(n, m)}
  BY DEF Logged
<1>2. PICK i \in 1 .. Len(Log(k)) : Log(k)[i] \in {Failed(n, m), Received(n, m)}
  BY <1>1
<1>3. Log(k)[i].by = n /\ Log(k)[i].id = m
  BY <1>2 DEF Failed, Received
<1>. QED
  BY <1>3 DEF IInv, LogInv

\* The nodes a step is not about.
LEMMA OthersStutter ==
  ASSUME IInv, SettledInv, StepKind, NEW k \in Node, OwnsName(k), nextId'[k] = nextId[k], failing'[k] = failing[k],
         \/ Logged' = Logged
         \/ \E n \in Node \ {k}, id \in Nat : \E e \in {Failed(n, id), Received(n, id)} :
              Logged' = Logged \cup {e}
  PROVE  UNCHANGED Fate(k)
<1>1. ASSUME NEW m \in 1 .. MaxMsgs PROVE FateOf(k, m)' = FateOf(k, m)
  <2>1. /\ (Failed(k, m) \in Logged') = (Failed(k, m) \in Logged)
        /\ (Received(k, m) \in Logged') = (Received(k, m) \in Logged)
    BY EventsApart
  <2>. QED
    BY <2>1, FateKept
<1>. QED
  BY <1>1, FateByMessage

\* SendMessage accepts one message, and settles it at once or owes a report.
LEMMA SendAccepts ==
  ASSUME IInv, SettledInv, StepKind, NEW n \in Node, NEW addr \in Target, Sends(n, addr),
         NEW id, id = nextId[n]
  PROVE  \A k \in Node : OwnsName(k) => [Abstract(k)!Next]_(Fate(k))
<1>1. /\ id \in Nat \ {0} /\ MaxMsgs \in Nat /\ id <= MaxMsgs /\ failing[n] = 0
      /\ nextId'[n] = id + 1 /\ failing'[n] \in {0, id}
      /\ \A k \in Node \ {n} : nextId'[k] = nextId[k] /\ failing'[k] = failing[k]
  BY MockAssumption DEF IInv, TypeOK, Sends, MockAssumption
<1>2. \/ Logged' = Logged
      \/ \E e \in {Failed(n, id), Received(n, id)} : Logged' = Logged \cup {e}
  <2>1. TypeOK /\ Failed(n, id) \in LogEvent /\ Received(n, id) \in LogEvent
    BY <1>1, EventTypes DEF IInv
  <2>2. CASE LogKept
    BY <2>1, <2>2, LoggedStep
  <2>3. ASSUME NEW k \in Node, NEW e \in {Failed(n, id), Received(n, id)}, PutIfUp(k, e), ~LogKept
        PROVE  Logged' = Logged \cup {e}
    <3>1. LogPut(k, e) /\ e \in LogEvent
      BY <2>1, <2>3 DEF PutIfUp
    <3>. QED
      BY <2>1, <3>1, LoggedStep
  <2>4. Home(n) \in Node
    BY HomeType DEF IInv, Sends
  <2>. QED
    BY <2>2, <2>3, <2>4 DEF Sends
<1>3. ASSUME NEW k \in Node \ {n}, OwnsName(k) PROVE UNCHANGED Fate(k)
  BY <1>1, <1>2, <1>3, OthersStutter
<1>. SUFFICES ASSUME OwnsName(n) PROVE Abstract(n)!Next
  BY <1>3
<1>4. \A m \in 1 .. MaxMsgs : m < id => FateOf(n, m) # "unborn"
  BY <1>1 DEF FateOf
<1>5. FateOf(n, id) = "unborn"
  BY <1>1 DEF FateOf
<1>6. ASSUME NEW m \in 1 .. MaxMsgs, m # id PROVE FateOf(n, m)' = FateOf(n, m)
  <2>1. /\ (m >= nextId'[n]) = (m >= nextId[n]) /\ (m = failing'[n]) = (m = failing[n])
    BY <1>1, <1>6
  <2>2. /\ (Failed(n, m) \in Logged') = (Failed(n, m) \in Logged)
        /\ (Received(n, m) \in Logged') = (Received(n, m) \in Logged)
    BY <1>2, <1>6, EventsApart
  <2>. QED
    BY <2>1, <2>2, FateKept
<1>7. FateOf(n, id)' \in {"accepted", "sent", "failed"}
  <2>1. ~(id >= nextId'[n]) /\ id \in 1 .. nextId'[n] - 1
    BY <1>1
  <2>2. id = failing'[n] \/ Settled(n, id)'
    <3>1. SettledInv'
      BY SettledNext
    <3>. QED
      BY <2>1, <3>1 DEF SettledInv
  <2>3. ~NamesakeGone(n)'
    BY HomeIsOwn DEF Sends, NamesakeGone
  <2>. QED
    BY <2>1, <2>2, <2>3 DEF FateOf, Settled, Failed, Received
<1>8. id \in 1 .. MaxMsgs
  BY <1>1
<1>9. ASSUME NEW f, f = FateOf(n, id)' PROVE Abstract(n)!Accept(id, f)
  <2>1. Fate(n)' = [Fate(n) EXCEPT ![id] = f]
    <3>1. \A m \in 1 .. MaxMsgs : FateOf(n, m)' = IF m = id THEN f ELSE FateOf(n, m)
      BY <1>6, <1>9
    <3>2. /\ Fate(n)' = [m \in 1 .. MaxMsgs |-> FateOf(n, m)']
          /\ Fate(n) = [m \in 1 .. MaxMsgs |-> FateOf(n, m)]
      BY FateByMessage
    <3>. QED
      BY <1>8, <3>1, <3>2
  <2>2. \A m \in 1 .. MaxMsgs : Fate(n)[m] = FateOf(n, m)
    BY FateByMessage
  <2>3. Fate(n)[id] = "unborn" /\ \A m \in 1 .. MaxMsgs : m < id => Fate(n)[m] # "unborn"
    BY <1>4, <1>5, <1>8, <2>2
  <2>. QED
    BY <2>1, <2>3 DEF Abstract!Accept
<1>10. Abstract(n)!Next
  BY <1>7, <1>8, <1>9 DEF Abstract!Next
<1>. QED
  BY <1>10

\* The report that was due fails one message, and loses no other.
LEMMA TellFails ==
  ASSUME IInv, SettledInv, StepKind, NEW n \in Node, Tells(n), NEW id, id = failing[n]
  PROVE  \A k \in Node : OwnsName(k) => [Abstract(k)!Next]_(Fate(k))
<1>1. /\ id \in Nat /\ id # 0 /\ id = nextId[n] - 1 /\ nextId[n] \in Nat \ {0}
      /\ nextId[n] <= MaxMsgs + 1 /\ MaxMsgs \in Nat /\ status[n] = "up"
      /\ nextId' = nextId /\ failing'[n] = 0
      /\ \A k \in Node \ {n} : failing'[k] = failing[k]
  BY MockAssumption DEF IInv, TypeOK, CallInv, Tells, MockAssumption
<1>2. Failed(n, id) \in LogEvent /\ Home(n) \in Node /\ TypeOK
  BY <1>1, EventTypes, HomeType DEF IInv
<1>3. ASSUME NEW k \in Node \ {n}, OwnsName(k) PROVE UNCHANGED Fate(k)
  <2>1. Logged' = Logged \/ Logged' = Logged \cup {Failed(n, id)}
    BY <1>2, LoggedStep DEF Tells, PutIfUp
  <2>. QED
    BY <1>1, <1>3, <2>1, OthersStutter
<1>. SUFFICES ASSUME OwnsName(n) PROVE Abstract(n)!Next
  BY <1>3
<1>4. /\ Logged' = Logged \cup {Failed(n, id)}
      /\ Failed(n, id) \notin Logged /\ Received(n, id) \notin Logged
  <2>1. LogPut(n, Failed(n, id))
    BY <1>1, HomeIsOwn DEF IInv, Tells, PutIfUp
  <2>. QED
    BY <1>2, <2>1, LoggedStep, LoggedIds
<1>5. ASSUME NEW m \in 1 .. MaxMsgs, m # id PROVE FateOf(n, m)' = FateOf(n, m)
  <2>1. /\ (m >= nextId'[n]) = (m >= nextId[n]) /\ (m = failing'[n]) = (m = failing[n])
    BY <1>1, <1>5
  <2>2. /\ (Failed(n, m) \in Logged') = (Failed(n, m) \in Logged)
        /\ (Received(n, m) \in Logged') = (Received(n, m) \in Logged)
    BY <1>4, <1>5, EventsApart
  <2>. QED
    BY <2>1, <2>2, FateKept
<1>6. id \in 1 .. MaxMsgs /\ ~(id >= nextId[n]) /\ ~(id >= nextId'[n])
  BY <1>1
<1>7. FateOf(n, id) = "accepted"
  BY <1>4, <1>6 DEF FateOf
<1>8. FateOf(n, id)' = "failed"
  <2>1. Failed(n, id) \in Logged'
    BY <1>4
  <2>. QED
    BY <1>6, <2>1 DEF FateOf, Failed
<1>9. Abstract(n)!Fail(id, {})
  <2>1. Fate(n)' = [k \in 1 .. MaxMsgs |-> IF k = id THEN "failed"
                                           ELSE IF k \in {} THEN "lost" ELSE Fate(n)[k]]
    <3>1. \A k \in 1 .. MaxMsgs :
            FateOf(n, k)' = IF k = id THEN "failed"
                            ELSE IF k \in {} THEN "lost" ELSE Fate(n)[k]
      BY <1>5, <1>6, <1>8, FateByMessage
    <3>2. Fate(n)' = [m \in 1 .. MaxMsgs |-> FateOf(n, m)']
      BY FateByMessage
    <3>. QED
      BY <3>1, <3>2
  <2>2. Fate(n)[id] = "accepted"
    BY <1>6, <1>7, FateByMessage
  <2>. QED
    BY <2>1, <2>2 DEF Abstract!Fail
<1>10. Abstract(n)!Next
  BY <1>6, <1>9 DEF Abstract!Next
<1>. QED
  BY <1>10

\* A node of the in-memory network that has its name to itself keeps the
\* promise of MessageFate and loses no message: programs written against the
\* layer of NetworkActor find no fate here that they do not find there.
THEOREM ImplementsMessageFate == Spec => KeepsMessageFate
<1>1. Init => \A n \in Node : Abstract(n)!Init
  <2>. SUFFICES ASSUME Init, NEW n \in Node PROVE Abstract(n)!Init
    OBVIOUS
  <2>1. \A m \in 1 .. MaxMsgs : FateOf(n, m) = "unborn"
    BY DEF Init, FateOf
  <2>. QED
    BY <2>1, FateByMessage DEF Abstract!Init
<1>2. IInv /\ SettledInv /\ [Next]_vars
        => [\A n \in Node : OwnsName(n) => [Abstract(n)!Next]_(Fate(n))]_vars
  <2>. SUFFICES ASSUME IInv, SettledInv, [Next]_vars
                PROVE  \A n \in Node : OwnsName(n) => [Abstract(n)!Next]_(Fate(n))
    OBVIOUS
  <2>1. StepKind
    BY StepKinds DEF IInv
  <2>2. CASE Quiet
    <3>1. Logged' = Logged /\ UNCHANGED <<nextId, failing>>
      BY <2>2, LoggedStep DEF Quiet, IInv
    <3>2. \A k \in Node : OwnsName(k) => UNCHANGED Fate(k)
      BY <2>1, <3>1, OthersStutter
    <3>. QED
      BY <3>2
  <2>. QED
    BY <2>1, <2>2, SendAccepts, TellFails DEF StepKind
<1>. QED
  BY <1>1, <1>2, MockInvariant, SettledInvariant, PTL DEF Spec, KeepsMessageFate
=============================================================================
