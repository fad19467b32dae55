---------------------------- MODULE PingPongProofs ----------------------------
(***************************************************************************)
(* What holds of the ping-pong demo for any servers, any calls of the      *)
(* browser client and any number of pings.                                 *)
(***************************************************************************)
EXTENDS PingPong, TLAPS

(* The statics.                                                            *)

StaticsType ==
  /\ connect \in [Connect -> {"none", "dialling", "up", "failed", "closed"}]
  /\ PEER_ID \in Server \cup {NoServer} /\ CONTROL \in Connect \cup {NoConnect}

StaticsInv == StaticsType /\ StaticsBelongTogether

LEMMA StaticsInit ==
  ASSUME PingPongAssumption, Init
  PROVE  StaticsInv
BY DEF PingPongAssumption, Init, StaticsInv, StaticsType, StaticsBelongTogether

\* The one step that fills them, both at once.
LEMMA StaticsConnected ==
  ASSUME PingPongAssumption, StaticsInv, NEW c \in Connect, Connected(c)
  PROVE  StaticsInv'
BY DEF PingPongAssumption, StaticsInv, StaticsType, StaticsBelongTogether, Connected

\* The other steps of connect_to_server and of its connection.
LEMMA StaticsConnect ==
  ASSUME PingPongAssumption, StaticsInv, NEW c \in Connect,
         ConnectCalled(c) \/ ConnectFails(c) \/ Disconnected(c)
  PROVE  StaticsInv'
<1>1. UNCHANGED <<PEER_ID, CONTROL>>
  BY DEF ConnectCalled, ConnectFails, Disconnected, FillsLater, staticVars
<1>2. /\ connect'[c] \in {"dialling", "failed", "closed"}
      /\ connect[c] \in {"none", "dialling"} \/ connect'[c] = "closed"
      /\ connect' \in [Connect -> {"none", "dialling", "up", "failed", "closed"}]
      /\ \A d \in Connect \ {c} : connect'[d] = connect[d]
  BY DEF ConnectCalled, ConnectFails, Disconnected, StaticsInv, StaticsType
<1> QED
  BY <1>1, <1>2 DEF PingPongAssumption, StaticsInv, StaticsType, StaticsBelongTogether

\* Everything else leaves them alone.
LEMMA StaticsKept ==
  ASSUME StaticsInv, UNCHANGED <<connect, PEER_ID, CONTROL>>
  PROVE  StaticsInv'
BY DEF StaticsInv, StaticsType, StaticsBelongTogether

LEMMA StaticsStep ==
  ASSUME PingPongAssumption, StaticsInv, [Next]_vars
  PROVE  StaticsInv'
<1>1. CASE UNCHANGED vars
  BY <1>1, StaticsKept DEF vars, staticVars
<1>2. CASE NextPing \/ Unsupported
  BY <1>2, StaticsKept DEF NextPing, Unsupported, staticVars
<1>3. CASE \E c \in Connect :
             ConnectCalled(c) \/ Connected(c) \/ ConnectFails(c) \/ Disconnected(c)
  BY <1>3, StaticsConnected, StaticsConnect
<1>4. CASE \E k \in BrowserPing : SendPing(k)
  BY <1>4, StaticsKept DEF SendPing, staticVars
<1>5. CASE \E k \in Ping : Open(k) \/ Write(k) \/ ReadPong(k) \/ Fails(k)
  BY <1>5, StaticsKept DEF Open, Write, ReadPong, Fails, staticVars
<1>6. CASE \E k \in Ping : Accept(k) \/ HandlePing(k) \/ HandleFails(k) \/ FallsSilent(k)
  BY <1>6, StaticsKept DEF Accept, HandlePing, HandleFails, FallsSilent, staticVars
<1> QED
  BY <1>1, <1>2, <1>3, <1>4, <1>5, <1>6 DEF Next

\* However calls of connect_to_server overlap and fail, send_ping finds a
\* control and the server this control was connected to.
THEOREM StaticsAgree == Spec => []StaticsBelongTogether
<1>1. Init => StaticsInv
  BY PingPongAssumption, StaticsInit
<1>2. StaticsInv /\ [Next]_vars => StaticsInv'
  BY PingPongAssumption, StaticsStep
<1>3. StaticsInv => StaticsBelongTogether
  BY DEF StaticsInv
<1> QED
  BY <1>1, <1>2, <1>3, PTL DEF Spec

-----------------------------------------------------------------------------
(* The exchanges.                                                          *)

ExchangeType ==
  /\ counter \in 0 .. MaxPings /\ handled \in [Ping -> Nat]
  /\ ping \in [Ping -> {"none", "opening", "open", "waiting", "ok", "err"}]
  /\ far \in [Ping -> {"none", "channel", "dropped", "task", "answered", "failed"}]

\* A ping is counted when its stream is answered, complete only after that, and
\* has no stream before it is opened; what the counter has not reached is new.
Exchange(k) ==
  /\ handled[k] = IF far[k] = "answered" THEN 1 ELSE 0
  /\ ping[k] = "ok" => far[k] = "answered"
  /\ ping[k] \in {"none", "opening"} => far[k] = "none"

ExchangeInv ==
  /\ ExchangeType /\ \A k \in Ping : Exchange(k)
  /\ \A k \in NativePing : k > counter => ping[k] = "none"

LEMMA ExchangeInit ==
  ASSUME PingPongAssumption, Init
  PROVE  ExchangeInv
BY DEF PingPongAssumption, Init, ExchangeInv, ExchangeType, Exchange, NativePing, Ping

\* The native client takes a number that no ping has had.
LEMMA ExchangeNextPing ==
  ASSUME PingPongAssumption, ExchangeInv, NextPing
  PROVE  ExchangeInv'
<1> DEFINE n == counter + 1
<1>1. /\ n \in NativePing /\ n \in Ping /\ counter' = n
      /\ ping' = [ping EXCEPT ![n] = "opening"]
      /\ far' = [far EXCEPT ![n] = "none"] /\ handled' = handled
  BY DEF NextPing, NextNumber, Ping
<1>2. counter \in Nat /\ NativePing \subseteq Nat
  BY DEF PingPongAssumption, ExchangeInv, ExchangeType, NativePing
<1>3. ping[n] = "none" /\ far[n] = "none" /\ handled[n] = 0
  BY <1>1, <1>2 DEF ExchangeInv, Exchange
<1>4. ExchangeType'
  BY <1>1, <1>2 DEF ExchangeInv, ExchangeType, NativePing
<1>5. \A k \in Ping : Exchange(k)'
  BY <1>1, <1>3 DEF ExchangeInv, ExchangeType, Exchange
<1>6. \A k \in NativePing : k > n => k > counter /\ k # n
  BY <1>2
<1>7. (\A k \in NativePing : k > counter => ping[k] = "none")'
  BY <1>1, <1>6 DEF ExchangeInv, ExchangeType, Ping, NativePing, PingPongAssumption
<1> QED
  BY <1>4, <1>5, <1>7 DEF ExchangeInv

\* A step that takes one ping on and keeps its record in order.
LEMMA ExchangeOne ==
  ASSUME ExchangeInv, NEW k \in Ping,
         \/ ping[k] # "none"
         \/ k \notin NativePing
         \/ UNCHANGED ping,
         counter' = counter, ExchangeType', Exchange(k)',
         \A j \in Ping \ {k} : /\ ping'[j] = ping[j] /\ far'[j] = far[j]
                               /\ handled'[j] = handled[j]
  PROVE  ExchangeInv'
<1>1. \A j \in Ping : Exchange(j)'
  BY DEF ExchangeInv, Exchange
<1>2. (\A j \in NativePing : j > counter => ping[j] = "none")'
  BY DEF ExchangeInv, NativePing, Ping
<1> QED
  BY <1>1, <1>2 DEF ExchangeInv

\* The client's side of an exchange.
LEMMA ExchangeClient ==
  ASSUME PingPongAssumption, ExchangeInv, NEW k \in Ping,
         \/ k \in BrowserPing /\ SendPing(k)
         \/ Open(k) \/ Write(k) \/ ReadPong(k) \/ Fails(k)
         \/ counter = k /\ Unsupported
  PROVE  ExchangeInv'
<1>1. CASE k \in BrowserPing /\ SendPing(k)
  <2>1. ping[k] = "none" /\ UNCHANGED <<counter, far, handled>>
    BY <1>1 DEF SendPing, nativeVars
  <2>2. PICK s \in {"opening", "err"} : ping' = [ping EXCEPT ![k] = s]
    BY <1>1 DEF SendPing
  <2>3. ExchangeType' /\ Exchange(k)'
    BY <2>1, <2>2 DEF ExchangeInv, ExchangeType, Exchange
  <2>4. k \notin NativePing
    BY <1>1 DEF PingPongAssumption, NativePing
  <2> QED
    BY <2>1, <2>2, <2>3, <2>4, ExchangeOne DEF ExchangeInv, ExchangeType
<1>2. CASE Open(k)
  <2>1. PICK f \in {"channel", "dropped"} : far' = [far EXCEPT ![k] = f]
    BY <1>2 DEF Open
  <2>2. /\ ping[k] = "opening" /\ ping' = [ping EXCEPT ![k] = "open"]
        /\ UNCHANGED <<counter, handled>>
    BY <1>2 DEF Open, nativeVars
  <2>3. ExchangeType' /\ Exchange(k)'
    BY <2>1, <2>2 DEF ExchangeInv, ExchangeType, Exchange
  <2> QED
    BY <2>1, <2>2, <2>3, ExchangeOne DEF ExchangeInv, ExchangeType
<1>3. CASE Write(k) \/ ReadPong(k) \/ Fails(k) \/ (counter = k /\ Unsupported)
  <2>1. UNCHANGED <<counter, far, handled>> /\ ping[k] # "none"
    BY <1>3 DEF Write, ReadPong, Fails, Unsupported, nativeVars
  <2>2. PICK s \in {"waiting", "ok", "err"} :
          /\ ping' = [ping EXCEPT ![k] = s]
          /\ s = "ok" => far[k] = "answered"
    BY <1>3 DEF Write, ReadPong, Fails, Unsupported
  <2>3. ExchangeType' /\ Exchange(k)'
    BY <2>1, <2>2 DEF ExchangeInv, ExchangeType, Exchange
  <2> QED
    BY <2>1, <2>2, <2>3, ExchangeOne DEF ExchangeInv, ExchangeType
<1> QED
  BY <1>1, <1>2, <1>3

\* The server's side.
LEMMA ExchangeServer ==
  ASSUME ExchangeInv, NEW k \in Ping, Accept(k) \/ HandlePing(k) \/ HandleFails(k)
  PROVE  ExchangeInv'
<1>1. UNCHANGED <<counter, ping>>
  BY DEF Accept, HandlePing, HandleFails, nativeVars
<1>2. PICK f \in {"task", "answered", "failed"} : far' = [far EXCEPT ![k] = f]
  BY DEF Accept, HandlePing, HandleFails
<1>3. CASE HandlePing(k)
  <2>1. /\ far[k] = "task" /\ ping[k] \in {"waiting", "err"}
        /\ far' = [far EXCEPT ![k] = "answered"]
        /\ handled' = [handled EXCEPT ![k] = @ + 1]
    BY <1>3 DEF HandlePing
  <2>2. ExchangeType' /\ Exchange(k)'
    BY <1>1, <2>1 DEF ExchangeInv, ExchangeType, Exchange
  <2> QED
    BY <1>1, <2>1, <2>2, ExchangeOne DEF ExchangeInv, ExchangeType
<1>4. CASE Accept(k) \/ HandleFails(k)
  <2>1. /\ far[k] \in {"channel", "task"} /\ handled' = handled
        /\ far' = [far EXCEPT ![k] = "task"] \/ far' = [far EXCEPT ![k] = "failed"]
    BY <1>4 DEF Accept, HandleFails
  <2>2. ExchangeType' /\ Exchange(k)'
    BY <1>1, <2>1 DEF ExchangeInv, ExchangeType, Exchange
  <2> QED
    BY <1>1, <2>1, <2>2, ExchangeOne DEF ExchangeInv, ExchangeType
<1> QED
  BY <1>3, <1>4

LEMMA ExchangeKept ==
  ASSUME ExchangeInv, UNCHANGED <<counter, ping, far, handled>>
  PROVE  ExchangeInv'
BY DEF ExchangeInv, ExchangeType, Exchange

LEMMA ExchangeStep ==
  ASSUME PingPongAssumption, ExchangeInv, [Next]_vars
  PROVE  ExchangeInv'
<1>1. CASE UNCHANGED vars
  BY <1>1, ExchangeKept DEF vars, nativeVars
<1>2. CASE NextPing
  BY <1>2, ExchangeNextPing
<1>3. CASE Unsupported
  <2>1. counter \in Ping
    BY <1>3 DEF Unsupported, ExchangeInv, ExchangeType, Ping, NativePing, PingPongAssumption
  <2> QED
    BY <1>3, <2>1, ExchangeClient
<1>4. CASE \E c \in Connect :
             ConnectCalled(c) \/ Connected(c) \/ ConnectFails(c) \/ Disconnected(c)
  BY <1>4, ExchangeKept
     DEF ConnectCalled, Connected, ConnectFails, Disconnected, nativeVars
<1>5. CASE \E k \in BrowserPing : SendPing(k)
  BY <1>5, ExchangeClient DEF Ping
<1>6. CASE \E k \in Ping : Open(k) \/ Write(k) \/ ReadPong(k) \/ Fails(k)
  BY <1>6, ExchangeClient
<1>7. CASE \E k \in Ping : Accept(k) \/ HandlePing(k) \/ HandleFails(k)
  BY <1>7, ExchangeServer
<1>8. CASE \E k \in Ping : FallsSilent(k)
  BY <1>8, ExchangeKept DEF FallsSilent, nativeVars
<1> QED
  BY <1>1, <1>2, <1>3, <1>4, <1>5, <1>6, <1>7, <1>8 DEF Next

\* No ping of either client is answered twice, and none is reported as complete
\* without an answer, whatever fails in between.
THEOREM AnsweredOnce == Spec => []CompleteMeansAnsweredOnce
<1>1. Init => ExchangeInv
  BY PingPongAssumption, ExchangeInit
<1>2. ExchangeInv /\ [Next]_vars => ExchangeInv'
  BY PingPongAssumption, ExchangeStep
<1>3. ExchangeInv => CompleteMeansAnsweredOnce
  BY DEF ExchangeInv, ExchangeType, Exchange, CompleteMeansAnsweredOnce
<1> QED
  BY <1>1, <1>2, <1>3, PTL DEF Spec
=============================================================================
